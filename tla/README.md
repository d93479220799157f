# Verification of the Amlogic A311Y3 U-Boot

The repository is the boot firmware of an Amlogic SoC: binary images of the
earlier stages (`bl2` … `bl40`) and U-Boot (`src/bl33/v2025`), which is upstream
U-Boot 2025 with Amlogic's boot flow on top of it.  What Amlogic's part adds, and
what can leave a device dead in a customer's living room, is the choice of what
to boot: the A/B slots of Android, the copies of the bootloader itself, and the
small pieces of state in flash (`misc`, the environment, `uboot_status`) that tie
the two together.  This directory models that part, checks it with TLC, and
proves some of it with TLAPS.

## 1. Inventory

Paths are below `src/bl33/v2025`.

| component | state | operations | what makes it hard | what makes it correct |
|---|---|---|---|---|
| **slot metadata** (`cmd/amlogic/cmd_bootctl_vab.c`) | `bootloader_control` in `misc`: per slot priority, tries, successful bit, `uboot_status`; `roll_flag`, `merge_flag`, the first-boot counter | `get_valid_slot`, `set_active_slot`, `set_roll_flag`, `update_tries`, `check_uboot_state`, `check_ab`, `copy_slot_bootable` | the commands are run by env scripts in an order fixed elsewhere; each reads, changes and saves `misc` on its own; Android's boot control HAL writes the same structure | a slot that has booted is never given up for one that has not; a bad slot is left in the end; bit fields do not wrap |
| **robust bootloader update** (`cmd/amlogic/bootloader_status.c`) | copies in the user area, boot0 and boot1; partitions `bootloader_a/b`; env `write_boot`, `expect_index`, `reboot_status`, `update_env` | `amlbootsta`, `amlsecurecheck`, `aml_update_env`, and inside them `ab_update_rollback`, `update_rollback`, `write_bootloader` | every handler is a sequence of writes to three places, with a reboot at the end; the power can fail between and during them | some copy always starts; the backup is proven; what runs matches its slot |
| **boot order** (`board/amlogic/common/board.c`, `board/amlogic/env/*.env`) | the point the boot has reached | `aml_board_late_init_front`/`_tail`, `preboot`, `switch_bootmode`, `storeboot` | `get_valid_slot` runs twice in a boot with `update_tries` in between | |
| **environment** (`env/storage.c`, `cmd/amlogic/defenv_without.c`) | one copy with a CRC in flash, one in RAM | load, `saveenv`, `update_env_part`, `defenv_reserv` | no redundant copy: a power cut while saving gives the defaults | |
| **reboot reasons** (`cmd/amlogic/cmd_reboot.c`) | sticky registers | `get_rebootmode`, `reboot` | a power cut, a watchdog and an ordinary reboot look the same | |
| **eMMC boot area** (`drivers/amlogic/mmc/storage_emmc.c`) | three hardware partitions, the selected one | `mmc_boot_read/write/erase` | each access may fail in the middle of the loop, and the partition must be switched back | only the named copies change; errors are reported |
| **storage dispatch** (`cmd/amlogic/storage.c`) | the current device | `store_*` | | calls reach the device that was booted from |
| **AVB slot metadata** (`cmd_bootctl_avb.c`, anti-rollback in `cmd/bootm.c`) | `AvbABData` in `misc`; the rollback index burnt into the chip; the device tree; env `update_dt` | the same commands, chosen at run time by `cmd_bootctl_wrapper.c`; `set_successful_boot` and `update_rollback` from `bootm` | two formats in one place; what is burnt cannot be taken back | as above; the fallback stays accepted; a slot runs with its device tree |
| **bootloader without A/B** (`bootloader_status.c`, `fb_command.c`, `f_fastboot.c`, `do_CopySlot`) | copies 0, 1, 2; `bootloader_up`, `recovery`, `recoverybak`; env `write_boot`, `fastboot_step`, `reboot_status`, `expect_index`, `check_result`, `recovery_need_update` | `fastboot_step_check`, `non_ab_update`, `recovery_update`, flash of `bootloader`, `check_fastboot_step`, `reboot next` | three protocols of several reboots each share the copies and the env, and a host, a user and recovery start them in any order | some copy always starts; nothing untried replaces the first copy; the result that is shown is true; requests are carried out |
| **NAND reserved area** (`drivers/amlogic/mtd/aml_rsv.c`) | per region the valid block and page, a free list, a timestamp; on flash, pages with name and timestamp | scan, save, write, read, erase, free | save writes a new copy before it frees the old block; blocks go bad; the scan after a power cut must pick the newest valid copy | the last saved content is found; no page is programmed twice |
| **keys** (`drivers/amlogic/keymanage`) | write-once and secure keys | init, write, read, query | "can overwrite" against a partial write | |
| **factory burning** (`drivers/amlogic/v2_burning`, `v3_burning`) | state of a download: partition, sequence, bytes left, verify result | download, verify, burn, reset | a USB host that sends commands in any order | |
| **partitions** (`drivers/amlogic/mmc/aml_emmc_partition.c`) | EPT and GPT | convert, repair | data rather than control | |
| **image reading and verified boot** (`cmd/amlogic/imgread.c`, `cmd_avb.c`) | none between calls | `imgread`, `avb verify` | parsing | only its outcome matters here |
| **network, file systems, drivers, LMB, EFI** | upstream | | | third-party code, not this product's logic |

How they meet: the boot order runs the commands; `get_valid_slot` and
`amlsecurecheck` communicate through the env in RAM and in flash
(`slot-suffixes`, `expect_index`, …) and through `misc`; the update engine of
Android leaves requests in both; all of them write the bootloader copies with
`store_boot_write`, which on this board is `mmc_boot_write`.  Nothing runs
concurrently: the adversaries are the order of the writes, the power, the
reboots, and the running Android that changes the same metadata between boots.

`PROJECT.json` lists the hazards one by one, each at its line with the properties
that watch it.

## 2. Modules

| module | what it is |
|---|---|
| `BootCtrl` | the pure functions of `cmd_bootctl_vab.c` on the metadata; no state |
| `AbBoot` | the device: ROM, U-Boot's A/B boot, env, copies, Android and the power |
| `AbBootProperties` | its type invariant, safety, action and liveness properties and the refinement mapping |
| `SlotPromise` | the abstract specification: which slot is active, and whether each slot is proven, on trial or empty |
| `BootArea` | the loop of `mmc_boot_read/write/erase` over the hardware partitions, with every access that can fail |
| `AvbBoot`, `AvbBootProperties` | the device with AVB metadata: its slots, bootloader, device tree and rollback index; it implements `SlotPromise` too |
| `NonAbBoot`, `NonAbBootProperties` | the device without A/B: the trial of a flashed bootloader, the robust update, `write_boot`, the update of recovery |
| `NandRsv`, `NandRsvProperties` | one region of the NAND reserved area, page by page |
| `Register` | the abstract specification of that region: a content that a save replaces at once |
| `MCAbBoot`, `MCAvbBoot`, `MCNandRsv` | the constants and symmetries TLC needs |
| `AbBootProofs`, `AbBootPromiseProofs`, `AbBootCopiesProofs`, `AvbBootProofs`, `NonAbBootProofs`, `NandRsvProofs`, `BootAreaProofs` | theorems and proofs |

### AbBoot and the code

`pc` is the point the boot has reached.  One action runs the code from one
point to the next write to flash, so that every state a power cut can leave
behind is a state of the model.  A boot goes

    rom -> aml_update_env -> get_valid_slot -> amlsecurecheck -> ab_update_rollback
        -> update_tries .. tries_check -> bcb_cmd (get_valid_slot again)
        -> switch_bootmode -> storeboot -> kernel

and branches off to the update of boot0 (`check_boot1` … `boot0_env`), to a
rollback (`reason` … `env`, then `reboot`), to `recovery`, `fastboot`, or
`bricked` when the ROM finds no copy.

* **Writes.**  The metadata fits one sector: `boot_info_save` is atomic.  A
  bootloader copy and the env take long: `StartBootWrite`/`StartEnvWrite` make
  the destination unusable (the env only with `TornEnv`), `FinishWrite` completes
  it, and `PowerCut` may come in between.
* **The four rollbacks** (no bootable slot, failed update, rescue party,
  bootloader mismatch) run the same commands in different orders.  `rb` holds the
  plan (`RollbackFrom`, `RollbackOnMismatch`), `Following` the order of each
  handler; a command is one action whoever runs it.
* **Images** are a build number and whether the ROM accepts them.  A bootloader
  copy, and a bootloader partition, hold one image; build 0 is a torn copy.
* **Outside actions.**  The HAL and the update engine are not in the repository.
  `MarkBootSuccessful`, `BeginUpdate` and `FinishUpdate` are modelled from what
  U-Boot expects of them, and marked external in the map, like the ROM and the
  power.  `AndroidFails` is a slot that panics (for want of space or not) or
  hangs until the watchdog fires.
* **`update_gpt`** is there by its outcome only: the GPT in the new bootloader is
  accepted, or (`PartFails`) refused or not written, and the update is rolled back.
  Its way from a dtb to a GPT (`gpt_flag` 1 or 2) is never taken: the one caller,
  `ab_update_rollback`, passes 0.
* **`OtaEraseDdr`** is `AML_OTA_ERASE_DDR_PARAMETER`: such a build starts once more
  when the copy that was expected has been started.
* **Left out**: see the head of the module.  Read errors of the boot copies, the
  dtb and GPT contents and the efuse that disables the user area are not there.
  The values of `rollback_reason` and `dts_to_gpt` are not kept, as nothing modelled reads
  them; that they are saved, which a torn env makes a risk, is (`SaveUnread`).

`BootArea` keeps the loop counter, the mask, the return value and the selected
hardware partition; the mask is shifted where the code shifts it.  It is checked
on its own: `AbBoot` uses a boot write in two steps, of which `BootArea` is the
detail.

### AvbBoot

The same boot with the commands of `cmd_bootctl_avb.c`.  The metadata is written
in one piece; a bootloader copy in two steps (`StartCopy`, `FinishCopy`).  A
rollback is `set_roll_flag`, `set_active_slot`, the device tree that goes with the slot
(`restore_dtb`), the env and a reboot, in this order in all of its forms, each a write of
its own; `RollbackFrom` and `RollbackOnMismatch` hold what differs.  `update_dt` writes
the device tree and `update_dt_done` takes the request back.  `RebootAfterErase` is the
second start of a build with `AML_OTA_ERASE_DDR_PARAMETER`.  The request `write_boot = 1`
is left out: nothing in the repository makes it (the env files set it to 0), and without
a GPT it is the update engine that writes the user area.
`Builds` says of each build of U-Boot whether `get_valid_slot` also runs before
`update_tries` (`CONFIG_CMD_BOOTCTOL_VAB`), and `LegacyBuilds` which of them may meet
metadata of virtual A/B.  `bootm` verifies the system, burns its rollback index when
the slot has booted (`BootSlot`) and rolls back when the index is refused
(`RollbackIndexRejected`).

### NonAbBoot

`pc` follows U-Boot to the kernel, recovery, fastboot or the command line; a
handler that writes bootloader copies puts them in `writes`, and `write_bootloader`
works on them, each in two steps.  The ROM tries the copies in a circle, from the
first one or, after `reboot next`, from the one after the copy that ran
(`Distance`); without a GPT the first copy is the one in the user area.  The host of
fastboot, the user, recovery and the running system are actions that may happen
whenever the device waits.  `env` is in RAM and flash at once; a power cut while it is
saved may leave the default.

### NandRsv and Register

A page is erased, torn, or holds a content with its part number and timestamp.  The
actions are the steps of `meson_rsv_scan` (a block, then the choice of the copy),
`meson_rsv_save` (`search` … `prepare`), `meson_rsv_write` (a page), `meson_rsv_erase`
and `meson_rsv_free`; a power cut may come between any two, an erase may leave a
block ruined, a page may fail to program, and a block may be bad.  The lists are
sequences, and `NodeCount` is the size of the pool of their nodes.  The content of
`Register` is defined on the flash alone (`Stored`): what a scan ought to find, without
its lists and loops, kept in the history variable `stored`.  A region is `Damaged`, and
may lose its content, while a save replaces a block in which an interrupted one has
left its traces, and once a page has failed to program.

## 3. Runs

`BOOT_ATTEMPTS` is 2 instead of 4 and `kActiveTries` 3 instead of 6: the code
compares them with zero only and decrements them one by one; what matters is that
they differ, that a slot can fail more than once before it is given up, and that
the last try is a different state from the first.  `MaxGen` counts the builds
ever made: 1 is the factory image, 2 one update, 3 two updates in a row (or one
after a rollback).  `MaxCrash` counts power cuts; two are enough for a cut in the
recovery from a cut.

| run | instance | checks |
|---|---|---|
| `PowerCuts` | good images, 3 builds, 2 power cuts anywhere, env written at once | `TypeOK`, `NeverBricked`, `FallbackKept`, `Boot1UpToDate`, `BackupProven`, `RollbackAnnounced` |
| `BadImages` | a build may be one the ROM rejects; 1 power cut, which may tear the env; the second start of `OtaEraseDdr`; fairness | `NeverBricked`, the liveness property `BadSlotLeft`, and `KeepsPromise`: AbBoot implements `SlotPromise` |
| `EveryFailure` | unreadable partitions and refused GPTs, bad images, normal A/B metadata, 3 builds, 1 power cut, after which the two invariants promise nothing but a device may be lost; fairness | `BootsMatching`, `BootTriesBounded`, and under fairness `UpdateCompletes`: `write_boot` is taken back also when the partition cannot be read |
| `NoGpt` | a flash without a GPT: each slot has a copy of its own; normal A/B metadata may be found and is migrated; 1 power cut | `BootsMatching`, `RollbackToProven` |
| `BootArea` | every access may fail, the power may be cut | `TypeOK`, `OneCopyAtRisk`, `OnlyNamed` |
| `AvbBoot` | 2 tries, 3 builds, 2 power cuts, images the ROM rejects, both orders of the boot commands, virtual A/B metadata in the order that migrates it | `TypeOK`, `BootsMatching`, `NeverBricked`, `SuccessfulHasBooted`, `FallbackAccepted`, `RollbackRestoresDtb`, `KeepsPromise`, `MigrationKeepsActive`, `BadSlotLeft` |
| `NonAbBoot` | with and without a GPT, 3 builds the ROM may reject, 2 power cuts, which may lose the env | `TypeOK`, `NeverBricked`, `RecoveryWhole`, `TriedFirst`, `CheckTells`, `WriteBootCompletes`, `TrialDecides` |
| `NandRsv` | 2 contents of 2 pages, 5 blocks of 4 pages, 7 nodes, 3 saves, 1 power cut, 1 bad block, 1 page that fails | `TypeOK`, `ReadsWhatIsStored`, `FreeListSound`, `NeverOutOfBlocks`, `ActsAsRegister` (NandRsv implements `Register`), `ProgramsErasedPages`, `CallsEnd` |

In `NandRsv` a block holds two copies, so that a save goes on in the block or moves
to the next one; five blocks are the fewest that a fault of each kind leaves enough
of (below).  In `NonAbBoot` three builds are two replacements, by any two of the
protocols; with four builds, or with three cuts, the result is the same.  `CHECK_DEADLOCK FALSE` stands where a
device that is bricked, or has nothing left to do within the bounds, stops.

The other four runs each show a disagreement between the code and what it says
of itself (section 5).

**Fairness.**  `FairSpec` has weak fairness of `UBoot` as a whole: U-Boot is one
thread that runs while there is power, and every command ends.  It has weak
fairness of `AndroidFails`, because a kernel that does not work panics or is
reset by the watchdog, which U-Boot starts.  Nothing is assumed of users, of the
update engine, of a working Android, or of the power.  A device that stops in
fastboot or recovery waits for someone; `BadSlotLeft` allows that and
`UpdateCompletes` holds all the same, because the request is answered before any
such stop.  `AvbBoot` assumes the same of U-Boot and of a failing system;
`NonAbBoot` of U-Boot alone, and its properties allow the device to wait for a user;
`NandRsv` of the driver, whose calls run to their end unless the power is cut.
`UpdateCompletes` is checked with the env written at once: where a cut tears the env,
the request is lost with it.

**How far the results reach.**  These are limits of the code, found by changing
the bounds, not limits of the model:

* With `BadImages`, three builds and one power cut, the device can be bricked,
  env torn or not.  After a bad boot0 the mismatch rollback restores boot0 before
  it changes the slot; a power cut in between leaves the new slot active on top
  of the old bootloader, where it boots and is marked successful.  When the next
  update fails, the rollback to that slot has `check_bootloader` copy its
  partition, the image the ROM rejects, over boot1, and from there over boot0.
  With a torn env and two cuts a device is lost even with good images.  Hence
  `MaxGen = 2` in `BadImages`, and `TornEnv = FALSE` in `PowerCuts`.
* With `LateCrash` (a proven slot begins to crash and asks for a rescue-party
  rollback) one power cut at the wrong time bricks the device.
* With `PartFails` and one power cut, a failed update saves the rollback in `misc`
  before it takes back `write_boot`, and the next boot rolls back to the slot
  that failed: `RollbackToProven`, `FallbackKept` and `BackupProven` do not hold.
* `BootsMatching` and `BootTriesBounded` hold without power cuts only; they say
  so.  What a cut between the copy of a bootloader and `set_active_slot` may not do is
  checked as `NeverBricked` and `FallbackKept`.  `boot_tries_remaining` is a `u8` that wraps to 255 when the power fails
  between the save of 0 and the reset.
* `LateCrash` is FALSE in every run for the reason above.
* `AvbBoot`: with a power cut between the copy of a bootloader and
  `set_active_slot` the next boot finds the expected index, takes the request back
  and starts the new slot on the old bootloader, where it proves itself; the next bad
  update then bricks the device.  A cut between the save of the slot in `misc` and
  the write of its device tree leaves the other one.  `BootsMatching`, `NeverBricked`
  and `RollbackRestoresDtb` say "without a power cut".
* `AvbBoot`: a build whose first `get_valid_slot` runs after `update_tries` resets
  metadata of virtual A/B before it can be migrated ("boot-info is invalid. Try VAB."
  comes too late), and `boot_info_reset` marks slot a successful though it may never
  have booted: `LegacyBuilds` leaves that combination out, and `SlotAProven` the devices
  whose slot a has not booted.
* `NonAbBoot`: `NeverBricked` allows two cuts, and one cut together with a bad
  bootloader.  After a cut in `write_boot` the request is repeated from its start,
  and rewrites boot0, then the only good copy.  Flashing from boot1 when boot0 is bad
  writes boot1 first.  `write_boot` has no trial: `RequestWriteBoot` asks for
  accepted images only, as recovery checks them.
* `NonAbBoot`: `TriedFirst` speaks of runs up to the second power cut.  With two cuts and
  four builds, beyond the instance of the run, TLC refutes it: the first cut leaves boot0
  torn in `write_boot`, the second loses the request, in the save that `amlbootsta -s`
  makes at every boot.  Fastboot is then started from boot1, and a host that flashes
  twice in one session repairs boot0 with the first flash; the second goes over that
  good copy, untried, because the choice looks at the copy U-Boot was started from and
  not at what was written since.
* `NonAbBoot`: an ordinary reboot or a power cycle during a trial starts the first
  copy and reports "new bootloader error" though the new one works; `TrialDecides`
  counts that as a decision.
* `NonAbBoot`: `check_result` and `recovery_need_update` are not in
  `_aml_env_reserv_array`, so a request to update recovery is lost when another
  request resets the env; the system has to ask again.
* `NandRsv`: after an interrupted or failed save the next one erases the valid
  block before it writes; a second fault at that moment loses both contents, and
  `Damaged` excepts it.  A block whose erase was cut short drops out of the lists:
  there must be two blocks more than faults, or `nfree` is read through when it is
  null.  `FreeListSound` is about a region in which no page has failed: a read that
  fails after that scans again on top of the lists (`aml_rsv.c:512`), and the scan puts
  the valid block on the free list (`aml_rsv.c:652`).  An erase of the region sets the timestamp back to 1, so that with a bad
  block that could not be erased the stale content wins.
* Under `Legacy`, the migration gives the other slot no tries, so a fallback
  normal A/B had is lost: `KeepsPromise` is not claimed there.

## 4. Proofs

Each is about every value of the constants, with the named assumptions of the
modules (`TriesAssumption`: the tries fit 3 bits; `AbBootAssumption`,
`GptAssumption`: types).

* `AbBootProofs`, first the operators of `BootCtrl`: each returns metadata, and
  **SetActiveSlotActivates**: after `boot_info_set_active_slot` the slot is the
  one `get_active_slot` returns, whatever the priorities were.  `CountTryType`
  holds the reason why the 3-bit field does not underflow: a slot is charged only
  when it is bootable, that is, has a try left.
* **AbBootTypeOK**, `Spec => []TypeOK`.  It covers the wrap of the 3-bit
  `tries_remaining` only: `boot_tries_remaining` is any byte there, and does wrap after a
  power cut (section 3; **BootTriesStayBounded** is about it).  `TypeOK` is not
  inductive: a rollback command looks up `Following`, a record that has a field
  only for the commands of that kind of rollback, and reads `part[rb.to]`, where
  `rb.to` must be a slot.  The inductive invariant `IInv` adds `PlanOK`: where
  U-Boot is, *or will be when the write in progress is complete* (`Point`), is a
  command of the rollback's kind, and the slot is known where it is used.
  The proof has one lemma per part of the boot and one case per action.
* **RollbacksAreAnnounced**, `Spec => RollbackAnnounced`: outside Android the
  active slot changes only with `roll_flag` set.  It rests on the conjunct of
  `PlanAt` that at `set_active_slot` the flag is already in `misc`
  (`set_roll_flag` comes directly before it in all four orders), on
  SetActiveSlotActivates (the flag is kept), and on the lemmas that counting,
  forfeiting and `uboot_status` leave the active slot alone.
* `BootAreaProofs`: **AreaTypeOK**, **AreaOneCopyAtRisk** and **AreaOnlyNamed**.
  The invariant relates the loop counter to the mask: what is left of `cpy` after
  `i` shifts is the named copies from `i` on.

* `AbBootPromiseProofs`: **AbBootKeepsPromise**,
  `~Legacy /\ ~LateCrash => (Spec => KeepsPromise)`, the refinement: the initial states
  map to initial states and every step to a step of `SlotPromise` or a stutter.
  `PromiseInv` relates the metadata to the env, which exists up to three times: in RAM,
  in flash, and in the write in progress.  Whatever asks for a bootloader update, or for
  the check of the copy that was started, in any of the three, and whatever is left of an
  update in progress, finds one slot that has not booted and an active slot that may be
  tried (`Requested`), so the rollback it may end in makes active a proven slot or an
  update that was left half done.  `update_tries` and what follows run when nothing asks
  any more, in RAM or in flash (`Settled`); before that, what flash asks for is in RAM
  too (`Agreed`), or a power cut would bring a request back.  A rollback for want of tries or by a
  rescue party leaves a slot that has not booted (`Returning`); slots that have booted
  work and keep their tries (`Base`), so `get_valid_slot` never gets to a reset; and
  `slot_suffixes` is the active slot from then on (`Chosen`).
  Without the first restriction the migration can leave a proven slot without tries;
  without the second a rescue party takes the device from one proven slot to the
  other.  **AlwaysAWorkingSlot** follows from the same invariant: the metadata always
  names a slot that has booted, may be picked, and works.
* `AbBootCopiesProofs`: **CopiesNeverBricked**, **CopiesFallbackKept**,
  **CopiesBoot1UpToDate**, **CopiesRollbackToProven** and **CopiesBackupProven**, for any
  number of updates and power cuts under `Benign`: a GPT, images the ROM accepts,
  partitions that can be read, an env that is written at once, and the two restrictions
  of `AbBootKeepsPromise`.  The invariant says that the bootloader of the slot to trust
  (the active one if it has booted, else the other) is where `uboot_status` says, in
  boot1 or still in boot0 (`Held`), and what keeps it there: a slot on trial runs on its
  own bootloader and boot1 is the backup by then (`TrialReady`), what is asked for in
  flash, in RAM and in the write in progress (`EnvTrue`), boot1 before boot0 in an update
  (`UpdateOrder`), which copy a write reads from and that its source is not what it
  overwrites (`CopyOrder`), a rollback only from an up to date boot1 (`RollbackOrder`),
  and that boot1 is started only when boot0 is bad (`StartedFrom`).  `Benign` is needed:
  with a torn env (two cuts, three builds), a bad image, or a partition that cannot be
  read, TLC finds both copies unusable, and a rollback to a slot that has not booted
  where a partition cannot be read.
  **SparesNeverBricked** is the case without a GPT, where a write goes to the user area
  and each slot has a copy of its own (`Spares`): only bad images are excluded there.
  **SparesRollbackToProven** and **SparesFallbackKept** are the same devices under the two
  restrictions of `AbBootKeepsPromise`, again for any power cuts, a torn env and failing
  reads.  `Unmissed` says that the copy which is expected is started: whoever asks for the
  user area does so when it holds a good image, and the only rollbacks are those that the
  tries or the system ask for.  `OwnKept` says that a slot whose system works has its
  bootloader in its own copy, which the HAL alone writes.
* **BootTriesStayBounded**, in the same module, up to the first power cut, for devices
  that never held normal A/B metadata and systems that do not start to crash.  `TriesInv`
  says that the counter of first boots is zero only between its decrement and the test
  that follows (`Counted`), and that a device that was never updated has no merge and no
  want of space to report, so that `update_tries` always gets to that test
  (`NoneWaiting`).  A power cut between the two is what `Counted` does not survive.
* **BootsMatchingUncut** and **UncutNeverBricked**, under the same conditions, with a GPT
  and without, also for images the ROM rejects and partitions that cannot be read.
  `UncutInv` looks at the copies and at the env as they will be when the write in
  progress is done.  The bootloader of the slot to trust stays where it was put
  (`KeptTrue`).  From power-on to the checks the first copy is that of the active slot,
  or it is that of the other one and `write_boot` asks for the update; a bootloader that
  the ROM rejects is asked for too, so that the copy that was started instead is noticed
  (`Opened`).  An update has the backup before it writes boot0 (`Updates`), a rollback
  writes the copy kept for the slot that it makes active (`Rolls`), and past the checks
  the first copy is that of the active slot, is good, and was started (`Rests`).
  **UncutRollbackToProven** and **UncutFallbackKept** follow from it.
* **UncutBoot1UpToDate** and **UncutBackupProven**, until the first power cut too, add
  what `misc` says of boot1: only a slot that has booted is noted, and none without a GPT
  (`Recorded`), and U-Boot runs from boot0 wherever it updates (`UpdatesFromBoot0`).  The
  second says more than `BackupProven`: boot1 is written with a bootloader that has
  booted and never by a U-Boot started from it, so the violation that the run
  `Copyback` finds takes a power cut.
* `AvbBootProofs`: **AvbBootTypeOK**; the induction needs that past `get_valid_slot`
  the slot is known (`Chosen`).  **FallbackStaysAccepted**: the index in the chip
  never exceeds that of the proven slot a trial would go back to.  `ProtectInv`
  says why: what is burnt is the index of a proven slot (`Unburnt`, `Covered`), the
  slot that `set_successful_boot` marks is the active one although the two functions
  break ties differently (`Ordered`), and an update has an index at least that of the
  chip (`Accepted`).  **ResetsClaimOnlyBooted** from `BootedInv`, under `SlotAProven`,
  and **MigrationKeepsTheSlot** from `LegacyInv`, for builds that run `get_valid_slot`
  first; both restrictions are stated in the theorems, and the runs show that they are
  not met for nothing.
* **AvbBootKeepsPromise**, the refinement: the initial states
  map to initial states and every step to a step of `SlotPromise` or a stutter.
  `PromiseInv` says what U-Boot knows where it changes the slot: `reboot_status`
  announces a slot that may be booted, and then not both slots are proven
  (`Expecting`), a rollback never starts with both slots proven (`Returning`), a system
  asks to be rescued only when it does not work (`Rescued`), and the index of a proven
  active slot is never rejected (`Burnable`), so that `update_rollback` leaves no proven
  slot.  Under the two restrictions of the theorems before.  **AvbKeepsAWorkingSystem**
  follows from the same invariant, under the same restrictions: the metadata, as
  `get_valid_slot` reads it, always has a slot that is marked successful and whose system
  works.
* **AvbNeverBricked**, **AvbBootsMatching** and **AvbRollbackRestoresDtb**, until the power
  fails and under the same two restrictions, for any number of updates, also to images the
  ROM rejects.  `CopiesInv` says that the copy kept for a slot is what came with its
  system, that the bootloader of a slot that has booted is good (`ProvenGood`), and that
  the user area has the bootloader of the active slot, except while a rollback, always to
  the proven slot (`Backing`), replaces it (`UserArea`).  A bad bootloader is found out
  by `update_rollback`: from the update to that check `reboot_next` stays set and the ROM
  starts the copy of the other slot (`Answered`, `Started`).  No try is charged before it,
  so `get_valid_slot`, which gives up only a slot without tries that has not booted
  (`NotBootable`), cannot end the trial by going to recovery instead.
* `NonAbBootProofs`: **NonAbTypeOK**, which needs that `idx` is always a copy that
  exists; and **NonAbNeverBricked**, `~FlashOnTrial => (Spec => []NeverBricked)`.  Its
  invariant has two halves, one for each fault that `NeverBricked` allows alone.
  `FirstKept`, before any power cut: the first copy is one the ROM accepts, or is
  being replaced by one that has been tried or checked, and the trial, the robust
  update and `write_boot` never overlap.  `OneDamaged`, up to the first cut and with
  good images: one copy at most is torn, and a trial that finds the copy to be tried
  torn never ends in fastboot, where the copy it runs from would be overwritten.  The
  restriction is needed: it is what the run `FastbootTwice` breaks.
* **NonAbRecoveryWhole**, without any restriction: `RequestKept` says that the request
  to update recovery lasts until the copy is whole and that the boot that starts at the
  first usable copy leads to the update; `UpdateRepeats` that a half written recovery
  exists only in the update, or, after the one cut, in a boot on its way back to it.
* **NonAbTriedFirst** and **NonAbFlashSparesFirst**, `~FlashOnTrial`, up to the second
  power cut.  `Tries` has a part for each side of the question: who writes what (`Lists`),
  why a first copy can be bad (`BadFirst`: the end of a trial, or `write_boot`, is going
  to write it again), why another copy runs (`Runs`), and that a trial which ends in
  fastboot began there, with the same bootloader in boot0 and boot1 (`TrialEnds`).  The
  second theorem is the counterpart of the run `FastbootTwice`: the comment that run
  refutes is true as long as the host does not flash during a trial.
* **NonAbCheckTells**, `~FlashOnTrial`, without power cuts: between the request of a check
  and its end nothing but the boot runs, and the second boot starts the copy to be
  checked exactly if the ROM accepts it (`CheckRuns`, `NextStarts`); recovery asks only
  for a copy it has just written and that no other copy has the image of (`Robust`),
  so that the comparison of the running bootloader with `bootloader_up` cannot be fooled.
* `NandRsvProofs`, for every number of blocks, pages, contents and saves:
  **NandRsvTypeOK**, **NandRsvFreeListSound**, **NandRsvNeverOutOfBlocks** and
  **NandRsvProgramsErasedPages**.  The first says that every block the driver erases or
  programs is one of the region, every page it programs one of the block it is in, and
  that the erase of a region stays inside the free list (`Addressable`; `page_addr` itself
  runs past the block while a save looks for room).  Their invariant has four parts.
  `Sound`: the types, and where `page_addr` may be at each step.  `PagesInv`: a block holds its copies one after the
  other, each written from its first page on; what follows the copy in use is erased, and
  where a scan has been, or will come again before the next save (`Resume`), the driver
  knows where that is.  `ListsInv`: every block is in the free list, in use, bad, or lost
  to an erase that was cut short, and in one of these only.  `FaultsInv`: there are at
  most as many lost blocks as faults.
* **NandRsvReadsWhatIsStored**, **NandRsvFindsNewestInBlock** and
  **NandRsvActsAsRegister**, the refinement, on top of it.  While no page has failed, a
  fifth part `LastInv` says where the last content is.  `Sorted`: the complete copies of
  a block come one after the other, an unfinished one can only be behind them, all have
  the timestamp of the block, and no two blocks have the same.  `FoundInv`: the scan is
  on the newest of the blocks it has seen, and between the calls the driver is on the
  last copy of the newest block.  `SearchInv`: while a save looks for a block to write,
  the block of the last content waits in the free list, and all behind it are ones that
  the save has found bad (`Turn`), so that its turn comes last; with a good block to
  spare (`OneKept`) the save ends before that.  `WriteInv`: the pages of a save come
  behind complete copies, in a block newer than all others.  From there each step is one
  of `Register` or a stutter: without damage `RegSound`, where only the last page of a
  save (`WriteStored`) and the last block of an erase (`EraseStored`) change what is
  stored; with damage `RegBroken`, by `Loses`.
* The assumptions of these theorems are part of what the code needs:
  - `NodeCount >= NBlocks`: the pool has `MTD_RSV_BLOCK_CNT` nodes, the blocks of all
    regions together (`aml_rsv.c:110`, `:178`).
  - Two blocks more than power cuts and bad blocks, and `fails = 0`, for
    `NeverOutOfBlocks` and `FreeListSound`: after a failed page an erase that finds no
    node drops its block from the lists.
  - `MaxFails <= 1` for `ProgramsErasedPages`: with two failed pages TLC finds a page
    programmed twice.  The scans that failed reads start fill the pool; an erase of the
    region then fails with `-ENOMEM` after it has set the timestamp back, a later scan
    ends with the same error before it has chosen the copy, and the next save starts at
    page 0 of a block that holds data.
  - `MaxTimestamp + NBlocks <= TimestampMod` for the last three: the timestamp counts the
    blocks that the saves have moved through, and here it does not wrap in its 15 bits
    (`aml_rsv.c:453`, "TODO: prevent the unrolling situation here").  `MaxTimestamp` is
    where the saves stop, and one save may try every block.

The inductive invariants were checked with TLC on the instances above before they
were proved.

Only model-checked: the properties of `AbBoot` where its theorems do not reach (the
copies once the power has failed, with a GPT and outside `Benign`; and `BootsMatching`,
`RollbackToProven` and `BootTriesBounded` on devices that come from normal A/B); `FindsNewestInBlock` after a failed page, when it is false
(section 5); and everything under fairness, which the prover cannot handle.

## 5. Where the code disagrees with what it says

* `Copyback`: `do_SetUpdateTries` refuses to copy boot0 over boot1 when U-Boot was
  started from boot1 ("means boot0 is bab, don't need to copyback");
  `do_CheckUbootState` makes the same copy without that test.
* `BootAreaFailure`: `mmc_boot_write` overwrites the error of a failed write
  with the result of the switch back to the user area.
* `NandRsvFailure`: the scan is to "find the newest in the block" and stops at the
  first page without the name, which a failed save leaves between two copies: after a
  power-up an older content is back.
* `FastbootTwice`: fastboot takes a start from boot1 for a proof that boot0 is bad,
  "boot from boot1, means boot0 is error, rewrite it"; during the trial of a flashed
  bootloader it is not, and a second flash replaces both copies by an image that
  nobody has tried.

Observations without a run:

* `set_mergestatus_cancel` changes a message and writes back the buffer it had read,
  so the merge status stays SNAPSHOTTED.
* The last of a slot's tries is charged and never made, because `get_valid_slot` runs
  again after `update_tries`.
* A rescue-party rollback leaves `uboot_status` 2 for a boot1 that holds another
  bootloader (with `LateCrash`, or with bad images and a power cut; `Boot1UpToDate` is
  checked without them).
* `do_UpdateDt` runs while `boot_part` is still the default in builds with AVB only,
  so the old device tree is written and the request taken back; and `update_dt` is
  lost when the env is reset.
* `non_ab_update` takes `write_boot` back without looking at the results of the
  writes, and compares a string after `env_set` has freed it.
* A read that fails in `meson_rsv_read` starts a new scan without resetting
  `length`, so that the buffer can mix two copies.

## 6. Plan

1. *(done)* `BootCtrl`, `AbBoot`, `SlotPromise`, `BootArea`; type correctness,
   RollbackAnnounced and the boot area proved.
2. *(done)* `AvbBoot`: the AVB metadata, migration from virtual A/B, rollback protection.
3. *(done)* `NandRsv` as an implementation of `Register`.
4. *(done)* `NonAbBoot`: the devices without A/B, with the trial of fastboot.
5. `EnvPart`: `update_env_part` and `defenv_reserv` on sets of variables, against
   the definition "only the named variables change in flash".
6. The download state machine of `v3_burning`; the key store on top of `NandRsv`.
7. *(done)* Proofs: the step simulations behind `KeepsPromise` of `AvbBoot` and of `AbBoot`.
8. *(done)* Proofs: `NeverBricked` and the other properties of the copies of `AbBoot`
   for good images, without a GPT, and for all images until the power fails;
   `BootsMatching` and `BootTriesBounded`; the lists and pages of `NandRsv`; all safety of `NonAbBoot` and of `AvbBoot`.
9. *(done)* Proofs: `ReadsWhatIsStored` of `NandRsv`, and that it implements `Register`.
10. Proofs: what a device that comes from normal A/B keeps, in `AbBoot`.

## 7. Not modelled

Drivers (display, audio, DDR, USB, PHYs) program registers; image reading, AVB
verification, GPT conversion and the dtb are parsing; the fastboot protocol, network,
file systems, LMB and EFI are upstream U-Boot.  The choice of the A/B variant
(`cmd_bootctl_wrapper.c`) is a table set once per boot.  In the modelled files: the
factory status check, the quiescent modes and the way of `update_gpt` from a dtb to a GPT
(never taken) of `bootloader_status.c`, `write_boot` on a device with AVB metadata, the text
editing of `update_env_part`, the bad block table region of `aml_rsv.c`, and the device
without eMMC in `cmd_bootctl_avb.c` (there `misc` is erased before it is written, and a
power cut loses it).  Keys and burning are in the plan above.
