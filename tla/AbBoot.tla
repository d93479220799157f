------------------------------- MODULE AbBoot -------------------------------
(***************************************************************************)
(* One virtual A/B eMMC device from power-on to Android and back: the boot *)
(* ROM, U-Boot's slot selection (cmd_bootctl_vab.c), the robust update of  *)
(* the bootloader copies (bootloader_status.c), the saved environment, and *)
(* the power that may fail between any two writes to flash and during the  *)
(* long ones.                                                              *)
(*                                                                         *)
(* pc names the point U-Boot has reached; one action runs the code from    *)
(* there to the next write to flash, so that every place where a power cut *)
(* is visible afterwards is a state.  misc (one sector) is written at      *)
(* once; a bootloader copy and the environment are written in two steps,   *)
(* StartWrite and FinishWrite, with the destination unusable between.      *)
(*                                                                         *)
(* Left out: dtb and GPT contents (update_gpt only decides to go on or to  *)
(* roll back); its way from a dtb to a GPT, which takes gpt_flag 1 or 2,   *)
(* and ab_update_rollback passes 0; the values of rollback_reason,         *)
(* dts_to_gpt and rollback_flag (nothing modelled reads them, but saving   *)
(* the first two is a write); the efuse that disables the user area        *)
(* (nocs_mode is FALSE); read errors of the boot copies; recovery and      *)
(* fastboot beyond how they are left.                                      *)
(***************************************************************************)
EXTENDS BootCtrl

CONSTANTS Gpt,            \* a GPT is on the flash (gpt_partition, aml_gpt_valid = 0)
          EnterFastboot,  \* the env defines enter_fastboot (a9_by401's does not)
          TornEnv,        \* a power cut may catch the env half written
          BadImages,      \* an update may ship a bootloader the ROM rejects
          Legacy,         \* misc may hold the metadata of normal A/B
          LateCrash,      \* a slot that has booted well may still start to crash
          PartFails,      \* a bootloader partition may not be readable, or its GPT be refused
          OtaEraseDdr,    \* a build may have AML_OTA_ERASE_DDR_PARAMETER
          Modes,          \* the reboots a user or Android may ask for
          MaxGen,         \* bound: number of bootloader images ever built
          MaxCrash        \* bound: number of power cuts

ASSUME AbBootAssumption ==
    /\ {Gpt, EnterFastboot, TornEnv, BadImages, Legacy, LateCrash,
        PartFails, OtaEraseDdr} \subseteq BOOLEAN
    /\ Modes \subseteq {"normal", "fastboot", "factory_reset", "rescueparty"}
    /\ "normal" \in Modes
    /\ MaxGen \in Nat \ {0}
    /\ MaxCrash \in Nat

NoSlot == -1
NoIndex == -1

\* What a bootloader copy or partition holds: the build it came from and
\* whether the ROM accepts it and it starts.
Images == [gen : 0..MaxGen, good : BOOLEAN]
Torn == [gen |-> 0, good |-> FALSE]
FactoryImage == [gen |-> 1, good |-> TRUE]

Copies == 0..2      \* 0 user area, 1 boot0, 2 boot1

RebootStatus == {"none", "reboot_init", "reboot_next"}
Env == [write_boot : BOOLEAN, update_env : BOOLEAN,
        reboot_status : RebootStatus, expect_index : {NoIndex, 0, 1},
        insufficient_data : BOOLEAN, slot_suffixes : {NoSlot} \cup Slots,
        bootloaderIndex : {NoIndex} \cup Copies]

DefaultEnv == [write_boot |-> FALSE, update_env |-> FALSE,
               reboot_status |-> "none", expect_index |-> NoIndex,
               insufficient_data |-> FALSE, slot_suffixes |-> NoSlot,
               bootloaderIndex |-> NoIndex]

\* _aml_env_reserv_array keeps reboot_status and expect_index.
defenv_reserv(e) == [DefaultEnv EXCEPT !.reboot_status = e.reboot_status,
                                       !.expect_index = e.expect_index]

RollbackKinds == {"valid_slot", "update", "rescueparty", "mismatch"}
Rollbacks == [kind : RollbackKinds \cup {"none"}, from : Slots,
              to : {NoSlot} \cup Slots, src : Copies, dst : Copies]
NoRollback == [kind |-> "none", from |-> 0, to |-> NoSlot, src |-> 0, dst |-> 0]

PC == {"rom", "bricked", "aml_update_env", "get_valid_slot", "bcb_cmd",
       "amlsecurecheck", "ab_update_rollback",
       "check_boot1", "boot1_checked", "write_boot0", "update_gpt", "boot0_env",
       "reason", "check", "copy", "cancel", "flag", "active", "env", "reboot",
       "update_tries", "forfeit_reason", "forfeit", "backup_boot1",
       "boot1_backed_up", "tries_check",
       "switch_bootmode", "storeboot", "check_ab",
       "kernel", "recovery", "fastboot", "writing"}

Jobs == [op : {"idle", "boot", "env"}, dst : Copies, img : Images, val : Env,
         then : PC]
Idle == [op |-> "idle", dst |-> 0, img |-> Torn, val |-> DefaultEnv, then |-> "rom"]

VARIABLES
    misc,           \* bootloader_control in the misc partition
    flash,          \* the saved env: its content and whether its CRC is good
    copies,         \* the bootloader copies on eMMC
    part,           \* partitions bootloader_a and bootloader_b
    merge_status,   \* misc_virtual_ab_message.merge_status, in misc too
    pc,
    env,            \* the env in RAM
    idx,            \* the copy the ROM started (sticky register)
    mode,           \* the reboot reason (sticky register)
    rb,             \* the rollback in progress
    job,            \* the write in progress
    osOk,           \* whether the Android of a slot works
    gen,            \* the last image built
    proven,         \* images whose slot has booted successfully (history)
    crashes         \* power cuts so far

storage == <<misc, flash, copies, part, merge_status>>
ram == <<env, idx, mode, rb, job>>
world == <<osOk, gen, proven, crashes>>
vars == <<storage, pc, ram, world>>

-----------------------------------------------------------------------------
(* Writes to flash.                                                        *)

\* store_boot_write: the copy is unusable until the whole image is there.
StartBootWrite(c, img, next) ==
    /\ copies' = [copies EXCEPT ![c] = Torn]
    /\ job' = [Idle EXCEPT !.op = "boot", !.dst = c, !.img = img, !.then = next]
    /\ pc' = "writing"
    /\ UNCHANGED <<flash, env>>

\* saveenv and update_env_part: ramEnv is the env in RAM from here on, val
\* what the flash will hold.
StartEnvWrite(ramEnv, val, next) ==
    /\ env' = ramEnv
    /\ flash' = [flash EXCEPT !.ok = @ /\ ~TornEnv]
    /\ job' = [Idle EXCEPT !.op = "env", !.val = val, !.then = next]
    /\ pc' = "writing"
    /\ UNCHANGED copies

saveenv(e, next) == StartEnvWrite(e, e, next)

\* Only the named variables change in flash, unless its CRC is bad: then
\* everything is saved.
update_env_part(e, val, next) ==
    StartEnvWrite(e, IF flash.ok THEN val ELSE e, next)

FinishWrite ==
    /\ pc = "writing"
    /\ IF job.op = "boot"
       THEN /\ copies' = [copies EXCEPT ![job.dst] = job.img]
            /\ UNCHANGED flash
       ELSE /\ flash' = [ok |-> TRUE, val |-> job.val]
            /\ UNCHANGED copies
    /\ pc' = job.then
    /\ job' = Idle
    /\ UNCHANGED <<misc, part, merge_status, env, idx, mode, rb, world>>

\* boot_info_save: the metadata fits one sector.
boot_info_save(info, next) == misc' = info /\ pc' = next

-----------------------------------------------------------------------------
(* Power-on to the first slot selection.                                   *)

\* env_storage_load: a bad CRC falls back to the default env.
LoadedEnv == IF flash.ok THEN flash.val ELSE DefaultEnv

\* The ROM starts the first copy it accepts: user area, boot0, boot1.
BootRom ==
    /\ pc = "rom"
    /\ \E c \in Copies :
         /\ copies[c].good
         /\ \A d \in Copies : d < c => ~copies[d].good
         /\ idx' = c
    /\ env' = LoadedEnv
    /\ pc' = "aml_update_env"
    /\ UNCHANGED <<storage, mode, rb, job, world>>

BootRomFails ==
    /\ pc = "rom"
    /\ \A c \in Copies : ~copies[c].good
    /\ pc' = "bricked"
    /\ UNCHANGED <<storage, ram, world>>

\* do_update_uboot_env: after an A/B update the env returns to its defaults,
\* but not while a bootloader update is pending.
aml_update_env ==
    /\ pc = "aml_update_env"
    /\ IF env.update_env /\ ~env.write_boot
       THEN saveenv(defenv_reserv(env), "get_valid_slot")
       ELSE pc' = "get_valid_slot" /\ UNCHANGED <<flash, copies, env, job>>
    /\ UNCHANGED <<misc, part, merge_status, idx, mode, rb, world>>

-----------------------------------------------------------------------------
(* get_valid_slot, run by bcb_cmd before the dtb is loaded and again in     *)
(* preboot.                                                                *)

Migrated(info) ==
    CASE boot_info_validate(info) -> info
      [] boot_info_validate_normalAB(info) -> NormalToVirtual(info)
      [] OTHER -> boot_info_reset

\* Normal A/B metadata is judged before the migration hands out new tries.
Bootable(s) == IF boot_info_validate_normalAB(misc)
               THEN slot_is_bootable_normalAB(misc, s)
               ELSE slot_is_bootable(Migrated(misc), s)

AfterGetValidSlot == IF pc = "get_valid_slot" THEN "amlsecurecheck"
                                              ELSE "switch_bootmode"

\* Mutants: the test for a GPT is inverted where the destination is chosen;
\* source and destination are swapped.
Bug_RollbackFrom(kind, s) ==
    [kind |-> kind, from |-> s, to |-> Other(s),
     src |-> IF Gpt \/ s = 0 THEN 2 ELSE 1, dst |-> IF Gpt THEN 0 ELSE 1]

Bug_SwapCopies(kind, s) ==
    [kind |-> kind, from |-> s, to |-> Other(s),
     src |-> IF Gpt THEN 1 ELSE 0, dst |-> IF Gpt \/ s = 0 THEN 2 ELSE 1]

\* The rollback plan: boot1 goes back to boot0, or, without a GPT, the copy
\* kept for the other slot goes back to the user area.
RollbackFrom(kind, s) ==
    [kind |-> kind, from |-> s, to |-> Other(s),
     src |-> IF Gpt \/ s = 0 THEN 2 ELSE 1, dst |-> IF Gpt THEN 1 ELSE 0]

GetValidSlotBoots ==
    /\ pc \in {"get_valid_slot", "bcb_cmd"}
    /\ LET s == get_active_slot(Migrated(misc))
       IN  /\ Bootable(s)
           /\ boot_info_save(Migrated(misc), AfterGetValidSlot)
           /\ env' = [env EXCEPT !.slot_suffixes = s]
    /\ UNCHANGED <<flash, copies, part, merge_status, idx, mode, rb, job, world>>

GetValidSlotRollsBack ==
    /\ pc \in {"get_valid_slot", "bcb_cmd"}
    /\ LET s == get_active_slot(Migrated(misc))
       IN  /\ ~Bootable(s)
           /\ Bootable(Other(s))
           /\ rb' = RollbackFrom("valid_slot", s)
    /\ boot_info_save(Migrated(misc), "reason")
    /\ UNCHANGED <<flash, copies, part, merge_status, env, idx, mode, job, world>>

\* With no slot left the metadata is reset.  rollback_failure_handler runs
\* enter_fastboot; where the env has none the boot goes on.
GetValidSlotResets ==
    /\ pc \in {"get_valid_slot", "bcb_cmd"}
    /\ \A s \in Slots : ~Bootable(s)
    /\ boot_info_save(boot_info_reset,
                      IF EnterFastboot THEN "fastboot" ELSE AfterGetValidSlot)
    /\ UNCHANGED <<flash, copies, part, merge_status, ram, world>>

-----------------------------------------------------------------------------
(* The commands a rollback is made of.  The four handlers run them in      *)
(* different orders.                                                       *)

\* The command that follows each command.
Following ==
    CASE rb.kind = "valid_slot" ->
           [reason |-> "check", check |-> "flag", flag |-> "active",
            active |-> "copy", copy |-> "env"][pc]
      [] rb.kind = "update" ->
           [reason |-> "check", check |-> "copy", copy |-> "flag",
            flag |-> "active", active |-> "boot0_env"][pc]
      [] rb.kind = "rescueparty" ->
           [reason |-> "cancel", cancel |-> "copy", copy |-> "flag",
            flag |-> "active", active |-> "env"][pc]
      [] rb.kind = "mismatch" ->
           [copy |-> "cancel", cancel |-> "flag", flag |-> "active",
            active |-> "env"][pc]

\* update_env_part for variables that no decision reads (rollback_reason,
\* dts_to_gpt): it does not write what is already in flash.
SaveUnread(next) ==
    \/ update_env_part(env, flash.val, next)
    \/ /\ flash.ok
       /\ pc' = next
       /\ UNCHANGED <<flash, copies, env, job>>

\* rollback_reason is saved first, except after a mismatch or a refused GPT;
\* check_bootloader saves dts_to_gpt when the image it reads carries a GPT.
\* Nothing lies between the two writes: one stands for both.
rollback_reason ==
    /\ pc = "reason"
    /\ SaveUnread(Following)
    /\ UNCHANGED <<misc, part, merge_status, idx, mode, rb, world>>

\* check_bootloader: with a GPT, boot1 is made equal to the bootloader
\* partition of the slot that is gone back to, unless that cannot be read.
check_bootloader ==
    /\ pc = "check"
    /\ \/ /\ Gpt /\ copies[2] # part[rb.to]
          /\ StartBootWrite(2, part[rb.to], Following)
       \/ /\ ~Gpt \/ copies[2] = part[rb.to] \/ PartFails
          /\ pc' = Following
          /\ UNCHANGED <<flash, copies, env, job>>
    /\ UNCHANGED <<misc, part, merge_status, idx, mode, rb, world>>

\* set_mergestatus_cancel changes its own copy of the message and writes
\* back the buffer it read: what is in flash stays as it was.
set_mergestatus_cancel ==
    /\ pc = "cancel"
    /\ pc' = Following
    /\ UNCHANGED <<storage, ram, world>>

\* write_bootloader_back / write_bootloader: copy src over dst.
write_bootloader_back ==
    /\ pc = "copy"
    /\ StartBootWrite(rb.dst, copies[rb.src], Following)
    /\ UNCHANGED <<misc, part, merge_status, idx, mode, rb, world>>

\* Without a GPT a rollback from the user area names no slot.
set_roll_flag ==
    /\ pc = "flag"
    /\ boot_info_save(IF rb.to \in Slots THEN [misc EXCEPT !.roll_flag = TRUE]
                                         ELSE misc, Following)
    /\ UNCHANGED <<flash, copies, part, merge_status, ram, world>>

set_active_slot ==
    /\ pc = "active"
    /\ IF rb.to \in Slots
       THEN /\ boot_info_save(boot_info_set_active_slot(Validated(misc), rb.to),
                              Following)
            /\ env' = [env EXCEPT !.slot_suffixes = rb.to]
       ELSE pc' = Following /\ UNCHANGED <<misc, env>>
    /\ UNCHANGED <<flash, copies, part, merge_status, idx, mode, rb, job, world>>

RollbackEnv ==
    /\ pc = "env"
    /\ saveenv([env EXCEPT !.update_env = TRUE, !.reboot_status = "reboot_next",
                           !.expect_index = rb.dst], "reboot")
    /\ UNCHANGED <<misc, part, merge_status, idx, mode, rb, world>>

\* do_reboot without an argument.
Reboot ==
    /\ pc = "reboot"
    /\ mode' = "normal"
    /\ rb' = NoRollback
    /\ env' = DefaultEnv
    /\ pc' = "rom"
    /\ UNCHANGED <<storage, idx, job, world>>

-----------------------------------------------------------------------------
(* amlsecurecheck: a pending bootloader update, a rescue-party reboot, and  *)
(* the check that the expected copy was started.                           *)

\* amlbootsta -p -s records the copy in the env and saves it when it changed.
amlsecurecheck ==
    /\ pc = "amlsecurecheck"
    /\ LET e == [env EXCEPT !.bootloaderIndex = idx]
           stored == flash.val.bootloaderIndex = idx
       IN  IF flash.ok /\ stored
           THEN /\ env' = e
                /\ pc' = "ab_update_rollback"
                /\ UNCHANGED <<flash, copies, job>>
           ELSE update_env_part(e, [flash.val EXCEPT !.bootloaderIndex = idx],
                                "ab_update_rollback")
    /\ UNCHANGED <<misc, part, merge_status, idx, mode, rb, world>>

\* A handler that finds no slot-suffixes runs get_valid_slot for it.
CurrentSlot == IF env.slot_suffixes \in Slots THEN env.slot_suffixes
                                              ELSE get_active_slot(misc)

Mismatch == env.reboot_status = "reboot_next" /\ env.expect_index # idx

\* Mutant: the slots of the two copies are swapped.
Bug_RollbackOnMismatch ==
    IF Gpt THEN RollbackFrom("mismatch", CurrentSlot)
    ELSE [kind |-> "mismatch", from |-> CurrentSlot,
          to |-> CASE idx = 1 -> 1 [] idx = 2 -> 0 [] OTHER -> NoSlot,
          src |-> idx, dst |-> 0]

RollbackOnMismatch ==
    IF Gpt THEN RollbackFrom("mismatch", CurrentSlot)
    ELSE [kind |-> "mismatch", from |-> CurrentSlot,
          to |-> CASE idx = 1 -> 0 [] idx = 2 -> 1 [] OTHER -> NoSlot,
          src |-> idx, dst |-> 0]

\* A build that erases the DDR parameters after an update starts once more
\* when the expected copy has been started.
AfterExpectedCopy == {"update_tries"} \cup (IF OtaEraseDdr THEN {"reboot"} ELSE {})

ab_update_rollback ==
    /\ pc = "ab_update_rollback"
    /\ \/ /\ env.write_boot
          /\ pc' = "check_boot1"
          /\ UNCHANGED <<flash, copies, env, job, rb>>
       \/ /\ ~env.write_boot
          /\ mode = "rescueparty"
          /\ rb' = RollbackFrom("rescueparty", CurrentSlot)
          /\ pc' = "reason"
          /\ UNCHANGED <<flash, copies, env, job>>
       \/ /\ ~env.write_boot
          /\ mode # "rescueparty"
          /\ env.expect_index # NoIndex
          /\ Mismatch
          /\ rb' = RollbackOnMismatch
          /\ pc' = "copy"
          /\ UNCHANGED <<flash, copies, env, job>>
       \/ /\ ~env.write_boot
          /\ mode # "rescueparty"
          /\ env.expect_index # NoIndex
          /\ env.reboot_status = "reboot_next"
          /\ env.expect_index = idx
          /\ \E next \in AfterExpectedCopy :
               update_env_part([env EXCEPT !.reboot_status = "reboot_init"],
                               [flash.val EXCEPT !.reboot_status = "reboot_init"],
                               next)
          /\ UNCHANGED rb
       \/ /\ ~env.write_boot
          /\ mode # "rescueparty"
          /\ env.expect_index = NoIndex \/ env.reboot_status # "reboot_next"
          /\ pc' = "update_tries"
          /\ UNCHANGED <<flash, copies, env, job, rb>>
    /\ UNCHANGED <<misc, part, merge_status, idx, mode, world>>

\* check_uboot_state boot1: before boot0 is overwritten, boot1 must hold the
\* bootloader of the slot that was running.
BackupSlot == Other(get_active_slot(misc))

\* Mutant: boot1 is taken to be up to date as soon as the slot has booted.
Bug_MustCheckBoot1 == /\ Gpt
                      /\ misc.slot[BackupSlot].successful_boot
                      /\ misc.slot[BackupSlot].uboot_status = 0

MustCheckBoot1 == /\ Gpt
                  /\ misc.slot[BackupSlot].successful_boot
                  /\ misc.slot[BackupSlot].uboot_status # 2

\* Mutant: only a part that all valid images share is compared.
Bug_BootSame(c, d) == copies[c].good = copies[d].good

BootSame(c, d) == copies[c] = copies[d]

check_boot1 ==
    /\ pc = "check_boot1"
    /\ IF MustCheckBoot1 /\ ~BootSame(1, 2)
       THEN StartBootWrite(2, copies[1], "boot1_checked")
       ELSE pc' = "boot1_checked" /\ UNCHANGED <<flash, copies, env, job>>
    /\ UNCHANGED <<misc, part, merge_status, idx, mode, rb, world>>

boot1_checked ==
    /\ pc = "boot1_checked"
    /\ boot_info_save(IF MustCheckBoot1
                      THEN [misc EXCEPT !.slot[BackupSlot].uboot_status = 2]
                      ELSE misc, "write_boot0")
    /\ UNCHANGED <<flash, copies, part, merge_status, ram, world>>

\* write_bootloader(1): the partition of the active slot into boot0.
write_boot0 ==
    /\ pc = "write_boot0"
    /\ env.slot_suffixes \in Slots
    /\ StartBootWrite(1, part[env.slot_suffixes], "update_gpt")
    /\ UNCHANGED <<misc, part, merge_status, idx, mode, rb, world>>

write_boot0_fails ==
    /\ pc = "write_boot0"
    /\ PartFails \/ env.slot_suffixes \notin Slots
    /\ rb' = RollbackFrom("update", CurrentSlot)
    /\ pc' = "reason"
    /\ UNCHANGED <<storage, env, idx, mode, job, world>>

\* The new image may carry a partition table that moves important
\* partitions, or that cannot be written: the update is refused after boot0
\* has been written.
update_gpt ==
    /\ pc = "update_gpt"
    /\ \/ pc' = "boot0_env" /\ UNCHANGED rb
       \/ /\ Gpt /\ PartFails
          /\ rb' = RollbackFrom("update", CurrentSlot)
          /\ pc' = "reason"
    /\ UNCHANGED <<storage, env, idx, mode, job, world>>

\* Mutant: the request to write boot0 is not taken back.
Bug_Boot0Written(e) == [e EXCEPT !.update_env = TRUE,
                           !.reboot_status = "reboot_next", !.expect_index = 1]

Boot0Written(e) == [e EXCEPT !.write_boot = FALSE, !.update_env = TRUE,
                        !.reboot_status = "reboot_next", !.expect_index = 1]

boot0_env ==
    /\ pc = "boot0_env"
    /\ saveenv(Boot0Written(env), "reboot")
    /\ UNCHANGED <<misc, part, merge_status, idx, mode, rb, world>>

-----------------------------------------------------------------------------
(* update_tries.                                                           *)

\* Two kinds of failed first boot give the slot up at once: a panic for want
\* of space, and a panic or a bootloader reboot while snapshots are unmerged.
NoSpace == env.insufficient_data /\ mode = "kernel_panic"
MergeInterrupted == /\ mode \in {"fastboot", "kernel_panic"}
                    /\ OnTrial(misc)
                    /\ misc.merge_flag

update_tries ==
    /\ pc = "update_tries"
    /\ boot_info_save(CountFirstBoot(CountTry(misc, mode), mode),
                      IF NoSpace \/ MergeInterrupted THEN "forfeit_reason"
                                                     ELSE "backup_boot1")
    /\ UNCHANGED <<flash, copies, part, merge_status, ram, world>>

\* With the reason for want of space insufficient_data is cleared, with the
\* other only the reason is saved.
forfeit_reason ==
    /\ pc = "forfeit_reason"
    /\ \/ /\ NoSpace
          /\ update_env_part([env EXCEPT !.insufficient_data = FALSE],
                             [flash.val EXCEPT !.insufficient_data = FALSE], "forfeit")
       \/ ~NoSpace /\ SaveUnread("forfeit")
    /\ UNCHANGED <<misc, part, merge_status, idx, mode, rb, world>>

forfeit ==
    /\ pc = "forfeit"
    /\ boot_info_save(ForfeitTries(misc), "reboot")
    /\ UNCHANGED <<flash, copies, part, merge_status, ram, world>>

\* Once the slot has booted, boot0 becomes the backup too, unless U-Boot was
\* started from boot1, which means that boot0 is bad.

\* Mutants: a slot still on trial is backed up; boot0 is copied even when
\* U-Boot had to be started from boot1.
Bug_BackupTrial == LET s == get_active_slot(misc)
                   IN  Gpt /\ misc.slot[s].uboot_status # 2 /\ idx # 2
Bug_BackupBadBoot0 == LET s == get_active_slot(misc)
                      IN  /\ Gpt
                          /\ misc.slot[s].successful_boot
                          /\ misc.slot[s].uboot_status # 2

MustBackup == LET s == get_active_slot(misc)
              IN  /\ Gpt
                  /\ misc.slot[s].successful_boot
                  /\ misc.slot[s].uboot_status # 2
                  /\ idx # 2

backup_boot1 ==
    /\ pc = "backup_boot1"
    /\ IF MustBackup /\ ~BootSame(1, 2)
       THEN StartBootWrite(2, copies[1], "boot1_backed_up")
       ELSE pc' = "boot1_backed_up" /\ UNCHANGED <<flash, copies, env, job>>
    /\ UNCHANGED <<misc, part, merge_status, idx, mode, rb, world>>

boot1_backed_up ==
    /\ pc = "boot1_backed_up"
    /\ boot_info_save(IF MustBackup
                      THEN [misc EXCEPT !.slot[get_active_slot(misc)].uboot_status = 2]
                      ELSE misc, "tries_check")
    /\ UNCHANGED <<flash, copies, part, merge_status, ram, world>>

tries_check ==
    /\ pc = "tries_check"
    /\ IF Exhausted(misc)
       THEN boot_info_save(boot_info_reset,
                           IF EnterFastboot THEN "fastboot" ELSE "bcb_cmd")
       ELSE boot_info_save(misc, "bcb_cmd")
    /\ UNCHANGED <<flash, copies, part, merge_status, ram, world>>

-----------------------------------------------------------------------------
(* The rest of preboot, and storeboot.                                     *)

switch_bootmode ==
    /\ pc = "switch_bootmode"
    /\ pc' = CASE mode = "fastboot" -> "fastboot"
               [] mode = "factory_reset" -> "recovery"
               [] OTHER -> "storeboot"
    /\ UNCHANGED <<storage, ram, world>>

\* imgread and bootm of boot_part: a slot that does not work may fail to
\* load, or start and fail later.
storeboot ==
    /\ pc = "storeboot"
    /\ \/ env.slot_suffixes \in Slots /\ pc' = "kernel"
       \/ /\ env.slot_suffixes \in Slots => ~osOk[env.slot_suffixes]
          /\ pc' = "check_ab"
    /\ UNCHANGED <<storage, ram, world>>

\* do_CheckABState: try again while a slot is on trial, else run update,
\* which ends in recovery.
check_ab ==
    /\ pc = "check_ab"
    /\ LET info == Validated(misc)
           s == get_active_slot(info)
           proved == slot_is_bootable(info, s) /\ info.slot[s].successful_boot
       IN  boot_info_save(info, IF proved \/ NoneBootable(info)
                                THEN "recovery" ELSE "reboot")
    /\ UNCHANGED <<flash, copies, part, merge_status, ram, world>>

-----------------------------------------------------------------------------
(* Outside U-Boot: Android and its boot control HAL, the user, the power.  *)

\* How a running system leaves for the next power-on.
Leave(m) ==
    /\ mode' = m
    /\ env' = DefaultEnv
    /\ pc' = "rom"

Running == env.slot_suffixes

Proved(slot) ==
    [slot EXCEPT !.successful_boot = TRUE,
                 !.uboot_status = IF slot.successful_boot THEN slot.uboot_status
                                                          ELSE 1]
Unproved(slot) == [slot EXCEPT !.successful_boot = FALSE, !.uboot_status = 0]

\* The HAL marks the first successful boot of a slot; the snapshots of the
\* update are merged after it.
MarkBootSuccessful ==
    /\ pc = "kernel"
    /\ osOk[Running]
    /\ ~misc.slot[Running].successful_boot \/ misc.firstboot
    /\ misc' = [misc EXCEPT !.slot[Running] = Proved(misc.slot[Running]),
                            !.merge_flag = FALSE, !.firstboot = FALSE]
    /\ merge_status' = "NONE"
    /\ proven' = proven \cup {copies[idx].gen}
    /\ UNCHANGED <<flash, copies, part, pc, ram, osOk, gen, crashes>>

\* The update engine makes the other slot unbootable before it writes it...
BeginUpdate ==
    /\ pc = "kernel"
    /\ osOk[Running]
    /\ misc.slot[Running].successful_boot /\ ~misc.firstboot
    /\ get_active_slot(misc) = Running
    /\ gen < MaxGen
    /\ part[Other(Running)].gen # 0 \/ misc.slot[Other(Running)].tries_remaining # 0
    /\ part' = [part EXCEPT ![Other(Running)] = Torn]
    /\ osOk' = [osOk EXCEPT ![Other(Running)] = FALSE]
    /\ misc' = [misc EXCEPT !.slot[Other(Running)] =
                  [priority |-> 0, tries_remaining |-> 0,
                   successful_boot |-> FALSE, uboot_status |-> 0]]
    /\ UNCHANGED <<flash, copies, merge_status, pc, ram, gen, proven, crashes>>

\* ... and makes it active, with the bootloader update pending, when the
\* whole update is in place.  Without a GPT the HAL writes the copies itself.
FinishUpdate ==
    /\ pc = "kernel"
    /\ osOk[Running]
    /\ misc.slot[Running].successful_boot /\ ~misc.firstboot
    /\ get_active_slot(misc) = Running
    /\ gen < MaxGen
    /\ part[Other(Running)] = Torn
    /\ LET t == Other(Running)
           info == boot_info_set_active_slot(misc, t)
       IN  \E good \in {TRUE, ~BadImages}, works \in BOOLEAN :
             LET img == [gen |-> gen + 1, good |-> good]
             IN  /\ part' = [part EXCEPT ![t] = img]
                 /\ osOk' = [osOk EXCEPT ![t] = works]
                 /\ copies' = IF Gpt THEN copies
                              ELSE [copies EXCEPT ![0] = img, ![1 + t] = img]
                 /\ misc' = [info EXCEPT !.slot[t] = Unproved(info.slot[t]),
                                         !.roll_flag = FALSE,
                                         !.merge_flag = TRUE]
    /\ flash' = [ok |-> TRUE,
                 val |-> IF Gpt THEN [LoadedEnv EXCEPT !.write_boot = TRUE]
                         ELSE [LoadedEnv EXCEPT !.update_env = TRUE,
                                                !.reboot_status = "reboot_next",
                                                !.expect_index = 0]]
    /\ gen' = gen + 1
    /\ merge_status' = "SNAPSHOTTED"
    /\ Leave("normal")
    /\ UNCHANGED <<idx, rb, job, proven, crashes>>

\* A slot that does not work panics, for want of space or not, or hangs
\* until the watchdog fires.
AndroidFails ==
    /\ pc = "kernel"
    /\ ~osOk[Running]
    /\ \/ Leave("kernel_panic") /\ UNCHANGED flash
       \/ Leave("normal") /\ UNCHANGED flash
       \/ /\ Leave("kernel_panic")
          /\ misc.merge_flag
          /\ flash' = [ok |-> TRUE,
                       val |-> [LoadedEnv EXCEPT !.insufficient_data = TRUE]]
    /\ UNCHANGED <<misc, copies, part, merge_status, idx, rb, job, world>>

\* Android asks for a rescue-party reboot only when it keeps crashing.
UserReboot ==
    /\ pc = "kernel"
    /\ osOk[Running]
    /\ \E m \in Modes \ {"rescueparty"} : Leave(m)
    /\ UNCHANGED <<storage, idx, rb, job, world>>

RescueParty ==
    /\ pc = "kernel"
    /\ ~osOk[Running] \/ LateCrash
    /\ "rescueparty" \in Modes
    /\ Leave("rescueparty")
    /\ UNCHANGED <<storage, idx, rb, job, world>>

\* A user, or recovery itself, ends fastboot and recovery with a reboot.
Attended ==
    /\ pc \in {"fastboot", "recovery"}
    /\ Leave("normal")
    /\ UNCHANGED <<storage, idx, rb, job, world>>

PowerCut ==
    /\ pc \notin {"rom", "bricked"}
    /\ crashes < MaxCrash
    /\ crashes' = crashes + 1
    /\ rb' = NoRollback
    /\ job' = Idle
    /\ Leave("normal")
    /\ UNCHANGED <<storage, idx, osOk, gen, proven>>

-----------------------------------------------------------------------------
Uninitialised == [boot_info_reset EXCEPT !.magic = "none"]

\* Metadata left by a bootloader that knew only normal A/B.
NormalAB ==
    [magic : {"ab"},
     slot : {f \in [Slots -> [priority : {14, 15}, tries_remaining : {0, 1},
                              successful_boot : BOOLEAN, uboot_status : {0}]] :
               /\ f[0].priority # f[1].priority
               /\ \E s \in Slots : f[s].successful_boot},
     roll_flag : {FALSE}, merge_flag : {FALSE}, firstboot : {FALSE},
     boot_tries_remaining : {0}]

\* A device as it leaves the factory, or one whose last bootloader was an
\* older, normal A/B one.  With a GPT the user area holds no bootloader.
Init ==
    /\ misc \in {Uninitialised, boot_info_reset} \cup (IF Legacy THEN NormalAB ELSE {})
    /\ flash = [ok |-> TRUE, val |-> DefaultEnv]
    /\ copies = [c \in Copies |-> IF Gpt /\ c = 0 THEN Torn ELSE FactoryImage]
    /\ part = [s \in Slots |-> FactoryImage]
    /\ merge_status = "NONE"
    /\ pc = "rom"
    /\ env = DefaultEnv
    /\ idx = 0
    /\ mode = "normal"
    /\ rb = NoRollback
    /\ job = Idle
    /\ osOk = [s \in Slots |-> TRUE]
    /\ gen = 1
    /\ proven = {1}
    /\ crashes = 0

RollbackStep == \/ rollback_reason
                \/ check_bootloader \/ set_mergestatus_cancel
                \/ write_bootloader_back \/ set_roll_flag
                \/ set_active_slot \/ RollbackEnv

UpdateStep == \/ check_boot1 \/ boot1_checked \/ write_boot0
              \/ write_boot0_fails \/ update_gpt \/ boot0_env

TriesStep == \/ update_tries \/ forfeit_reason \/ forfeit
             \/ backup_boot1 \/ boot1_backed_up \/ tries_check

UBoot == \/ BootRom \/ BootRomFails \/ aml_update_env
         \/ GetValidSlotBoots \/ GetValidSlotRollsBack \/ GetValidSlotResets
         \/ RollbackStep \/ Reboot
         \/ amlsecurecheck \/ ab_update_rollback \/ UpdateStep
         \/ TriesStep
         \/ switch_bootmode \/ storeboot \/ check_ab
         \/ FinishWrite

Outside == \/ MarkBootSuccessful \/ BeginUpdate \/ FinishUpdate
           \/ AndroidFails \/ UserReboot \/ RescueParty \/ Attended
           \/ PowerCut

Next == UBoot \/ Outside

Spec == Init /\ [][Next]_vars

\* U-Boot is a program that runs as long as there is power, and a system that
\* does not work panics or is reset by the watchdog.  Nothing obliges anyone
\* to reboot a working system, to update it, or to attend to the device.
FairSpec == Spec /\ WF_vars(UBoot) /\ WF_vars(AndroidFails)
=============================================================================
