------------------------------- MODULE AvbBoot -------------------------------
(***************************************************************************)
(* One eMMC device with the A/B metadata of cmd_bootctl_avb.c (AvbABData), *)
(* from power-on to the system and back: slot selection, the migration of  *)
(* metadata left by a virtual A/B bootloader, the check that the expected  *)
(* bootloader copy was started (bootloader_status.c), rollback protection  *)
(* (bootm.c), and power cuts between the writes to flash.                  *)
(*                                                                         *)
(* Such a device has no GPT: the ROM starts the bootloader in the user     *)
(* area, or else the copy kept for slot a (boot0) or slot b (boot1), and   *)
(* U-Boot only ever writes the user area.                                  *)
(*                                                                         *)
(* pc names the point U-Boot has reached.  The metadata, the environment   *)
(* and the two-copy device tree area are written at once; the user area in *)
(* two steps, unusable in between.  A saveenv always comes with            *)
(* update_env = 1, or before slot-suffixes is set, so that slot-suffixes   *)
(* is never found in flash.                                                *)
(*                                                                         *)
(* Left out: rollback_reason and rollback_flag, which no decision reads;   *)
(* part_changed; the merge status, which set_mergestatus_cancel leaves as  *)
(* it was; the CRC, which is computed and never checked; read errors; the  *)
(* request write_boot = 1, which nothing in the repository makes (the env  *)
(* files set it to 0): without a GPT the update engine writes the user     *)
(* area itself.                                                            *)
(***************************************************************************)
EXTENDS Integers

CONSTANTS AVB_AB_MAX_TRIES_REMAINING,   \* tries of a slot made active (4 in the code)
          Builds,        \* whether bcb_cmd runs before amlsecurecheck too
          LegacyBuilds,  \* the builds that may find virtual A/B metadata
          OtaEraseDdr,   \* a build may have AML_OTA_ERASE_DDR_PARAMETER
          SlotAProven,   \* such metadata is only found with slot a proven
          MaxGen,        \* bound: number of images ever built
          MaxCuts        \* bound: number of power cuts

ASSUME AvbBootAssumption ==
    /\ AVB_AB_MAX_TRIES_REMAINING \in 1..255
    /\ Builds \subseteq BOOLEAN /\ LegacyBuilds \subseteq Builds
    /\ OtaEraseDdr \in BOOLEAN /\ SlotAProven \in BOOLEAN
    /\ MaxGen \in Nat \ {0}
    /\ MaxCuts \in Nat

AVB_AB_MAX_PRIORITY == 15
Slots == {0, 1}
Other(s) == 1 - s
NoSlot == -1

-----------------------------------------------------------------------------
(* The metadata.  magic tells which format the bytes in misc have; the     *)
(* slots of bootloader_control are read through the same fields.           *)

AvbABSlotData == [priority : 0..AVB_AB_MAX_PRIORITY, tries_remaining : 0..255,
                  successful_boot : BOOLEAN]
AvbABData == [magic : {"avb", "vab", "none"}, slots : [Slots -> AvbABSlotData],
              roll_flag : BOOLEAN]

boot_info_validate(info) == info.magic = "avb"
boot_info_validate_VAB(info) == info.magic = "vab"

\* Mutant: both slots start as if they had booted.
Bug_boot_info_reset ==
    [magic |-> "avb",
     slots |-> [s \in Slots |->
                  [priority |-> AVB_AB_MAX_PRIORITY - s,
                   tries_remaining |-> AVB_AB_MAX_TRIES_REMAINING,
                   successful_boot |-> TRUE]],
     roll_flag |-> FALSE]

boot_info_reset ==
    [magic |-> "avb",
     slots |-> [s \in Slots |->
                  [priority |-> AVB_AB_MAX_PRIORITY - s,
                   tries_remaining |-> AVB_AB_MAX_TRIES_REMAINING,
                   successful_boot |-> s = 0]],
     roll_flag |-> FALSE]

slot_is_bootable_VAB(info, s) == info.slots[s].tries_remaining # 0

slot_is_bootable(info, s) ==
    /\ info.slots[s].priority > 0
    /\ info.slots[s].successful_boot \/ info.slots[s].tries_remaining > 0

get_active_slot_VAB(info) ==
    CASE info.slots[0].priority > info.slots[1].priority -> 0
      [] info.slots[0].priority < info.slots[1].priority -> 1
      [] OTHER -> IF info.slots[0].successful_boot THEN 0 ELSE 1

\* On equal priorities the active slot is b, except for set_successful_boot,
\* which takes a.
get_active_slot(info) ==
    IF info.slots[0].priority > info.slots[1].priority THEN 0 ELSE 1

\* Mutant: rollback protection does not wait for the slot to prove itself.
Bug_set_successful_boot(info) == boot_info_validate(info)

set_successful_boot(info) ==
    LET s == IF info.slots[1].priority > info.slots[0].priority THEN 1 ELSE 0
    IN  boot_info_validate(info) /\ info.slots[s].successful_boot

\* Mutant: the other slot keeps its priority, and the two may be equal.
Bug_boot_info_set_active_slot(info, s) ==
    [info EXCEPT !.slots[s].priority = AVB_AB_MAX_PRIORITY,
                 !.slots[s].tries_remaining = AVB_AB_MAX_TRIES_REMAINING]

\* The successful bit is left as it was.
boot_info_set_active_slot(info, s) ==
    [info EXCEPT !.slots =
       [t \in Slots |->
          IF t = s
          THEN [info.slots[t] EXCEPT
                  !.priority = AVB_AB_MAX_PRIORITY,
                  !.tries_remaining = AVB_AB_MAX_TRIES_REMAINING]
          ELSE [info.slots[t] EXCEPT
                  !.priority = IF @ = AVB_AB_MAX_PRIORITY THEN @ - 1 ELSE @]]]

Validated(info) == IF boot_info_validate(info) THEN info ELSE boot_info_reset

\* Mutant: the migration is only a reset.
Bug_Migrated(info) == Validated(info)

\* do_GetValidSlot takes over the active slot and roll_flag of virtual A/B
\* metadata ("rollback from R"), and nothing else.
Migrated(info) ==
    IF boot_info_validate_VAB(info)
    THEN [boot_info_set_active_slot(boot_info_reset, get_active_slot_VAB(info))
            EXCEPT !.roll_flag = info.roll_flag]
    ELSE Validated(info)

\* Mutant: a slot that is no longer bootable is charged too.
Bug_CountTry(info) ==
    LET s == get_active_slot(info)
    IN  IF ~info.slots[s].successful_boot
        THEN [info EXCEPT !.slots[s].tries_remaining = @ - 1]
        ELSE info

\* Mutant: the tries of a slot on trial are not used up.
Bug_FreeTries(info) == info

CountTry(info) ==
    LET s == get_active_slot(info)
    IN  IF slot_is_bootable(info, s) /\ ~info.slots[s].successful_boot
        THEN [info EXCEPT !.slots[s].tries_remaining = @ - 1]
        ELSE info

-----------------------------------------------------------------------------
\* A bootloader copy: the build it came from, and whether the ROM accepts it.
Images == [gen : 0..MaxGen, good : BOOLEAN]
Torn == [gen |-> 0, good |-> FALSE]
FactoryImage == [gen |-> 1, good |-> TRUE]
Copies == 0..2      \* 0 user area, 1 boot0, 2 boot1

\* The saved env: reboot_status = reboot_next (expect_index is then 0),
\* update_env and update_dt.
Env == [reboot_next : BOOLEAN, update_env : BOOLEAN, update_dt : BOOLEAN]
DefaultEnv == [reboot_next |-> FALSE, update_env |-> FALSE, update_dt |-> FALSE]

PC == {"rom", "bricked", "aml_update_env", "bcb_early", "update_dt",
       "securecheck", "rescue_slot", "rescue", "update_tries", "bcb_cmd",
       "storeboot", "kernel", "recovery",
       "copy", "writing", "flag", "active", "active_dtb", "env",
       "update_dt_env", "reboot"}

VARIABLES
    misc,       \* the metadata in the misc partition
    flash,      \* the saved env
    copies,     \* the bootloader copies
    dtb,        \* the device tree area: the build its content came from
    otp,        \* the rollback index burnt into the chip
    pc,
    slot,       \* slot-suffixes (and active_slot, boot_part) in RAM
    idx,        \* the copy the ROM started
    mode,       \* the reboot reason
    rb,         \* the rollback in progress
    early,      \* the build: bcb_cmd runs before amlsecurecheck
    shipped,    \* the bootloader that came with the system of each slot
    index,      \* the rollback index of the system of each slot
    osOk,       \* whether the system of each slot works
    booted,     \* slots whose present system has booted successfully (history)
    gen,        \* the last image built
    cuts        \* power cuts so far

storage == <<misc, flash, copies, dtb, otp>>
ram == <<slot, idx, mode, rb>>
systems == <<shipped, index, osOk, booted, gen>>
world == <<early, systems, cuts>>
vars == <<storage, pc, ram, world>>

NoRollback == [to |-> NoSlot, src |-> 0]

boot_info_save(info, next) == misc' = info /\ pc' = next

-----------------------------------------------------------------------------
(* Power-on.                                                               *)

BootRom ==
    /\ pc = "rom"
    /\ \E c \in Copies :
         /\ copies[c].good
         /\ \A d \in Copies : d < c => ~copies[d].good
         /\ idx' = c
    /\ pc' = "aml_update_env"
    /\ UNCHANGED <<storage, slot, mode, rb, world>>

BootRomFails ==
    /\ pc = "rom"
    /\ \A c \in Copies : ~copies[c].good
    /\ pc' = "bricked"
    /\ UNCHANGED <<storage, ram, world>>

\* do_update_uboot_env: of the three variables defenv_reserv keeps only
\* reboot_status.  The common board code runs bcb_cmd only after
\* amlsecurecheck, unless it is built for virtual A/B; a9_skt.c always runs
\* it before.
aml_update_env ==
    /\ pc = "aml_update_env"
    /\ flash' = IF flash.update_env
                THEN [DefaultEnv EXCEPT !.reboot_next = flash.reboot_next]
                ELSE flash
    /\ pc' = IF early THEN "bcb_early" ELSE "update_dt"
    /\ UNCHANGED <<misc, copies, dtb, otp, ram, world>>

-----------------------------------------------------------------------------
(* get_valid_slot: run by bcb_cmd, and by a handler that finds no          *)
(* slot-suffixes.                                                          *)

AfterGetValidSlot == [bcb_early |-> "update_dt", rescue_slot |-> "rescue",
                      bcb_cmd |-> "storeboot"]

\* Virtual A/B metadata is judged before the migration hands out new tries.
Bootable(s) == IF boot_info_validate_VAB(misc)
               THEN slot_is_bootable_VAB(misc, s)
               ELSE slot_is_bootable(Validated(misc), s)

\* Mutant: the copies of the two slots are swapped.
Bug_RollbackFrom(s) == [to |-> Other(s), src |-> IF s = 0 THEN 1 ELSE 2]

\* The copy kept for the other slot goes back to the user area.
RollbackFrom(s) == [to |-> Other(s), src |-> IF s = 0 THEN 2 ELSE 1]

GetValidSlotBoots ==
    /\ pc \in DOMAIN AfterGetValidSlot
    /\ LET s == get_active_slot(Migrated(misc))
       IN  Bootable(s) /\ slot' = s
    /\ boot_info_save(Migrated(misc), AfterGetValidSlot[pc])
    /\ UNCHANGED <<flash, copies, dtb, otp, idx, mode, rb, world>>

\* With no slot left rollback_failure_handler runs update, which ends in
\* recovery.  Only metadata written by hand gets there: an update is only made
\* while a slot is proven (KeepsPromise).
GetValidSlotFails ==
    /\ pc \in DOMAIN AfterGetValidSlot
    /\ LET s == get_active_slot(Migrated(misc))
       IN  /\ ~Bootable(s)
           /\ rb' = RollbackFrom(s)
           /\ boot_info_save(Migrated(misc),
                             IF Bootable(Other(s)) THEN "copy" ELSE "recovery")
    /\ UNCHANGED <<flash, copies, dtb, otp, slot, idx, mode, world>>

-----------------------------------------------------------------------------
(* A rollback: every handler runs the same commands in the same order.     *)

StartCopy ==
    /\ pc = "copy"
    /\ copies' = [copies EXCEPT ![0] = Torn]
    /\ pc' = "writing"
    /\ UNCHANGED <<misc, flash, dtb, otp, ram, world>>

FinishCopy ==
    /\ pc = "writing"
    /\ copies' = [copies EXCEPT ![0] = copies[rb.src]]
    /\ pc' = "flag"
    /\ UNCHANGED <<misc, flash, dtb, otp, ram, world>>

\* set_roll_flag changes no metadata that is not valid.
set_roll_flag ==
    /\ pc = "flag"
    /\ boot_info_save(IF boot_info_validate(misc)
                      THEN [misc EXCEPT !.roll_flag = TRUE] ELSE misc, "active")
    /\ UNCHANGED <<flash, copies, dtb, otp, ram, world>>

\* Mutant: boot_part still names the slot that is left.
Bug_DeviceTreeOf(s) == shipped[Other(s)].gen

\* The device tree in boot_part of slot s.
DeviceTreeOf(s) == shipped[s].gen

\* In a rollback the device tree goes back too, once the metadata is saved.
set_active_slot ==
    /\ pc = "active"
    /\ LET info == boot_info_set_active_slot(Validated(misc), rb.to)
       IN  boot_info_save(info, IF info.roll_flag THEN "active_dtb" ELSE "env")
    /\ slot' = rb.to
    /\ UNCHANGED <<flash, copies, dtb, otp, idx, mode, rb, world>>

restore_dtb ==
    /\ pc = "active_dtb"
    /\ dtb' = DeviceTreeOf(slot)
    /\ pc' = "env"
    /\ UNCHANGED <<misc, flash, copies, otp, ram, world>>

RollbackEnv ==
    /\ pc = "env"
    /\ flash' = [flash EXCEPT !.update_env = TRUE, !.reboot_next = TRUE]
    /\ mode' = "normal"
    /\ slot' = NoSlot
    /\ rb' = NoRollback
    /\ pc' = "rom"
    /\ UNCHANGED <<misc, copies, dtb, otp, idx, world>>

-----------------------------------------------------------------------------
(* amlsecurecheck and update_tries.                                        *)

\* do_UpdateDt.  Before the first get_valid_slot boot_part names no partition
\* of an A/B device: nothing is read, and what is in RAM, the old device
\* tree, is written back.
update_dt ==
    /\ pc = "update_dt"
    /\ dtb' = IF flash.update_dt /\ slot \in Slots THEN DeviceTreeOf(slot) ELSE dtb
    /\ pc' = IF flash.update_dt THEN "update_dt_env" ELSE "securecheck"
    /\ UNCHANGED <<misc, flash, copies, otp, ram, world>>

\* The request is taken back when the device tree has been written.
update_dt_done ==
    /\ pc = "update_dt_env"
    /\ flash' = [flash EXCEPT !.update_dt = FALSE]
    /\ pc' = "securecheck"
    /\ UNCHANGED <<misc, copies, dtb, otp, ram, world>>

\* Mutant: the slots of the two copies are swapped.
Bug_RollbackOnMismatch == [to |-> IF idx = 1 THEN 1 ELSE 0, src |-> idx]

\* The ROM fell back on a copy: its slot is the one to go back to.
RollbackOnMismatch == [to |-> IF idx = 1 THEN 0 ELSE 1, src |-> idx]

ab_update_rollback ==
    /\ pc \in {"securecheck", "rescue"}
    /\ \/ /\ mode = "rescueparty"
          /\ slot \in Slots
          /\ rb' = RollbackFrom(slot)
          /\ pc' = "copy"
          /\ UNCHANGED flash
       \/ /\ mode = "rescueparty"
          /\ slot \notin Slots
          /\ pc' = "rescue_slot"
          /\ UNCHANGED <<flash, rb>>
       \/ /\ mode # "rescueparty"
          /\ flash.reboot_next
          /\ idx # 0
          /\ rb' = RollbackOnMismatch
          /\ pc' = "copy"
          /\ UNCHANGED flash
       \/ /\ mode # "rescueparty"
          /\ flash.reboot_next => idx = 0
          /\ flash' = [flash EXCEPT !.reboot_next = FALSE]
          /\ \/ pc' = "update_tries"
             \/ OtaEraseDdr /\ flash.reboot_next /\ pc' = "reboot"
          /\ UNCHANGED rb
    /\ UNCHANGED <<misc, copies, dtb, otp, slot, idx, mode, world>>

\* A build that erases the DDR parameters after an update starts once more
\* when the expected copy has been started.
RebootAfterErase ==
    /\ pc = "reboot"
    /\ mode' = "normal"
    /\ slot' = NoSlot
    /\ pc' = "rom"
    /\ UNCHANGED <<storage, idx, rb, world>>

\* Unlike get_valid_slot, update_tries resets metadata it does not know.
update_tries ==
    /\ pc = "update_tries"
    /\ boot_info_save(CountTry(Validated(misc)), "bcb_cmd")
    /\ UNCHANGED <<flash, copies, dtb, otp, ram, world>>

-----------------------------------------------------------------------------
(* storeboot: imgread, avb_verify and bootm of the slot.                   *)

\* The burnt index follows the system once its slot has proven itself.
BootSlot ==
    /\ pc = "storeboot"
    /\ index[slot] >= otp
    /\ otp' = IF set_successful_boot(misc) THEN index[slot] ELSE otp
    /\ pc' = "kernel"
    /\ UNCHANGED <<misc, flash, copies, dtb, ram, world>>

\* AVB_SLOT_VERIFY_RESULT_ERROR_ROLLBACK_INDEX: update_rollback.
RollbackIndexRejected ==
    /\ pc = "storeboot"
    /\ index[slot] < otp
    /\ rb' = RollbackFrom(slot)
    /\ pc' = "copy"
    /\ UNCHANGED <<storage, slot, idx, mode, world>>

\* A system that cannot be loaded: "try upgrade as booting failure".
BootFails ==
    /\ pc = "storeboot"
    /\ ~osOk[slot]
    /\ pc' = "recovery"
    /\ UNCHANGED <<storage, ram, world>>

-----------------------------------------------------------------------------
(* Outside U-Boot: the system and its boot control HAL, the user, the power. *)

Leave(m) ==
    /\ mode' = m
    /\ slot' = NoSlot
    /\ pc' = "rom"

MarkBootSuccessful ==
    /\ pc = "kernel"
    /\ osOk[slot]
    /\ ~misc.slots[slot].successful_boot
    /\ misc' = [misc EXCEPT !.slots[slot].successful_boot = TRUE]
    /\ booted' = booted \cup {slot}
    /\ UNCHANGED <<flash, copies, dtb, otp, pc, ram, early, shipped, index,
                   osOk, gen, cuts>>

CanUpdate == /\ pc = "kernel"
             /\ osOk[slot]
             /\ misc.slots[slot].successful_boot
             /\ get_active_slot(misc) = slot
             /\ gen < MaxGen

Unbootable == [priority |-> 0, tries_remaining |-> 0, successful_boot |-> FALSE]

\* The other slot is made unbootable before it is written ...
BeginUpdate ==
    /\ CanUpdate
    /\ misc.slots[Other(slot)] # Unbootable
    /\ misc' = [misc EXCEPT !.slots[Other(slot)] = Unbootable]
    /\ booted' = booted \ {Other(slot)}
    /\ osOk' = [osOk EXCEPT ![Other(slot)] = FALSE]
    /\ UNCHANGED <<flash, copies, dtb, otp, pc, ram, early, shipped, index,
                   gen, cuts>>

\* ... and made active when it is complete, with its bootloader in the user
\* area and in the copy of its slot.
FinishUpdate ==
    /\ CanUpdate
    /\ misc.slots[Other(slot)] = Unbootable
    /\ LET t == Other(slot)
       IN  \E good \in BOOLEAN, works \in BOOLEAN, i \in 0..1,
              dt \in BOOLEAN, all \in BOOLEAN :
             LET img == [gen |-> gen + 1, good |-> good]
             IN  /\ shipped' = [shipped EXCEPT ![t] = img]
                 /\ copies' = [copies EXCEPT ![0] = img, ![1 + t] = img]
                 /\ index' = [index EXCEPT ![t] = i]
                 /\ osOk' = [osOk EXCEPT ![t] = works]
                 /\ flash' = [reboot_next |-> TRUE, update_env |-> all,
                              update_dt |-> dt]
                 /\ misc' = [boot_info_set_active_slot(misc, t)
                              EXCEPT !.roll_flag = FALSE]
    /\ gen' = gen + 1
    /\ Leave("normal")
    /\ UNCHANGED <<dtb, otp, idx, rb, early, booted, cuts>>

\* A system that does not work panics or hangs until the watchdog fires.
SystemFails ==
    /\ pc = "kernel"
    /\ ~osOk[slot]
    /\ Leave("normal")
    /\ UNCHANGED <<storage, idx, rb, world>>

RescueParty ==
    /\ pc = "kernel"
    /\ ~osOk[slot]
    /\ Leave("rescueparty")
    /\ UNCHANGED <<storage, idx, rb, world>>

\* A user reboots a working system, or the device from recovery.
Reboot ==
    /\ \/ pc = "kernel" /\ osOk[slot]
       \/ pc = "recovery"
    /\ Leave("normal")
    /\ UNCHANGED <<storage, idx, rb, world>>

PowerCut ==
    /\ pc \notin {"rom", "bricked"}
    /\ cuts < MaxCuts
    /\ cuts' = cuts + 1
    /\ rb' = NoRollback
    /\ Leave("normal")
    /\ UNCHANGED <<storage, idx, early, systems>>

-----------------------------------------------------------------------------
\* An erased misc, or the metadata of a virtual A/B bootloader with one slot
\* active and one that may be tried.
Uninitialised == [boot_info_reset EXCEPT !.magic = "none"]

VirtualAB ==
    [magic : {"vab"},
     slots : {f \in [Slots -> [priority : {7, 14, 15}, tries_remaining : {0, 1},
                               successful_boot : BOOLEAN]] :
                /\ {f[0].priority, f[1].priority} \in {{7, 15}, {14, 15}}
                /\ \E s \in Slots : f[s].tries_remaining # 0 /\ f[s].successful_boot
                /\ SlotAProven => f[0].tries_remaining # 0 /\ f[0].successful_boot},
     roll_flag : {FALSE}]

Init ==
    /\ early \in Builds
    /\ misc \in {Uninitialised} \cup (IF early \in LegacyBuilds THEN VirtualAB ELSE {})
    /\ booted = IF boot_info_validate_VAB(misc)
                THEN {s \in Slots : misc.slots[s].successful_boot} ELSE {0}
    /\ osOk \in {f \in [Slots -> BOOLEAN] : \A s \in booted : f[s]}
    /\ flash = DefaultEnv
    /\ copies = [c \in Copies |-> FactoryImage]
    /\ shipped = [s \in Slots |-> FactoryImage]
    /\ dtb = 1
    /\ otp = 0
    /\ index = [s \in Slots |-> 0]
    /\ pc = "rom"
    /\ slot = NoSlot
    /\ idx = 0
    /\ mode = "normal"
    /\ rb = NoRollback
    /\ gen = 1
    /\ cuts = 0

GetValidSlot == GetValidSlotBoots \/ GetValidSlotFails

Rollback == \/ StartCopy \/ FinishCopy \/ set_roll_flag \/ set_active_slot
            \/ restore_dtb \/ RollbackEnv

Storeboot == BootSlot \/ RollbackIndexRejected \/ BootFails

UBoot == \/ BootRom \/ BootRomFails \/ aml_update_env
         \/ GetValidSlot \/ Rollback
         \/ update_dt \/ update_dt_done
         \/ ab_update_rollback \/ RebootAfterErase \/ update_tries
         \/ Storeboot

Outside == \/ MarkBootSuccessful \/ BeginUpdate \/ FinishUpdate
           \/ SystemFails \/ RescueParty \/ Reboot \/ PowerCut

Next == UBoot \/ Outside

Spec == Init /\ [][Next]_vars

\* U-Boot runs as long as there is power, and a system that does not work
\* panics or is reset by the watchdog.
FairSpec == Spec /\ WF_vars(UBoot) /\ WF_vars(SystemFails)
=============================================================================
