------------------------------ MODULE BootCtrl ------------------------------
(***************************************************************************)
(* The slot metadata of virtual A/B (struct bootloader_control in the misc *)
(* partition) and the pure functions of cmd/amlogic/cmd_bootctl_vab.c that *)
(* read and change it.  No state lives here: AbBoot holds the metadata in  *)
(* a variable and its actions apply these operators.                       *)
(*                                                                         *)
(* Left out: slot_suffix, version, nb_slot (always 2 here) and             *)
(* retest_times, which nothing tests; verity_corrupted, which is written   *)
(* but never read; slots 2 and 3, which are reset and never used; the      *)
(* CRC32, which boot_info_save computes and boot_info_load never checks.   *)
(***************************************************************************)
EXTENDS Integers

CONSTANTS BOOT_ATTEMPTS,    \* tries of a factory-fresh slot (4 in the code)
          kActiveTries      \* tries given to a slot made active (6 in the code)

\* Both are stored in the 3-bit field tries_remaining.
ASSUME TriesAssumption == /\ BOOT_ATTEMPTS \in 1..7
                          /\ kActiveTries \in 1..7

Slots == {0, 1}
Other(s) == 1 - s

kActivePriority == 15

\* uboot_status: 0 init after ota; 1 slot boot success; 2 boot1 is up to date.
SlotMeta == [priority : 0..15, tries_remaining : 0..7,
             successful_boot : BOOLEAN, uboot_status : 0..3]

\* magic says which of the two formats the bytes in misc are: "vab" is
\* bootloader_control, "ab" the AvbABData of normal A/B (its two slots are
\* read through the same fields), "none" neither.  merge_flag is whether the
\* byte holds SNAPSHOTTED, the only value that is tested.
BootloaderControl ==
    [magic : {"vab", "ab", "none"}, slot : [Slots -> SlotMeta],
     roll_flag : BOOLEAN, merge_flag : BOOLEAN,
     firstboot : BOOLEAN, boot_tries_remaining : 0..255]

boot_info_validate(info) == info.magic = "vab"
boot_info_validate_normalAB(info) == info.magic = "ab"

boot_info_reset ==
    [magic |-> "vab",
     slot |-> [s \in Slots |->
                 IF s = 0
                 THEN [priority |-> kActivePriority,
                       tries_remaining |-> BOOT_ATTEMPTS,
                       successful_boot |-> TRUE, uboot_status |-> 1]
                 ELSE [priority |-> 7, tries_remaining |-> 0,
                       successful_boot |-> FALSE, uboot_status |-> 0]],
     roll_flag |-> FALSE, merge_flag |-> FALSE,
     firstboot |-> TRUE, boot_tries_remaining |-> BOOT_ATTEMPTS]

\* Every command that finds no valid metadata resets it before it goes on.
Validated(info) == IF boot_info_validate(info) THEN info ELSE boot_info_reset

slot_is_bootable(info, s) == info.slot[s].tries_remaining # 0

slot_is_bootable_normalAB(info, s) ==
    /\ info.slot[s].priority > 0
    /\ info.slot[s].successful_boot \/ info.slot[s].tries_remaining > 0

\* On equal priorities slot 0 wins only when it has booted successfully.
get_active_slot(info) ==
    CASE info.slot[0].priority > info.slot[1].priority -> 0
      [] info.slot[0].priority < info.slot[1].priority -> 1
      [] OTHER -> IF info.slot[0].successful_boot THEN 0 ELSE 1

get_active_slot_normalAB(info) ==
    IF info.slot[0].priority > info.slot[1].priority THEN 0 ELSE 1

\* Mutant: making a slot active forgets that it is a rollback.
Bug_boot_info_set_active_slot(info, s) ==
    [info EXCEPT !.slot[Other(s)].priority = kActivePriority - 1,
                 !.slot[s].priority = kActivePriority,
                 !.slot[s].tries_remaining = kActiveTries,
                 !.roll_flag = FALSE]

\* Every other slot gets a lower priority than the active one.
Lowered(p) == IF p >= kActivePriority THEN kActivePriority - 1 ELSE p

\* The successful bit and uboot_status of the slot are left as they were.
boot_info_set_active_slot(info, s) ==
    [info EXCEPT !.slot =
       [t \in Slots |->
          IF t = s
          THEN [info.slot[t] EXCEPT !.priority = kActivePriority,
                                    !.tries_remaining = kActiveTries]
          ELSE [info.slot[t] EXCEPT !.priority = Lowered(info.slot[t].priority)]]]

\* The migration get_valid_slot makes when it finds normal A/B metadata:
\* a reset that keeps the successful bits and the active slot.
NormalToVirtual(info) ==
    boot_info_set_active_slot(
        [boot_info_reset EXCEPT !.slot =
           [s \in Slots |-> [boot_info_reset.slot[s] EXCEPT
                              !.successful_boot = info.slot[s].successful_boot]]],
        get_active_slot_normalAB(info))

(***************************************************************************)
(* The parts of do_SetUpdateTries that only touch the metadata.            *)
(***************************************************************************)
OnTrial(info) ==
    LET s == get_active_slot(info)
    IN  slot_is_bootable(info, s) /\ ~info.slot[s].successful_boot

\* Mutant: boots are counted after the first one too.
Bug_CountFirstBoot(info, mode) ==
    IF mode \in {"fastboot", "factory_reset"} THEN info
    ELSE [info EXCEPT !.boot_tries_remaining = (@ - 1) % 256]

\* boot_tries_remaining is a u8: a decrement of 0 wraps to 255.
CountFirstBoot(info, mode) ==
    IF info.firstboot /\ mode \notin {"fastboot", "factory_reset"}
    THEN [info EXCEPT !.boot_tries_remaining = (@ - 1) % 256]
    ELSE info

\* Mutant: a slot that has booted successfully is charged too.
Bug_CountTry(info, mode) ==
    IF mode # "fastboot"
    THEN [info EXCEPT !.slot[get_active_slot(info)].tries_remaining = @ - 1]
    ELSE info

\* Mutant: only the reboots after a panic are charged.
Bug_FreeHangs(info, mode) ==
    IF OnTrial(info) /\ mode = "kernel_panic"
    THEN [info EXCEPT !.slot[get_active_slot(info)].tries_remaining = @ - 1]
    ELSE info

CountTry(info, mode) ==
    IF OnTrial(info) /\ mode # "fastboot"
    THEN [info EXCEPT !.slot[get_active_slot(info)].tries_remaining = @ - 1]
    ELSE info

\* A failed boot during a merge gives up the slot at once.
ForfeitTries(info) ==
    LET s == get_active_slot(info)
    IN  IF info.slot[s].successful_boot THEN info
        ELSE [info EXCEPT !.slot[s].tries_remaining = 0]

NoneBootable(info) == \A s \in Slots : ~slot_is_bootable(info, s)

\* boot_tries_remaining <= 0 on an unsigned byte is a test for zero.
Exhausted(info) == \/ NoneBootable(info)
                   \/ info.firstboot /\ info.boot_tries_remaining = 0
=============================================================================
