-------------------------- MODULE AbBootProperties --------------------------
(***************************************************************************)
(* What AbBoot is required to do.  Running and crashes are AbBoot's; where *)
(* a property is limited to runs without a power cut, the README says what *)
(* a power cut does to it.                                                 *)
(***************************************************************************)
EXTENDS AbBoot

\* Every variable keeps to the ranges the code's types and strings allow.  The
\* 3-bit tries_remaining is counted down with no wrap in the model and stays in
\* its range all the same.  This says nothing of the u8 boot_tries_remaining,
\* which is counted down modulo 256: BootTriesBounded is about its wrap.
TypeOK ==
    /\ misc \in BootloaderControl
    /\ flash \in [ok : BOOLEAN, val : Env]
    /\ copies \in [Copies -> Images]
    /\ part \in [Slots -> Images]
    /\ merge_status \in {"NONE", "SNAPSHOTTED", "CANCELLED"}
    /\ pc \in PC
    /\ env \in Env
    /\ idx \in Copies
    /\ mode \in Modes \cup {"normal", "kernel_panic"}
    /\ rb \in Rollbacks
    /\ job \in Jobs
    /\ osOk \in [Slots -> BOOLEAN]
    /\ gen \in 1..MaxGen
    /\ proven \subseteq 0..MaxGen
    /\ crashes \in 0..MaxCrash

-----------------------------------------------------------------------------
(* The bootloader copies.                                                  *)

\* Whatever is written and whenever the power fails, the ROM finds a copy it
\* accepts: the code never has both boot0 and boot1 unusable at once
\* (check_uboot_state, update_tries and the rollbacks order their writes so).
NeverBricked == pc # "bricked"

\* While a slot is on trial some copy still holds the bootloader of the slot
\* to go back to: check_uboot_state boot1 backs it up before boot0 is written.
FallbackKept ==
    \A s \in Slots :
       (/\ pc = "kernel"
        /\ get_active_slot(misc) = s
        /\ ~misc.slot[s].successful_boot
        /\ misc.slot[Other(s)].successful_boot)
       => \E c \in Copies : copies[c] = part[Other(s)]

\* boot1 is only ever written with a bootloader whose slot has booted
\* successfully: it is the backup, never the first to get a new image.
BackupProven ==
    [][(pc # "writing" /\ job'.op = "boot" /\ job'.dst = 2)
       => job'.img.gen \in proven]_vars

\* U-Boot that was started from boot1, because boot0 is bad, never copies
\* boot0 over boot1: cmd_bootctl_vab.c says so in do_SetUpdateTries, "if boot
\* from boot1, means boot0 is bab, don't need to copyback".
NoCopybackFromBoot1 ==
    [][(pc # "writing" /\ job'.op = "boot" /\ job'.dst = 2 /\ idx = 2)
       => job'.img # copies[1]]_vars

\* Without a power cut, a working Android always runs on top of the very
\* bootloader it was shipped with, after updates and rollbacks alike.
BootsMatching ==
    (pc = "kernel" /\ crashes = 0 /\ osOk[Running]) => copies[idx] = part[Running]

\* uboot_status 2 of the running slot means that boot1 holds the bootloader of
\* that slot: "0 init after ota; 1 slot boot success; 2 update boot1 ok"
\* (struct slot_metadata).
Boot1UpToDate ==
    (pc = "kernel" /\ misc.slot[Running].uboot_status = 2)
    => copies[2] = part[Running]

-----------------------------------------------------------------------------
(* The slots.                                                              *)

\* Every rollback goes to a slot that has booted successfully: get_valid_slot,
\* update_rollback and the two rollbacks of amlsecurecheck pick "the other
\* slot" and only the first of them looks at its metadata.
RollbackToProven ==
    (pc = "active" /\ rb.to \in Slots) => misc.slot[rb.to].successful_boot

\* U-Boot changes the active slot only with roll_flag set, so that update_tries
\* exports rollback_flag and Android learns that the update was undone.
AnnouncedChange ==
    (/\ boot_info_validate(misc)
     /\ pc # "kernel"
     /\ get_active_slot(misc') # get_active_slot(misc)
     /\ misc' # boot_info_reset)
    => misc'.roll_flag

RollbackAnnounced == [][AnnouncedChange]_vars

\* Without a power cut the u8 that counts first boots is reset before it
\* wraps (do_SetUpdateTries decrements it, then tests it for zero).
BootTriesBounded == crashes = 0 => misc.boot_tries_remaining <= BOOT_ATTEMPTS

-----------------------------------------------------------------------------
(* What must happen in the end, under FairSpec.                            *)

\* An update of the bootloader that Android asked for is carried out or given
\* up: amlsecurecheck takes the request back, and the power cuts only delay it.
UpdateCompletes == flash.val.write_boot ~> ~flash.val.write_boot

\* A slot that does not work does not stay active: its tries run out and
\* get_valid_slot leaves it, or the device stops where someone can see it.
BadSlotLeft ==
    \A s \in Slots :
       (get_active_slot(misc) = s /\ ~osOk[s])
       ~> (get_active_slot(misc) # s \/ pc \in {"fastboot", "recovery", "bricked"})

-----------------------------------------------------------------------------
(* Refinement.                                                             *)

SlotStatus(slot) == CASE slot.successful_boot -> "proven"
                      [] ~slot.successful_boot /\ slot.tries_remaining > 0 -> "trial"
                      [] OTHER -> "empty"

Promise == INSTANCE SlotPromise WITH
    active <- get_active_slot(Migrated(misc)),
    status <- [s \in Slots |-> SlotStatus(Migrated(misc).slot[s])]

\* Seen through the metadata, U-Boot and Android together only prove, discard,
\* activate, exhaust and go back to slots as SlotPromise allows: a proven slot
\* is left only for an update, and given up only for a proven one.
KeepsPromise == Promise!Spec
=============================================================================
