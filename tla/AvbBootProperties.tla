------------------------- MODULE AvbBootProperties --------------------------
(***************************************************************************)
(* What AvbBoot is required to do.                                         *)
(***************************************************************************)
EXTENDS AvbBoot

\* Every variable keeps to the ranges of its type in the code; the tries are
\* an unsigned byte and never wrap.
TypeOK ==
    /\ misc \in AvbABData
    /\ flash \in Env
    /\ copies \in [Copies -> Images]
    /\ dtb \in 0..MaxGen
    /\ otp \in 0..1
    /\ pc \in PC
    /\ slot \in Slots \cup {NoSlot}
    /\ idx \in Copies
    /\ mode \in {"normal", "rescueparty"}
    /\ rb \in [to : Slots \cup {NoSlot}, src : Copies]
    /\ early \in Builds
    /\ shipped \in [Slots -> Images]
    /\ index \in [Slots -> 0..1]
    /\ osOk \in [Slots -> BOOLEAN]
    /\ booted \subseteq Slots
    /\ gen \in 1..MaxGen
    /\ cuts \in 0..MaxCuts

\* Without a power cut a working system always runs on top of the bootloader
\* it was shipped with, after updates and after all four kinds of rollback.
BootsMatching ==
    (pc = "kernel" /\ cuts = 0 /\ osOk[slot]) => copies[idx] = shipped[slot]

\* Without a power cut the ROM always finds a copy it accepts: a slot whose
\* bootloader is bad is left before its system can prove itself, so that the
\* next update does not overwrite the last good copy.  A power cut between the
\* copy and set_active_slot of a rollback breaks this.
NeverBricked == cuts = 0 => pc # "bricked"

\* "Non-zero if this slot has booted successfully, 0 otherwise." (struct
\* AvbABSlotData): the resets and migrations claim it of no other slot.
SuccessfulHasBooted ==
    \A s \in Slots : (boot_info_validate(misc) /\ misc.slots[s].successful_boot)
                     => s \in booted

\* While a slot is on trial, rollback protection still accepts the system to
\* go back to: bootm burns the new index only after the slot has booted.
FallbackAccepted ==
    LET s == get_active_slot(misc)
    IN  (/\ boot_info_validate(misc)
         /\ ~misc.slots[s].successful_boot
         /\ misc.slots[Other(s)].successful_boot)
        => index[Other(s)] >= otp

\* Without a power cut, a system that was rolled back to has its own device
\* tree: set_active_slot sees the roll_flag set before it.
RollbackRestoresDtb ==
    (pc = "kernel" /\ cuts = 0 /\ misc.roll_flag) => dtb = shipped[slot].gen

\* Metadata of a virtual A/B bootloader is replaced only by metadata with the
\* same active slot.
MigrationKeepsActive ==
    [][(boot_info_validate_VAB(misc) /\ boot_info_validate(misc'))
       => get_active_slot(misc') = get_active_slot_VAB(misc)]_vars

\* Under FairSpec a slot whose system does not work does not stay active,
\* whatever else is done, unless the device stops where someone can see it.
BadSlotLeft ==
    \A s \in Slots :
       (pc = "kernel" /\ slot = s /\ ~osOk[s])
       ~> (get_active_slot(misc) # s \/ pc \in {"recovery", "bricked"})

-----------------------------------------------------------------------------
SlotStatus(data) == CASE data.successful_boot -> "proven"
                      [] ~data.successful_boot /\ data.tries_remaining > 0 -> "trial"
                      [] OTHER -> "empty"

Promise == INSTANCE SlotPromise WITH
    active <- get_active_slot(Migrated(misc)),
    status <- [s \in Slots |-> SlotStatus(Migrated(misc).slots[s])]

\* The AVB metadata keeps the promise of A/B too: only proving, discarding,
\* activating, exhausting and going back to a proven slot.
KeepsPromise == Promise!Spec
=============================================================================
