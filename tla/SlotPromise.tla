---------------------------- MODULE SlotPromise ----------------------------
(***************************************************************************)
(* What virtual A/B promises of its two slots, whatever U-Boot does to     *)
(* keep the promise: which slot is active, and what is known of each.      *)
(*                                                                         *)
(*   proven   it has booted successfully                                   *)
(*   trial    it may be tried                                              *)
(*   empty    it may not be booted: being written, or out of tries         *)
(*                                                                         *)
(* AbBoot and AvbBoot implement it; AbBootProperties and                   *)
(* AvbBootProperties give the refinement mappings.                         *)
(***************************************************************************)
EXTENDS Integers

VARIABLES active, status

slots == <<active, status>>

Slots == {0, 1}
Other(s) == 1 - s
Statuses == {"proven", "trial", "empty"}

\* A device leaves the factory with slot 0 proven and active; it may also come
\* with metadata of an older bootloader, and then with either slot active.
Init ==
    /\ active \in Slots
    /\ status \in [Slots -> Statuses]
    /\ \E s \in Slots : status[s] = "proven"

\* The active slot boots successfully.
Prove ==
    /\ status[active] # "proven"
    /\ status' = [status EXCEPT ![active] = "proven"]
    /\ UNCHANGED active

\* A proven system begins to write the slot it does not run from.
Discard ==
    /\ status[active] = "proven"
    /\ status' = [status EXCEPT ![Other(active)] = "empty"]
    /\ UNCHANGED active

\* The update is complete: the other slot is active, on trial.
Activate ==
    /\ status[active] = "proven"
    /\ active' = Other(active)
    /\ status' = [status EXCEPT ![Other(active)] = "trial"]

\* A slot on trial uses up its tries.
Exhaust ==
    /\ status[active] = "trial"
    /\ status' = [status EXCEPT ![active] = "empty"]
    /\ UNCHANGED active

\* A slot that has not proven itself is given up for one that has.
GoBack ==
    /\ status[active] # "proven"
    /\ status[Other(active)] = "proven"
    /\ active' = Other(active)
    /\ UNCHANGED status

Next == Prove \/ Discard \/ Activate \/ Exhaust \/ GoBack

Spec == Init /\ [][Next]_slots

=============================================================================
