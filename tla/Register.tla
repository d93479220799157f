------------------------------ MODULE Register ------------------------------
(***************************************************************************)
(* What a region of the reserved area promises: it holds one value.  A     *)
(* save or an erase replaces it in one step somewhere between its call and *)
(* its return; what has returned without an error has been done; a power   *)
(* cut ends the call before or after that step.  The promise is void while *)
(* the region is damaged, that is, while a save replaces a block in which  *)
(* an interrupted one has left its traces, and after a page has failed.    *)
(***************************************************************************)
CONSTANTS Values, None, NoJob

VARIABLES
  content,   \* the value that is read back after a power cut at this moment
  job,       \* the value being saved, None for an erase, NoJob in between
  ret,       \* what the last call since power-up returned: "ok", "fail" or "none"
  damaged

vars == <<content, job, ret, damaged>>

Contents == Values \cup {None}

Init == content = None /\ job = NoJob /\ ret = "none" /\ damaged = FALSE

Call(v) == /\ job = NoJob
           /\ job' = v
           /\ damaged' \in BOOLEAN
           /\ UNCHANGED <<content, ret>>

\* The moment the value is replaced, which need not be that of the return.
TakesEffect == /\ job # NoJob
               /\ content' = job
               /\ UNCHANGED <<job, ret>>
               /\ damaged' \in BOOLEAN

Returns == /\ job # NoJob
           /\ job' = NoJob
           /\ ret' \in {"ok", "fail"}
           /\ content' \in {content, job}
           /\ ret' = "ok" => content' = job \/ damaged
           /\ damaged' \in BOOLEAN

\* A power cut: the call, if there was one, never returns.
Interrupted == /\ job' = NoJob
               /\ content' \in {content} \cup ({job} \ {NoJob})
               /\ ret' = "none"
               /\ damaged' \in BOOLEAN

\* The region becomes damaged, or is no longer, without touching the value.
Wear == damaged' \in BOOLEAN /\ UNCHANGED <<content, job, ret>>

\* While damaged the value may be lost, or an older one come back.
Loses == /\ damaged
         /\ content' \in Contents
         /\ job' \in {job, NoJob}
         /\ ret' \in {ret, "ok", "fail", "none"}
         /\ damaged' \in BOOLEAN

Next == \/ \E v \in Contents : Call(v)
        \/ TakesEffect \/ Returns \/ Interrupted \/ Wear \/ Loses

Spec == Init /\ [][Next]_vars
=============================================================================
