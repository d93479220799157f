----------------------------- MODULE MCNandRsv -----------------------------
(* NandRsv for TLC: contents are interchangeable. *)
EXTENDS NandRsvProperties, TLC

Interchangeable == Permutations(Values)
=============================================================================
