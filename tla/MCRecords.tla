------------------------------ MODULE MCRecords ------------------------------
(* Records on a small instance.                                            *)
EXTENDS Records

(* The callers are alike, and no property is about time.                   *)
SameCallers == Permutations(Callers)
=============================================================================
