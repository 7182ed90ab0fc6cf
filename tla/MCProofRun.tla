----------------------------- MODULE MCProofRun -----------------------------
(* ProofRun on small instances.                                            *)
EXTENDS ProofRun

CONSTANT WithoutGrant  \* tools a request may leave out

(* The control plane asks for every tool; an incomplete grant lacks one.   *)
FullOrIncomplete == {Tools} \cup {Tools \ {t} : t \in WithoutGrant}
=============================================================================
