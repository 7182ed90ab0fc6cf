------------------------------ MODULE MCGateway ------------------------------
(* Gateway on small instances.                                             *)
EXTENDS Gateway, TLC

CONSTANT WithoutGrant  \* tools a request may leave out

(* The control plane asks for every tool; a narrower request leaves out    *)
(* one of WithoutGrant.                                                    *)
FullOrNarrower == {Tools} \cup {Tools \ {t} : t \in WithoutGrant}

Interchangeable ==
    Permutations(Agents) \cup Permutations(Owners) \cup Permutations(CtxIds)
        \cup Permutations(RunIds) \cup Permutations(Caps) \cup Permutations(CallIds)
=============================================================================
