---------------------------- MODULE DurableStore ----------------------------
(***************************************************************************)
(* What the callers of JsonStore.mutate rely on: mutations take effect one *)
(* at a time in the order of the calls, each as a whole or not at all; one *)
(* that was answered has taken effect and stays, whatever restarts follow, *)
(* and one that was rejected never takes effect.                           *)
(***************************************************************************)
EXTENDS Naturals, Sequences

CONSTANT Jobs        \* mutations, numbered in the order of the calls

VARIABLES log,       \* the mutations in effect
          settled    \* what the caller of each was told

Fresh(j) == settled[j] = "none" /\ \A n \in DOMAIN log : log[n] < j

TakesEffect(j) == Fresh(j) /\ log' = Append(log, j) /\ UNCHANGED settled
Answered(j) ==
    /\ settled[j] = "none" /\ \E n \in DOMAIN log : log[n] = j
    /\ settled' = [settled EXCEPT ![j] = "done"]
    /\ UNCHANGED log
Rejected(j) ==
    /\ settled[j] = "none" /\ \A n \in DOMAIN log : log[n] # j
    /\ settled' = [settled EXCEPT ![j] = "failed"]
    /\ UNCHANGED log

DurableInit == log = <<>> /\ settled = [j \in Jobs |-> "none"]
DurableNext == \E j \in Jobs : TakesEffect(j) \/ Answered(j) \/ Rejected(j)
DurableSpec == DurableInit /\ [][DurableNext]_<<log, settled>>
=============================================================================
