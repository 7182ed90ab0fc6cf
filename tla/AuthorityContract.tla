-------------------------- MODULE AuthorityContract --------------------------
(***************************************************************************)
(* What the sidecar promises about authority, without its database: a Run  *)
(* is issued once under an open mandate, may become usable, and once spent *)
(* is spent for good; a mandate is shut only when no Run under it can      *)
(* still act, or by a revocation that spends all of its Runs in the same   *)
(* step; a shut mandate never opens again.                                 *)
(* Module Authority is shown to implement this specification.              *)
(***************************************************************************)

CONSTANTS Runs, Mandates, None

VARIABLES status,   \* of each Run: fresh, issued, usable, spent
          mandate,  \* of each mandate: absent, open, shut
          under     \* the mandate a Run was issued under, None while fresh

vars == <<status, mandate, under>>

CanAct(r) == status[r] \in {"issued", "usable"}
RunsUnder(m) == {r \in Runs : under[r] = m}
Idle(m) == \A r \in RunsUnder(m) : ~CanAct(r)

TypeOK ==
    /\ status \in [Runs -> {"fresh", "issued", "usable", "spent"}]
    /\ mandate \in [Mandates -> {"absent", "open", "shut"}]
    /\ under \in [Runs -> Mandates \cup {None}]

Init ==
    /\ status = [r \in Runs |-> "fresh"]
    /\ mandate = [m \in Mandates |-> "absent"]
    /\ under = [r \in Runs |-> None]

(* A Run is issued under m, which is opened if it is new; idle mandates    *)
(* other than m may be shut on the way.                                    *)
Issue(r, m) ==
    /\ status[r] = "fresh"
    /\ mandate[m] \in {"absent", "open"}
    /\ status' = [status EXCEPT ![r] = "issued"]
    /\ under' = [under EXCEPT ![r] = m]
    /\ mandate' \in [Mandates -> {"absent", "open", "shut"}]
    /\ mandate'[m] = "open"
    /\ \A n \in Mandates \ {m} :
         \/ mandate'[n] = mandate[n]
         \/ mandate[n] = "open" /\ Idle(n) /\ mandate'[n] = "shut"

Enable(r) ==
    /\ status[r] = "issued"
    /\ mandate[under[r]] = "open"
    /\ status' = [status EXCEPT ![r] = "usable"]
    /\ UNCHANGED <<mandate, under>>

(* Any set of Runs is spent at once: one of them finishes or expires, or   *)
(* all of them are lost to a restart.                                      *)
Spend ==
    /\ \E S \in SUBSET {r \in Runs : CanAct(r)} :
         status' = [r \in Runs |-> IF r \in S THEN "spent" ELSE status[r]]
    /\ UNCHANGED <<mandate, under>>

Revoke(m) ==
    /\ mandate[m] = "open"
    /\ mandate' = [mandate EXCEPT ![m] = "shut"]
    /\ status' = [r \in Runs |->
                    IF r \in RunsUnder(m) /\ CanAct(r) THEN "spent" ELSE status[r]]
    /\ UNCHANGED under

Next ==
    \/ \E r \in Runs, m \in Mandates : Issue(r, m)
    \/ \E r \in Runs : Enable(r)
    \/ Spend
    \/ \E m \in Mandates : Revoke(m)

Spec == Init /\ [][Next]_vars
=============================================================================
