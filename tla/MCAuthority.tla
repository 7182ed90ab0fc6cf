----------------------------- MODULE MCAuthority -----------------------------
(* Authority on a small instance: every id is interchangeable with the      *)
(* others of its kind, so the state space is reduced by symmetry.           *)
EXTENDS Authority, TLC

(* Any permission set may be requested.                                    *)
AllRequests == SUBSET Permissions

Interchangeable ==
    Permutations(Agents) \cup Permutations(Owners) \cup Permutations(CtxIds)
        \cup Permutations(RunIds) \cup Permutations(Caps)
=============================================================================
