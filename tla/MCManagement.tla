----------------------------- MODULE MCManagement -----------------------------
(* An instance of Management for TLC. *)
EXTENDS Management, TLC

CONSTANTS r1, r2, s1, s2, a1, a2, i1, i2, i3

MCKinds == a1 :> {"k8s", "stdio"} @@ a2 :> {}

Symmetry == Permutations(Handlers) \cup Permutations(Sessions) \cup Permutations(Infos)

(* Bound: tokens and authorizations that sessions hold, at most one of each. *)
FewAuthorized ==
  /\ Cardinality({s \in Sessions : HasSession(s) /\ sessions[s].token # None}) <= 1
  /\ Cardinality({s \in Sessions : HasSession(s) /\ sessions[s].status # None}) <= 1

(* Of the adapter that is stored ClusterAgrees says no more, and nobody sees it. *)
Calm == disturbed = {}
=============================================================================
