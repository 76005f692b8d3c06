--------------------------- MODULE MCStdioBridge ---------------------------
(* Instances of StdioBridge for TLC. *)
EXTENDS StdioBridge, TLC

CONSTANTS r1, r2, r3, s1, s2, a1, a2

TwoRequests == {r1, r2}
ThreeRequests == {r1, r2, r3}
TwoSessions == {s1, s2}
OneAdapter == {a1}
TwoAdapters == {a1, a2}

SharedAdapter == [s \in Sessions |-> a1]
OwnAdapter == (s1 :> a1) @@ (s2 :> a2)

\* Bound: requests with different ids are told apart by no more than that, so one of them
\* has the id 1, which no REST endpoint uses.
SomeIds == id[r1] = 1 \/ id[r1] = id[r2]
============================================================================
