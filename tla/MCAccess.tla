------------------------------ MODULE MCAccess ------------------------------
(* Instances of Access for TLC. *)
EXTENDS Access, Integers, TLC

CONSTANTS u1, g1, g2, r1, a1, h1, h2

SomeKinds == {"add", "remove", "deleteUser", "createGroup", "deleteGroup", "restart"}

HealthyDisk == {TRUE}

\* Who is in g2 manages; who is in g1 may assign and list what g1 is shared with.
MCPermissions == (g1 :> {"assign", "read"}) @@ (g2 :> {"manage"})

MCServes == (h1 :> {"get", "list", "update", "share"}) @@ (h2 :> {"delete", "unshare"})

\* Bound: once every user is disturbed no property says anything about any
\* later state (disturbed never shrinks), so TLC stops there.
SomeUndisturbed == disturbed # Users

\* Bound: what the second handler takes away, an adapter or an assignment, it takes
\* from the first one only: no membership request is in progress meanwhile.
TakingApart ==
  call[h2] # Absent => \A r \in Requests : req[r].at \in Waiting

\* Bound: assignments are taken back beside questions, adapters beside any request.
ChangesApart ==
  (call[h1] # Absent /\ call[h2] # Absent) => call[h1].op \in Questions \/ call[h2].op = "delete"

=============================================================================
