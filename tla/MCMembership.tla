--------------------------- MODULE MCMembership ---------------------------
(* Instances of Membership for TLC.                                        *)
EXTENDS Membership, TLC

CONSTANTS u1, u2, g1, g2, r1, r2

TwoUsers == {u1, u2}
TwoGroups == {g1, g2}
TwoRequests == {r1, r2}

AllKinds == {"add", "remove", "touchUser", "setGroups", "updateGroup",
             "createUser", "deleteUser", "createGroup", "deleteGroup", "restart"}

FaultyDisk == {TRUE, FALSE}

\* Bound: once every user is disturbed no property says anything about any
\* later state (disturbed never shrinks), so TLC stops there.
SomeUndisturbed == disturbed # Users

\* Bound: after saves that failed, one of the two files may lag behind, not both.
OneFileLags == usersFile = users \/ groupsFile = groups

Symmetry == Permutations(Users) \cup Permutations(Groups) \cup Permutations(Requests)
===========================================================================
