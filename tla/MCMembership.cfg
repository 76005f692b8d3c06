\* Every operation, two requests in flight, over two users and two groups, with
\* a disk whose saves may fail and a process that may be killed.
SPECIFICATION Spec
CONSTANTS
  u1 = u1
  u2 = u2
  g1 = g1
  g2 = g2
  r1 = r1
  r2 = r2
  Absent = Absent
  Users <- TwoUsers
  Groups <- TwoGroups
  Requests <- TwoRequests
  Kinds <- AllKinds
  Saves <- FaultyDisk
  Loads <- FaultyDisk
CONSTRAINTS
  SomeUndisturbed
  OneFileLags
SYMMETRY Symmetry
INVARIANTS
  AgreeAtRest
  OnlyOwnGroupDiffers
  RestartKeepsMemberships
PROPERTIES
  AnswersAreTrue
