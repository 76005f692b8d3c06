\* One user, two groups, one membership request at a time, and
\* two handlers: one asks, updates and assigns, one deletes and takes back.
SPECIFICATION AccessSpec
CONSTANTS
  u1 = u1  g1 = g1  g2 = g2  r1 = r1  a1 = a1  h1 = h1  h2 = h2
  Absent = Absent
  Stranger = Stranger
  Users = {u1}
  Groups = {g1, g2}
  Requests = {r1}
  Kinds <- SomeKinds
  Saves <- HealthyDisk
  Loads <- HealthyDisk
  Adapters = {a1}
  Handlers = {h1, h2}
  Levels = {"read"}
  Permissions <- MCPermissions
  Serves <- MCServes
CONSTRAINTS
  SomeUndisturbed
  TakingApart
  ChangesApart
INVARIANTS
  AccessFollowsMembers
  DecisionsAreRight
