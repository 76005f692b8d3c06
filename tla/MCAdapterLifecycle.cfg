\* Every operation, two requests, two groups, an API server that refuses and
\* loses answers, a disk whose saves may fail, a process that may be killed.
SPECIFICATION Spec
CONSTANTS
    a1 = a1  g1 = g1  g2 = g2  r1 = r1  r2 = r2
    Absent = Absent
    Adapters <- OneAdapter
    Groups <- TwoGroups
    Requests <- TwoRequests
    Servers <- SomeServers
    Kinds <- AllKinds
    Managers <- MaybeManager
    Calls <- BadServer
    Saves <- FaultyDisk
CONSTRAINT SomeUndisturbed
SYMMETRY Symmetry
INVARIANTS
    SidecarHasAdapter
    ReadyHasSidecar
    StatusFollowsProbe
    SecretsArrive
PROPERTIES
    AnswersAreTrue
