\* Two requests of any kind, two sessions, two remote adapters, two ids; one
\* message that a server sends of its own accord.
SPECIFICATION Spec
CONSTANTS
    r1 = r1  r2 = r2  s1 = s1  s2 = s2  a1 = a1  a2 = a2  i1 = i1  i2 = i2
    r3 = r3
    None = None
    Requests = {r1, r2}
    Adapters = {a1, a2}
    Sessions = {s1, s2}
    Ids = {i1, i2}
    Ops = {"initialize", "call", "notify", "stream"}
    MaxPushes = 1
CONSTRAINT FirstNames
INVARIANTS
    OwnAnswer
    StoreAgrees
PROPERTIES
    EventsStayInSession
    RequestsEnd
CHECK_DEADLOCK FALSE
