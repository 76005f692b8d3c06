\* Two requests with any ids, in two sessions of one process; the REST
\* endpoints use the ids 2 to 6.
SPECIFICATION Spec
CONSTANTS
    r1 = r1  r2 = r2  r3 = r3  s1 = s1  s2 = s2  a1 = a1  a2 = a2
    None = None
    Requests <- TwoRequests
    Ids = {1, 2, 3, 4, 5, 6}
    Sessions <- TwoSessions
    Adapters <- OneAdapter
    AdapterOf <- SharedAdapter
INVARIANTS
    NoLeak
    OwnAnswer
PROPERTIES
    AnswerReaches
    RequestsEnd
CONSTRAINT SomeIds
