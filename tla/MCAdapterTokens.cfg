\* Two requests at a time and three tokens over two adapters, a disk whose saves
\* may fail and a process that may be killed.
SPECIFICATION Spec
CONSTANTS
    r1 = r1  r2 = r2  r3 = r3  a1 = a1  a2 = a2
    o1 = o1  o2 = o2  o3 = o3  o4 = o4
    None = None
    Handlers = {r1, r2}
    Adapters = {a1, a2}
    Objects = {o1, o2, o3, o4}
    MaxTokens = 3
SYMMETRY Symmetry
INVARIANTS
    OldTokensStayDead
    RestartKeepsChanges
    CredentialsAgree
CHECK_DEADLOCK FALSE
