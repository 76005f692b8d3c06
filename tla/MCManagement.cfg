\* Two requests at a time, any number one after the other, two session ids, an
\* adapter that may be of the cluster and one of standard streams.
SPECIFICATION Spec
CONSTANTS
    r1 = r1  r2 = r2  s1 = s1  s2 = s2  a1 = a1  a2 = a2
    i1 = i1  i2 = i2  i3 = i3
    None = None
    Handlers = {r1, r2}
    Adapters = {a1, a2}
    Sessions = {s1, s2}
    Infos = {i1, i2, i3}
    Kinds <- MCKinds
CONSTRAINTS FewAuthorized Calm
SYMMETRY Symmetry
INVARIANTS
    
    TokensStayRevoked
    TokensKeepAdapter
