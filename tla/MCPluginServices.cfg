SPECIFICATION Spec
CONSTANTS
    s1 = s1
    i1 = i1
    both = both
    remoteOnly = remoteOnly
    r1 = r1
    r2 = r2
    Boot = Boot
    Round = Round
    None = None
    Services <- const_Services
    Impls <- const_Impls
    Keys <- const_Keys
    Remote <- const_Remote
    Local <- const_Local
    Reloads = {r1, r2}
    HasURL = TRUE
    Saves = {TRUE, FALSE}
    Enabled = {"virtualmcp", "other"}
    MaxRegistrations = 2
INVARIANTS
    CatalogueComplete
    HealthOfRegistered
    EntriesHaveSource
PROPERTY HealthCatchesUp
CONSTRAINT FewAtOnce
