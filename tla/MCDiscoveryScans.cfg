\* A scan of two servers on one host that answer in every way, a NetworkScanner beside
\* it, two registrations at a time in the same second or the next.
SPECIFICATION ScansSpec
CONSTANTS
    s1 = s1  s2 = s2  h1 = h1  h2 = h2  d1 = d1  d2 = d2
    Nothing = Nothing
    Statuses <- SomeStatuses
    Challenges <- SomeChallenges
    Answers <- Everything
    MaxTools = 1
    MaxResources = 1
    MaxPrompts = 1
    MaxReply = 2
    Scans = {s1}
    Handlers = {h1, h2}
    Addresses = {d1, d2}
    Place <- OneHost
    Configs <- SomeConfigs
    Bits = 4
    Octet = 2
    Word = 4
    MaxIPs = 4
    Loopback = 1
    Interfaces <- NoInterfaces
    DefaultPorts <- NoInterfaces
    ServerName <- OneName
    MaxSeconds = 1
    MaxServers = 2
CONSTRAINT Apart
SYMMETRY Symmetry
INVARIANTS
    ToldIsStored
    OpenServersGuarded
    ScoresAreEarned
CHECK_DEADLOCK FALSE
