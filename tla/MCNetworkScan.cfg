\* Up to four targets that may repeat, two probes at a time and a channel that is full
\* after one result; addresses of four bits.
SPECIFICATION ScanSpec
CONSTANTS
    Bits = 4
    Octet = 2
    Word = 3
    MaxIPs = 8
    Loopback = 1
    Interfaces <- OneInterface
    DefaultPorts <- DefaultPort
    ScanRequests <- SomeRequests
    MaxTargets = 4
    MaxConcurrent = 2
    Capacity = 1
INVARIANTS
    NothingIsLost
PROPERTIES
    ScanEnds
