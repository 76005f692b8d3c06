---------------------------- MODULE MCNetworkScan ----------------------------
(* Instances of NetworkScan for TLC. *)
EXTENDS NetworkScan

OneInterface == <<5>>
DefaultPort == <<Port(8)>>

Asks(ranges, ports, exclude) == [ranges |-> ranges, ports |-> ports, exclude |-> exclude]

\* Ranges that repeat addresses, the default ones, networks, an empty interval and one
\* that is not, excluded addresses, what is no range, and ports that are none.
SomeRequests ==
    {Asks(ranges, ports, exclude) :
       ranges \in {<<>>, <<Single(1), CIDR(1, 4)>>, <<CIDR(2, 2), NoRange>>,
                   <<Interval(3, 2), Single(0)>>, <<Single(1), Interval(2, 3)>>},
       ports \in {<<>>, <<PortRange(8, 9)>>, <<Port(8), NoPort>>, <<Port(8), NoPortRange>>,
                  <<PortRange(9, 8)>>},
       exclude \in {{}, {1}}}
==============================================================================
