--------------------------- MODULE MCDiscoveryScans ---------------------------
(* An instance of DiscoveryScans for TLC. *)
EXTENDS DiscoveryScans, TLC

CONSTANTS s1, s2, h1, h2, d1, d2

SomeStatuses == {200, 400, 401, 405, 600}
SomeChallenges == {"none", "openid", "basic"}
\* Two ports of one host, and scans for none, each and both of them.
Host == 4
OneHost == [d \in Addresses |-> <<Host, IF d = d1 THEN 8 ELSE 9>>]
SomeConfigs ==
  [ranges : {{Single(Host)}, {CIDR(Host + 1, 2)}, {NoRange, Interval(Host, Host + 1)},
             {CIDR(Host, 0), CIDR(Host, 1)}},
   ports  : {{Port(8)}, {Port(9), NoPort}, {PortRange(7, 9)}, {PortRange(9, 8)}, {}}]
NoInterfaces == <<>>
OneName == [d \in Addresses |-> "server"]
Everything == AllAnswers

\* Bound: the time, which only names servers that a scan has cached, passes while
\* none is listed; and with two listed there is nothing left for a scan to find.
Apart ==
  /\ seconds = 0 \/ Known = {}
  /\ Cardinality(Known) = 2 => \A s \in Scans : status[s] = "none"

Symmetry == Permutations(Scans) \cup Permutations(Handlers) \cup Permutations(Addresses)
=============================================================================
