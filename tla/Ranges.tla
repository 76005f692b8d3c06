------------------------------- MODULE Ranges -------------------------------
(***************************************************************************)
(* Which addresses a scan looks at: what DiscoveryHandler accepts, and what*)
(* NetworkScanner and DiscoveryService, each in its own way, make of the   *)
(* ranges and the ports of a ScanConfig.                                   *)
(*                                                                         *)
(* An IP address is a number of Bits bits.  Its range is of a kind: a      *)
(* "single" address, a network in CIDR notation with a prefix of `ones`    *)
(* bits, an interval "first-last", or no range at all ("localhost").       *)
(***************************************************************************)
EXTENDS Naturals
LOCAL INSTANCE Sequences
LOCAL INSTANCE SequencesExt

CONSTANTS
  Bits,          \* bits of an address: 32 or 128
  Octet,         \* bits of its last octet: 8
  Word,          \* bits of a uint64: 64
  MaxIPs,        \* the most addresses DiscoveryService takes from one range: 65536
  Loopback,      \* 127.0.0.1
  Interfaces,    \* the addresses of the interfaces of the host, as a sequence
  DefaultPorts   \* the ports of a scan that names none: 8000 to 8004, 8080 and 8888

IP == 0 .. 2 ^ Bits - 1

ASSUME RangesAssumption ==
  /\ {Bits, Octet, Word, MaxIPs} \subseteq Nat /\ Octet <= Bits
  /\ Loopback \in IP
  /\ Interfaces \in Seq(IP)

IPRange(kind, ip, ones, last) == [kind |-> kind, ip |-> ip, ones |-> ones, last |-> last]

Single(ip) == IPRange("single", ip, 0, 0)
CIDR(ip, ones) == IPRange("cidr", ip, ones, 0)
Interval(ip, last) == IPRange("interval", ip, 0, last)
NoRange == IPRange("none", 0, 0, 0)

\* What is said of ports: one, an interval, or what is neither.
Ports(kind, first, last) == [kind |-> kind, first |-> first, last |-> last]

Port(n) == Ports("port", n, n)
PortRange(first, last) == Ports("range", first, last)
NoPort == Ports("none", 0, 0)            \* no number
NoPortRange == Ports("no range", 0, 0)   \* a dash, but no two numbers

HostBits(range) == Bits - range.ones
Network(range) == range.ip - (range.ip % 2 ^ HostBits(range))

-----------------------------------------------------------------------------
(***************************************************************************)
(* DiscoveryHandler: a request with a range that is none is refused; one   *)
(* without ranges is for the networks of the host.                         *)
(***************************************************************************)
IsValidScanRange(range) == range.kind # "none"

DefaultScanRanges ==
  <<CIDR(Loopback, Bits)>>
    \o [i \in DOMAIN Interfaces |->
          CIDR(Interfaces[i] - (Interfaces[i] % 2 ^ Octet), Bits - Octet)]

AcceptedRequest(request) == \A i \in DOMAIN request.ranges : IsValidScanRange(request.ranges[i])

WithDefaults(request) ==
  [request EXCEPT !.ranges = IF @ = <<>> THEN DefaultScanRanges ELSE @,
                  !.ports  = IF @ = <<>> THEN DefaultPorts ELSE @]

-----------------------------------------------------------------------------
(***************************************************************************)
(* NetworkScanner.  Of a network only the network's own address is looked  *)
(* at.  The end of an interval moves on as fast as the loop that is to     *)
(* reach it, so that only the empty interval is ever expanded.             *)
(***************************************************************************)
Expandable(range) ==
  \/ range.kind \in {"single", "cidr"}
  \/ range.kind = "interval" /\ range.ip = range.last + 1

Endless(range) == range.kind = "interval" /\ ~Expandable(range)

ExpandIPRange(range) ==
  CASE range.kind = "single"   -> <<range.ip>>
    [] range.kind = "cidr"     -> <<Network(range)>>
    [] range.kind = "interval" -> <<>>

\* What has a dash and is no interval is an error, and then there are no ports at all;
\* what is no number is left out.
BadPorts(specs) ==
  \E i \in DOMAIN specs :
    \/ specs[i].kind = "no range"
    \/ specs[i].kind = "range" /\ specs[i].first > specs[i].last

ExpandPorts(specs) ==
  LET From(first, last) == [i \in 1 .. (last + 1) - first |-> first + i - 1]
  IN FlattenSeq([i \in DOMAIN specs |->
       IF specs[i].kind = "none" THEN <<>> ELSE From(specs[i].first, specs[i].last)])

-----------------------------------------------------------------------------
(***************************************************************************)
(* DiscoveryService.  A network with too many addresses is refused, unless *)
(* their number overflows.  An interval is no address.                     *)
(***************************************************************************)
TotalIPs(range) == 2 ^ HostBits(range) % 2 ^ Word

ExpandCIDR(range) ==
  CASE range.kind = "single" -> {range.ip}
    [] range.kind = "cidr" /\ HostBits(range) = 0 -> {range.ip}
    [] range.kind = "cidr" /\ HostBits(range) > 0 /\ TotalIPs(range) <= MaxIPs ->
         {Network(range) + i : i \in {j \in 0 .. MaxIPs : j = 0 \/ j < TotalIPs(range)}}
    [] OTHER -> {}

ExpandPortsLeniently(specs) ==
  UNION {ports.first .. ports.last : ports \in {p \in specs : p.kind \in {"port", "range"}}}

\* The addresses of a scan: the local ones are always looked at, or would be, if
\* "localhost" were an address.
ServiceTargets(ranges, specs) ==
  (UNION {ExpandCIDR(range) : range \in ranges \cup {CIDR(Loopback, Bits), NoRange}})
    \X ExpandPortsLeniently(specs)
=============================================================================
