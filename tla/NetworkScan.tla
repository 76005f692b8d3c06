---------------------------- MODULE NetworkScan ----------------------------
(***************************************************************************)
(* NetworkScanner.Scan, for a request that DiscoveryHandler accepts: one   *)
(* goroutine per address and port, a semaphore that bounds                 *)
(* how many of them probe at a time, a bounded channel for what they find, *)
(* a collector that drains it, and the WaitGroup that ends the scan.       *)
(*                                                                         *)
(* The collector only starts once every goroutine was started, and the     *)
(* same address may come out of two ranges or two port specifications:     *)
(* the scan cache is there to probe it once.                               *)
(***************************************************************************)
EXTENDS Ranges, Sequences, FiniteSets

CONSTANTS
    ScanRequests,   \* scans asked for: their ranges, ports and excluded addresses
    MaxTargets,     \* bound: how many targets the ranges and ports expand to
    MaxConcurrent,  \* ScanConfig.MaxConcurrent, the semaphore's capacity
    Capacity        \* capacity of the results channel (100 in the code)

ASSUME BoundsAssumption ==
    MaxTargets \in Nat /\ MaxConcurrent \in Nat \ {0} /\ Capacity \in Nat \ {0}

VARIABLES
    config,     \* the ScanConfig
    expanded,   \* how many of its ranges were expanded
    targets,    \* the <<ip, port>> pairs that came of them
    next,       \* index of the next one the loop of Scan goes through
    stage,      \* where Scan is
    task,       \* where the goroutine of each target it was started for is
    left,       \* left[t]: how many of "/mcp" and "/" goroutine t has still to probe
    cache,      \* ScanCache.scannedAddresses
    channel,    \* the channel
    closed,     \* was it closed
    collector,  \* where the goroutine that drains it is
    discovered, \* what it has collected
    found       \* history: goroutine and endpoint of each server detected

scanVars == <<config, expanded, targets, next, stage, task, left, cache, channel, closed, collector,
          discovered, found>>

Tasks == DOMAIN task

Addresses == IP \X Nat

\* detectionConfig.Endpoints: every one is asked, and may answer.
Endpoints == 2

ScanTypeOK ==
    /\ expanded \in 0..Len(config.ranges)
    /\ targets \in Seq(Addresses) /\ Len(targets) <= MaxTargets
    /\ next \in 1..(Len(targets) + 1)
    /\ stage \in {"ports", "spawn", "wait", "collect", "done"}
    /\ Tasks \subseteq 1..Len(targets)
    /\ task \in [Tasks -> {"mark", "acquire", "probe", "send", "release", "end"}]
    /\ cache \subseteq Addresses
    /\ channel \in Seq(Addresses) /\ Len(channel) <= Capacity
    /\ closed \in BOOLEAN
    /\ collector \in {"none", "receive", "done"}
    /\ discovered \in Seq(Addresses)
    /\ left \in [Tasks -> 0..Endpoints]
    /\ found \subseteq Tasks \X (1..Endpoints)

ScanInit ==
    /\ \E request \in ScanRequests : AcceptedRequest(request) /\ config = WithDefaults(request)
    /\ expanded = 0
    /\ targets = << >>
    /\ next = 1
    /\ stage = "ports"
    /\ task = << >> /\ left = << >>
    /\ cache = {}
    /\ channel = << >>
    /\ closed = FALSE
    /\ collector = "none"
    /\ discovered = << >>
    /\ found = {}

-----------------------------------------------------------------------------
(* Scan itself.                                                            *)

\* A specification of ports that fails ends the scan, and nobody is told.
ParsePorts ==
    /\ stage = "ports"
    /\ stage' = IF BadPorts(config.ports) THEN "done" ELSE "spawn"
    /\ UNCHANGED <<config, expanded, targets, next, task, left, cache, channel, closed,
                   collector, discovered, found>>

\* Every address of a range with every port.
Pairs(ips, ports) ==
    [i \in 1..(Len(ips) * Len(ports)) |->
        <<ips[1 + ((i - 1) \div Len(ports))], ports[1 + ((i - 1) % Len(ports))]>>]

\* The loop goes on to the next range.  All ranges of a request that was accepted
\* parse; but the expansion of an interval that is not empty does not end.
NextRange == config.ranges[expanded + 1]

ExpandRange ==
    /\ stage = "spawn" /\ next > Len(targets) /\ expanded < Len(config.ranges)
    /\ ~Endless(NextRange)
    /\ expanded' = expanded + 1
    /\ targets' = targets \o Pairs(ExpandIPRange(NextRange), ExpandPorts(config.ports))
    /\ UNCHANGED <<config, next, stage, task, left, cache, channel, closed, collector,
                   discovered, found>>

Start(new) ==
    /\ task' = [t \in Tasks \cup new |-> IF t \in new THEN "mark" ELSE task[t]]
    /\ left' = [t \in Tasks \cup new |-> IF t \in new THEN Endpoints ELSE left[t]]

\* One turn of the loop: an address that is excluded or in the cache is skipped, for
\* any other one wg.Add(1) and a goroutine.
Spawn ==
    /\ stage = "spawn" /\ next <= Len(targets)
    /\ next' = next + 1
    /\ LET skip == targets[next][1] \in config.exclude \/ targets[next] \in cache
       IN Start(IF skip THEN {} ELSE {next})
    /\ UNCHANGED <<config, expanded, targets, stage, cache, channel, closed, collector, discovered, found>>

\* The loop is over: the collectors start.
StartCollector ==
    /\ stage = "spawn" /\ next > Len(targets) /\ expanded = Len(config.ranges)
    /\ stage' = "wait"
    /\ collector' = "receive"
    /\ UNCHANGED <<config, expanded, targets, next, task, left, cache, channel, closed,
                   discovered, found>>

\* wg.Wait returned: the channels are closed.
CloseChannel ==
    /\ stage = "wait"
    /\ \A t \in Tasks : task[t] = "end"
    /\ stage' = "collect"
    /\ closed' = TRUE
    /\ UNCHANGED <<config, expanded, targets, next, task, left, cache, channel, collector,
                   discovered, found>>

\* Variant: Scan returns without collectionWg.Wait.
FinishEarly ==
    /\ stage = "collect"
    /\ stage' = "done"
    /\ UNCHANGED <<config, expanded, targets, next, task, left, cache, channel, closed,
                   collector, discovered, found>>

\* collectionWg.Wait returned: Scan returns what was collected.
Finish ==
    /\ stage = "collect"
    /\ collector = "done"
    /\ stage' = "done"
    /\ UNCHANGED <<config, expanded, targets, next, task, left, cache, channel, closed,
                   collector, discovered, found>>

-----------------------------------------------------------------------------
(* A goroutine of one address.                                             *)

Goto(t, step) ==
    /\ task' = [task EXCEPT ![t] = step]
    /\ UNCHANGED <<config, expanded, targets, next, stage, closed, collector>>

MarkScanned(t) ==
    /\ task[t] = "mark"
    /\ cache' = cache \cup {targets[t]}
    /\ Goto(t, "acquire")
    /\ UNCHANGED <<left, channel, discovered, found>>

Holders == {t \in Tasks : task[t] \in {"probe", "send", "release"}}

AcquireSemaphore(t) ==
    /\ task[t] = "acquire"
    /\ Cardinality(Holders) < MaxConcurrent
    /\ Goto(t, "probe")
    /\ UNCHANGED <<left, cache, channel, discovered, found>>

\* The next endpoint, or the deferred calls.
Onward(t) == IF left'[t] = 0 THEN "release" ELSE "probe"

\* Variant: a failed probe is retried without a limit.
DetectRetries(t, ok) ==
    /\ task[t] = "probe"
    /\ left' = IF ok THEN [left EXCEPT ![t] = @ - 1] ELSE left
    /\ Goto(t, IF ok THEN "send" ELSE "acquire")
    /\ found' = IF ok THEN found \cup {<<t, left[t]>>} ELSE found
    /\ UNCHANGED <<cache, channel, discovered>>

\* One endpoint is asked; a server that answers is interrogated.
DetectMCPServer(t, ok) ==
    /\ task[t] = "probe"
    /\ left' = [left EXCEPT ![t] = @ - 1]
    /\ Goto(t, IF ok THEN "send" ELSE Onward(t))
    /\ found' = IF ok THEN found \cup {<<t, left[t]>>} ELSE found
    /\ UNCHANGED <<cache, channel, discovered>>

\* Variant: the channel has no capacity that a send respects.
SendUnbounded(t) ==
    /\ task[t] = "send"
    /\ channel' = Append(channel, targets[t])
    /\ UNCHANGED left
    /\ Goto(t, Onward(t))
    /\ UNCHANGED <<cache, discovered, found>>

\* The send blocks while the channel is full.
SendResult(t) ==
    /\ task[t] = "send"
    /\ Len(channel) < Capacity
    /\ channel' = Append(channel, targets[t])
    /\ UNCHANGED left
    /\ Goto(t, Onward(t))
    /\ UNCHANGED <<cache, discovered, found>>

\* The deferred calls: the semaphore is released, then wg.Done().
Release(t) ==
    /\ task[t] = "release"
    /\ Goto(t, "end")
    /\ UNCHANGED <<left, cache, channel, discovered, found>>

-----------------------------------------------------------------------------
(* The goroutine that collects.                                            *)

Receive ==
    /\ collector = "receive" /\ channel # << >>
    /\ discovered' = Append(discovered, Head(channel))
    /\ channel' = Tail(channel)
    /\ UNCHANGED <<config, expanded, targets, next, stage, task, left, cache, closed, collector, found>>

\* The channel is closed and empty: the range loop ends.
EndCollector ==
    /\ collector = "receive" /\ channel = << >> /\ closed
    /\ collector' = "done"
    /\ UNCHANGED <<config, expanded, targets, next, stage, task, left, cache, channel, closed,
                   discovered, found>>

Task(t) ==
    \/ MarkScanned(t)
    \/ AcquireSemaphore(t)
    \/ \E ok \in BOOLEAN : DetectMCPServer(t, ok)
    \/ SendResult(t)
    \/ Release(t)

Scan == ParsePorts \/ ExpandRange \/ Spawn \/ StartCollector \/ CloseChannel \/ Finish
Collector == Receive \/ EndCollector

\* Scan has returned, or adds addresses of an interval for ever.
Done == stage = "done" /\ UNCHANGED scanVars
ExpandForEver ==
    /\ stage = "spawn" /\ next > Len(targets) /\ expanded < Len(config.ranges)
    /\ Endless(NextRange)
    /\ UNCHANGED scanVars

ScanNext == Scan \/ Collector \/ (\E t \in Tasks : Task(t)) \/ Done \/ ExpandForEver

\* Every goroutine that can run does, and no probe outlasts its timeout.
ScanFairness ==
    /\ WF_scanVars(Scan)
    /\ WF_scanVars(Collector)
    /\ \A t \in 1..MaxTargets : WF_scanVars(t \in Tasks /\ Task(t))

ScanSpec == ScanInit /\ [][ScanNext]_scanVars /\ ScanFairness

-----------------------------------------------------------------------------
(* Properties.                                                             *)

\* The addresses that a range stands for, and those that ranges ask a scan to look at.
AddressesIn(range) ==
    CASE range.kind = "single"   -> {range.ip}
      [] range.kind = "cidr"     -> Network(range) .. Network(range) + 2 ^ HostBits(range) - 1
      [] range.kind = "interval" -> range.ip .. range.last

Elements(s) == {s[i] : i \in DOMAIN s}

Asked(ranges) ==
    (UNION {AddressesIn(range) : range \in ranges} \ config.exclude)
        \X ExpandPortsLeniently(Elements(config.ports))

\* A network of several addresses.
IsNetwork(range) == range.kind = "cidr" /\ HostBits(range) > 0

\* Scan returns all that its goroutines found: no result is left in the channel
\* or in a goroutine that was not waited for.  Until then what was found is
\* collected, in the channel or about to be sent, which would panic if the
\* channel were closed.
NothingIsLost ==
    /\ stage = "done" => Len(discovered) = Cardinality(found)
    /\ Len(discovered) + Len(channel) + Cardinality({t \in Tasks : task[t] = "send"})
         = Cardinality(found)
    /\ closed => \A t \in Tasks : task[t] # "send"

\* The scan ends, whatever the capacities, if the ranges do: a full channel is
\* drained and the semaphore is handed on.  If its ports were any, it has then
\* looked at nothing that was not asked for or was excluded, and at every address
\* of every range with every port, one that several ranges have in common too.
\* Networks are left out of the second part: of the addresses of a network the
\* code looks at the network's own only, though it promises their list.
ScanEnds ==
    \/ \E i \in DOMAIN config.ranges : Endless(config.ranges[i])
    \/ <>(/\ stage = "done"
          /\ closed =>
               /\ cache \subseteq Asked(Elements(config.ranges))
               /\ Asked({range \in Elements(config.ranges) : ~IsNetwork(range)}) \subseteq cache)
=============================================================================
