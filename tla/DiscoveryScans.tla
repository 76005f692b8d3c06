---------------------------- MODULE DiscoveryScans ----------------------------
(***************************************************************************)
(* From a scan to an adapter, the two ways there are: DiscoveryService     *)
(* scans, caches what it finds and registers it through ManagementService; *)
(* a NetworkScanner finds and interrogates servers, and                    *)
(* RegistrationHandler registers them.  Both write to one store of         *)
(* adapters.  How the goroutines of a NetworkScanner work together is in   *)
(* NetworkScan.                                                            *)
(***************************************************************************)
EXTENDS Detection, Ranges, FiniteSets

CONSTANTS
  Scans,       \* scans of DiscoveryService
  Handlers,    \* requests in progress at a time
  Addresses,   \* http://host:port of the servers
  Place,       \* Place[d]: the host and the port of address d
  Configs,     \* the ranges and the ports that scans of DiscoveryService are asked for
  ServerName,  \* ServerName[d]: what the server there calls itself
  Answers,     \* how servers answer
  MaxSeconds,  \* bound on the clock
  MaxServers   \* bound on the servers that are found

ASSUME DiscoveryAssumption ==
  /\ Answers \subseteq AllAnswers /\ Nothing \notin AllAnswers
  /\ MaxSeconds \in Nat /\ MaxServers \in Nat

VARIABLES
  status,      \* status[s]: ScanJob.Status of scan s, or "none" before it starts
  todo,        \* todo[s]: the addresses it has still to look at
  asks,        \* asks[s]: the address it is at and the endpoint it asks, or Nothing
  results,     \* results[s]: the servers it has found
  cache,       \* DiscoveryService.cache
  listed,      \* listed[i]: the first of discoveredServers of NetworkScanner with ID i
  adapters,    \* the adapters that are stored
  at,          \* at[h]: the registration that h works on, or Nothing
  seconds,     \* the time
  told         \* history: adapters that registrations were told of

scanVars ==
  <<status, todo, asks, results, cache, listed, adapters, at, seconds, told>>

scanning == <<status, todo, asks, results, cache>>
registering == <<adapters, at, told>>

(***************************************************************************)
(* What is found out about a server.  keyless: its auth_type is "none";    *)
(* open, refused: history, what its answers have shown.                    *)
(***************************************************************************)
Finding(v, answers) ==
  [name |-> v.name, score |-> v.score, keyless |-> v.auth = "none",
   open |-> \A a \in answers : Open(a), refused |-> \E a \in answers : Refuses(a)]

Server(id, finding) == [id |-> id, address |-> id[1], finding |-> finding]

Known == {listed[i] : i \in DOMAIN listed} \ {Nothing}

MoreServers ==
  Cardinality(Known) + Cardinality(UNION {results[s] : s \in Scans}) < MaxServers

ScansInit ==
  /\ status = [s \in Scans |-> "none"]
  /\ todo = [s \in Scans |-> {}] /\ asks = [s \in Scans |-> Nothing]
  /\ results = [s \in Scans |-> {}]
  /\ cache = {}
  /\ listed = [i \in Addresses \X Endpoints |-> Nothing]
  /\ adapters = {}
  /\ at = [h \in Handlers |-> Nothing]
  /\ seconds = 0
  /\ told = {}

-----------------------------------------------------------------------------
(***************************************************************************)
(* DiscoveryService.                                                       *)
(***************************************************************************)
StartScan(s) ==
  /\ status[s] = "none"
  /\ status' = [status EXCEPT ![s] = "running"]
  /\ \E config \in Configs :
       /\ config.ports # {}
       /\ todo' = [todo EXCEPT ![s] =
                    {d \in Addresses : Place[d] \in ServiceTargets(config.ranges, config.ports)}]
  /\ UNCHANGED <<asks, results, cache, listed, registering, seconds>>

NextAddress(s) ==
  /\ status[s] = "running" /\ asks[s] = Nothing
  /\ \E d \in todo[s] :
       /\ asks' = [asks EXCEPT ![s] = <<d, "/mcp">>]
       /\ todo' = [todo EXCEPT ![s] = @ \ {d}]
  /\ UNCHANGED <<status, results, cache, listed, registering, seconds>>

Detections ==
  {Finding(DetectMCPServer(a), {a}) : a \in {b \in Answers : DetectMCPServer(b) # Nothing}}

(***************************************************************************)
(* A server counts once, with the first endpoint that speaks for one;      *)
(* from any endpoint there may come no answer, or one that says nothing.   *)
(***************************************************************************)
DetectMCPServerAtAddress(s) ==
  /\ asks[s] # Nothing
  /\ \/ /\ MoreServers
        /\ \E f \in Detections :
             results' = [results EXCEPT ![s] = @ \cup {Server(<<asks[s][1], s>>, f)}]
        /\ asks' = [asks EXCEPT ![s] = Nothing]
     \/ /\ asks' = [asks EXCEPT ![s] = IF @[2] = "/mcp" THEN <<@[1], "/">> ELSE Nothing]
        /\ UNCHANGED results
  /\ UNCHANGED <<status, todo, cache, listed, registering, seconds>>

CompleteScan(s) ==
  /\ status[s] = "running" /\ asks[s] = Nothing /\ todo[s] = {}
  /\ status' = [status EXCEPT ![s] = "completed"]
  /\ UNCHANGED <<todo, asks, results, cache, listed, registering, seconds>>

(* In a lock section of its own, after the scan is completed for everybody to see. *)
CacheServers(s) ==
  /\ status[s] = "completed"
  /\ cache' = cache \cup results[s]
  /\ UNCHANGED <<status, todo, asks, results, listed, registering, seconds>>

RunScan(s) ==
  NextAddress(s) \/ DetectMCPServerAtAddress(s) \/ CompleteScan(s) \/ CacheServers(s)

-----------------------------------------------------------------------------
(***************************************************************************)
(* NetworkScanner: every endpoint that answers as an MCP server is a       *)
(* server of its own.  Later scans list it again, behind.                  *)
(***************************************************************************)
Received == {MakeMCPRequest(x) : x \in [Endpoints -> Answers \cup {Nothing}]}

Validations == {Flawed(claims, replies) : claims \in SUBSET Lists, replies \in [Lists -> Replies]}

Interrogations ==
  [e \in Endpoints |->
    UNION {LET v == ParseMCPResponse(a, e)
           IN {Finding([v EXCEPT !.score = PerformDeepInterrogation(@, b, flawed)], {a, b} \ {Nothing}) :
                 b \in Received, flawed \in Validations} :
             a \in {b \in Answers : ParseMCPResponse(b, e) # Nothing}}]

DetectAndInterrogate ==
  /\ MoreServers
  /\ \E d \in Addresses, e \in Endpoints :
       /\ listed[<<d, e>>] = Nothing
       /\ \E f \in Interrogations[e] :
            listed' = [listed EXCEPT ![<<d, e>>] = Server(<<d, e>>, f)]
  /\ UNCHANGED <<scanning, registering, seconds>>

-----------------------------------------------------------------------------
(***************************************************************************)
(* Registrations.                                                          *)
(***************************************************************************)
Adapter(name, server, guarded) ==
  [name |-> name, address |-> server.address, guarded |-> guarded, open |-> server.finding.open]

HasAdapter(name) == \E x \in adapters : x.name = name

Begin(h, step, adapter) == at' = [at EXCEPT ![h] = [step |-> step, adapter |-> adapter]]

EndRegistration(h) == at' = [at EXCEPT ![h] = Nothing]

(* Bearer authentication is added where nothing protects the server. *)
Enhanced(f) == f.score = "high" /\ f.keyless

(***************************************************************************)
(* RegisterServer, and ManagementService.CreateAdapter up to its check of  *)
(* the name, which tells hosts and seconds apart and nothing else.         *)
(***************************************************************************)
RegisterServer(h) ==
  /\ at[h] = Nothing
  /\ \E server \in cache :
       LET name == <<"discovered", Place[server.address][1], seconds>>
       IN /\ ~HasAdapter(name)
          /\ Begin(h, "create", Adapter(name, server, Enhanced(server.finding)))
  /\ UNCHANGED <<scanning, listed, adapters, seconds, told>>

(* The name of a server that has not told one comes from its address or from its answer. *)
GenerateAdapterName(server) ==
  LET name == server.finding.name
  IN CASE name = "own" -> <<"own name", ServerName[server.address]>>
       [] name = Nothing  -> <<"address", server.address>>
       [] OTHER        -> <<"answer", name>>

(* The client always needs a token, whatever the server needs. *)
RegisterDiscoveredServer(h) ==
  /\ at[h] = Nothing
  /\ \E i \in DOMAIN listed :
       /\ listed[i] # Nothing
       /\ Begin(h, "tools", Adapter(GenerateAdapterName(listed[i]), listed[i], TRUE))
  /\ UNCHANGED <<scanning, listed, adapters, seconds, told>>

(* With or without the tools the adapter is stored, unless the request panics. *)
DiscoverTools(h) ==
  /\ at[h] # Nothing /\ at[h].step = "tools"
  /\ at' = [at EXCEPT ![h].step = "store"] \/ EndRegistration(h)
  /\ UNCHANGED <<scanning, listed, adapters, seconds, told>>

(* A name that was taken meanwhile is an error. *)
Store(adapter) ==
  IF HasAdapter(adapter.name)
    THEN UNCHANGED <<adapters, told>>
    ELSE adapters' = adapters \cup {adapter} /\ told' = told \cup {adapter}

(***************************************************************************)
(* The rest of ManagementService.CreateAdapter, after the capabilities of  *)
(* the server are discovered or not, and the answer of RegisterServer.     *)
(***************************************************************************)
CreateAdapter(h) ==
  /\ at[h] # Nothing /\ at[h].step = "create"
  /\ Store(at[h].adapter)
  /\ EndRegistration(h)
  /\ UNCHANGED <<scanning, listed, seconds>>

(* Variant: what is there is replaced. *)
UpsertReplaces(h) ==
  /\ at[h] # Nothing /\ at[h].step = "store"
  /\ adapters' = {x \in adapters : x.name # at[h].adapter.name} \cup {at[h].adapter}
  /\ told' = told \cup {at[h].adapter}
  /\ EndRegistration(h)
  /\ UNCHANGED <<scanning, listed, seconds>>

(* UpsertAsync is Create. *)
UpsertAsync(h) ==
  /\ at[h] # Nothing /\ at[h].step = "store"
  /\ Store(at[h].adapter)
  /\ EndRegistration(h)
  /\ UNCHANGED <<scanning, listed, seconds>>

Tick ==
  /\ seconds < MaxSeconds
  /\ seconds' = seconds + 1
  /\ UNCHANGED <<scanning, listed, registering>>

ScansNext ==
  \/ \E s \in Scans : StartScan(s) \/ RunScan(s)
  \/ DetectAndInterrogate
  \/ \E h \in Handlers :
       \/ RegisterServer(h) \/ CreateAdapter(h)
       \/ RegisterDiscoveredServer(h) \/ DiscoverTools(h) \/ UpsertAsync(h)
  \/ Tick

ScansSpec == ScansInit /\ [][ScansNext]_scanVars

-----------------------------------------------------------------------------
(***************************************************************************)
(* Properties.                                                             *)
(***************************************************************************)

(***************************************************************************)
(* The adapter that a registration was told of is the one that is stored:  *)
(* with the server's address and the guard that the answer speaks of,      *)
(* although names are made of hosts, seconds and what servers call         *)
(* themselves, and the name is checked before the adapter is stored.       *)
(***************************************************************************)
ToldIsStored == told \subseteq adapters

(***************************************************************************)
(* The adapter of a server that has told anybody about itself asks for a   *)
(* token: whichever way its answer came, from cache or list.               *)
(***************************************************************************)
OpenServersGuarded == \A x \in adapters : x.open => x.guarded

(***************************************************************************)
(* "Auth required = low vulnerability", "No auth = high vulnerability"     *)
(* (network_scanner.go): a server is scored low only if an answer of it    *)
(* refused something, and high if none did and all told about it, through  *)
(* detection, interrogation and the check of its capabilities.             *)
(***************************************************************************)
ScoresAreEarned ==
  \A server \in Known \cup cache :
    LET f == server.finding
    IN /\ f.score = "low" => f.refused
       /\ f.open /\ ~f.refused => f.score = "high"
=============================================================================
