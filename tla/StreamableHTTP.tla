--------------------------- MODULE StreamableHTTP ---------------------------
(***************************************************************************)
(* An MCP request through the Streamable HTTP transport                    *)
(* (pkg/mcp/streamable_http.go), the message router (message_router.go)    *)
(* and the protocol handler (protocol_handler.go), with the three stores   *)
(* they share: response cache, capability cache and sessions.  A handler   *)
(* runs in its request's goroutine, and no lock is held from one store     *)
(* call to the next; one action is one such call, or one call of a server. *)
(***************************************************************************)
EXTENDS MCPCache

CONSTANTS
  Sessions,          \* the session ids clients send, and the generated ones
  Calls,             \* the requests and notifications clients may send
  SidecarAdapters,   \* adapters with connection type StreamableHttp and a sidecar
  ChangingAdapters,  \* bound: adapters whose server and store change
  MaxVersion         \* bound on the changes of a server's lists

VARIABLES
  sessions,     \* the session store
  server,       \* server[a]: the version of the lists the MCP server has now
  tools,        \* tools[a]: MCPFunctionality in the adapter store, or None
  capabilities, \* capabilities[a]: the entry of the capability cache, or None
  pc, job,      \* where each request is, and what it asks for
  copy,         \* copy[r]: MCPFunctionality of the adapter passed to the handler
  found,        \* found[r]: the cache entry Get has read
  answer,       \* answer[r]: what the request has got so far
  known,        \* history: the version when the lists were last forgotten
  overtaken,    \* history: requests whose list was forgotten before it was stored
  outdated,     \* history: requests that began before capabilities they may store were forgotten
  stored,       \* history: MCPFunctionality when the capabilities were last forgotten
  contended        \* history: sessions that were used for several adapters

INSTANCE SessionStore

vars == <<server, tools, cache, capabilities, sessions, pc, job, copy, found,
          answer, known, overtaken, outdated, stored, contended>>

stores == <<cache, capabilities, sessions>>
history == <<known, overtaken, outdated, stored, contended>>
world == <<server, tools>>

Versions == 0 .. MaxVersion

RequestKey(r) == Key(job[r].adapter, job[r].method, job[r].params)

ListOf(r, source, version) ==
  [adapter |-> job[r].adapter, method |-> job[r].method,
   from |-> source, version |-> version]

Methods == {c.method : c \in Calls}

ASSUME CallsAssumption ==
  /\ MaxVersion \in Nat
  /\ Calls \subseteq [op: {"list", "other", "initialize", "stream", "changed"},
                     adapter: Adapters, method: Methods, params: Params,
                     session: Sessions \cup {None}]
  /\ \A c \in Calls : c.op \in {"list", "changed"} => c.method \in ListMethods

(* Sessions may have been opened by streams that are over. *)
Init ==
  /\ server = [a \in Adapters |-> 0]
  /\ tools \in [Adapters -> {None, 0}]
  /\ \A a \in Adapters \ ChangingAdapters : tools[a] = None
  /\ capabilities = [a \in Adapters |-> None]
  /\ CacheInit
  /\ sessions \in [Sessions -> {None} \cup {NewSession(a) : a \in Adapters}]
  /\ pc = [r \in Requests |-> "idle"]
  /\ job = [r \in Requests |-> None]
  /\ copy = [r \in Requests |-> None]
  /\ found = [r \in Requests |-> None]
  /\ answer = [r \in Requests |-> None]
  /\ known = [a \in Adapters |-> [m \in ListMethods |-> 0]]
  /\ overtaken = {}
  /\ outdated = {}
  /\ stored = tools
  /\ contended = {}

Goto(r, label) == pc' = [pc EXCEPT ![r] = label]

(***************************************************************************)
(* HandleRequest, handlePostRequest and handleGetRequest up to the first   *)
(* store call, and HandleNotification.  Messages that do not validate are  *)
(* refused before anything is touched.                                     *)
(***************************************************************************)
Accept(r) ==
  /\ pc[r] = "idle"
  /\ \E c \in Calls :
       /\ job' = [job EXCEPT ![r] = c]
       /\ copy' = [copy EXCEPT ![r] = tools[c.adapter]]
       /\ Goto(r, CASE c.op = "list" -> "get"
                    [] c.op \in {"other", "initialize"} -> "proxy"
                    [] c.op = "stream" -> "open"
                    [] c.op = "changed" -> "invalidate")
       /\ contended' = contended \cup
            {s \in {c.session} \ {None} :
               \/ \E q \in Requests : /\ pc[q] \notin {"idle", "done"}
                                     /\ job[q].session = s /\ job[q].adapter # c.adapter
               \/ c.op = "changed" /\ s \notin ListByAdapter(c.adapter)}
  /\ UNCHANGED <<world, stores, found, answer, known, overtaken, outdated, stored>>

(***************************************************************************)
(* handleToolsList, handleResourcesList, handlePromptsList: the cache, the *)
(* adapter's own list, the server.                                         *)
(***************************************************************************)
(* Variant: Get does not look at the expiry. *)
GetAnyAge(r) ==
  /\ pc[r] = "get"
  /\ LET e == cache[RequestKey(r)]
     IN IF e # None
          THEN found' = [found EXCEPT ![r] = e] /\ Goto(r, "hit")
          ELSE Goto(r, "missed") /\ UNCHANGED found
  /\ UNCHANGED <<world, stores, job, copy, answer, history>>

Get(r) ==
  /\ pc[r] = "get"
  /\ LET e == cache[RequestKey(r)]
     IN IF IsValid(e)
          THEN found' = [found EXCEPT ![r] = e] /\ Goto(r, "hit")
          ELSE Goto(r, "missed") /\ UNCHANGED found
  /\ UNCHANGED <<world, stores, job, copy, answer, history>>

(* Variant: the entry is taken for the list in it. *)
HitEntry(r) ==
  /\ pc[r] = "hit"
  /\ CountHit(RequestKey(r), found[r])
  /\ answer' = [answer EXCEPT ![r] = found[r]]
  /\ Goto(r, "record")
  /\ UNCHANGED <<world, capabilities, sessions, job, copy, found, history>>

Hit(r) ==
  /\ pc[r] = "hit"
  /\ CountHit(RequestKey(r), found[r])
  /\ answer' = [answer EXCEPT ![r] = found[r].data]
  /\ Goto(r, "record")
  /\ UNCHANGED <<world, capabilities, sessions, job, copy, found, history>>

ListFromAdapter(r) ==
  /\ pc[r] = "missed" /\ copy[r] # None
  /\ LET list == ListOf(r, "adapter", copy[r])
     IN /\ Set(RequestKey(r), list, r)
        /\ answer' = [answer EXCEPT ![r] = list]
  /\ Goto(r, "record")
  /\ UNCHANGED <<world, capabilities, sessions, job, copy, found, history>>

(***************************************************************************)
(* proxyToTarget: the server answers with its list as it is now, or with   *)
(* a JSON-RPC error (no result, which is not cached); or there is no       *)
(* address, no credential, no answer in time.                              *)
(***************************************************************************)
ProxyToTarget(r) ==
  /\ pc[r] = "proxy" \/ (pc[r] = "missed" /\ copy[r] = None)
  /\ \/ /\ answer' = [answer EXCEPT ![r] = ListOf(r, "server", server[job[r].adapter])]
        /\ Goto(r, IF job[r].op = "list" THEN "store" ELSE "record")
     \/ Goto(r, "record") /\ UNCHANGED answer
     \/ Goto(r, "failed") /\ UNCHANGED answer
  /\ UNCHANGED <<world, stores, job, copy, found, history>>

StoreList(r) ==
  /\ pc[r] = "store"
  /\ Set(RequestKey(r), answer[r], r)
  /\ Goto(r, "record")
  /\ UNCHANGED <<world, capabilities, sessions, job, copy, found, answer, history>>

(***************************************************************************)
(* The end of RouteMessage, which counts the operation, and what           *)
(* handlePostRequest makes of it: an error, a stream after "initialize",   *)
(* or the response.                                                        *)
(***************************************************************************)
(* Variant: a request that failed is tried again, however often. *)
RecordOrRetry(r) ==
  /\ pc[r] \in {"record", "failed"}
  /\ Goto(r, IF pc[r] = "failed" THEN "proxy"
             ELSE IF job[r].op = "initialize" THEN "open" ELSE "done")
  /\ UNCHANGED <<world, stores, job, copy, found, answer, history>>

Record(r) ==
  /\ pc[r] \in {"record", "failed"}
  /\ Goto(r, IF pc[r] = "record" /\ job[r].op = "initialize" THEN "open" ELSE "done")
  /\ UNCHANGED <<world, stores, job, copy, found, answer, history>>

(***************************************************************************)
(* handleSSEStream: the session is set anew, whatever it was before, then  *)
(* the id for tracking, then "initialize" once more through HandleMessage. *)
(***************************************************************************)
OpenStream(r) ==
  /\ pc[r] = "open"
  /\ SetWithDetails(job[r].session, job[r].adapter)
  /\ Goto(r, "track")
  /\ UNCHANGED <<world, cache, capabilities, job, copy, found, answer, history>>

TrackSession(r) ==
  /\ pc[r] = "track"
  /\ SetMCPSessionID(job[r].session, job[r].session)
  /\ Goto(r, IF job[r].op = "initialize" THEN "initialize" ELSE "relay")
  /\ UNCHANGED <<world, cache, capabilities, job, copy, found, answer, history>>

(***************************************************************************)
(* handleInitialize: a sidecar answers for itself; without one, or when it *)
(* does not answer, the proxy does, from the capability cache.             *)
(***************************************************************************)
HandleInitialize(r) ==
  /\ pc[r] = "initialize"
  /\ \/ job[r].adapter \in SidecarAdapters /\ Goto(r, "relay")
     \/ Goto(r, "capabilities")
  /\ UNCHANGED <<world, stores, job, copy, found, answer, history>>

Discovered(r) == [adapter |-> job[r].adapter, tools |-> copy[r]]

AfterCapabilities(r) == IF job[r].op = "initialize" THEN "session" ELSE "update"

(* GetCapabilities reads under one lock and stores under another. *)
GetCapabilities(r) ==
  /\ pc[r] = "capabilities"
  /\ LET e == capabilities[job[r].adapter]
     IN IF e # None
          THEN /\ found' = [found EXCEPT ![r] = e.data]
               /\ Goto(r, AfterCapabilities(r))
          ELSE Goto(r, "discover") /\ UNCHANGED found
  /\ UNCHANGED <<world, stores, job, copy, answer, history>>

DiscoverCapabilities(r) ==
  /\ pc[r] = "discover"
  /\ capabilities' = [capabilities EXCEPT ![job[r].adapter] =
                        [data |-> Discovered(r), by |-> r]]
  /\ found' = [found EXCEPT ![r] = Discovered(r)]
  /\ Goto(r, AfterCapabilities(r))
  /\ UNCHANGED <<world, cache, sessions, job, copy, answer, history>>

StoreSession(r) ==
  /\ pc[r] = "session"
  /\ SetWithDetails(job[r].session, job[r].adapter)
  /\ Goto(r, "info")
  /\ UNCHANGED <<world, cache, capabilities, job, copy, found, answer, history>>

StoreServerInfo(r) ==
  /\ pc[r] = "info"
  /\ SetMCPServerInfo(job[r].session, job[r].adapter)
  /\ Goto(r, "relay")
  /\ UNCHANGED <<world, cache, capabilities, job, copy, found, answer, history>>

(* The health check of the target and the stream, which the client's timeout ends. *)
Relay(r) ==
  /\ pc[r] = "relay"
  /\ Goto(r, "done")
  /\ UNCHANGED <<world, stores, job, copy, found, answer, history>>

(***************************************************************************)
(* handleToolsListChanged, handleResourcesListChanged and                  *)
(* handlePromptsListChanged: both caches, then the session's capabilities. *)
(***************************************************************************)
(* Variant: the capability cache waits for its entries to expire. *)
InvalidateNoCapabilities(r) ==
  /\ pc[r] = "invalidate"
  /\ Goto(r, "forget")
  /\ stored' = [stored EXCEPT ![job[r].adapter] = tools[job[r].adapter]]
  /\ outdated' = outdated \cup
       {q \in Requests : pc[q] \notin {"idle", "done"} /\ copy[q] # tools[job[q].adapter]}
  /\ UNCHANGED <<world, stores, job, copy, found, answer, known, overtaken, contended>>

InvalidateCapabilities(r) ==
  /\ pc[r] = "invalidate"
  /\ capabilities' = [capabilities EXCEPT ![job[r].adapter] = None]
  /\ Goto(r, "forget")
  /\ stored' = [stored EXCEPT ![job[r].adapter] = tools[job[r].adapter]]
  /\ outdated' = outdated \cup
       {q \in Requests : pc[q] \notin {"idle", "done"} /\ copy[q] # tools[job[q].adapter]}
  /\ UNCHANGED <<world, cache, sessions, job, copy, found, answer, known, overtaken, contended>>

InvalidateList(r) ==
  /\ pc[r] = "forget"
  /\ Invalidate(job[r].adapter, job[r].method)
  /\ Goto(r, IF job[r].session = None THEN "done" ELSE "capabilities")
  /\ known' = [known EXCEPT ![job[r].adapter][job[r].method] = server[job[r].adapter]]
  /\ overtaken' = overtaken \cup
       {q \in Requests : pc[q] = "store" /\ RequestKey(q) \in Matching(job[r].adapter, job[r].method)}
  /\ UNCHANGED <<world, capabilities, sessions, job, copy, found, answer, outdated, stored, contended>>

UpdateSession(r) ==
  /\ pc[r] = "update"
  /\ SetMCPCapabilities(job[r].session, found[r])
  /\ Goto(r, "done")
  /\ UNCHANGED <<world, cache, capabilities, job, copy, found, answer, history>>

Handler(r) ==
  \/ Get(r) \/ Hit(r) \/ ListFromAdapter(r) \/ ProxyToTarget(r) \/ StoreList(r)
  \/ Record(r) \/ OpenStream(r) \/ TrackSession(r) \/ HandleInitialize(r)
  \/ GetCapabilities(r) \/ DiscoverCapabilities(r) \/ StoreSession(r)
  \/ StoreServerInfo(r) \/ Relay(r) \/ InvalidateCapabilities(r)
  \/ InvalidateList(r) \/ UpdateSession(r)

(***************************************************************************)
(* Everything else that happens: the server's lists change, the adapter    *)
(* service stores what it has discovered, time passes.                     *)
(***************************************************************************)
requests == <<pc, job, copy, found, answer>>

ListsChange(a) ==
  /\ a \in ChangingAdapters /\ server[a] < MaxVersion
  /\ server' = [server EXCEPT ![a] = @ + 1]
  /\ UNCHANGED <<tools, stores, requests, history>>

SyncAdapter(a) ==
  /\ a \in ChangingAdapters
  /\ tools' = [tools EXCEPT ![a] = server[a]]
  /\ UNCHANGED <<server, stores, requests, history>>

CacheTime ==
  /\ (\E k \in Keys : Expire(k)) \/ Cleanup
  /\ UNCHANGED <<world, capabilities, sessions, requests, history>>

(* An expired entry is as good as none, before and after the cleanup. *)
CapabilityTime(a) ==
  /\ capabilities[a] # None
  /\ capabilities' = [capabilities EXCEPT ![a] = None]
  /\ UNCHANGED <<world, cache, sessions, requests, history>>

SessionTime ==
  /\ CleanupExpired \/ (\E a \in Adapters : DeleteByAdapter(a))
  /\ UNCHANGED <<world, cache, capabilities, requests, history>>

Next ==
  \/ \E r \in Requests : Accept(r) \/ Handler(r)
  \/ \E a \in Adapters : ListsChange(a) \/ SyncAdapter(a) \/ CapabilityTime(a)
  \/ CacheTime \/ SessionTime

Spec == Init /\ [][Next]_vars

-----------------------------------------------------------------------------
(***************************************************************************)
(* Properties.                                                             *)
(***************************************************************************)
Lists == [adapter: Adapters, method: Methods, from: {"adapter", "server"},
          version: Versions]
Capabilities == [adapter: Adapters, tools: Versions \cup {None}]

Entries == [data: Lists, by: Requests, hits: Nat, expired: BOOLEAN]
Records ==
  [adapter: Adapters, mcpId: Sessions \cup {None}, capabilities: Capabilities \cup {None},
   server: Adapters \cup {None}, token: {None}, status: {None}]
Labels ==
  {"idle", "get", "hit", "missed", "proxy", "store", "record", "failed", "open", "track",
   "initialize", "capabilities", "discover", "session", "info", "relay", "invalidate", "forget",
   "update", "done"}

ASSUME NoneAssumption ==
  /\ None \notin Sessions /\ None \notin Calls /\ None \notin Versions
  /\ None \notin Lists /\ None \notin Entries

(* Types. *)
TypeOK ==
  /\ server \in [Adapters -> Versions]
  /\ tools \in [Adapters -> Versions \cup {None}]
  /\ cache \in [Keys -> Entries \cup {None}]
  /\ capabilities \in [Adapters -> [data: Capabilities, by: Requests] \cup {None}]
  /\ sessions \in [Sessions -> Records \cup {None}]
  /\ pc \in [Requests -> Labels]
  /\ job \in [Requests -> Calls \cup {None}]
  /\ copy \in [Requests -> Versions \cup {None}]
  /\ found \in [Requests -> Entries \cup Capabilities \cup {None}]
  /\ answer \in [Requests -> Lists \cup {None}]
  /\ known \in [Adapters -> [ListMethods -> Versions]]
  /\ overtaken \subseteq Requests /\ outdated \subseteq Requests
  /\ stored \in [Adapters -> Versions \cup {None}]
  /\ contended \subseteq Sessions

(***************************************************************************)
(* What list_changed notifications are for: a list that the server has     *)
(* replaced is not served from the cache once the notification has been    *)
(* handled, except one that was already on its way into the cache then.    *)
(* (A list asked for with parameters is not forgotten at all, and a list   *)
(* of the adapter store may be old itself.)                                *)
(***************************************************************************)
ForgottenForGood ==
  \A k \in Cached :
    (/\ IsValid(cache[k]) /\ k[3] = NoParams
     /\ cache[k].data.from = "server"
     /\ cache[k].data.version < known[k[1]][k[2]]) => cache[k].by \in overtaken

(***************************************************************************)
(* The same for the capability cache, whose values are computed from the   *)
(* adapter that a handler got when it began (capability_cache.go:39): old  *)
(* ones come back only through a request under way at the invalidation,    *)
(* which the invalidating one is itself.                                   *)
(***************************************************************************)
Newer(v, w) == v # None /\ (w = None \/ (w # None => v > w))

CapabilitiesForgotten ==
  \A a \in Adapters :
    (capabilities[a] # None => ~Newer(stored[a], capabilities[a].data.tools))
      \/ capabilities[a].by \in outdated

(***************************************************************************)
(* A session never has the capabilities of another adapter than its own,   *)
(* unless two adapters were at work on it at the same time, or a           *)
(* notification named a session that was not its adapter's:                *)
(* handleToolsListChanged writes them three store calls after it began,    *)
(* and nothing there looks at whose the session is.                        *)
(***************************************************************************)
CapabilitiesOfOwnAdapter ==
  \A s \in Sessions \ contended :
    (HasSession(s) /\ sessions[s].capabilities # None) =>
       sessions[s].capabilities.adapter = sessions[s].adapter

(***************************************************************************)
(* Both caches keep the promise of LossyCache: a hit is what was stored    *)
(* under the key and has neither been forgotten nor expired when it was    *)
(* looked up; and the cache keeps within MaxEntries although several       *)
(* requests that missed store what they have fetched (cache.go:245).       *)
(***************************************************************************)
Hits == [r \in Requests |->
           IF job[r] # None /\ (job[r] # None => job[r].op = "list") /\ found[r] # None
             THEN found[r].data ELSE None]

Responses == INSTANCE LossyCache WITH
  Keys <- Keys, Values <- Lists, Readers <- Requests, Capacity <- MaxEntries,
  held <- [k \in Keys |-> IF IsValid(cache[k]) THEN cache[k].data ELSE None],
  got <- Hits

ResponsesImplemented == Responses!Spec
=============================================================================
