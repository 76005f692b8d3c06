------------------------ MODULE StreamableHTTPProofs ------------------------
(***************************************************************************)
(* Proofs about StreamableHTTP, for any requests, adapters, keys and       *)
(* changes of the servers' lists: the response cache implements            *)
(* LossyCache, and neither cache brings back what was forgotten.           *)
(***************************************************************************)
EXTENDS StreamableHTTP, FiniteSetTheorems, TLAPS

(***************************************************************************)
(* The response cache keeps within its limit.  A request is where its      *)
(* operation leads, and carries what it has read of its own adapter.       *)
(***************************************************************************)
Bounded == IsFiniteSet(Cached) /\ Cardinality(Cached) <= MaxEntries

Active(r) == pc[r] \notin {"idle", "done"}

Carries(r) ==
  /\ pc[r] = "idle" => found[r] = None
  /\ pc[r] # "idle" => job[r] # None
  /\ pc[r] \in {"get", "hit", "missed", "store"} => job[r].op = "list"
  /\ pc[r] \in {"invalidate", "forget", "update"} => job[r].op = "changed"
  /\ pc[r] \in {"capabilities", "discover"} => job[r].op \in {"changed", "initialize"}
  /\ pc[r] \in {"open", "track"} => job[r].op \in {"initialize", "stream"}
  /\ pc[r] \in {"initialize", "session", "info"} => job[r].op = "initialize"
  /\ pc[r] = "hit" => found[r] # None
  /\ (pc[r] # "idle" /\ found[r] # None) => (job[r].op = "list" <=> found[r] \in Entries)
  /\ pc[r] = "update" => found[r] \in Capabilities /\ found[r].adapter = job[r].adapter
  /\ pc[r] = "store" => answer[r] # None

Labelled == \A a \in Adapters : capabilities[a] # None => capabilities[a].data.adapter = a

Placed == TypeOK /\ Bounded /\ Labelled /\ \A r \in Requests : Carries(r)

\* Lists on their way into the cache, as ForgottenForGood says of those in it.
Versioned ==
  /\ \A a \in Adapters, m \in ListMethods : known[a][m] <= server[a]
  /\ \A r \in Requests :
       (pc[r] = "store" /\ job[r].params = NoParams) =>
          \/ answer[r].version >= known[job[r].adapter][job[r].method]
          \/ r \in overtaken

\* A stored list never gets older, and requests under way begin with what is stored.
Fresh ==
  /\ \A a \in Adapters : tools[a] # None => tools[a] <= server[a]
  /\ \A a \in Adapters : ~Newer(stored[a], tools[a])
  /\ \A r \in Requests : Active(r) => ~Newer(stored[job[r].adapter], copy[r]) \/ r \in outdated

\* A session that adapters do not contend for is that of the request which writes to it.
Owned ==
  /\ \A q, r \in Requests :
       (Active(q) /\ Active(r) /\ job[q].session = job[r].session
          /\ job[r].session \in Sessions \ contended) => job[q].adapter = job[r].adapter
  /\ \A r \in Requests :
       LET s == job[r].session IN
       (Active(r) /\ job[r].op = "changed" /\ s \in Sessions \ contended /\ HasSession(s)) =>
          sessions[s].adapter = job[r].adapter

-----------------------------------------------------------------------------
(***************************************************************************)
(* The operators of MCPCache.                                              *)
(***************************************************************************)
CacheType == cache \in [Keys -> Entries \cup {None}]

\* What every operator but Set does to the entries: they stay, get older, or go.
OnlyAges ==
  \A k \in Keys :
    \/ cache'[k] = None
    \/ /\ cache[k] # None
       /\ cache'[k].data = cache[k].data /\ cache'[k].by = cache[k].by
       /\ cache[k].expired => cache'[k].expired

LEMMA NewEntryType ==
  ASSUME NEW data \in Lists, NEW r \in Requests
  PROVE  /\ NewEntry(data, r) \in Entries /\ NewEntry(data, r) # None
         /\ NewEntry(data, r).data = data /\ NewEntry(data, r).by = r
         /\ ~NewEntry(data, r).expired
<1>1. NewEntry(data, r) \in Entries
  BY DEF NewEntry, Entries
<1>2. NewEntry(data, r) # None
  BY <1>1, NoneAssumption
<1> QED
  BY <1>1, <1>2 DEF NewEntry

LEMMA SetEffect ==
  ASSUME CacheType, NEW k \in Keys, NEW data \in Lists, NEW r \in Requests, Set(k, data, r)
  PROVE  /\ CacheType'
         /\ cache'[k] = NewEntry(data, r)
         /\ \E victim : \A j \in Keys \ {k} :
               cache'[j] = cache[j] \/ (j = victim /\ cache'[j] = None)
<1>. USE NewEntryType
<1>1. CASE Cardinality(Cached) >= MaxEntries
  <2>1. PICK victim \in LeastHit :
           cache' = [cache EXCEPT ![victim] = None, ![k] = NewEntry(data, r)]
    BY <1>1 DEF Set
  <2> QED
    BY <2>1 DEF CacheType
<1>2. CASE ~(Cardinality(Cached) >= MaxEntries)
  BY <1>2 DEF Set, CacheType
<1> QED
  BY <1>1, <1>2

LEMMA SetBounded ==
  ASSUME CacheType, Bounded, NEW k \in Keys, NEW data \in Lists, NEW r \in Requests,
         Set(k, data, r)
  PROVE  Bounded'
<1>. USE CacheAssumption
<1>1. CASE Cardinality(Cached) >= MaxEntries
  <2>1. PICK victim \in LeastHit :
           cache' = [cache EXCEPT ![victim] = None, ![k] = NewEntry(data, r)]
    BY <1>1 DEF Set
  <2>2. victim \in Cached
    BY DEF LeastHit
  <2>3. Cached' \subseteq (Cached \ {victim}) \cup {k}
    BY <2>1 DEF Cached, CacheType
  <2> DEFINE rest == Cached \ {victim}
  <2>4. IsFiniteSet(rest) /\ Cardinality(rest) = Cardinality(Cached) - 1
    BY <2>2, FS_RemoveElement DEF Bounded
  <2> HIDE DEF rest
  <2>5. IsFiniteSet(rest \cup {k}) /\ Cardinality(rest \cup {k}) <= Cardinality(rest) + 1
    <3>1. Cardinality(rest) \in Nat
      BY <2>4, FS_CardinalityType
    <3>2. /\ IsFiniteSet(rest \cup {k})
          /\ Cardinality(rest \cup {k}) \in {Cardinality(rest), Cardinality(rest) + 1}
      BY <2>4, FS_AddElement
    <3> QED
      BY <3>1, <3>2
  <2>6. Cardinality(Cached) \in Nat
    BY FS_CardinalityType DEF Bounded
  <2>7. IsFiniteSet(Cached') /\ Cardinality(Cached') <= Cardinality(rest \cup {k})
    BY <2>3, <2>5, FS_Subset DEF rest
  <2>8. Cardinality(Cached') \in Nat /\ Cardinality(rest) \in Nat
        /\ Cardinality(rest \cup {k}) \in Nat
    BY <2>4, <2>5, <2>7, FS_CardinalityType DEF rest
  <2> QED
    BY <2>4, <2>5, <2>6, <2>7, <2>8 DEF Bounded
<1>2. CASE ~(Cardinality(Cached) >= MaxEntries)
  <2>1. Cached' \subseteq Cached \cup {k}
    BY <1>2 DEF Set, Cached, CacheType
  <2>2. Cardinality(Cached) \in Nat
    BY FS_CardinalityType DEF Bounded
  <2>3. /\ IsFiniteSet(Cached \cup {k})
        /\ Cardinality(Cached \cup {k}) <= Cardinality(Cached) + 1
    <3>1. IsFiniteSet(Cached)
      BY DEF Bounded
    <3>2. /\ IsFiniteSet(Cached \cup {k})
          /\ Cardinality(Cached \cup {k}) \in {Cardinality(Cached), Cardinality(Cached) + 1}
      BY <3>1, FS_AddElement
    <3> QED
      BY <2>2, <3>2
  <2>4. IsFiniteSet(Cached') /\ Cardinality(Cached') <= Cardinality(Cached \cup {k})
    BY <2>1, <2>3, FS_Subset
  <2>5. Cardinality(Cached') \in Nat /\ Cardinality(Cached \cup {k}) \in Nat
    BY <2>3, <2>4, FS_CardinalityType
  <2> QED
    BY <1>2, <2>2, <2>3, <2>4, <2>5 DEF Bounded
<1> QED
  BY <1>1, <1>2

LEMMA AgingBounded ==
  ASSUME Bounded, OnlyAges
  PROVE  Bounded'
<1>1. Cached' \subseteq Cached
  BY DEF Cached, OnlyAges
<1>2. IsFiniteSet(Cached') /\ Cardinality(Cached') <= Cardinality(Cached)
  BY <1>1, FS_Subset DEF Bounded
<1>3. Cardinality(Cached') \in Nat /\ Cardinality(Cached) \in Nat
  BY <1>2, FS_CardinalityType DEF Bounded
<1> QED
  BY <1>2, <1>3, CacheAssumption DEF Bounded

LEMMA CountHitAges ==
  ASSUME CacheType, NEW k \in Keys, NEW e, CountHit(k, e)
  PROVE  CacheType' /\ OnlyAges
BY NoneAssumption DEF CacheType, CountHit, OnlyAges, Entries

LEMMA InvalidateAges ==
  ASSUME CacheType, NEW a, NEW m, Invalidate(a, m)
  PROVE  /\ CacheType' /\ OnlyAges
         /\ \A k \in Matching(a, m) \cap Keys : cache'[k] = None
BY DEF CacheType, Invalidate, OnlyAges

LEMMA TimeAges ==
  ASSUME CacheType, (\E k \in Keys : Expire(k)) \/ Cleanup
  PROVE  CacheType' /\ OnlyAges
<1>1. ASSUME NEW k \in Keys, Expire(k) PROVE CacheType' /\ OnlyAges
  BY <1>1, NoneAssumption DEF CacheType, Expire, IsValid, OnlyAges, Entries
<1>2. ASSUME Cleanup PROVE CacheType' /\ OnlyAges
  BY <1>2 DEF CacheType, Cleanup, OnlyAges
<1> QED
  BY <1>1, <1>2

LEMMA SameAges ==
  ASSUME CacheType, UNCHANGED cache
  PROVE  CacheType' /\ OnlyAges
BY DEF CacheType, OnlyAges

(***************************************************************************)
(* The operators of SessionStore.                                          *)
(***************************************************************************)
SessionType == sessions \in [Sessions -> Records \cup {None}]

LEMMA FieldWrite ==
  ASSUME SessionType, NEW s, NEW field, NEW value, SetField(s, field, value),
         \/ field = "mcpId" /\ value \in Sessions \cup {None}
         \/ field = "server" /\ value \in Adapters \cup {None}
         \/ field = "capabilities" /\ value \in Capabilities \cup {None}
  PROVE  SessionType'
<1> DEFINE record == [sessions[s] EXCEPT ![field] = value]
<1>1. CASE HasSession(s)
  <2>1. sessions' = [sessions EXCEPT ![s] = record]
    BY <1>1 DEF SetField
  <2>2. s \in Sessions => sessions[s] \in Records
    BY <1>1 DEF SessionType, HasSession
  <2>3. s \in Sessions => record \in Records
    <3>1. CASE field = "mcpId"
      BY <2>2, <3>1 DEF Records
    <3>2. CASE field = "server"
      BY <2>2, <3>2 DEF Records
    <3>3. CASE field = "capabilities"
      BY <2>2, <3>3 DEF Records
    <3> QED
      BY <3>1, <3>2, <3>3
  <2> HIDE DEF record
  <2> QED
    BY <2>1, <2>3 DEF SessionType
<1>2. CASE ~HasSession(s)
  BY <1>2 DEF SetField, SessionType
<1> QED
  BY <1>1, <1>2

LEMMA SessionWrites ==
  ASSUME SessionType, NEW s \in Sessions \cup {None}, NEW a \in Adapters,
         SetWithDetails(s, a) \/ SetMCPSessionID(s, s) \/ SetMCPServerInfo(s, a)
  PROVE  SessionType'
<1>1. CASE SetWithDetails(s, a)
  BY <1>1 DEF SessionType, SetWithDetails, NewSession, Records
<1>2. CASE SetMCPSessionID(s, s)
  BY <1>2, FieldWrite DEF SetMCPSessionID
<1>3. CASE SetMCPServerInfo(s, a)
  BY <1>3, FieldWrite DEF SetMCPServerInfo
<1> QED
  BY <1>1, <1>2, <1>3

LEMMA CapabilitiesWrite ==
  ASSUME SessionType, NEW s \in Sessions \cup {None}, NEW c \in Capabilities,
         SetMCPCapabilities(s, c)
  PROVE  SessionType'
BY FieldWrite DEF SetMCPCapabilities

LEMMA SessionDeletes ==
  ASSUME SessionType, NEW S, DeleteSessions(S)
  PROVE  SessionType'
BY DEF SessionType, DeleteSessions

-----------------------------------------------------------------------------
(***************************************************************************)
(* Types, and where requests are.                                          *)
(***************************************************************************)
LEMMA JobType ==
  ASSUME TypeOK, NEW r \in Requests, job[r] # None
  PROVE  /\ job[r] \in Calls
         /\ job[r].op \in {"list", "other", "initialize", "stream", "changed"}
         /\ job[r].adapter \in Adapters /\ job[r].method \in Methods
         /\ job[r].params \in Params /\ job[r].session \in Sessions \cup {None}
         /\ job[r].op \in {"list", "changed"} => /\ job[r].method \in ListMethods
                                                 /\ RequestKey(r) \in Keys
<1>1. job[r] \in Calls
  BY DEF TypeOK
<1> QED
  BY <1>1, CallsAssumption DEF RequestKey, Key, Keys

LEMMA ListType ==
  ASSUME TypeOK, NEW r \in Requests, job[r] # None, NEW source \in {"adapter", "server"},
         NEW version \in Versions
  PROVE  ListOf(r, source, version) \in Lists
BY JobType DEF ListOf, Lists

\* What a request puts into the response cache.
Stores(r, data) ==
  /\ Set(RequestKey(r), data, r)
  /\ RequestKey(r) \in Keys
  /\ \/ pc[r] = "missed" /\ data.from = "adapter"
     \/ pc[r] = "store" /\ data = answer[r]
  /\ UNCHANGED <<server, job, found, known, overtaken>>

LEMMA HandlerCache ==
  ASSUME Placed, NEW r \in Requests, Handler(r)
  PROVE  (OnlyAges /\ CacheType') \/ \E data \in Lists : Stores(r, data)
<1>1. CacheType /\ TypeOK /\ Carries(r)
  BY DEF Placed, TypeOK, CacheType
<1>2. CASE Hit(r)
  <2>1. RequestKey(r) \in Keys
    BY <1>1, <1>2, JobType DEF Hit, Carries
  <2> QED
    BY <1>1, <1>2, <2>1, CountHitAges DEF Hit
<1>3. CASE ListFromAdapter(r)
  <2>1. job[r] # None /\ RequestKey(r) \in Keys
    BY <1>1, <1>3, JobType DEF ListFromAdapter, Carries
  <2>2. ListOf(r, "adapter", copy[r]) \in Lists
    BY <1>1, <1>3, <2>1, ListType DEF ListFromAdapter, TypeOK
  <2> QED
    BY <1>3, <2>1, <2>2 DEF ListFromAdapter, Stores, ListOf, world, history
<1>4. CASE StoreList(r)
  <2>1. RequestKey(r) \in Keys /\ answer[r] \in Lists
    BY <1>1, <1>4, JobType DEF StoreList, Carries, TypeOK
  <2> QED
    BY <1>4, <2>1 DEF StoreList, Stores, world, history
<1>5. CASE InvalidateList(r)
  BY <1>1, <1>5, InvalidateAges DEF InvalidateList
<1>6. CASE UNCHANGED cache
  BY <1>1, <1>6, SameAges
<1> QED
  BY <1>2, <1>3, <1>4, <1>5, <1>6
     DEF Handler, Get, ProxyToTarget, Record, OpenStream, TrackSession, HandleInitialize,
         GetCapabilities, DiscoverCapabilities, StoreSession, StoreServerInfo, Relay,
         InvalidateCapabilities, UpdateSession, stores

LEMMA CacheSteps ==
  ASSUME Placed, [Next]_vars
  PROVE  /\ CacheType' /\ Bounded'
         /\ OnlyAges \/ \E r \in Requests, data \in Lists : Stores(r, data)
<1>1. CacheType /\ Bounded
  BY DEF Placed, TypeOK, CacheType
<1>2. (OnlyAges /\ CacheType') \/ \E r \in Requests, data \in Lists : Stores(r, data)
  <2>1. CASE UNCHANGED cache
    BY <1>1, <2>1, SameAges
  <2>2. CASE CacheTime
    BY <1>1, <2>2, TimeAges DEF CacheTime
  <2>3. ASSUME ~CacheTime, ~\E r \in Requests : Handler(r) PROVE UNCHANGED cache
    BY <2>3 DEF Next, vars, Accept, ListsChange, SyncAdapter, CapabilityTime, SessionTime, stores
  <2> QED
    BY <2>1, <2>2, <2>3, HandlerCache
<1>3. CASE OnlyAges /\ CacheType'
  BY <1>1, <1>3, AgingBounded
<1>4. ASSUME NEW r \in Requests, NEW data \in Lists, Stores(r, data)
      PROVE  CacheType' /\ Bounded'
  BY <1>1, <1>4, SetEffect, SetBounded DEF Stores
<1> QED
  BY <1>2, <1>3, <1>4

LEMMA SessionSteps ==
  ASSUME Placed, [Next]_vars
  PROVE  SessionType'
<1>1. SessionType /\ TypeOK
  BY DEF Placed, TypeOK, SessionType
<1>2. ASSUME NEW r \in Requests, job[r] # None
      PROVE  job[r].session \in Sessions \cup {None} /\ job[r].adapter \in Adapters
  BY <1>1, <1>2, JobType
<1>3. ASSUME NEW r \in Requests, OpenStream(r) \/ StoreSession(r) PROVE SessionType'
  BY <1>1, <1>2, <1>3, SessionWrites DEF OpenStream, StoreSession, Placed, Carries
<1>4. ASSUME NEW r \in Requests, TrackSession(r) \/ StoreServerInfo(r) PROVE SessionType'
  BY <1>1, <1>2, <1>4, SessionWrites DEF TrackSession, StoreServerInfo, Placed, Carries
<1>5. ASSUME NEW r \in Requests, UpdateSession(r) PROVE SessionType'
  BY <1>1, <1>2, <1>5, CapabilitiesWrite DEF UpdateSession, Placed, Carries
<1>6. ASSUME SessionTime PROVE SessionType'
  BY <1>1, <1>6, SessionDeletes DEF SessionTime, CleanupExpired, DeleteByAdapter
<1>7. CASE UNCHANGED sessions
  BY <1>1, <1>7 DEF SessionType
<1> QED
  BY <1>3, <1>4, <1>5, <1>6, <1>7
     DEF Next, vars, Accept, Handler, Get, Hit, ListFromAdapter, ProxyToTarget, StoreList, Record,
         HandleInitialize, GetCapabilities, DiscoverCapabilities, Relay, InvalidateCapabilities,
         InvalidateList, ListsChange, SyncAdapter, CapabilityTime, CacheTime, stores

WorldType ==
  /\ server \in [Adapters -> Versions]
  /\ tools \in [Adapters -> Versions \cup {None}]
  /\ capabilities \in [Adapters -> [data: Capabilities, by: Requests] \cup {None}]

RequestsType ==
  /\ pc \in [Requests -> Labels]
  /\ job \in [Requests -> Calls \cup {None}]
  /\ copy \in [Requests -> Versions \cup {None}]
  /\ found \in [Requests -> Entries \cup Capabilities \cup {None}]
  /\ answer \in [Requests -> Lists \cup {None}]

HistoryType ==
  /\ known \in [Adapters -> [ListMethods -> Versions]]
  /\ overtaken \subseteq Requests /\ outdated \subseteq Requests
  /\ stored \in [Adapters -> Versions \cup {None}]
  /\ contended \subseteq Sessions

LEMMA TypeParts ==
  TypeOK <=> WorldType /\ CacheType /\ SessionType /\ RequestsType /\ HistoryType
BY DEF TypeOK, WorldType, CacheType, SessionType, RequestsType, HistoryType

LEMMA WorldSteps ==
  ASSUME Placed, [Next]_vars
  PROVE  WorldType'
<1>1. TypeOK /\ WorldType
  BY TypeParts DEF Placed
<1>2. ASSUME NEW r \in Requests, DiscoverCapabilities(r) PROVE WorldType'
  <2>1. job[r] # None /\ job[r].adapter \in Adapters
    BY <1>1, <1>2, JobType DEF Placed, Carries, DiscoverCapabilities
  <2>2. [data |-> Discovered(r), by |-> r] \in [data: Capabilities, by: Requests]
    BY <1>1, <2>1 DEF Discovered, Capabilities, TypeOK
  <2> QED
    BY <1>1, <1>2, <2>1, <2>2 DEF DiscoverCapabilities, WorldType, world
<1>3. ASSUME NEW r \in Requests, InvalidateCapabilities(r) PROVE WorldType'
  BY <1>1, <1>3 DEF InvalidateCapabilities, WorldType, world
<1>4. ASSUME NEW a \in Adapters, ListsChange(a) \/ SyncAdapter(a) \/ CapabilityTime(a)
      PROVE  WorldType'
  <2>1. server[a] < MaxVersion => server[a] + 1 \in Versions
    BY <1>1, CallsAssumption DEF WorldType, Versions
  <2> QED
    BY <1>1, <1>4, <2>1 DEF ListsChange, SyncAdapter, CapabilityTime, WorldType, world, stores
<1>5. CASE UNCHANGED <<server, tools, capabilities>>
  BY <1>1, <1>5 DEF WorldType
<1> QED
  BY <1>2, <1>3, <1>4, <1>5
     DEF Next, vars, Accept, Handler, Get, Hit, ListFromAdapter, ProxyToTarget, StoreList, Record,
         OpenStream, TrackSession, HandleInitialize, GetCapabilities, StoreSession,
         StoreServerInfo, Relay, InvalidateList, UpdateSession, CacheTime, SessionTime, stores, world

LEMMA HistorySteps ==
  ASSUME Placed, [Next]_vars
  PROVE  HistoryType'
<1>1. TypeOK /\ HistoryType
  BY TypeParts DEF Placed
<1>2. ASSUME NEW r \in Requests, Accept(r) PROVE HistoryType'
  <2>1. \A c \in Calls : {c.session} \ {None} \subseteq Sessions
    BY CallsAssumption
  <2>2. contended' \subseteq Sessions
    BY <1>1, <1>2, <2>1 DEF Accept, HistoryType
  <2> QED
    BY <1>1, <1>2, <2>2 DEF Accept, HistoryType
<1>3. ASSUME NEW r \in Requests, InvalidateCapabilities(r) PROVE HistoryType'
  BY <1>1, <1>3 DEF InvalidateCapabilities, HistoryType, TypeOK
<1>4. ASSUME NEW r \in Requests, InvalidateList(r) PROVE HistoryType'
  <2>1. /\ job[r] # None /\ job[r].adapter \in Adapters /\ job[r].method \in ListMethods
    BY <1>1, <1>4, JobType DEF Placed, Carries, InvalidateList
  <2>2. known' \in [Adapters -> [ListMethods -> Versions]]
    BY <1>1, <1>4, <2>1 DEF InvalidateList, TypeOK
  <2> QED
    BY <1>1, <1>4, <2>2 DEF InvalidateList, HistoryType
<1>5. CASE UNCHANGED history
  BY <1>1, <1>5 DEF HistoryType, history
<1> QED
  BY <1>2, <1>3, <1>4, <1>5
     DEF Next, vars, history, Handler, Get, Hit, ListFromAdapter, ProxyToTarget, StoreList, Record,
         OpenStream, TrackSession, HandleInitialize, GetCapabilities, DiscoverCapabilities,
         StoreSession, StoreServerInfo, Relay, UpdateSession, ListsChange, SyncAdapter,
         CapabilityTime, CacheTime, SessionTime

-----------------------------------------------------------------------------
\* A step of a request leaves the others where they are.
SameOthers(r) ==
  \A q \in Requests \ {r} :
    /\ pc'[q] = pc[q] /\ job'[q] = job[q] /\ copy'[q] = copy[q]
    /\ found'[q] = found[q] /\ answer'[q] = answer[q]

LEMMA AcceptPlaced ==
  ASSUME Placed, NEW r \in Requests, Accept(r)
  PROVE  RequestsType' /\ SameOthers(r) /\ Carries(r)'
<1>1. TypeOK /\ Carries(r)
  BY DEF Placed
<1>2. PICK c \in Calls :
        /\ job' = [job EXCEPT ![r] = c]
        /\ copy' = [copy EXCEPT ![r] = tools[c.adapter]]
        /\ Goto(r, CASE c.op = "list" -> "get"
                     [] c.op \in {"other", "initialize"} -> "proxy"
                     [] c.op = "stream" -> "open"
                     [] c.op = "changed" -> "invalidate")
        /\ pc[r] = "idle" /\ UNCHANGED <<found, answer>>
  BY DEF Accept
<1>3. c \in Calls /\ c.op \in {"list", "other", "initialize", "stream", "changed"}
      /\ c.adapter \in Adapters /\ c # None
  BY CallsAssumption, NoneAssumption
<1>4. PICK step \in {"get", "proxy", "open", "invalidate"} :
        /\ Goto(r, step)
        /\ step = "get" => c.op = "list"
        /\ step = "open" => c.op = "stream"
        /\ step = "invalidate" => c.op = "changed"
  BY <1>2, <1>3
<1>5. RequestsType' /\ SameOthers(r) /\ job'[r] = c /\ pc'[r] = step /\ found'[r] = None
  BY <1>1, <1>2, <1>3, <1>4 DEF TypeOK, RequestsType, SameOthers, Goto, Labels, Carries
<1> QED
  BY <1>3, <1>4, <1>5 DEF Carries

LEMMA RouterPlaced ==
  ASSUME Placed, NEW r \in Requests,
         Get(r) \/ Hit(r) \/ ListFromAdapter(r) \/ ProxyToTarget(r) \/ StoreList(r) \/ Record(r)
  PROVE  RequestsType' /\ SameOthers(r) /\ Carries(r)'
<1>1. TypeOK /\ Carries(r) /\ UNCHANGED <<job, copy>>
  BY DEF Placed, Get, Hit, ListFromAdapter, ProxyToTarget, StoreList, Record
<1>2. CASE Get(r)
  <2>1. job[r] # None /\ job[r].op = "list" /\ RequestKey(r) \in Keys
    BY <1>1, <1>2, JobType DEF Get, Carries
  <2>2. CASE IsValid(cache[RequestKey(r)])
    <3>1. cache[RequestKey(r)] \in Entries /\ cache[RequestKey(r)] # None
      BY <1>1, <2>1, <2>2 DEF TypeOK, IsValid
    <3>2. found' = [found EXCEPT ![r] = cache[RequestKey(r)]] /\ pc' = [pc EXCEPT ![r] = "hit"]
      BY <1>2, <2>2 DEF Get, Goto
    <3> QED
      BY <1>1, <1>2, <2>1, <3>1, <3>2 DEF Get, TypeOK, RequestsType, SameOthers, Labels, Carries
  <2>3. CASE ~IsValid(cache[RequestKey(r)])
    BY <1>1, <1>2, <2>1, <2>3 DEF Get, Goto, TypeOK, RequestsType, SameOthers, Labels, Carries
  <2> QED
    BY <2>2, <2>3
<1>3. CASE Hit(r)
  <2>1. found[r] \in Entries /\ found[r].data \in Lists
    BY <1>1, <1>3 DEF Hit, Carries, Entries
  <2> QED
    BY <1>1, <1>3, <2>1 DEF Hit, Goto, TypeOK, RequestsType, SameOthers, Labels, Carries
<1>4. CASE ListFromAdapter(r)
  <2>1. ListOf(r, "adapter", copy[r]) \in Lists
    BY <1>1, <1>4, ListType DEF ListFromAdapter, TypeOK, Carries
  <2> QED
    BY <1>1, <1>4, <2>1 DEF ListFromAdapter, Goto, TypeOK, RequestsType, SameOthers, Labels, Carries
<1>5. CASE ProxyToTarget(r)
  <2> DEFINE list == ListOf(r, "server", server[job[r].adapter])
  <2>1. list \in Lists
    BY <1>1, <1>5, ListType, JobType DEF ProxyToTarget, TypeOK, Carries
  <2>2. list # None
    BY <2>1, NoneAssumption
  <2>3. UNCHANGED found /\ pc[r] # "idle" /\ job[r] # None
    BY <1>1, <1>5 DEF ProxyToTarget, Carries
  <2>4. CASE answer' = [answer EXCEPT ![r] = list]
             /\ pc' = [pc EXCEPT ![r] = IF job[r].op = "list" THEN "store" ELSE "record"]
    <3> HIDE DEF list
    <3> QED
      BY <1>1, <2>1, <2>2, <2>3, <2>4 DEF TypeOK, RequestsType, SameOthers, Labels, Carries
  <2>5. CASE UNCHANGED answer /\ \E label \in {"record", "failed"} : Goto(r, label)
    BY <1>1, <2>3, <2>5 DEF Goto, TypeOK, RequestsType, SameOthers, Labels, Carries
  <2> QED
    BY <1>5, <2>4, <2>5 DEF ProxyToTarget, Goto
<1>6. CASE StoreList(r) \/ Record(r)
  BY <1>1, <1>6 DEF StoreList, Record, Goto, TypeOK, RequestsType, SameOthers, Labels, Carries
<1> QED
  BY <1>2, <1>3, <1>4, <1>5, <1>6

LEMMA DiscoveredType ==
  ASSUME TypeOK, NEW r \in Requests, job[r] # None
  PROVE  /\ Discovered(r) \in Capabilities /\ Discovered(r) \notin Entries
         /\ Discovered(r).adapter = job[r].adapter
<1>1. Discovered(r) \in Capabilities /\ Discovered(r).adapter = job[r].adapter
  BY JobType DEF Discovered, Capabilities, TypeOK
<1>2. Capabilities \cap Entries = {}
  BY DEF Capabilities, Entries
<1> QED
  BY <1>1, <1>2

LEMMA StreamPlaced ==
  ASSUME Placed, NEW r \in Requests,
         \/ OpenStream(r) \/ TrackSession(r) \/ HandleInitialize(r) \/ StoreSession(r)
         \/ StoreServerInfo(r) \/ Relay(r)
  PROVE  RequestsType' /\ SameOthers(r) /\ Carries(r)'
<1>1. TypeOK /\ Carries(r) /\ UNCHANGED <<job, copy, found, answer>>
  BY DEF Placed, OpenStream, TrackSession, HandleInitialize, StoreSession, StoreServerInfo, Relay
<1>2. CASE OpenStream(r) \/ TrackSession(r)
  <2>1. PICK label \in {"track", "initialize", "relay"} :
          Goto(r, label) /\ (label = "initialize" => job[r].op = "initialize")
    BY <1>2 DEF OpenStream, TrackSession
  <2>2. pc[r] \in {"open", "track"}
    BY <1>2 DEF OpenStream, TrackSession
  <2> QED
    BY <1>1, <2>1, <2>2 DEF Goto, TypeOK, RequestsType, SameOthers, Labels, Carries
<1>3. CASE HandleInitialize(r)
  BY <1>1, <1>3 DEF HandleInitialize, Goto, TypeOK, RequestsType, SameOthers, Labels, Carries
<1>4. CASE StoreSession(r) \/ StoreServerInfo(r) \/ Relay(r)
  BY <1>1, <1>4 DEF StoreSession, StoreServerInfo, Relay, Goto, TypeOK, RequestsType, SameOthers,
                    Labels, Carries
<1> QED
  BY <1>2, <1>3, <1>4

LEMMA CapabilitiesPlaced ==
  ASSUME Placed, NEW r \in Requests,
         \/ GetCapabilities(r) \/ DiscoverCapabilities(r) \/ InvalidateCapabilities(r)
         \/ InvalidateList(r) \/ UpdateSession(r)
  PROVE  RequestsType' /\ SameOthers(r) /\ Carries(r)'
<1>1. TypeOK /\ Carries(r) /\ UNCHANGED <<job, copy, answer>>
  BY DEF Placed, GetCapabilities, DiscoverCapabilities, InvalidateCapabilities, InvalidateList,
         UpdateSession
<1>2. ASSUME NEW c \in Capabilities, c.adapter = job[r].adapter,
             pc[r] \in {"capabilities", "discover"},
             found' = [found EXCEPT ![r] = c], Goto(r, AfterCapabilities(r))
      PROVE  RequestsType' /\ SameOthers(r) /\ Carries(r)'
  <2>1. job[r] # None /\ job[r].op \in {"changed", "initialize"}
    BY <1>1, <1>2 DEF Carries
  <2>2. c \notin Entries
    BY DEF Capabilities, Entries
  <2>3. pc' = [pc EXCEPT ![r] = IF job[r].op = "initialize" THEN "session" ELSE "update"]
    BY <1>2 DEF Goto, AfterCapabilities
  <2> QED
    BY <1>1, <1>2, <2>1, <2>2, <2>3 DEF TypeOK, RequestsType, SameOthers, Labels, Carries
<1>3. CASE GetCapabilities(r)
  <2>1. job[r] # None /\ job[r].adapter \in Adapters /\ job[r].op \in {"changed", "initialize"}
    BY <1>1, <1>3, JobType DEF GetCapabilities, Carries
  <2>2. CASE capabilities[job[r].adapter] # None
    BY <1>1, <1>2, <1>3, <2>1, <2>2 DEF GetCapabilities, TypeOK, Placed, Labelled
  <2>3. CASE capabilities[job[r].adapter] = None
    BY <1>1, <1>3, <2>1, <2>3 DEF GetCapabilities, Goto, TypeOK, RequestsType, SameOthers, Labels,
                                  Carries
  <2> QED
    BY <2>2, <2>3
<1>4. CASE DiscoverCapabilities(r)
  <2>1. job[r] # None
    BY <1>1, <1>4 DEF DiscoverCapabilities, Carries
  <2> QED
    BY <1>1, <1>2, <1>4, <2>1, DiscoveredType DEF DiscoverCapabilities
<1>5. CASE InvalidateCapabilities(r) \/ InvalidateList(r) \/ UpdateSession(r)
  <2>1. /\ UNCHANGED <<found, answer>>
        /\ pc[r] \in {"invalidate", "forget", "update"}
        /\ \E label \in {"forget", "capabilities", "done"} : Goto(r, label)
    BY <1>5 DEF InvalidateCapabilities, InvalidateList, UpdateSession
  <2> QED
    BY <1>1, <2>1 DEF Goto, TypeOK, RequestsType, SameOthers, Labels, Carries
<1> QED
  BY <1>3, <1>4, <1>5

LEMMA HandlerPlaced ==
  ASSUME Placed, NEW r \in Requests, Handler(r)
  PROVE  RequestsType' /\ SameOthers(r) /\ Carries(r)'
BY RouterPlaced, StreamPlaced, CapabilitiesPlaced DEF Handler

LEMMA LabelledSteps ==
  ASSUME Placed, [Next]_vars
  PROVE  Labelled'
<1>1. ASSUME NEW r \in Requests, DiscoverCapabilities(r) PROVE Labelled'
  <2>1. job[r] # None /\ job[r].adapter \in Adapters /\ TypeOK
    BY <1>1, JobType DEF Placed, Carries, DiscoverCapabilities
  <2> QED
    BY <1>1, <2>1, DiscoveredType DEF DiscoverCapabilities, Placed, Labelled, TypeOK
<1>2. ASSUME NEW r \in Requests, InvalidateCapabilities(r) PROVE Labelled'
  BY <1>2 DEF InvalidateCapabilities, Placed, Labelled, TypeOK
<1>3. ASSUME NEW a \in Adapters, CapabilityTime(a) PROVE Labelled'
  BY <1>3 DEF CapabilityTime, Placed, Labelled, TypeOK
<1>4. CASE UNCHANGED capabilities
  BY <1>4 DEF Placed, Labelled
<1> QED
  BY <1>1, <1>2, <1>3, <1>4
     DEF Next, vars, stores, Accept, Handler, Get, Hit, ListFromAdapter, ProxyToTarget, StoreList,
         Record, OpenStream, TrackSession, HandleInitialize, GetCapabilities, StoreSession,
         StoreServerInfo, Relay, InvalidateList, UpdateSession, ListsChange, SyncAdapter,
         CacheTime, SessionTime

LEMMA NextPlaced == Placed /\ [Next]_vars => Placed'
<1>1. SUFFICES ASSUME Placed, [Next]_vars PROVE Placed'
  OBVIOUS
<1>2. RequestsType' /\ \A q \in Requests : Carries(q)'
  <2>1. ASSUME NEW r \in Requests, Accept(r) \/ Handler(r)
        PROVE  RequestsType' /\ \A q \in Requests : Carries(q)'
    <3>1. RequestsType' /\ SameOthers(r) /\ Carries(r)'
      BY <1>1, <2>1, AcceptPlaced, HandlerPlaced
    <3> QED
      BY <1>1, <3>1 DEF SameOthers, Placed, Carries
  <2>2. CASE UNCHANGED requests
    BY <1>1, <2>2 DEF Placed, Carries, TypeOK, RequestsType, requests
  <2> QED
    BY <1>1, <2>1, <2>2 DEF Next, vars, requests, ListsChange, SyncAdapter, CapabilityTime,
                            CacheTime, SessionTime
<1> QED
  BY <1>1, <1>2, CacheSteps, SessionSteps, WorldSteps, HistorySteps, LabelledSteps, TypeParts
     DEF Placed, WorldType, CacheType, SessionType, RequestsType, HistoryType, TypeOK

LEMMA InitPlaced == Init => Placed
<1>1. SUFFICES ASSUME Init PROVE Placed
  OBVIOUS
<1>2. TypeOK
  <2>1. \A a \in Adapters : NewSession(a) \in Records
    BY DEF NewSession, Records
  <2>2. 0 \in Versions
    BY CallsAssumption DEF Versions
  <2> QED
    BY <1>1, <2>1, <2>2 DEF Init, TypeOK, CacheInit, Labels
<1>3. Cached = {}
  BY <1>1 DEF Init, CacheInit, Cached
<1>4. Bounded
  BY <1>3, FS_EmptySet, CacheAssumption DEF Bounded
<1>5. Labelled
  BY <1>1 DEF Init, Labelled
<1>6. \A r \in Requests : pc[r] = "idle" /\ found[r] = None
  BY <1>1 DEF Init
<1>7. \A r \in Requests : Carries(r)
  BY <1>6 DEF Carries
<1> QED
  BY <1>2, <1>4, <1>5, <1>7 DEF Placed

(* StreamableHTTP keeps its types. *)
THEOREM TypesHold == Spec => []TypeOK
<1>1. Placed => TypeOK
  BY DEF Placed
<1> QED
  BY <1>1, InitPlaced, NextPlaced, PTL DEF Spec

-----------------------------------------------------------------------------
(***************************************************************************)
(* Lists that were forgotten stay so.                                      *)
(***************************************************************************)
LEMMA KnownSteps ==
  ASSUME [Next]_vars
  PROVE  UNCHANGED <<known, overtaken>> \/ \E r \in Requests : InvalidateList(r)
<1>1. ASSUME NEW r \in Requests, Handler(r), ~InvalidateList(r)
      PROVE  UNCHANGED <<known, overtaken>>
  BY <1>1 DEF history, Handler, Get, Hit, ListFromAdapter, ProxyToTarget, StoreList, Record,
              OpenStream, TrackSession, HandleInitialize, GetCapabilities, DiscoverCapabilities,
              StoreSession, StoreServerInfo, Relay, InvalidateCapabilities, UpdateSession
<1>2. ASSUME NEW r \in Requests, Accept(r)
      PROVE  UNCHANGED <<known, overtaken>>
  BY <1>2 DEF Accept
<1>3. ASSUME NEW a \in Adapters, ListsChange(a) \/ SyncAdapter(a) \/ CapabilityTime(a)
      PROVE  UNCHANGED <<known, overtaken>>
  BY <1>3 DEF history, ListsChange, SyncAdapter, CapabilityTime
<1>4. CASE CacheTime \/ SessionTime \/ UNCHANGED vars
  BY <1>4 DEF vars, history, CacheTime, SessionTime
<1> QED
  BY <1>1, <1>2, <1>3, <1>4 DEF Next

LEMMA ServerSteps ==
  ASSUME [Next]_vars
  PROVE  UNCHANGED server \/ \E a \in Adapters : ListsChange(a)
BY DEF Next, vars, world, Accept, Handler, Get, Hit, ListFromAdapter, ProxyToTarget, StoreList,
       Record, OpenStream, TrackSession, HandleInitialize, GetCapabilities, DiscoverCapabilities,
       StoreSession, StoreServerInfo, Relay, InvalidateCapabilities, InvalidateList, UpdateSession,
       SyncAdapter, CapabilityTime, CacheTime, SessionTime

LEMMA InvalidateListEffect ==
  ASSUME Placed, NEW r \in Requests, InvalidateList(r),
         NEW a, a = job[r].adapter, NEW m, m = job[r].method
  PROVE  /\ a \in Adapters /\ m \in ListMethods
         /\ cache'[Key(a, m, NoParams)] = None
         /\ \A b \in Adapters, n \in ListMethods :
               known'[b][n] = IF b = a /\ n = m THEN server[a] ELSE known[b][n]
         /\ overtaken' = overtaken \cup
              {q \in Requests : pc[q] = "store" /\ RequestKey(q) = Key(a, m, NoParams)}
         /\ pc' = [pc EXCEPT ![r] = IF job[r].session = None THEN "done" ELSE "capabilities"]
         /\ UNCHANGED <<server, job, answer>>
<1>1. TypeOK /\ CacheType /\ Carries(r)
  BY TypeParts DEF Placed
<1>2. job[r] # None /\ job[r].adapter \in Adapters /\ job[r].method \in ListMethods
  BY <1>1, JobType DEF InvalidateList, Carries
<1>3. Matching(job[r].adapter, job[r].method) = {Key(job[r].adapter, job[r].method, NoParams)}
  BY <1>2, CacheAssumption DEF Matching
<1>4. Key(job[r].adapter, job[r].method, NoParams) \in Keys
  BY <1>2, CacheAssumption DEF Key, Keys
<1>5. cache'[Key(job[r].adapter, job[r].method, NoParams)] = None
  BY <1>1, <1>3, <1>4, InvalidateAges DEF InvalidateList
<1>6. \A b \in Adapters, n \in ListMethods :
         known'[b][n] = IF b = a /\ n = m THEN server[a] ELSE known[b][n]
  <2>1. known' = [known EXCEPT ![a][m] = server[a]] /\ known \in [Adapters -> [ListMethods -> Versions]]
    BY <1>1 DEF InvalidateList, TypeOK
  <2> QED
    BY <1>2, <2>1
<1> QED
  BY <1>2, <1>3, <1>5, <1>6 DEF InvalidateList, Goto, world

LEMMA ForgottenSteps ==
  ASSUME Placed, Versioned, ForgottenForGood, [Next]_vars
  PROVE  ForgottenForGood'
<1>1. SUFFICES ASSUME NEW k \in Keys, cache'[k] # None, IsValid(cache'[k]), k[3] = NoParams,
                      cache'[k].data.from = "server",
                      cache'[k].data.version < known'[k[1]][k[2]]
               PROVE  cache'[k].by \in overtaken'
  BY DEF ForgottenForGood, Cached
<1>2. TypeOK /\ CacheType /\ CacheType'
  BY CacheSteps, TypeParts DEF Placed
<1>3. ASSUME cache[k] # None, cache'[k].data = cache[k].data, cache'[k].by = cache[k].by,
             cache[k].expired => cache'[k].expired,
             known'[k[1]][k[2]] = known[k[1]][k[2]], overtaken \subseteq overtaken'
      PROVE  cache'[k].by \in overtaken'
  BY <1>1, <1>3 DEF ForgottenForGood, Cached, IsValid
<1>4. ASSUME NEW r \in Requests, NEW data \in Lists, Stores(r, data)
      PROVE  cache'[k].by \in overtaken'
  <2>1. UNCHANGED <<known, overtaken>>
    BY <1>4 DEF Stores
  <2>2. CASE k = RequestKey(r)
    <3>1. cache'[k].data = data /\ cache'[k].by = r
      BY <1>2, <1>4, <2>2, SetEffect, NewEntryType DEF Stores
    <3>2. pc[r] = "store" /\ data = answer[r]
      BY <1>1, <1>4, <3>1 DEF Stores
    <3>3. k[1] = job[r].adapter /\ k[2] = job[r].method /\ job[r].params = NoParams
      BY <1>1, <2>2 DEF RequestKey, Key
    <3>4. data.version \in Versions
      BY DEF Lists
    <3>5. known[k[1]][k[2]] \in Versions
      BY <1>2 DEF TypeOK, Keys
    <3> QED
      BY <1>1, <2>1, <3>1, <3>2, <3>3, <3>4, <3>5 DEF Versioned, Versions
  <2>3. CASE k # RequestKey(r)
    <3>1. cache'[k] = cache[k]
      BY <1>1, <1>2, <1>4, <2>3, SetEffect DEF Stores
    <3> QED
      BY <1>1, <1>3, <2>1, <3>1
  <2> QED
    BY <2>2, <2>3
<1>5. CASE OnlyAges
  <2>1. /\ cache[k] # None /\ cache'[k].data = cache[k].data /\ cache'[k].by = cache[k].by
        /\ cache[k].expired => cache'[k].expired
    BY <1>1, <1>5 DEF OnlyAges
  <2>2. ASSUME NEW r \in Requests, InvalidateList(r) PROVE cache'[k].by \in overtaken'
    <3>1. k # Key(job[r].adapter, job[r].method, NoParams)
      BY <1>1, <2>2, InvalidateListEffect
    <3>2. k[1] \in Adapters /\ k[2] \in ListMethods /\ k = <<k[1], k[2], k[3]>>
      BY DEF Keys
    <3>3. ~(k[1] = job[r].adapter /\ k[2] = job[r].method)
      BY <1>1, <3>1, <3>2 DEF Key
    <3>4. known'[k[1]][k[2]] = known[k[1]][k[2]] /\ overtaken \subseteq overtaken'
      BY <2>2, <3>2, <3>3, InvalidateListEffect
    <3> QED
      BY <1>3, <2>1, <3>4
  <2> QED
    BY <1>3, <2>1, <2>2, KnownSteps
<1> QED
  BY <1>4, <1>5, CacheSteps

\* The step of a request on its own part of Versioned.
Stored(r) ==
  (pc[r] = "store" /\ job[r].params = NoParams) =>
     \/ answer[r].version >= known[job[r].adapter][job[r].method]
     \/ r \in overtaken

LEMMA VersionedSteps ==
  ASSUME Placed, Versioned, [Next]_vars
  PROVE  Versioned'
<1>1. TypeOK /\ TypeOK'
  BY NextPlaced DEF Placed
<1>2. \A a \in Adapters :
         /\ server[a] \in Nat
         /\ \A m \in ListMethods : known[a][m] \in Nat /\ known[a][m] <= server[a]
  BY <1>1, CallsAssumption DEF TypeOK, Versions, Versioned
<1>3. \A a \in Adapters : server'[a] \in Nat /\ server[a] <= server'[a]
  <2>1. ASSUME NEW a \in Adapters, ListsChange(a)
        PROVE  \A b \in Adapters : server'[b] = IF b = a THEN server[b] + 1 ELSE server[b]
    BY <1>1, <2>1 DEF TypeOK, ListsChange
  <2> QED
    BY <1>2, <2>1, ServerSteps
<1>4. \A r \in Requests : Stored(r)
  BY DEF Versioned, Stored
<1>5. ASSUME NEW r \in Requests, InvalidateList(r),
             NEW a, a = job[r].adapter, NEW m, m = job[r].method
      PROVE  Versioned'
  <2>1. /\ a \in Adapters /\ m \in ListMethods /\ UNCHANGED <<server, job, answer>>
        /\ overtaken' = overtaken \cup
             {q \in Requests : pc[q] = "store" /\ RequestKey(q) = Key(a, m, NoParams)}
        /\ pc' = [pc EXCEPT ![r] = IF job[r].session = None THEN "done" ELSE "capabilities"]
    BY <1>5, InvalidateListEffect
  <2>2. \A b \in Adapters, n \in ListMethods :
           known'[b][n] = IF b = a /\ n = m THEN server[a] ELSE known[b][n]
    BY <1>5, InvalidateListEffect
  <2>3. ASSUME NEW q \in Requests PROVE Stored(q)'
    <3>1. SUFFICES ASSUME pc'[q] = "store", job[q].params = NoParams PROVE Stored(q)'
      BY <2>1 DEF Stored
    <3>2. pc[q] = "store"
      BY <1>1, <2>1, <3>1 DEF TypeOK
    <3>3. job[q] # None /\ job[q].op = "list"
      BY <3>2 DEF Placed, Carries
    <3>4. job[q].adapter \in Adapters /\ job[q].method \in ListMethods
      BY <1>1, <3>3, JobType
    <3>5. CASE job[q].adapter = a /\ job[q].method = m
      BY <2>1, <3>1, <3>2, <3>5 DEF RequestKey, Stored
    <3>6. CASE ~(job[q].adapter = a /\ job[q].method = m)
      <4>1. known'[job[q].adapter][job[q].method] = known[job[q].adapter][job[q].method]
        BY <2>2, <3>4, <3>6
      <4> QED
        BY <1>4, <2>1, <3>1, <3>2, <4>1 DEF Stored
    <3> QED
      BY <3>5, <3>6
  <2> QED
    BY <1>2, <2>1, <2>2, <2>3 DEF Versioned, Stored
<1>6. ASSUME UNCHANGED <<known, overtaken>>, \A r \in Requests : Stored(r)' PROVE Versioned'
  <2>1. \A a \in Adapters, m \in ListMethods : known'[a][m] <= server'[a]
    BY <1>2, <1>3, <1>6
  <2> QED
    BY <1>6, <2>1 DEF Stored, Versioned
<1>7. ASSUME NEW r \in Requests, Accept(r) \/ Handler(r), UNCHANGED <<known, overtaken>>
      PROVE  Stored(r)'
  <2>1. CASE pc'[r] # "store"
    BY <2>1 DEF Stored
  <2>2. CASE ProxyToTarget(r) /\ pc'[r] = "store"
    <3>1. /\ answer' = [answer EXCEPT ![r] = ListOf(r, "server", server[job[r].adapter])]
          /\ UNCHANGED <<job, known, overtaken>> /\ job[r].op = "list"
      BY <1>1, <2>2 DEF ProxyToTarget, Goto, TypeOK, history
    <3>2. job[r] # None
      BY <2>2 DEF ProxyToTarget, Placed, Carries
    <3>3. job[r].adapter \in Adapters /\ job[r].method \in ListMethods
      BY <1>1, <3>1, <3>2, JobType
    <3> QED
      BY <1>1, <1>2, <3>1, <3>3 DEF TypeOK, ListOf, Stored
  <2>3. ASSUME ~ProxyToTarget(r) PROVE pc'[r] # "store"
    BY <1>1, <1>7, <2>3, CallsAssumption
       DEF TypeOK, Goto, AfterCapabilities, Accept, Handler, Get, Hit, ListFromAdapter, StoreList, Record,
           OpenStream, TrackSession, HandleInitialize, GetCapabilities, DiscoverCapabilities,
           StoreSession, StoreServerInfo, Relay, InvalidateCapabilities, InvalidateList,
           UpdateSession
  <2> QED
    BY <2>1, <2>2, <2>3
<1>8. ASSUME NEW r \in Requests, Accept(r) \/ Handler(r), UNCHANGED <<known, overtaken>>
      PROVE  \A q \in Requests : Stored(q)'
  <2>1. SameOthers(r)
    BY <1>8, AcceptPlaced, HandlerPlaced
  <2> QED
    BY <1>4, <1>7, <1>8, <2>1 DEF SameOthers, Stored
<1>9. ASSUME UNCHANGED <<requests, known, overtaken>> PROVE \A q \in Requests : Stored(q)'
  BY <1>4, <1>9 DEF requests, Stored
<1> QED
  BY <1>5, <1>6, <1>8, <1>9, KnownSteps
     DEF Next, vars, requests, ListsChange, SyncAdapter, CapabilityTime, CacheTime, SessionTime

(* A list the server has replaced does not come back into the response     *)
(* cache once handleToolsListChanged has forgotten it, except through a    *)
(* handler that had it in hand.                                            *)
THEOREM ListsForgotten == Spec => []ForgottenForGood
<1> DEFINE Inv == Placed /\ Versioned /\ ForgottenForGood
<1>1. Init => Inv
  <2>1. SUFFICES ASSUME Init PROVE Inv
    OBVIOUS
  <2>2. Versioned /\ ForgottenForGood
    BY <2>1 DEF Init, Versioned, ForgottenForGood, CacheInit, Cached
  <2> QED
    BY <2>1, <2>2, InitPlaced
<1>2. Inv /\ [Next]_vars => Inv'
  BY NextPlaced, VersionedSteps, ForgottenSteps
<1> QED
  BY <1>1, <1>2, PTL DEF Spec

-----------------------------------------------------------------------------
(***************************************************************************)
(* Capabilities that were forgotten stay so.                               *)
(***************************************************************************)
LEMMA StoredSteps ==
  ASSUME [Next]_vars
  PROVE  UNCHANGED <<stored, outdated>> \/ \E r \in Requests : InvalidateCapabilities(r)
<1>1. ASSUME NEW r \in Requests, Handler(r), ~InvalidateCapabilities(r)
      PROVE  UNCHANGED <<stored, outdated>>
  BY <1>1 DEF history, Handler, Get, Hit, ListFromAdapter, ProxyToTarget, StoreList, Record,
              OpenStream, TrackSession, HandleInitialize, GetCapabilities, DiscoverCapabilities,
              StoreSession, StoreServerInfo, Relay, InvalidateList, UpdateSession
<1>2. ASSUME NEW r \in Requests, Accept(r)
      PROVE  UNCHANGED <<stored, outdated>>
  BY <1>2 DEF Accept
<1>3. ASSUME NEW a \in Adapters, ListsChange(a) \/ SyncAdapter(a) \/ CapabilityTime(a)
      PROVE  UNCHANGED <<stored, outdated>>
  BY <1>3 DEF history, ListsChange, SyncAdapter, CapabilityTime
<1>4. CASE CacheTime \/ SessionTime \/ UNCHANGED vars
  BY <1>4 DEF vars, history, CacheTime, SessionTime
<1> QED
  BY <1>1, <1>2, <1>3, <1>4 DEF Next

LEMMA ToolsSteps ==
  ASSUME [Next]_vars
  PROVE  UNCHANGED tools \/ \E a \in Adapters : SyncAdapter(a)
BY DEF Next, vars, world, Accept, Handler, Get, Hit, ListFromAdapter, ProxyToTarget, StoreList,
       Record, OpenStream, TrackSession, HandleInitialize, GetCapabilities, DiscoverCapabilities,
       StoreSession, StoreServerInfo, Relay, InvalidateCapabilities, InvalidateList, UpdateSession,
       ListsChange, CapabilityTime, CacheTime, SessionTime

LEMMA CapabilitySteps ==
  ASSUME [Next]_vars
  PROVE  \/ UNCHANGED capabilities
         \/ \E r \in Requests : DiscoverCapabilities(r) \/ InvalidateCapabilities(r)
         \/ \E a \in Adapters : CapabilityTime(a)
BY DEF Next, vars, stores, Accept, Handler, Get, Hit, ListFromAdapter, ProxyToTarget, StoreList,
       Record, OpenStream, TrackSession, HandleInitialize, GetCapabilities, StoreSession,
       StoreServerInfo, Relay, InvalidateList, UpdateSession, ListsChange, SyncAdapter, CacheTime,
       SessionTime

\* A handler's own steps change neither what it was asked nor the adapter it was given.
LEMMA HandlerKeeps ==
  ASSUME NEW r \in Requests, Handler(r)
  PROVE  Active(r) /\ UNCHANGED <<job, copy>>
BY DEF Handler, Active, Get, Hit, ListFromAdapter, ProxyToTarget, StoreList, Record, OpenStream,
       TrackSession, HandleInitialize, GetCapabilities, DiscoverCapabilities, StoreSession,
       StoreServerInfo, Relay, InvalidateCapabilities, InvalidateList, UpdateSession

\* Who is at work afterwards was before, or has just been given what is stored.
LEMMA ActiveSteps ==
  ASSUME Placed, [Next]_vars, NEW q \in Requests, Active(q)'
  PROVE  \/ Active(q) /\ job'[q] = job[q] /\ copy'[q] = copy[q]
         \/ Accept(q) /\ ~Active(q) /\ copy'[q] = tools[job'[q].adapter] /\ job'[q] \in Calls
<1>1. TypeOK
  BY DEF Placed
<1>2. ASSUME Accept(q)
      PROVE  ~Active(q) /\ copy'[q] = tools[job'[q].adapter] /\ job'[q] \in Calls
  BY <1>1, <1>2 DEF Accept, TypeOK, Active
<1>3. ASSUME Handler(q)
      PROVE  Active(q) /\ job'[q] = job[q] /\ copy'[q] = copy[q]
  BY <1>3, HandlerKeeps
<1>4. ASSUME NEW r \in Requests \ {q}, Accept(r) \/ Handler(r)
      PROVE  Active(q) /\ job'[q] = job[q] /\ copy'[q] = copy[q]
  <2>1. SameOthers(r)
    BY <1>4, AcceptPlaced, HandlerPlaced
  <2> QED
    BY <2>1 DEF SameOthers, Active
<1>5. ASSUME UNCHANGED requests
      PROVE  Active(q) /\ job'[q] = job[q] /\ copy'[q] = copy[q]
  BY <1>5 DEF requests, Active
<1> QED
  BY <1>2, <1>3, <1>4, <1>5
     DEF Next, vars, requests, ListsChange, SyncAdapter, CapabilityTime, CacheTime, SessionTime

LEMMA NewerFacts ==
  ASSUME NEW u \in Versions \cup {None}, NEW v \in Versions \cup {None},
         NEW w \in Versions \cup {None}
  PROVE  /\ ~Newer(u, u)
         /\ (~Newer(u, v) /\ (v # None => w # None /\ v <= w)) => ~Newer(u, w)
BY CallsAssumption, NoneAssumption DEF Newer, Versions

LEMMA ActiveJob ==
  ASSUME Placed, NEW q \in Requests, Active(q)
  PROVE  /\ job[q] # None /\ job[q] \in Calls /\ job[q].adapter \in Adapters
         /\ copy[q] \in Versions \cup {None}
<1>1. TypeOK /\ job[q] # None
  BY DEF Placed, Carries, Active
<1> QED
  BY <1>1, JobType DEF TypeOK

LEMMA FreshSteps ==
  ASSUME Placed, Fresh, [Next]_vars
  PROVE  Fresh'
<1>1. TypeOK /\ TypeOK' /\ Placed'
  BY NextPlaced DEF Placed
<1>2. \A a \in Adapters :
         /\ server[a] \in Versions /\ server'[a] \in Versions
         /\ tools[a] \in Versions \cup {None} /\ tools'[a] \in Versions \cup {None}
         /\ stored[a] \in Versions \cup {None} /\ stored'[a] \in Versions \cup {None}
  BY <1>1 DEF TypeOK
<1>3. \A a \in Adapters : server[a] <= server'[a]
  <2>1. ASSUME NEW a \in Adapters, ListsChange(a)
        PROVE  \A b \in Adapters : server'[b] = IF b = a THEN server[b] + 1 ELSE server[b]
    BY <1>1, <2>1 DEF TypeOK, ListsChange
  <2> QED
    BY <1>2, <2>1, ServerSteps, CallsAssumption DEF Versions
<1>4. \A a \in Adapters :
         /\ tools'[a] # None => tools'[a] <= server'[a]
         /\ ~Newer(stored[a], tools'[a])
  <2>1. CASE UNCHANGED tools
    BY <1>2, <1>3, <2>1, CallsAssumption, NoneAssumption DEF Fresh, Versions
  <2>2. ASSUME NEW b \in Adapters, SyncAdapter(b)
        PROVE  \A a \in Adapters : /\ tools'[a] # None => tools'[a] <= server'[a]
                                   /\ ~Newer(stored[a], tools'[a])
    <3>1. \A a \in Adapters : /\ tools'[a] = IF a = b THEN server[a] ELSE tools[a]
                              /\ server'[a] = server[a]
      BY <1>1, <2>2 DEF TypeOK, SyncAdapter
    <3>2. ~Newer(stored[b], server[b])
      BY <1>2, NewerFacts, NoneAssumption DEF Fresh
    <3>3. server[b] <= server[b]
      BY <1>2, CallsAssumption DEF Versions
    <3> QED
      BY <3>1, <3>2, <3>3 DEF Fresh
  <2> QED
    BY <2>1, <2>2, ToolsSteps
<1>5. ASSUME NEW r \in Requests, InvalidateCapabilities(r) PROVE Fresh'
  <2>1. /\ Active(r) /\ UNCHANGED <<tools, job, copy>>
        /\ stored' = [stored EXCEPT ![job[r].adapter] = tools[job[r].adapter]]
        /\ outdated' = outdated \cup
             {q \in Requests : pc[q] \notin {"idle", "done"} /\ copy[q] # tools[job[q].adapter]}
    BY <1>5 DEF InvalidateCapabilities, Active, world
  <2>2. \A a \in Adapters : ~Newer(stored'[a], tools'[a])
    BY <1>1, <1>2, <1>4, <2>1, NewerFacts DEF TypeOK
  <2>3. ASSUME NEW q \in Requests, Active(q)'
        PROVE  ~Newer(stored'[job'[q].adapter], copy'[q]) \/ q \in outdated'
    <3>1. Active(q) /\ ~Accept(q)
      BY <1>1, <1>5, <2>1, <2>3, ActiveSteps DEF Active, Accept, InvalidateCapabilities, Goto, TypeOK
    <3>2. job[q].adapter \in Adapters
      BY <3>1, ActiveJob
    <3>3. CASE copy[q] = tools[job[q].adapter]
      BY <2>1, <2>2, <3>2, <3>3
    <3>4. CASE copy[q] # tools[job[q].adapter]
      BY <2>1, <3>1, <3>4 DEF Active
    <3> QED
      BY <3>3, <3>4
  <2> QED
    BY <1>4, <2>2, <2>3 DEF Fresh
<1>6. ASSUME UNCHANGED <<stored, outdated>> PROVE Fresh'
  <2>1. ASSUME NEW q \in Requests, Active(q)'
        PROVE  ~Newer(stored'[job'[q].adapter], copy'[q]) \/ q \in outdated'
    <3>1. CASE Active(q) /\ job'[q] = job[q] /\ copy'[q] = copy[q]
      BY <1>6, <3>1 DEF Fresh
    <3>2. CASE copy'[q] = tools[job'[q].adapter] /\ job'[q] \in Calls
      BY <1>6, <3>2, CallsAssumption DEF Fresh
    <3> QED
      BY <2>1, <3>1, <3>2, ActiveSteps
  <2> QED
    BY <1>4, <1>6, <2>1 DEF Fresh
<1> QED
  BY <1>5, <1>6, StoredSteps

LEMMA CapabilitiesForgottenSteps ==
  ASSUME Placed, Fresh, CapabilitiesForgotten, [Next]_vars
  PROVE  CapabilitiesForgotten'
<1>1. TypeOK
  BY DEF Placed
<1>2. SUFFICES ASSUME NEW a \in Adapters, capabilities'[a] # None
               PROVE  \/ ~Newer(stored'[a], capabilities'[a].data.tools)
                      \/ capabilities'[a].by \in outdated'
  BY DEF CapabilitiesForgotten
<1>3. ASSUME NEW r \in Requests, DiscoverCapabilities(r)
      PROVE  \/ ~Newer(stored'[a], capabilities'[a].data.tools)
             \/ capabilities'[a].by \in outdated'
  <2>1. Active(r) /\ UNCHANGED <<stored, outdated>>
    BY <1>3 DEF DiscoverCapabilities, Active, history
  <2>2. capabilities' = [capabilities EXCEPT ![job[r].adapter] = [data |-> Discovered(r), by |-> r]]
    BY <1>3 DEF DiscoverCapabilities
  <2>3. CASE a = job[r].adapter
    <3>1. capabilities'[a].data.tools = copy[r] /\ capabilities'[a].by = r
      BY <1>1, <2>2, <2>3 DEF TypeOK, Discovered
    <3> QED
      BY <2>1, <2>3, <3>1 DEF Fresh
  <2>4. CASE a # job[r].adapter
    BY <1>1, <1>2, <2>1, <2>2, <2>4 DEF TypeOK, CapabilitiesForgotten
  <2> QED
    BY <2>3, <2>4
<1>4. ASSUME NEW r \in Requests, InvalidateCapabilities(r)
      PROVE  \/ ~Newer(stored'[a], capabilities'[a].data.tools)
             \/ capabilities'[a].by \in outdated'
  <2>1. /\ capabilities' = [capabilities EXCEPT ![job[r].adapter] = None]
        /\ stored' = [stored EXCEPT ![job[r].adapter] = tools[job[r].adapter]]
        /\ outdated \subseteq outdated'
    BY <1>4 DEF InvalidateCapabilities
  <2>2. a # job[r].adapter
    BY <1>1, <1>2, <2>1 DEF TypeOK
  <2>3. capabilities'[a] = capabilities[a] /\ stored'[a] = stored[a]
    BY <1>1, <2>1, <2>2 DEF TypeOK
  <2> QED
    BY <1>2, <2>1, <2>3 DEF CapabilitiesForgotten
<1>5. ASSUME capabilities'[a] = capabilities[a], UNCHANGED <<stored, outdated>>
      PROVE  \/ ~Newer(stored'[a], capabilities'[a].data.tools)
             \/ capabilities'[a].by \in outdated'
  BY <1>2, <1>5 DEF CapabilitiesForgotten
<1>6. ASSUME NEW b \in Adapters, CapabilityTime(b)
      PROVE  capabilities'[a] = capabilities[a]
  BY <1>1, <1>2, <1>6 DEF TypeOK, CapabilityTime
<1> QED
  BY <1>3, <1>4, <1>5, <1>6, CapabilitySteps, StoredSteps

(* Capabilities older than the adapter's at the last list_changed          *)
(* notification do not come back into the capability cache, except through *)
(* GetCapabilities of a handler that had an older adapter in hand.         *)
THEOREM CapabilitiesStayForgotten == Spec => []CapabilitiesForgotten
<1> DEFINE Inv == Placed /\ Fresh /\ CapabilitiesForgotten
<1>1. Init => Inv
  <2>1. SUFFICES ASSUME Init PROVE Inv
    OBVIOUS
  <2>2. TypeOK /\ Placed
    BY <2>1, InitPlaced DEF Placed
  <2>3. ASSUME NEW a \in Adapters
        PROVE  (tools[a] # None => tools[a] <= server[a]) /\ ~Newer(stored[a], tools[a])
    <3>1. tools[a] \in {None, 0} /\ server[a] = 0 /\ stored[a] = tools[a]
      BY <2>1 DEF Init
    <3> QED
      BY <3>1 DEF Newer
  <2>4. \A r \in Requests : ~Active(r)
    BY <2>1 DEF Init, Active
  <2> QED
    BY <2>1, <2>2, <2>3, <2>4 DEF Init, Fresh, CapabilitiesForgotten
<1>2. Inv /\ [Next]_vars => Inv'
  BY NextPlaced, FreshSteps, CapabilitiesForgottenSteps
<1>3. Inv => CapabilitiesForgotten
  OBVIOUS
<1> QED
  BY <1>1, <1>2, <1>3, PTL DEF Spec

-----------------------------------------------------------------------------
(***************************************************************************)
(* Sessions have the capabilities of their own adapter.                    *)
(***************************************************************************)
\* What becomes of a session that is there afterwards.
Kept(s) ==
  /\ HasSession(s)
  /\ sessions'[s].adapter = sessions[s].adapter
  /\ sessions'[s].capabilities = sessions[s].capabilities

Opened(s) ==
  \E r \in Requests :
    /\ Active(r) /\ job[r].session = s
    /\ sessions'[s].adapter = job[r].adapter /\ sessions'[s].capabilities = None

Updated(s) ==
  \E r \in Requests :
    /\ UpdateSession(r) /\ job[r].session = s /\ HasSession(s)
    /\ sessions'[s].adapter = sessions[s].adapter
    /\ sessions'[s].capabilities = found[r]

LEMMA SessionEffect ==
  ASSUME Placed, [Next]_vars, NEW s \in Sessions, sessions'[s] # None
  PROVE  Kept(s) \/ Opened(s) \/ Updated(s)
<1>1. SessionType
  BY TypeParts DEF Placed
<1>2. ASSUME NEW r \in Requests, OpenStream(r) \/ StoreSession(r)
      PROVE  Kept(s) \/ Opened(s)
  <2>1. Active(r) /\ sessions' = [sessions EXCEPT ![job[r].session] = NewSession(job[r].adapter)]
    BY <1>2 DEF OpenStream, StoreSession, SetWithDetails, Active
  <2>2. CASE job[r].session = s
    BY <1>1, <2>1, <2>2 DEF SessionType, NewSession, Opened
  <2>3. CASE job[r].session # s
    BY <1>1, <2>1, <2>3 DEF SessionType, Kept, HasSession
  <2> QED
    BY <2>2, <2>3
<1>3. ASSUME NEW t, NEW v, SetField(t, "mcpId", v) \/ SetField(t, "server", v) PROVE Kept(s)
  BY <1>1, <1>3 DEF SessionType, SetField, HasSession, Kept, Records
<1>4. ASSUME NEW r \in Requests, TrackSession(r) \/ StoreServerInfo(r) PROVE Kept(s)
  BY <1>3, <1>4 DEF TrackSession, StoreServerInfo, SetMCPSessionID, SetMCPServerInfo
<1>5. ASSUME NEW r \in Requests, UpdateSession(r) PROVE Kept(s) \/ Updated(s)
  <2>1. SetField(job[r].session, "capabilities", found[r])
    BY <1>5 DEF UpdateSession, SetMCPCapabilities
  <2>2. CASE job[r].session = s
    <3>1. HasSession(s) /\ sessions' = [sessions EXCEPT ![s] = [@ EXCEPT !["capabilities"] = found[r]]]
      BY <2>1, <2>2 DEF SetField, HasSession
    <3> QED
      BY <1>1, <1>5, <2>2, <3>1 DEF SessionType, Records, HasSession, Updated
  <2>3. CASE job[r].session # s
    BY <1>1, <2>1, <2>3 DEF SessionType, SetField, HasSession, Kept
  <2> QED
    BY <2>2, <2>3
<1>6. ASSUME SessionTime PROVE Kept(s)
  BY <1>1, <1>6 DEF SessionTime, CleanupExpired, DeleteByAdapter, DeleteSessions, Kept, HasSession,
                    SessionType
<1>7. CASE UNCHANGED sessions
  BY <1>7 DEF Kept, HasSession
<1> QED
  BY <1>2, <1>4, <1>5, <1>6, <1>7
     DEF Next, vars, stores, Accept, Handler, Get, Hit, ListFromAdapter, ProxyToTarget, StoreList,
         Record, HandleInitialize, GetCapabilities, DiscoverCapabilities, Relay,
         InvalidateCapabilities, InvalidateList, ListsChange, SyncAdapter, CapabilityTime, CacheTime

LEMMA ContendedSteps ==
  ASSUME [Next]_vars
  PROVE  contended \subseteq contended'
BY DEF Next, vars, history, Accept, Handler, Get, Hit, ListFromAdapter, ProxyToTarget, StoreList,
       Record, OpenStream, TrackSession, HandleInitialize, GetCapabilities, DiscoverCapabilities,
       StoreSession, StoreServerInfo, Relay, InvalidateCapabilities, InvalidateList, UpdateSession,
       ListsChange, SyncAdapter, CapabilityTime, CacheTime, SessionTime

LEMMA AcceptOwned ==
  ASSUME Placed, Owned, NEW r \in Requests, Accept(r), [Next]_vars
  PROVE  Owned'
<1>1. TypeOK /\ contended \subseteq contended' /\ UNCHANGED sessions
  BY ContendedSteps DEF Placed, Accept, stores
<1>2. PICK c \in Calls :
        /\ job' = [job EXCEPT ![r] = c]
        /\ contended' = contended \cup
             {s \in {c.session} \ {None} :
                \/ \E q \in Requests : /\ pc[q] \notin {"idle", "done"}
                                      /\ job[q].session = s /\ job[q].adapter # c.adapter
                \/ c.op = "changed" /\ s \notin ListByAdapter(c.adapter)}
  BY DEF Accept
<1>3. ~Active(r) /\ job'[r] = c
  BY <1>1, <1>2 DEF Accept, Active, TypeOK
<1>4. ASSUME NEW q \in Requests \ {r}, Active(q)'
      PROVE  Active(q) /\ job'[q] = job[q]
  BY <1>4, AcceptPlaced DEF SameOthers, Active
<1>5. ASSUME NEW q \in Requests, Active(q), job[q].session = c.session,
             c.session \in Sessions \ contended'
      PROVE  job[q].adapter = c.adapter
  BY <1>2, <1>5, NoneAssumption DEF Active
<1>6. ASSUME c.op = "changed", c.session \in Sessions \ contended'
      PROVE  sessions[c.session].adapter = c.adapter
  BY <1>2, <1>6, NoneAssumption DEF ListByAdapter
<1>7. ASSUME NEW q \in Requests, NEW p \in Requests, Active(q)', Active(p)',
             job'[q].session = job'[p].session, job'[p].session \in Sessions \ contended'
      PROVE  job'[q].adapter = job'[p].adapter
  <2>1. CASE p = r /\ q = r
    BY <2>1
  <2>2. CASE p = r /\ q # r
    BY <1>3, <1>4, <1>5, <1>7, <2>2
  <2>3. CASE p # r /\ q = r
    BY <1>3, <1>4, <1>5, <1>7, <2>3
  <2>4. CASE p # r /\ q # r
    <3>1. Active(q) /\ Active(p) /\ job'[q] = job[q] /\ job'[p] = job[p]
      BY <1>4, <1>7, <2>4
    <3> QED
      BY <1>1, <1>7, <3>1 DEF Owned
  <2> QED
    BY <2>1, <2>2, <2>3, <2>4
<1>8. ASSUME NEW q \in Requests, Active(q)', job'[q].op = "changed",
             job'[q].session \in Sessions \ contended', HasSession(job'[q].session)
      PROVE  sessions[job'[q].session].adapter = job'[q].adapter
  <2>1. CASE q = r
    BY <1>3, <1>6, <1>8, <2>1
  <2>2. CASE q # r
    <3>1. Active(q) /\ job'[q] = job[q]
      BY <1>4, <1>8, <2>2
    <3> QED
      BY <1>1, <1>8, <3>1 DEF Owned
  <2> QED
    BY <2>1, <2>2
<1> QED
  BY <1>1, <1>7, <1>8 DEF Owned, HasSession

LEMMA OwnedSteps ==
  ASSUME Placed, Owned, [Next]_vars
  PROVE  Owned'
<1>1. CASE \E r \in Requests : Accept(r)
  BY <1>1, AcceptOwned
<1>2. CASE ~\E r \in Requests : Accept(r)
  <2>1. ASSUME NEW q \in Requests, Active(q)' PROVE Active(q) /\ job'[q] = job[q]
    BY <1>2, <2>1, ActiveSteps
  <2>2. contended \subseteq contended'
    BY ContendedSteps
  <2>3. ASSUME NEW q \in Requests, NEW p \in Requests, Active(q)', Active(p)',
               job'[q].session = job'[p].session, job'[p].session \in Sessions \ contended'
        PROVE  job'[q].adapter = job'[p].adapter
    <3>1. Active(q) /\ Active(p) /\ job'[q] = job[q] /\ job'[p] = job[p]
      BY <2>1, <2>3
    <3> QED
      BY <2>2, <2>3, <3>1 DEF Owned
  <2>4. ASSUME NEW q \in Requests, Active(q)', job'[q].op = "changed", NEW s,
               s = job'[q].session, s \in Sessions \ contended', sessions'[s] # None
        PROVE  sessions'[s].adapter = job'[q].adapter
    <3>1. Active(q) /\ job'[q] = job[q] /\ s \in Sessions \ contended
      BY <2>1, <2>2, <2>4
    <3>2. CASE Kept(s) \/ Updated(s)
      BY <2>4, <3>1, <3>2 DEF Kept, Updated, Owned
    <3>3. CASE Opened(s)
      BY <2>4, <3>1, <3>3 DEF Opened, Owned
    <3> QED
      BY <2>4, <3>2, <3>3, SessionEffect
  <2> QED
    BY <2>3, <2>4 DEF Owned, HasSession
<1> QED
  BY <1>1, <1>2

LEMMA OwnAdapterSteps ==
  ASSUME Placed, Owned, CapabilitiesOfOwnAdapter, [Next]_vars
  PROVE  CapabilitiesOfOwnAdapter'
<1>1. SUFFICES ASSUME NEW s \in Sessions \ contended', sessions'[s] # None,
                      sessions'[s].capabilities # None
               PROVE  sessions'[s].capabilities.adapter = sessions'[s].adapter
  BY DEF CapabilitiesOfOwnAdapter, HasSession
<1>2. s \in Sessions \ contended
  BY ContendedSteps
<1>3. CASE Kept(s)
  BY <1>1, <1>2, <1>3 DEF Kept, CapabilitiesOfOwnAdapter
<1>4. ASSUME NEW r \in Requests, UpdateSession(r), job[r].session = s, HasSession(s),
             sessions'[s].adapter = sessions[s].adapter, sessions'[s].capabilities = found[r]
      PROVE  sessions'[s].capabilities.adapter = sessions'[s].adapter
  <2>1. Active(r) /\ job[r].op = "changed" /\ found[r].adapter = job[r].adapter
    BY <1>4 DEF UpdateSession, Active, Placed, Carries
  <2> QED
    BY <1>2, <1>4, <2>1 DEF Owned
<1> QED
  BY <1>1, <1>3, <1>4, SessionEffect DEF Opened, Updated

(* A session never has the capabilities of another adapter, whatever       *)
(* handlers of its adapter do with it at the same time: SetMCPCapabilities *)
(* goes wrong only where two adapters are at work on one session, or a     *)
(* notification names the session of another adapter.                      *)
THEOREM OwnCapabilities == Spec => []CapabilitiesOfOwnAdapter
<1> DEFINE Inv == Placed /\ Owned /\ CapabilitiesOfOwnAdapter
<1>1. Init => Inv
  <2>1. SUFFICES ASSUME Init PROVE Inv
    OBVIOUS
  <2>2. \A r \in Requests : ~Active(r)
    BY <2>1 DEF Init, Active
  <2>3. CapabilitiesOfOwnAdapter
    <3>1. \A s \in Sessions : sessions[s] # None => sessions[s].capabilities = None
      BY <2>1 DEF Init, NewSession
    <3> QED
      BY <3>1 DEF CapabilitiesOfOwnAdapter, HasSession
  <2> QED
    BY <2>1, <2>2, <2>3, InitPlaced DEF Owned
<1>2. Inv /\ [Next]_vars => Inv'
  BY NextPlaced, OwnedSteps, OwnAdapterSteps
<1>3. Inv => CapabilitiesOfOwnAdapter
  OBVIOUS
<1> QED
  BY <1>1, <1>2, <1>3, PTL DEF Spec

-----------------------------------------------------------------------------
(***************************************************************************)
(* The response cache implements LossyCache.                               *)
(***************************************************************************)
Held == [k \in Keys |-> IF IsValid(cache[k]) THEN cache[k].data ELSE None]

HitOf(r) ==
  IF job[r] # None /\ (job[r] # None => job[r].op = "list") /\ found[r] # None
    THEN found[r].data ELSE None

LEMMA HeldType ==
  ASSUME CacheType, NEW k \in Keys
  PROVE  /\ Held[k] \in Lists \cup {None}
         /\ IsValid(cache[k]) <=> Held[k] # None
         /\ IsValid(cache[k]) => cache[k] # None /\ ~cache[k].expired /\ Held[k] = cache[k].data
<1>1. cache[k] \in Entries \cup {None}
  BY DEF CacheType
<1>2. IsValid(cache[k]) => cache[k] # None /\ ~cache[k].expired
  BY DEF IsValid
<1>3. IsValid(cache[k]) => cache[k].data \in Lists
  BY <1>1, <1>2 DEF Entries
<1> QED
  BY <1>2, <1>3, NoneAssumption DEF Held

LEMMA AgingLoses ==
  ASSUME CacheType, CacheType', OnlyAges, NEW k \in Keys
  PROVE  Held'[k] \in {Held[k], None}
<1>1. SUFFICES ASSUME IsValid(cache'[k]) PROVE Held'[k] = Held[k]
  BY DEF Held
<1>2. cache'[k] # None /\ ~cache'[k].expired
  BY <1>1 DEF IsValid
<1>3. cache[k] # None /\ cache'[k].data = cache[k].data /\ ~cache[k].expired
  BY <1>2 DEF OnlyAges
<1> QED
  BY <1>1, <1>3 DEF Held, IsValid

LEMMA StoringPuts ==
  ASSUME Placed, CacheType', Bounded', NEW r \in Requests, NEW data \in Lists, Stores(r, data)
  PROVE  /\ Held'[RequestKey(r)] = data
         /\ \A i \in Keys \ {RequestKey(r)} : Held'[i] \in {Held[i], None}
         /\ Cardinality({i \in Keys \ {RequestKey(r)} : Held'[i] # Held[i]}) <= 1
         /\ Cardinality({i \in Keys : Held'[i] # None}) <= MaxEntries
<1>1. CacheType /\ RequestKey(r) \in Keys
  BY TypeParts DEF Placed, Stores
<1>2. PICK victim : \A j \in Keys \ {RequestKey(r)} :
               cache'[j] = cache[j] \/ (j = victim /\ cache'[j] = None)
  BY <1>1, SetEffect DEF Stores
<1>3. Held'[RequestKey(r)] = data
  <2>1. cache'[RequestKey(r)] = NewEntry(data, r)
    BY <1>1, SetEffect DEF Stores
  <2> QED
    BY <1>1, <2>1, NewEntryType DEF Held, IsValid
<1>4. \A j \in Keys \ {RequestKey(r)} :
         Held'[j] = Held[j] \/ (j = victim /\ Held'[j] = None)
  BY <1>2 DEF Held, IsValid
<1>5. Cardinality({i \in Keys \ {RequestKey(r)} : Held'[i] # Held[i]}) <= 1
  <2> DEFINE changed == {i \in Keys \ {RequestKey(r)} : Held'[i] # Held[i]}
  <2>1. changed \subseteq {victim}
    BY <1>4
  <2>2. IsFiniteSet({victim}) /\ Cardinality({victim}) = 1
    BY FS_Singleton
  <2> HIDE DEF changed
  <2>3. Cardinality(changed) <= Cardinality({victim})
    BY <2>1, <2>2, FS_Subset
  <2> QED
    BY <2>2, <2>3 DEF changed
<1>6. Cardinality({i \in Keys : Held'[i] # None}) <= MaxEntries
  <2> DEFINE full == {i \in Keys : Held'[i] # None}
  <2>1. full \subseteq Cached'
    BY DEF Held, IsValid, Cached
  <2> HIDE DEF full
  <2>2. IsFiniteSet(full) /\ Cardinality(full) <= Cardinality(Cached')
    BY <2>1, FS_Subset DEF Bounded
  <2>3. Cardinality(full) \in Nat /\ Cardinality(Cached') \in Nat
    BY <2>2, FS_CardinalityType DEF Bounded
  <2> QED
    BY <2>2, <2>3, CacheAssumption DEF Bounded, full
<1> QED
  BY <1>3, <1>4, <1>5, <1>6

LEMMA HitSteps ==
  ASSUME Placed, [Next]_vars
  PROVE  \/ \A q \in Requests : HitOf(q)' = HitOf(q)
         \/ \E r \in Requests : /\ Get(r) /\ IsValid(cache[RequestKey(r)])
                                /\ RequestKey(r) \in Keys
                                /\ HitOf(r)' = cache[RequestKey(r)].data
                                /\ \A q \in Requests \ {r} : HitOf(q)' = HitOf(q)
<1>1. TypeOK /\ \A r \in Requests : Carries(r)
  BY DEF Placed
<1>2. ASSUME NEW r \in Requests, Accept(r) \/ Handler(r), HitOf(r)' = HitOf(r)
      PROVE  \A q \in Requests : HitOf(q)' = HitOf(q)
  <2>1. SameOthers(r)
    BY <1>2, AcceptPlaced, HandlerPlaced
  <2> QED
    BY <1>2, <2>1 DEF SameOthers, HitOf
<1>3. ASSUME NEW r \in Requests, Accept(r) PROVE HitOf(r)' = HitOf(r)
  <2>1. found[r] = None /\ found' = found
    BY <1>1, <1>3 DEF Accept, Carries
  <2> QED
    BY <2>1 DEF HitOf
<1>4. ASSUME NEW r \in Requests, GetCapabilities(r) \/ DiscoverCapabilities(r)
      PROVE  HitOf(r)' = HitOf(r)
  <2>1. job[r].op # "list" /\ job' = job
    BY <1>1, <1>4 DEF GetCapabilities, DiscoverCapabilities, Carries
  <2> QED
    BY <2>1 DEF HitOf
<1>5. ASSUME NEW r \in Requests, Get(r), IsValid(cache[RequestKey(r)])
      PROVE  /\ RequestKey(r) \in Keys /\ HitOf(r)' = cache[RequestKey(r)].data
             /\ \A q \in Requests \ {r} : HitOf(q)' = HitOf(q)
  <2>1. /\ job[r] # None /\ job[r].op = "list" /\ job' = job
        /\ found' = [found EXCEPT ![r] = cache[RequestKey(r)]]
    BY <1>1, <1>5 DEF Get, Carries
  <2>2. RequestKey(r) \in Keys
    BY <1>1, <2>1, JobType
  <2>3. found'[r] = cache[RequestKey(r)] /\ found'[r] # None
    BY <1>1, <1>5, <2>1 DEF TypeOK, IsValid
  <2>4. \A q \in Requests \ {r} : found'[q] = found[q]
    BY <1>1, <2>1 DEF TypeOK
  <2>5. HitOf(r)' = cache[RequestKey(r)].data
    BY <2>1, <2>3 DEF HitOf
  <2>6. \A q \in Requests \ {r} : HitOf(q)' = HitOf(q)
    BY <2>1, <2>4 DEF HitOf
  <2> QED
    BY <2>2, <2>5, <2>6
<1>6. ASSUME UNCHANGED <<job, found>> PROVE \A q \in Requests : HitOf(q)' = HitOf(q)
  BY <1>6 DEF HitOf
<1>7. ASSUME NEW r \in Requests, Get(r), ~IsValid(cache[RequestKey(r)])
      PROVE  UNCHANGED <<job, found>>
  BY <1>7 DEF Get
<1>8. ASSUME NEW r \in Requests, Handler(r), ~Get(r), ~GetCapabilities(r), ~DiscoverCapabilities(r)
      PROVE  UNCHANGED <<job, found>>
  BY <1>8 DEF Handler, Hit, ListFromAdapter, ProxyToTarget, StoreList, Record, OpenStream,
              TrackSession, HandleInitialize, StoreSession, StoreServerInfo, Relay,
              InvalidateCapabilities, InvalidateList, UpdateSession
<1>9. ASSUME \A r \in Requests : ~Accept(r) /\ ~Handler(r)
      PROVE  UNCHANGED <<job, found>>
  BY <1>9 DEF Next, vars, requests, ListsChange, SyncAdapter, CapabilityTime, CacheTime, SessionTime
<1> QED
  BY <1>2, <1>3, <1>4, <1>5, <1>6, <1>7, <1>8, <1>9

\* LossyCache counts with an operator of its own.
LEMMA SameCardinality ==
  ASSUME NEW S
  PROVE  Responses!Cardinality(S) = Cardinality(S)
BY DEF Responses!Cardinality, Cardinality

LEMMA ResponsesInit == Init => Responses!Init
<1>1. SUFFICES ASSUME Init PROVE Responses!Init
  OBVIOUS
<1>2. Held = [k \in Keys |-> None]
  BY <1>1 DEF Init, CacheInit, Held, IsValid
<1>3. Hits = [r \in Requests |-> None]
  BY <1>1 DEF Init, Hits
<1> QED
  BY <1>2, <1>3 DEF Held, Responses!Init

LEMMA ResponsesStep == Placed /\ [Next]_vars => Responses!Next
<1>1. SUFFICES ASSUME Placed, [Next]_vars PROVE Responses!Next
  OBVIOUS
<1>2. CacheType /\ CacheType' /\ Bounded'
  BY <1>1, CacheSteps, TypeParts DEF Placed
<1>3. ASSUME \A q \in Requests : HitOf(q)' = HitOf(q) PROVE Hits' = Hits
  BY <1>3 DEF Hits, HitOf
<1>4. ASSUME NEW r \in Requests, Get(r), IsValid(cache[RequestKey(r)]), RequestKey(r) \in Keys,
             HitOf(r)' = cache[RequestKey(r)].data,
             \A q \in Requests \ {r} : HitOf(q)' = HitOf(q)
      PROVE  Responses!Read(r, RequestKey(r))
  <2>1. UNCHANGED cache
    BY <1>4 DEF Get, stores
  <2>2. Held' = Held
    BY <2>1 DEF Held, IsValid
  <2>3. Held[RequestKey(r)] = cache[RequestKey(r)].data
    BY <1>4 DEF Held
  <2>4. Hits' = [Hits EXCEPT ![r] = Held[RequestKey(r)]]
    BY <1>4, <2>3 DEF Hits, HitOf
  <2> QED
    BY <2>2, <2>4 DEF Held, Responses!Read
<1>5. ASSUME Hits' = Hits, OnlyAges PROVE Responses!Lose
  <2>1. \A k \in Keys : Held'[k] \in {Held[k], None}
    BY <1>2, <1>5, AgingLoses
  <2> QED
    BY <1>5, <2>1 DEF Held, Responses!Lose, Responses!OnlyLoses
<1>6. ASSUME Hits' = Hits, NEW r \in Requests, NEW data \in Lists, Stores(r, data)
      PROVE  \E k \in Keys, v \in Lists : Responses!Put(k, v)
  <2>1. PICK k \in Keys : k = RequestKey(r)
    BY <1>6 DEF Stores
  <2>2. /\ Held'[k] = data
        /\ \A i \in Keys \ {k} : Held'[i] \in {Held[i], None}
        /\ Cardinality({i \in Keys \ {k} : Held'[i] # Held[i]}) <= 1
        /\ Cardinality({i \in Keys : Held'[i] # None}) <= MaxEntries
    BY <1>1, <1>2, <1>6, <2>1, StoringPuts
  <2> QED
    BY <1>6, <2>2, SameCardinality DEF Held, Responses!Put, Responses!OnlyLoses, Responses!Full
<1>7. CASE Hits' = Hits
  BY <1>1, <1>5, <1>6, <1>7, CacheSteps DEF Responses!Next
<1>8. CASE \E r \in Requests, k \in Keys : Responses!Read(r, k)
  BY <1>8 DEF Responses!Next
<1> QED
  BY <1>1, <1>3, <1>4, <1>7, <1>8, HitSteps

(* What a handler takes from the response cache was stored under its very  *)
(* key and has neither been invalidated nor expired, and the cache keeps   *)
(* within MaxEntries, however the Gets and Sets of the handlers and the    *)
(* invalidations interleave.                                               *)
THEOREM ResponsesRefined == Spec => ResponsesImplemented
BY ResponsesInit, InitPlaced, NextPlaced, ResponsesStep, PTL
   DEF Spec, ResponsesImplemented, Responses!Spec
=============================================================================
