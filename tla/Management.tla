------------------------------ MODULE Management ------------------------------
(***************************************************************************)
(* The services of internal/service over one adapter store, one session    *)
(* store and one cluster: ManagementService (adapters and the StatefulSets *)
(* behind them), ProxyHandler and the plugins it calls (sessions of        *)
(* clients), SessionManagementService and AuthorizationService (sessions   *)
(* and their tokens).  A request runs in its own goroutine and gives way   *)
(* between two calls of a store or of the cluster.  Requests that are      *)
(* refused at once, or only read, change nothing and are left out, as are  *)
(* the failures of discovery, which are logged and change nothing, or, as  *)
(* panics, end a request for a remote adapter before anything is stored.   *)
(* The adapter store is written to its file by every call that changes it: *)
(* a save that fails leaves the change in memory and fails the call.       *)
(***************************************************************************)
EXTENDS FiniteSets, Integers

CONSTANTS
  Handlers,    \* requests in progress at a time
  Adapters,
  Kinds,       \* Kinds[a]: connection types that requests give to a, of "k8s", "remote", "stdio"
  Sessions,    \* session ids: made of the clock, of random bytes, or by a server
  Infos,       \* TokenInfo objects: as many as are in use at a time and one more
  None

ASSUME ManagementAssumption ==
  Kinds \in [Adapters -> SUBSET {"k8s", "remote", "stdio"}]

VARIABLES
  sessions,    \* the session store
  store,       \* store[a]: the kind with which adapter a is stored, or None
  cluster,     \* adapters that have a StatefulSet
  at,          \* at[r]: the request that handler r works on, or None
  disturbed    \* history: adapters for which a call of the cluster failed, whose
               \* deletion could not be saved, or whose requests overlapped in a
               \* way that ClusterAgrees leaves out

INSTANCE SessionStore

vars == <<sessions, store, cluster, at, disturbed>>

(* An adapter store that was loaded from a file, and its deployments. *)
Init ==
  /\ store \in {f \in [Adapters -> {"k8s", "remote", "stdio"} \cup {None}] :
                  \A a \in Adapters : f[a] \in Kinds[a] \cup {None}}
  /\ cluster = {a \in Adapters : store[a] = "k8s"}
  /\ SessionInit
  /\ at = [r \in Handlers |-> None]
  /\ disturbed = {}

Request(op, step, a) ==
  [op |-> op, step |-> step, adapter |-> a, kind |-> None, session |-> None,
   left |-> {}, listed |-> {}]

Begin(r, request) == at[r] = None /\ at' = [at EXCEPT ![r] = request]
Step(r, op, step) == at[r] # None /\ at[r].op = op /\ at[r].step = step
Goto(r, step) == at' = [at EXCEPT ![r].step = step]
End(r) == at' = [at EXCEPT ![r] = None]

-----------------------------------------------------------------------------
(***************************************************************************)
(* ManagementService.                                                      *)
(***************************************************************************)
Managing == {"create", "update", "refresh", "delete"}

(* A deletion beside any other request, or creations of different kinds. *)
Conflict(p, q) ==
  /\ p.adapter = q.adapter /\ {p.op, q.op} \subseteq Managing
  /\ \/ "delete" \in {p.op, q.op}
     \/ p.op = "create" /\ q.op = "create" /\ p.kind # q.kind

Manage(r, op, step, a, k) ==
  LET request == [Request(op, step, a) EXCEPT !.kind = k]
  IN /\ Begin(r, request)
     /\ disturbed' = IF \E q \in Handlers : at[q] # None /\ Conflict(request, at[q])
                       THEN disturbed \cup {a} ELSE disturbed
     /\ UNCHANGED <<sessions, store, cluster>>

(* The name is free; a StatefulSet comes before the entry in the store. *)
CreateAdapter(r) ==
  \E a \in Adapters : \E k \in Kinds[a] :
    /\ store[a] = None
    /\ Manage(r, "create", IF k = "k8s" THEN "deploy" ELSE "store", a, k)

(* Variant: the new kind decides. *)
UpdateAdapterOfNewKind(r) ==
  \E a \in Adapters : \E k \in Kinds[a], step \in {"deploy", "store"} :
    /\ store[a] # None
    /\ step = "deploy" => k = "k8s"
    /\ Manage(r, "update", step, a, k)

(* The stored kind decides on a deployment, and so does what the update changes. *)
UpdateAdapter(r) ==
  \E a \in Adapters : \E k \in Kinds[a], step \in {"deploy", "store"} :
    /\ store[a] # None
    /\ step = "deploy" => store[a] = "k8s"
    /\ Manage(r, "update", step, a, k)

(* GetAdapter with refresh=true: a copy of the adapter, to be stored again. *)
RefreshAdapter(r) ==
  \E a \in Adapters :
    /\ store[a] \in {"k8s", "remote"}
    /\ Manage(r, "refresh", "store", a, store[a])

DeleteAdapter(r) ==
  \E a \in Adapters :
    /\ store[a] # None
    /\ Manage(r, "delete", "unstore", a, store[a])

(* UpsertStatefulSet and UpsertService; either may fail. *)
DeployAdapter(r) ==
  /\ at[r] # None /\ at[r].step = "deploy"
  /\ \/ cluster' = cluster \cup {at[r].adapter} /\ Goto(r, "store") /\ UNCHANGED disturbed
     \/ /\ cluster' \in {cluster, cluster \cup {at[r].adapter}}
        /\ End(r)
        /\ disturbed' = disturbed \cup {at[r].adapter}
  /\ UNCHANGED <<sessions, store>>

(* Variant: it stores or updates. *)
Upsert(a, k) == store' = [store EXCEPT ![a] = k]

(* UpsertAsync is Create: it fails when the adapter is there, and, with the *)
(* adapter entered all the same, when it cannot be saved.                   *)
UpsertAsync(a, k) == store' = [store EXCEPT ![a] = IF @ = None THEN k ELSE @]

(* Whether the call has failed only the answer tells. *)
StoreAdapter(r) ==
  /\ at[r] # None /\ at[r].step = "store"
  /\ UpsertAsync(at[r].adapter, at[r].kind)
  /\ End(r)
  /\ UNCHANGED <<sessions, cluster, disturbed>>

(* The entry goes first.  With that the request is over when the store could *)
(* not be saved, or when another deletion was faster.                        *)
Unstore(r) ==
  /\ Step(r, "delete", "unstore")
  /\ store' = [store EXCEPT ![at[r].adapter] = None]
  /\ \/ store[at[r].adapter] # None /\ Goto(r, "sessions") /\ UNCHANGED disturbed
     \/ End(r) /\ disturbed' = disturbed \cup {at[r].adapter}
  /\ UNCHANGED <<sessions, cluster>>

DeleteSessionsOfAdapter(r) ==
  /\ Step(r, "delete", "sessions")
  /\ DeleteByAdapter(at[r].adapter)
  /\ IF at[r].kind = "k8s" THEN Goto(r, "undeploy") ELSE End(r)
  /\ UNCHANGED <<store, cluster, disturbed>>

(* DeleteStatefulSet may fail; the Service stays in any case. *)
DeleteDeployment(r) ==
  /\ Step(r, "delete", "undeploy")
  /\ \/ cluster' = cluster \ {at[r].adapter} /\ UNCHANGED disturbed
     \/ cluster' = cluster /\ disturbed' = disturbed \cup {at[r].adapter}
  /\ End(r)
  /\ UNCHANGED <<sessions, store>>

-----------------------------------------------------------------------------
(***************************************************************************)
(* ProxyHandler.                                                           *)
(***************************************************************************)
Unmanaged == UNCHANGED <<store, cluster, disturbed>>

(* Requests of clients carry a session id or, which is no more, none. *)
ForwardStreamableHttp(r) ==
  /\ \E a \in Adapters, s \in Sessions :
       /\ store[a] # None
       /\ Begin(r, [Request("forward", "details", a) EXCEPT !.session = s, !.kind = store[a]])
  /\ Unmanaged /\ UNCHANGED sessions

(* Of the plugins only that of stdio adapters writes to the session store. *)
GotoPlugin(r) ==
  IF at[r].kind = "stdio" THEN at' = [at EXCEPT ![r].step = "proxy", ![r].session = None]
                          ELSE End(r)

(* A session without an adapter becomes one of the adapter asked for. *)
GetDetails(r) ==
  /\ Step(r, "forward", "details")
  /\ LET s == at[r].session
     IN IF HasSession(s) /\ sessions[s].adapter = None THEN Goto(r, "claim") ELSE GotoPlugin(r)
  /\ Unmanaged /\ UNCHANGED sessions

ClaimSession(r) ==
  /\ Step(r, "forward", "claim")
  /\ SetWithDetails(at[r].session, at[r].adapter)
  /\ GotoPlugin(r)
  /\ Unmanaged

(* "initialize" is entered as a session of its own, any other method is not. *)
ProxyRequest(r) ==
  /\ Step(r, "forward", "proxy")
  /\ \/ UNCHANGED sessions
     \/ \E s \in Sessions : ~HasSession(s) /\ SetWithDetails(s, at[r].adapter)
  /\ End(r)
  /\ Unmanaged

(* The session id is the server's; the adapter itself is not looked up. *)
ForwardSSE(r) ==
  /\ \E a \in Adapters, s \in Sessions :
       /\ Begin(r, [Request("sse", "stream", a) EXCEPT !.session = s])
       /\ SetWithDetails(s, a)
  /\ Unmanaged

(* Set(id, target) once the stream is open. *)
StreamSSE(r) ==
  /\ Step(r, "sse", "stream")
  /\ SetWithDetails(at[r].session, None) \/ UNCHANGED sessions
  /\ End(r)
  /\ Unmanaged

-----------------------------------------------------------------------------
(***************************************************************************)
(* SessionManagementService and AuthorizationService.  Their session ids   *)
(* count seconds, so one may be another request's.                         *)
(***************************************************************************)
ReinitializeSession(r) ==
  /\ \E a \in Adapters : store[a] # None /\ Begin(r, Request("reinit", "enter", a))
  /\ Unmanaged /\ UNCHANGED sessions

EnterSession(r) ==
  /\ Step(r, "reinit", "enter")
  /\ \E s \in Sessions : SetWithDetails(s, at[r].adapter)
  /\ End(r)
  /\ Unmanaged

CreateSession(r) ==
  /\ at[r] = None
  /\ \E a \in Adapters, s \in Sessions : SetWithDetails(s, a)
  /\ Unmanaged /\ UNCHANGED at

StartAuthorization(r) ==
  /\ \E a \in Adapters, s \in Sessions :
       /\ Begin(r, [Request("authorize", "status", a) EXCEPT !.session = s])
       /\ SetWithDetails(s, a)
  /\ Unmanaged

StoreAuthorization(r) ==
  /\ Step(r, "authorize", "status")
  /\ SetAuthorizationInfo(at[r].session, "authorizing")
  /\ End(r)
  /\ Unmanaged

(* The session is the adapter's when it is looked up. *)
DeleteSession(r) ==
  /\ \E a \in Adapters : \E s \in ListByAdapter(a) :
       Begin(r, [Request("deleteSession", "delete", a) EXCEPT !.session = s])
  /\ Unmanaged /\ UNCHANGED sessions

DeleteLookedUp(r) ==
  /\ Step(r, "deleteSession", "delete")
  /\ DeleteSessions({at[r].session})
  /\ End(r)
  /\ Unmanaged

DeleteAllSessions(r) ==
  /\ at[r] = None
  /\ \E a \in Adapters : DeleteByAdapter(a)
  /\ Unmanaged /\ UNCHANGED at

(***************************************************************************)
(* RevokeTokens goes through copies of the adapter's sessions, which share *)
(* the sessions' TokenInfo objects.  A session that is gone when its token *)
(* is to be cleared is passed over.                                        *)
(***************************************************************************)
Copies(a) ==
  {[session |-> s, token |-> sessions[s].token, status |-> sessions[s].status # None] :
     s \in ListByAdapter(a)}

(* Variant: sessions without authorization info are passed over. *)
RevokeAuthorized(r) ==
  /\ \E a \in Adapters :
       Begin(r, [Request("revoke", "next", a) EXCEPT !.left = {c \in Copies(a) : c.status},
                                                     !.listed = ListByAdapter(a)])
  /\ Unmanaged /\ UNCHANGED sessions

RevokeTokens(r) ==
  /\ \E a \in Adapters :
       Begin(r, [Request("revoke", "next", a) EXCEPT !.left = Copies(a),
                                                     !.listed = ListByAdapter(a)])
  /\ Unmanaged /\ UNCHANGED sessions

(* The copy whose token is cleared is left with its status. *)
ClearToken(r) ==
  /\ Step(r, "revoke", "next")
  /\ \E c \in at[r].left :
       /\ c.token # None
       /\ SetTokenInfo(c.session, None)
       /\ at' = [at EXCEPT ![r].left =
                   (@ \ {c}) \cup IF HasSession(c.session)
                                    THEN {[c EXCEPT !.token = None]} ELSE {}]
  /\ Unmanaged

ClearStatus(r) ==
  /\ Step(r, "revoke", "next")
  /\ \E c \in at[r].left :
       /\ c.token = None
       /\ IF c.status THEN SetAuthorizationInfo(c.session, "unauthorized")
                      ELSE UNCHANGED sessions
       /\ at' = [at EXCEPT ![r].left = @ \ {c}]
  /\ Unmanaged

TokensRevoked(r) ==
  /\ Step(r, "revoke", "next") /\ at[r].left = {}
  /\ End(r)
  /\ Unmanaged /\ UNCHANGED sessions

InUse(i) ==
  \/ \E s \in Sessions : HasSession(s) /\ sessions[s].token # None /\ sessions[s].token.info = i
  \/ \E r \in Handlers : at[r] # None
                        /\ \E c \in at[r].left : c.token # None /\ c.token.info = i

(* Whoever has a copy with that object sees what is in it now. *)
Seen(c, t) == IF c.token # None /\ c.token.info = t.info THEN [c EXCEPT !.token = t] ELSE c

(* RefreshToken, whose callers are outside: the session gets a token for its *)
(* adapter, in the object it has, or in a new one if it has none.            *)
RefreshToken(s) ==
  /\ HasSession(s)
  /\ \E i \in Infos :
       LET t == [info |-> i, for |-> sessions[s].adapter]
       IN /\ IF sessions[s].token = None THEN ~InUse(i) ELSE i = sessions[s].token.info
          /\ SetTokenInfo(s, t)
          /\ at' = [r \in Handlers |->
                      IF at[r] = None THEN None
                      ELSE [at[r] EXCEPT !.listed = @ \ {s},
                                         !.left = {Seen(c, t) : c \in @}]]
  /\ Unmanaged

Expire == CleanupExpired /\ Unmanaged /\ UNCHANGED at

Manager(r) ==
  \/ CreateAdapter(r) \/ UpdateAdapter(r) \/ RefreshAdapter(r) \/ DeleteAdapter(r)
  \/ DeployAdapter(r) \/ StoreAdapter(r)
  \/ Unstore(r) \/ DeleteSessionsOfAdapter(r) \/ DeleteDeployment(r)

Proxy(r) ==
  \/ ForwardStreamableHttp(r) \/ GetDetails(r) \/ ClaimSession(r) \/ ProxyRequest(r)
  \/ ForwardSSE(r) \/ StreamSSE(r)

Authorizer(r) ==
  \/ ReinitializeSession(r) \/ EnterSession(r) \/ CreateSession(r)
  \/ StartAuthorization(r) \/ StoreAuthorization(r)
  \/ DeleteSession(r) \/ DeleteLookedUp(r) \/ DeleteAllSessions(r)
  \/ RevokeTokens(r) \/ ClearToken(r) \/ ClearStatus(r) \/ TokensRevoked(r)

Next ==
  \/ \E r \in Handlers : Manager(r) \/ Proxy(r) \/ Authorizer(r)
  \/ \E s \in Sessions : RefreshToken(s)
  \/ Expire

Spec == Init /\ [][Next]_vars

-----------------------------------------------------------------------------
(***************************************************************************)
(* Properties.                                                             *)
(***************************************************************************)

(***************************************************************************)
(* Once no request of ManagementService is at work on an adapter, its      *)
(* StatefulSet is there exactly if it is stored as an adapter of the       *)
(* cluster: through creations of one kind, updates and refreshes that      *)
(* overlap as they may, and deletions on their own.  Left out are adapters *)
(* for which the cluster failed, of which two creations of different kinds *)
(* overlapped, or whose deletion overlapped with anything or could not be  *)
(* saved.                                                                  *)
(***************************************************************************)
Busy(a) == \E r \in Handlers : at[r] # None /\ at[r].op \in Managing /\ at[r].adapter = a

ClusterAgrees ==
  \A a \in Adapters \ disturbed :
    ~Busy(a) => (a \in cluster) = (store[a] = "k8s")

(***************************************************************************)
(* When RevokeTokens is through, no session that it found has a token,     *)
(* whoever replaced, claimed or deleted it meanwhile, unless the session   *)
(* was given one since.                                                    *)
(***************************************************************************)
TokensStayRevoked ==
  \A r \in Handlers :
    (Step(r, "revoke", "next") /\ at[r].left = {}) =>
      \A s \in at[r].listed : HasSession(s) => sessions[s].token = None

(***************************************************************************)
(* A token is never in a session of another adapter than the one it was    *)
(* given for, although a session changes hands: it is claimed, replaced by *)
(* one with the same id, and written to by requests that looked it up      *)
(* before.  Nor does who has copies of an adapter's sessions ever find the *)
(* token of another adapter in them, although RefreshToken writes to the   *)
(* very objects that the copies have.                                      *)
(***************************************************************************)
TokensKeepAdapter ==
  /\ \A s \in Sessions :
       (HasSession(s) /\ sessions[s].token # None) =>
         sessions[s].token.for = sessions[s].adapter
  /\ \A r \in Handlers : Step(r, "revoke", "next") =>
       \A c \in at[r].left : c.token # None => c.token.for = at[r].adapter

Tokens == [info: Infos, for: Adapters \cup {None}]
Statuses == {"authorizing", "unauthorized"}
Records ==
  [adapter: Adapters \cup {None}, mcpId: {None}, capabilities: {None}, server: {None},
   token: Tokens \cup {None}, status: Statuses \cup {None}]
Requests ==
  [op: Managing \cup {"forward", "sse", "reinit", "authorize", "deleteSession", "revoke"},
   step: {"deploy", "store", "unstore", "sessions", "undeploy", "details", "claim", "proxy",
          "stream", "enter", "status", "delete", "next"},
   adapter: Adapters, kind: {"k8s", "remote", "stdio", None}, session: Sessions \cup {None},
   left: SUBSET [session: Sessions, token: Tokens \cup {None}, status: BOOLEAN],
   listed: SUBSET Sessions]

ASSUME NoneAssumption == None \notin Requests \cup Tokens \cup {"k8s", "remote", "stdio"}

(* Types. *)
TypeOK ==
  /\ sessions \in [Sessions -> Records \cup {None}]
  /\ store \in [Adapters -> {"k8s", "remote", "stdio", None}]
  /\ cluster \subseteq Adapters
  /\ at \in [Handlers -> Requests \cup {None}]
  /\ disturbed \subseteq Adapters
=============================================================================
