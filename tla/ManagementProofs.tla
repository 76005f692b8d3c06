--------------------------- MODULE ManagementProofs ---------------------------
(***************************************************************************)
(* Proofs about Management, for any number of requests, adapters and       *)
(* sessions: the cluster agrees with the adapter store, a token stays with *)
(* the adapter it was given for, and a revocation leaves none behind.      *)
(***************************************************************************)
EXTENDS Management, TLAPS

Kind == {"k8s", "remote", "stdio"}

-----------------------------------------------------------------------------
(***************************************************************************)
(* Types, and what a step does to the request that takes it.               *)
(***************************************************************************)
LEMMA RequestType ==
  ASSUME NEW op \in Managing \cup {"forward", "sse", "reinit", "authorize", "deleteSession",
                                   "revoke"},
         NEW step \in {"deploy", "store", "unstore", "sessions", "undeploy", "details", "claim",
                       "proxy", "stream", "enter", "status", "delete", "next"},
         NEW a \in Adapters
  PROVE  Request(op, step, a) \in Requests
BY DEF Request, Requests

LEMMA InitType == Init => TypeOK
BY ManagementAssumption DEF Init, TypeOK, SessionInit

LEMMA BeginType ==
  ASSUME TypeOK, NEW r \in Handlers, NEW request \in Requests, Begin(r, request)
  PROVE  at' \in [Handlers -> Requests \cup {None}]
BY DEF TypeOK, Begin

LEMMA GotoType ==
  ASSUME TypeOK, NEW r \in Handlers, at[r] # None,
         NEW step \in {"deploy", "store", "unstore", "sessions", "undeploy", "details", "claim",
                       "proxy", "stream", "enter", "status", "delete", "next"},
         Goto(r, step) \/ End(r)
  PROVE  at' \in [Handlers -> Requests \cup {None}]
BY DEF TypeOK, Goto, End, Requests

LEMMA ManageType ==
  ASSUME TypeOK, NEW r \in Handlers, NEW op \in Managing,
         NEW step \in {"deploy", "store", "unstore"}, NEW a \in Adapters,
         NEW k \in Kind, Manage(r, op, step, a, k)
  PROVE  TypeOK'
<1> DEFINE request == [Request(op, step, a) EXCEPT !.kind = k]
<1>1. request \in Requests
  BY RequestType DEF Requests, Request, Kind
<1>2. Begin(r, request) /\ disturbed' \in {disturbed, disturbed \cup {a}}
      /\ UNCHANGED <<sessions, store, cluster>>
  BY DEF Manage
<1> HIDE DEF request
<1> QED
  BY <1>1, <1>2, BeginType DEF TypeOK

(* An id that no session has is of no consequence. *)
LEMMA SetType ==
  ASSUME TypeOK, NEW s, NEW a \in Adapters \cup {None}, SetWithDetails(s, a)
  PROVE  sessions' \in [Sessions -> Records \cup {None}]
BY DEF TypeOK, SetWithDetails, NewSession, Records

LEMMA SetTokenType ==
  ASSUME TypeOK, NEW s, NEW t \in Tokens \cup {None}, SetTokenInfo(s, t)
  PROVE  sessions' \in [Sessions -> Records \cup {None}]
<1> DEFINE record == [sessions[s] EXCEPT !["token"] = t]
<1>1. CASE HasSession(s)
  <2>1. sessions' = [sessions EXCEPT ![s] = record]
    BY <1>1 DEF SetTokenInfo, SetField
  <2>2. s \in Sessions => sessions[s] \in Records
    BY <1>1 DEF TypeOK, HasSession
  <2>3. s \in Sessions => record \in Records
    BY <2>2 DEF Records
  <2> HIDE DEF record
  <2> QED
    BY <2>1, <2>3 DEF TypeOK
<1>2. CASE ~HasSession(s)
  BY <1>2 DEF SetTokenInfo, SetField, TypeOK
<1> QED
  BY <1>1, <1>2

LEMMA SetStatusType ==
  ASSUME TypeOK, NEW s, NEW i \in Statuses \cup {None}, SetAuthorizationInfo(s, i)
  PROVE  sessions' \in [Sessions -> Records \cup {None}]
<1> DEFINE record == [sessions[s] EXCEPT !["status"] = i]
<1>1. CASE HasSession(s)
  <2>1. sessions' = [sessions EXCEPT ![s] = record]
    BY <1>1 DEF SetAuthorizationInfo, SetField
  <2>2. s \in Sessions => sessions[s] \in Records
    BY <1>1 DEF TypeOK, HasSession
  <2>3. s \in Sessions => record \in Records
    BY <2>2 DEF Records
  <2> HIDE DEF record
  <2> QED
    BY <2>1, <2>3 DEF TypeOK
<1>2. CASE ~HasSession(s)
  BY <1>2 DEF SetAuthorizationInfo, SetField, TypeOK
<1> QED
  BY <1>1, <1>2

LEMMA DeleteType ==
  ASSUME TypeOK, NEW S, DeleteSessions(S)
  PROVE  sessions' \in [Sessions -> Records \cup {None}]
BY DEF TypeOK, DeleteSessions

LEMMA ManagerType ==
  ASSUME TypeOK, NEW r \in Handlers, Manager(r)
  PROVE  TypeOK'
<1>1. CASE CreateAdapter(r)
  BY <1>1, ManageType, ManagementAssumption DEF CreateAdapter, Managing, Kind
<1>2. CASE UpdateAdapter(r)
  BY <1>2, ManageType, ManagementAssumption DEF UpdateAdapter, Managing, Kind
<1>3. CASE RefreshAdapter(r)
  BY <1>3, ManageType DEF RefreshAdapter, Managing, Kind
<1>4. CASE DeleteAdapter(r)
  BY <1>4, ManageType DEF DeleteAdapter, Managing, Kind, TypeOK
<1>5. CASE DeployAdapter(r)
  BY <1>5, GotoType DEF DeployAdapter, Requests, TypeOK
<1>6. CASE StoreAdapter(r)
  BY <1>6, GotoType DEF StoreAdapter, UpsertAsync, Requests, TypeOK
<1>7. CASE Unstore(r)
  BY <1>7, GotoType DEF Unstore, Step, Requests, TypeOK
<1>8. CASE DeleteSessionsOfAdapter(r)
  <2>1. at' \in [Handlers -> Requests \cup {None}]
    BY <1>8, GotoType DEF DeleteSessionsOfAdapter, Step
  <2> QED
    BY <1>8, <2>1, DeleteType DEF DeleteSessionsOfAdapter, DeleteByAdapter, TypeOK
<1>9. CASE DeleteDeployment(r)
  BY <1>9, GotoType DEF DeleteDeployment, Step, Requests, TypeOK
<1> QED
  BY <1>1, <1>2, <1>3, <1>4, <1>5, <1>6, <1>7, <1>8, <1>9 DEF Manager

LEMMA ProxyType ==
  ASSUME TypeOK, NEW r \in Handlers, Proxy(r)
  PROVE  TypeOK'
<1>1. CASE ForwardStreamableHttp(r)
  <2>1. PICK a \in Adapters, s \in Sessions :
          Begin(r, [Request("forward", "details", a) EXCEPT !.session = s, !.kind = store[a]])
    BY <1>1 DEF ForwardStreamableHttp
  <2>2. [Request("forward", "details", a) EXCEPT !.session = s, !.kind = store[a]] \in Requests
    BY DEF Request, Requests, TypeOK
  <2> QED
    BY <1>1, <2>1, <2>2, BeginType DEF ForwardStreamableHttp, Unmanaged, TypeOK
<1>2. CASE GetDetails(r)
  BY <1>2, GotoType DEF GetDetails, GotoPlugin, Goto, End, Step, Unmanaged, Requests, TypeOK
<1>3. CASE ClaimSession(r)
  <2>1. at' \in [Handlers -> Requests \cup {None}]
    BY <1>3 DEF ClaimSession, GotoPlugin, End, Step, Requests, TypeOK
  <2>2. at[r].adapter \in Adapters
    BY <1>3 DEF ClaimSession, Step, Requests, TypeOK
  <2> QED
    BY <1>3, <2>1, <2>2, SetType DEF ClaimSession, Unmanaged, TypeOK
<1>4. CASE ProxyRequest(r)
  BY <1>4, GotoType, SetType DEF ProxyRequest, Step, Requests, Unmanaged, TypeOK
<1>5. CASE ForwardSSE(r)
  <2>1. PICK a \in Adapters, s \in Sessions :
          /\ Begin(r, [Request("sse", "stream", a) EXCEPT !.session = s])
          /\ SetWithDetails(s, a)
    BY <1>5 DEF ForwardSSE
  <2>2. [Request("sse", "stream", a) EXCEPT !.session = s] \in Requests
    BY DEF Request, Requests
  <2> QED
    BY <1>5, <2>1, <2>2, BeginType, SetType DEF ForwardSSE, Unmanaged, TypeOK
<1>6. CASE StreamSSE(r)
  BY <1>6, GotoType, SetType DEF StreamSSE, Step, Unmanaged, TypeOK
<1> QED
  BY <1>1, <1>2, <1>3, <1>4, <1>5, <1>6 DEF Proxy

LEMMA CopiesType ==
  ASSUME TypeOK, NEW a \in Adapters
  PROVE  Copies(a) \subseteq [session: Sessions, token: Tokens \cup {None}, status: BOOLEAN]
<1>1. SUFFICES ASSUME NEW s \in Sessions, HasSession(s)
               PROVE  [session |-> s, token |-> sessions[s].token,
                       status |-> sessions[s].status # None]
                        \in [session: Sessions, token: Tokens \cup {None}, status: BOOLEAN]
  BY DEF Copies, ListByAdapter
<1> DEFINE token == sessions[s].token
           status == sessions[s].status # None
<1>2. token \in Tokens \cup {None} /\ status \in BOOLEAN
  BY <1>1 DEF TypeOK, HasSession, Records
<1> HIDE DEF token, status
<1>3. [session |-> s, token |-> token, status |-> status]
        \in [session: Sessions, token: Tokens \cup {None}, status: BOOLEAN]
  BY <1>2
<1> QED
  BY <1>3 DEF token, status

LEMMA AuthorizerType ==
  ASSUME TypeOK, NEW r \in Handlers, Authorizer(r)
  PROVE  TypeOK'
<1>1. CASE ReinitializeSession(r)
  BY <1>1, RequestType, BeginType DEF ReinitializeSession, Unmanaged, TypeOK
<1>2. CASE EnterSession(r)
  BY <1>2, GotoType, SetType DEF EnterSession, Step, Requests, Unmanaged, TypeOK
<1>3. CASE CreateSession(r)
  BY <1>3, SetType DEF CreateSession, Unmanaged, TypeOK
<1>4. CASE StartAuthorization(r)
  <2>1. PICK a \in Adapters, s \in Sessions :
          /\ Begin(r, [Request("authorize", "status", a) EXCEPT !.session = s])
          /\ SetWithDetails(s, a)
    BY <1>4 DEF StartAuthorization
  <2>2. [Request("authorize", "status", a) EXCEPT !.session = s] \in Requests
    BY DEF Request, Requests
  <2> QED
    BY <1>4, <2>1, <2>2, BeginType, SetType DEF StartAuthorization, Unmanaged, TypeOK
<1>5. CASE StoreAuthorization(r)
  BY <1>5, GotoType, SetStatusType DEF StoreAuthorization, Step, Statuses, Unmanaged, TypeOK
<1>6. CASE DeleteSession(r)
  <2>1. PICK a \in Adapters, s \in Sessions :
          Begin(r, [Request("deleteSession", "delete", a) EXCEPT !.session = s])
    BY <1>6 DEF DeleteSession, ListByAdapter
  <2>2. [Request("deleteSession", "delete", a) EXCEPT !.session = s] \in Requests
    BY DEF Request, Requests
  <2> QED
    BY <1>6, <2>1, <2>2, BeginType DEF DeleteSession, Unmanaged, TypeOK
<1>7. CASE DeleteLookedUp(r)
  BY <1>7, GotoType, DeleteType DEF DeleteLookedUp, Step, Unmanaged, TypeOK
<1>8. CASE DeleteAllSessions(r)
  BY <1>8, DeleteType DEF DeleteAllSessions, DeleteByAdapter, Unmanaged, TypeOK
<1>9. CASE RevokeTokens(r)
  <2>1. PICK a \in Adapters :
          Begin(r, [Request("revoke", "next", a) EXCEPT !.left = Copies(a),
                                                       !.listed = ListByAdapter(a)])
    BY <1>9 DEF RevokeTokens
  <2>2. /\ ListByAdapter(a) \subseteq Sessions
        /\ Copies(a) \subseteq [session: Sessions, token: Tokens \cup {None}, status: BOOLEAN]
    BY CopiesType DEF ListByAdapter
  <2>3. [Request("revoke", "next", a) EXCEPT !.left = Copies(a),
                                             !.listed = ListByAdapter(a)] \in Requests
    BY <2>2 DEF Request, Requests
  <2> QED
    BY <1>9, <2>1, <2>3, BeginType DEF RevokeTokens, Unmanaged, TypeOK
<1>10. CASE ClearToken(r)
  <2>1. PICK c \in at[r].left :
          /\ SetTokenInfo(c.session, None)
          /\ at' = [at EXCEPT ![r].left =
                      (@ \ {c}) \cup IF HasSession(c.session)
                                       THEN {[c EXCEPT !.token = None]} ELSE {}]
    BY <1>10 DEF ClearToken
  <2>2. at[r] \in Requests
    BY <1>10 DEF ClearToken, Step, TypeOK
  <2>3. ((at[r].left \ {c}) \cup IF HasSession(c.session)
                                   THEN {[c EXCEPT !.token = None]} ELSE {})
          \in SUBSET [session: Sessions, token: Tokens \cup {None}, status: BOOLEAN]
    BY <2>2 DEF Requests
  <2>4. at' \in [Handlers -> Requests \cup {None}]
    BY <2>1, <2>2, <2>3 DEF TypeOK, Requests
  <2> QED
    BY <1>10, <2>1, <2>4, SetTokenType DEF ClearToken, Unmanaged, TypeOK
<1>11. CASE ClearStatus(r)
  <2>1. PICK c \in at[r].left :
          /\ IF c.status THEN SetAuthorizationInfo(c.session, "unauthorized")
                         ELSE UNCHANGED sessions
          /\ at' = [at EXCEPT ![r].left = @ \ {c}]
    BY <1>11 DEF ClearStatus
  <2>2. at[r] \in Requests
    BY <1>11 DEF ClearStatus, Step, TypeOK
  <2>3. at' \in [Handlers -> Requests \cup {None}]
    BY <2>1, <2>2 DEF TypeOK, Requests
  <2> QED
    BY <1>11, <2>1, <2>3, SetStatusType DEF ClearStatus, Statuses, Unmanaged, TypeOK
<1>12. CASE TokensRevoked(r)
  BY <1>12, GotoType DEF TokensRevoked, Step, Unmanaged, TypeOK
<1> QED
  BY <1>1, <1>2, <1>3, <1>4, <1>5, <1>6, <1>7, <1>8, <1>9, <1>10, <1>11, <1>12 DEF Authorizer

LEMMA RefreshGives ==
  ASSUME TypeOK, NEW s \in Sessions, RefreshToken(s)
  PROVE  \E t \in Tokens :
           /\ t.for = sessions[s].adapter
           /\ IF sessions[s].token = None THEN ~InUse(t.info) ELSE t.info = sessions[s].token.info
           /\ SetTokenInfo(s, t)
           /\ at' = [r \in Handlers |->
                      IF at[r] = None THEN None
                      ELSE [at[r] EXCEPT !.listed = @ \ {s}, !.left = {Seen(c, t) : c \in @}]]
<1> DEFINE Given(i) == [info |-> i, for |-> sessions[s].adapter]
<1>1. PICK i \in Infos :
        /\ IF sessions[s].token = None THEN ~InUse(i) ELSE i = sessions[s].token.info
        /\ SetTokenInfo(s, Given(i))
        /\ at' = [r \in Handlers |->
                   IF at[r] = None THEN None
                   ELSE [at[r] EXCEPT !.listed = @ \ {s},
                                      !.left = {Seen(c, Given(i)) : c \in @}]]
  BY DEF RefreshToken
<1>2. Given(i) \in Tokens /\ Given(i).info = i /\ Given(i).for = sessions[s].adapter
  BY DEF RefreshToken, HasSession, TypeOK, Records, Tokens
<1> HIDE DEF Given
<1> QED
  BY <1>1, <1>2

LEMMA SeenType ==
  ASSUME TypeOK, NEW r \in Handlers, at[r] # None, NEW s, NEW t \in Tokens
  PROVE  [at[r] EXCEPT !.listed = @ \ {s}, !.left = {Seen(c, t) : c \in @}] \in Requests
<1>1. at[r] \in Requests
  BY DEF TypeOK
<1>2. \A c \in at[r].left : Seen(c, t) \in [session: Sessions, token: Tokens \cup {None},
                                            status: BOOLEAN]
  BY <1>1 DEF Seen, Requests
<1>3. {Seen(c, t) : c \in at[r].left} \subseteq
        [session: Sessions, token: Tokens \cup {None}, status: BOOLEAN]
  BY <1>2
<1> QED
  BY <1>1, <1>3 DEF Requests

LEMMA RefreshType ==
  ASSUME TypeOK, NEW s \in Sessions, RefreshToken(s)
  PROVE  TypeOK'
<1>1. PICK t \in Tokens :
        /\ SetTokenInfo(s, t)
        /\ at' = [r \in Handlers |->
                   IF at[r] = None THEN None
                   ELSE [at[r] EXCEPT !.listed = @ \ {s}, !.left = {Seen(c, t) : c \in @}]]
  BY RefreshGives
<1>2. at' \in [Handlers -> Requests \cup {None}]
  BY <1>1, SeenType
<1> QED
  BY <1>1, <1>2, SetTokenType DEF RefreshToken, Unmanaged, TypeOK

LEMMA NextType == TypeOK /\ [Next]_vars => TypeOK'
<1>1. SUFFICES ASSUME TypeOK, [Next]_vars PROVE TypeOK'
  OBVIOUS
<1>2. CASE Expire
  BY <1>1, <1>2, DeleteType DEF Expire, CleanupExpired, Unmanaged, TypeOK
<1>3. CASE UNCHANGED vars
  BY <1>1, <1>3 DEF vars, TypeOK
<1> QED
  BY <1>1, <1>2, <1>3, ManagerType, ProxyType, AuthorizerType, RefreshType DEF Next

(* Management keeps its types. *)
THEOREM TypesHold == Spec => []TypeOK
BY InitType, NextType, PTL DEF Spec

-----------------------------------------------------------------------------
(***************************************************************************)
(* The cluster.  What a request of ManagementService has seen of its       *)
(* adapter stays true, since what would change it is in conflict with it.  *)
(***************************************************************************)
On(r, a) == at[r] # None /\ at[r].op \in Managing /\ at[r].adapter = a

\* By its operation, what request q of adapter a may rely on.
Holds(q, a) ==
  /\ q.op = "create" => /\ store[a] \in {None, q.kind}
                        /\ q.step = "deploy" \/ (q.step = "store" /\ (q.kind = "k8s" => a \in cluster))
                        /\ q.step = "deploy" => q.kind = "k8s"
  /\ q.op = "update" => /\ store[a] # None
                        /\ q.step \in {"deploy", "store"}
                        /\ q.step = "deploy" => store[a] = "k8s"
  /\ q.op = "refresh" => store[a] # None /\ q.step = "store"
  /\ q.op = "delete" => \/ q.step = "unstore" /\ store[a] = q.kind
                        \/ q.step = "sessions" /\ store[a] = None /\ (q.kind = "k8s") = (a \in cluster)
                        \/ q.step = "undeploy" /\ store[a] = None /\ q.kind = "k8s" /\ a \in cluster

\* Requests that have set up or not yet removed what the store does not tell.
Owes(q) == 
  /\ q.kind = "k8s"
  /\ (q.op = "create" /\ q.step = "store") \/ (q.op = "delete" /\ q.step # "unstore")

ClusterInv(a) ==
  /\ \A p, q \in Handlers : p # q /\ On(p, a) /\ On(q, a) => ~Conflict(at[p], at[q])
  /\ \A r \in Handlers : On(r, a) => at[r].kind # None /\ Holds(at[r], a)
  /\ store[a] = "k8s" => a \in cluster
  /\ a \in cluster /\ store[a] # "k8s" => \E r \in Handlers : On(r, a) /\ Owes(at[r])

\* Requests that are not of ManagementService are at steps of their own.
Apart == \A r \in Handlers :
  at[r] # None =>
    ((at[r].step \in {"deploy", "store", "unstore", "sessions", "undeploy"}) = (at[r].op \in Managing))

CInv == TypeOK /\ Apart /\ \A a \in Adapters \ disturbed : ClusterInv(a)

-----------------------------------------------------------------------------
\* Where a step is not seen, nothing changes.
LEMMA Elsewhere ==
  ASSUME NEW a \in Adapters, ClusterInv(a),
         store'[a] = store[a], (a \in cluster') = (a \in cluster),
         \A r \in Handlers :
           /\ On(r, a)' = On(r, a)
           /\ On(r, a) => /\ at'[r].op = at[r].op /\ at'[r].step = at[r].step
                          /\ at'[r].kind = at[r].kind /\ at'[r].adapter = at[r].adapter
  PROVE  ClusterInv(a)'
<1>1. ASSUME NEW p \in Handlers, NEW q \in Handlers, p # q, On(p, a)', On(q, a)'
      PROVE  ~Conflict(at[p], at[q])'
  BY <1>1 DEF ClusterInv, Conflict
<1>2. ASSUME NEW r \in Handlers, On(r, a)'
      PROVE  at'[r].kind # None /\ Holds(at[r], a)'
  BY <1>2 DEF ClusterInv, Holds
<1>3. a \in cluster' /\ store'[a] # "k8s" => \E r \in Handlers : On(r, a)' /\ Owes(at[r])'
  BY DEF ClusterInv, Owes
<1> QED
  BY <1>1, <1>2, <1>3 DEF ClusterInv

\* A request begins, and is in conflict with none.
LEMMA BeginKeeps ==
  ASSUME CInv, NEW r \in Handlers, NEW op \in Managing,
         NEW step \in {"deploy", "store", "unstore"}, NEW b \in Adapters, NEW k \in Kind,
         Manage(r, op, step, b, k),
         op = "create" => store[b] = None /\ step = IF k = "k8s" THEN "deploy" ELSE "store",
         op = "update" => store[b] # None /\ step \in {"deploy", "store"}
                          /\ (step = "deploy" => store[b] = "k8s"),
         op = "refresh" => store[b] # None /\ step = "store",
         op = "delete" => step = "unstore" /\ store[b] = k
  PROVE  CInv'
<1> DEFINE request == [Request(op, step, b) EXCEPT !.kind = k]
<1>1. /\ request \in Requests /\ request.op = op /\ request.step = step
      /\ request.adapter = b /\ request.kind = k /\ k # None
  BY RequestType, NoneAssumption DEF Requests, Request, Kind
<1>2. /\ at[r] = None /\ at' = [at EXCEPT ![r] = request]
      /\ UNCHANGED <<store, cluster>>
      /\ disturbed \subseteq disturbed'
      /\ b \notin disturbed' => \A q \in Handlers : at[q] # None => ~Conflict(request, at[q])
  BY DEF Manage, Begin
<1>3. TypeOK'
  BY ManageType DEF CInv
<1> HIDE DEF request
<1>4. at'[r] = request /\ \A q \in Handlers \ {r} : at'[q] = at[q]
  BY <1>2 DEF CInv, TypeOK
<1>5. Apart'
  BY <1>1, <1>4 DEF CInv, Apart, Managing
<1>6. ASSUME NEW a \in Adapters, a \notin disturbed', a # b
      PROVE  ClusterInv(a)'
  <2>1. \A q \in Handlers : On(q, a)' = On(q, a) /\ (On(q, a) => q # r)
    BY <1>1, <1>2, <1>4, <1>6 DEF On
  <2> QED
    BY <1>2, <1>4, <1>6, <2>1, Elsewhere DEF CInv
<1>7. ASSUME b \notin disturbed' PROVE ClusterInv(b)'
  <2>1. ClusterInv(b)
    BY <1>2, <1>7 DEF CInv
  <2>2. \A q \in Handlers : On(q, b)' = (q = r \/ On(q, b))
    BY <1>1, <1>2, <1>4, NoneAssumption DEF On
  <2>3. ~On(r, b)
    BY <1>2 DEF On
  <2>4. ASSUME NEW p \in Handlers, NEW q \in Handlers, p # q, On(p, b)', On(q, b)'
        PROVE  ~Conflict(at[p], at[q])'
    <3>1. CASE p # r /\ q # r
      <4>1. at'[p] = at[p] /\ at'[q] = at[q] /\ ~Conflict(at[p], at[q])
        BY <1>4, <2>1, <2>2, <2>4, <3>1 DEF ClusterInv
      <4> QED
        BY <4>1 DEF Conflict
    <3>2. \A i \in Handlers : On(i, b) => ~Conflict(request, at[i])
      BY <1>2, <1>7 DEF On
    <3>3. CASE p = r
      <4>1. at'[p] = request /\ at'[q] = at[q] /\ On(q, b)
        BY <1>4, <2>2, <2>4, <3>3
      <4> QED
        BY <3>2, <4>1 DEF Conflict
    <3>4. CASE q = r
      <4>1. at'[q] = request /\ at'[p] = at[p] /\ On(p, b)
        BY <1>4, <2>2, <2>4, <3>4
      <4>2. ~Conflict(request, at[p])
        BY <3>2, <4>1
      <4> QED
        BY <4>1, <4>2 DEF Conflict
    <3> QED
      BY <3>1, <3>3, <3>4
  <2>5. ASSUME NEW q \in Handlers, On(q, b)'
        PROVE  at'[q].kind # None /\ Holds(at[q], b)'
    <3>1. CASE q = r
      BY <1>1, <1>2, <1>4, <3>1 DEF Holds
    <3>2. CASE q # r
      <4>1. at'[q] = at[q] /\ at[q].kind # None /\ Holds(at[q], b)
        BY <1>4, <2>1, <2>2, <2>5, <3>2 DEF ClusterInv
      <4> QED
        BY <1>2, <4>1 DEF Holds
    <3> QED
      BY <3>1, <3>2
  <2>6. b \in cluster' /\ store'[b] # "k8s" => \E q \in Handlers : On(q, b)' /\ Owes(at[q])'
    BY <1>2, <1>4, <2>1, <2>2, <2>3 DEF ClusterInv, Owes
  <2> QED
    BY <1>2, <2>1, <2>4, <2>5, <2>6 DEF ClusterInv
<1> QED
  BY <1>2, <1>3, <1>5, <1>6, <1>7 DEF CInv

\* The steps of a request that is under way, at adapter b and elsewhere.
LEMMA StepKeeps ==
  ASSUME CInv, NEW r \in Handlers, NEW b \in Adapters, On(r, b), TypeOK',
         \A q \in Handlers \ {r} : at'[q] = at[q],
         \/ at'[r] = None
         \/ /\ at'[r].op = at[r].op /\ at'[r].adapter = b /\ at'[r].kind = at[r].kind
            /\ at'[r].step \in {"deploy", "store", "unstore", "sessions", "undeploy"},
         \A a \in Adapters \ {b} : store'[a] = store[a] /\ (a \in cluster') = (a \in cluster),
         disturbed \subseteq disturbed',
         b \notin disturbed' => ClusterInv(b)'
  PROVE  CInv'
<1>1. Apart'
  BY DEF CInv, Apart, On
<1>2. ASSUME NEW a \in Adapters, a \notin disturbed', a # b
      PROVE  ClusterInv(a)'
  <2>1. \A q \in Handlers : On(q, a)' = On(q, a) /\ (On(q, a) => q # r)
    BY <1>2 DEF On
  <2> QED
    BY <1>2, <2>1, Elsewhere DEF CInv
<1> QED
  BY <1>1, <1>2 DEF CInv

LEMMA Alone ==
  ASSUME NEW b \in Adapters, ClusterInv(b), NEW r \in Handlers, On(r, b), at[r].op = "delete"
  PROVE  \A q \in Handlers \ {r} : ~On(q, b)
BY DEF ClusterInv, On, Conflict

LEMMA DeployKeeps ==
  ASSUME CInv, NEW r \in Handlers, NEW b, b = at[r].adapter, DeployAdapter(r)
  PROVE  CInv'
<1>1. at[r] \in Requests /\ b \in Adapters /\ On(r, b) /\ at[r].step = "deploy"
  BY DEF DeployAdapter, CInv, TypeOK, Apart, On, Requests
<1>2. TypeOK'
  BY ManagerType DEF CInv, Manager
<1>3. CASE /\ cluster' = cluster \cup {b} /\ Goto(r, "store")
           /\ UNCHANGED <<sessions, store, disturbed>>
  <2>1. /\ at'[r].op = at[r].op /\ at'[r].adapter = b /\ at'[r].kind = at[r].kind
        /\ at'[r].step = "store" /\ at'[r] # None
        /\ \A q \in Handlers \ {r} : at'[q] = at[q]
    <3>1. [at[r] EXCEPT !.step = "store"] \in Requests
      BY <1>1 DEF Requests
    <3> QED
      BY <1>1, <1>3, <3>1, NoneAssumption DEF Goto, CInv, TypeOK, Requests
  <2>2. ASSUME b \notin disturbed' PROVE ClusterInv(b)'
    <3>1. ClusterInv(b)
      BY <1>1, <1>3, <2>2 DEF CInv
    <3>2. \A q \in Handlers : On(q, b)' = On(q, b)
      BY <1>1, <2>1 DEF On
    <3>3. at[r].op \in {"create", "update"} /\ Holds(at[r], b)
      BY <1>1, <3>1 DEF ClusterInv, Holds, On, Managing
    <3>4. \A q \in Handlers \ {r} : On(q, b) => at[q].op # "delete"
      BY <1>1, <3>1, Alone
    <3>5. ASSUME NEW p \in Handlers, NEW q \in Handlers, p # q, On(p, b)', On(q, b)'
          PROVE  ~Conflict(at[p], at[q])'
      BY <1>1, <2>1, <3>1, <3>2, <3>5 DEF ClusterInv, Conflict
    <3>6. ASSUME NEW q \in Handlers, On(q, b)'
          PROVE  at'[q].kind # None /\ Holds(at[q], b)'
      <4>1. at'[q].kind # None /\ On(q, b)
        BY <1>1, <2>1, <3>1, <3>2, <3>6 DEF ClusterInv
      <4>2. CASE q = r
        BY <1>3, <2>1, <3>3, <4>1, <4>2 DEF Holds
      <4>3. CASE q # r
        BY <1>3, <2>1, <3>1, <3>4, <4>1, <4>3 DEF ClusterInv, Holds
      <4> QED
        BY <4>1, <4>2, <4>3
    <3>7. store'[b] # "k8s" => On(r, b)' /\ Owes(at[r])'
      BY <1>1, <1>3, <2>1, <3>2, <3>3 DEF Holds, Owes
    <3> QED
      BY <1>1, <1>3, <3>5, <3>6, <3>7 DEF ClusterInv
  <2> QED
    BY <1>1, <1>2, <1>3, <2>1, <2>2, StepKeeps
<1>4. CASE /\ cluster' \in {cluster, cluster \cup {b}} /\ End(r)
           /\ disturbed' = disturbed \cup {b}
           /\ UNCHANGED <<sessions, store>>
  <2>1. at'[r] = None /\ \A q \in Handlers \ {r} : at'[q] = at[q]
    BY <1>4 DEF End, CInv, TypeOK
  <2> QED
    BY <1>1, <1>2, <1>4, <2>1, StepKeeps
<1> QED
  BY <1>3, <1>4 DEF DeployAdapter

LEMMA StoreKeeps ==
  ASSUME CInv, NEW r \in Handlers, NEW b, b = at[r].adapter, StoreAdapter(r)
  PROVE  CInv'
<1>1. at[r] \in Requests /\ b \in Adapters /\ On(r, b) /\ at[r].step = "store"
  BY DEF StoreAdapter, CInv, TypeOK, Apart, On, Requests
<1>2. TypeOK'
  BY ManagerType DEF CInv, Manager
<1>3. /\ at'[r] = None /\ (\A q \in Handlers \ {r} : at'[q] = at[q])
      /\ store'[b] = IF store[b] = None THEN at[r].kind ELSE store[b]
      /\ \A a \in Adapters \ {b} : store'[a] = store[a]
      /\ UNCHANGED <<sessions, cluster, disturbed>>
  BY <1>1 DEF StoreAdapter, UpsertAsync, End, CInv, TypeOK
<1>4. ASSUME b \notin disturbed PROVE ClusterInv(b)'
  <2>1. ClusterInv(b)
    BY <1>1, <1>4 DEF CInv
  <2>2. \A q \in Handlers : On(q, b)' = (q # r /\ On(q, b))
    BY <1>3 DEF On
  <2>3. Holds(at[r], b) /\ at[r].kind # None /\ at[r].op \in {"create", "update", "refresh"}
    BY <1>1, <2>1 DEF ClusterInv, Holds, On, Managing
  <2>4. \A q \in Handlers : On(q, b) => at[q].op # "delete"
    BY <1>1, <2>1, <2>3, Alone
  <2>5. ASSUME NEW p \in Handlers, NEW q \in Handlers, p # q, On(p, b)', On(q, b)'
        PROVE  ~Conflict(at[p], at[q])'
    <3>1. at'[p] = at[p] /\ at'[q] = at[q] /\ ~Conflict(at[p], at[q])
      BY <1>3, <2>1, <2>2, <2>5 DEF ClusterInv
    <3> QED
      BY <3>1 DEF Conflict
  <2>6. CASE store[b] # None
    <3>1. ASSUME NEW q \in Handlers, On(q, b)'
          PROVE  at'[q].kind # None /\ Holds(at[q], b)'
      <4>1. at'[q] = at[q] /\ at[q].kind # None /\ Holds(at[q], b)
        BY <1>3, <2>1, <2>2, <3>1 DEF ClusterInv
      <4> QED
        BY <1>3, <2>6, <4>1 DEF Holds
    <3>2. ASSUME b \in cluster, store[b] # "k8s"
          PROVE  \E q \in Handlers : On(q, b)' /\ Owes(at[q])'
      <4>1. PICK q \in Handlers : On(q, b) /\ Owes(at[q])
        BY <2>1, <3>2 DEF ClusterInv
      <4>2. ~Owes(at[r])
        BY <2>3, <2>6, <3>2 DEF Holds, Owes
      <4> QED
        BY <1>3, <2>2, <4>1, <4>2 DEF Owes
    <3> QED
      BY <1>3, <2>1, <2>5, <2>6, <3>1, <3>2 DEF ClusterInv
  <2>7. CASE store[b] = None
    <3>1. at[r].op = "create" /\ store'[b] = at[r].kind
      BY <1>3, <2>3, <2>7 DEF Holds
    <3>2. ASSUME NEW q \in Handlers, On(q, b)'
          PROVE  at[q].op = "create" /\ at[q].kind = at[r].kind
      <4>1. On(q, b) /\ q # r /\ Holds(at[q], b) /\ ~Conflict(at[q], at[r])
        BY <1>1, <2>1, <2>2, <3>2 DEF ClusterInv
      <4>2. at[q].op = "create"
        BY <2>4, <2>7, <4>1 DEF Holds, On, Managing
      <4>3. at[q].adapter = at[r].adapter
        BY <1>1, <4>1 DEF On
      <4>4. {at[q].op, at[r].op} \subseteq Managing
        BY <3>1, <4>2 DEF Managing
      <4> QED
        BY <3>1, <4>1, <4>2, <4>3, <4>4 DEF Conflict
    <3>3. ASSUME NEW q \in Handlers, On(q, b)'
          PROVE  at'[q].kind # None /\ Holds(at[q], b)'
      <4>1. q # r /\ at'[q] = at[q] /\ at[q].kind # None /\ Holds(at[q], b)
        BY <1>3, <2>1, <2>2, <3>3 DEF ClusterInv
      <4>2. at[q].op = "create" /\ store'[b] = at[q].kind
        BY <3>1, <3>2, <3>3
      <4> QED
        BY <1>3, <4>1, <4>2 DEF Holds
    <3>4. store'[b] = "k8s" => b \in cluster
      BY <1>1, <2>3, <3>1 DEF Holds
    <3>5. b \in cluster => store'[b] = "k8s"
      <4>1. SUFFICES ASSUME b \in cluster, at[r].kind # "k8s" PROVE FALSE
        BY <3>1
      <4>2. PICK q \in Handlers : On(q, b) /\ Owes(at[q])
        BY <2>1, <2>7, <4>1, NoneAssumption DEF ClusterInv
      <4> QED
        BY <2>2, <2>4, <3>2, <4>1, <4>2 DEF Owes
    <3> QED
      BY <1>3, <2>5, <3>3, <3>4, <3>5 DEF ClusterInv
  <2> QED
    BY <2>6, <2>7
<1> QED
  BY <1>1, <1>2, <1>3, <1>4, StepKeeps

\* A deletion is alone at its adapter: what it leaves is all there is.
LEMMA DeleteKeeps ==
  ASSUME CInv, NEW r \in Handlers, NEW b, b = at[r].adapter,
         Unstore(r) \/ DeleteSessionsOfAdapter(r) \/ DeleteDeployment(r)
  PROVE  CInv'
<1>1. at[r] \in Requests /\ b \in Adapters /\ On(r, b) /\ at[r].op = "delete"
  BY DEF Unstore, DeleteSessionsOfAdapter, DeleteDeployment, Step, CInv, TypeOK, On, Requests,
         Managing
<1>2. TypeOK'
  BY ManagerType DEF CInv, Manager
<1>3. ASSUME NEW step \in {"sessions", "undeploy"}, Goto(r, step)
      PROVE  /\ at'[r] # None /\ at'[r].op = at[r].op /\ at'[r].adapter = b
             /\ at'[r].kind = at[r].kind /\ at'[r].step = step
             /\ \A q \in Handlers \ {r} : at'[q] = at[q]
  <2>1. [at[r] EXCEPT !.step = step] \in Requests
    BY <1>1 DEF Requests
  <2> QED
    BY <1>1, <1>3, <2>1, NoneAssumption DEF Goto, CInv, TypeOK, Requests
<1>4. ASSUME End(r) PROVE at'[r] = None /\ \A q \in Handlers \ {r} : at'[q] = at[q]
  BY <1>4 DEF End, CInv, TypeOK
<1>5. ASSUME \A q \in Handlers \ {r} : at'[q] = at[q], b \notin disturbed,
             \/ at'[r] = None /\ (b \in cluster') = (store'[b] = "k8s")
             \/ /\ at'[r] # None /\ at'[r].op = "delete" /\ at'[r].adapter = b
                /\ at'[r].kind # None /\ Holds(at[r], b)' /\ at'[r].step # "unstore"
      PROVE  ClusterInv(b)'
  <2>1. \A q \in Handlers \ {r} : ~On(q, b)'
    BY <1>1, <1>5, Alone DEF On, CInv
  <2>2. CASE at'[r] = None /\ (b \in cluster') = (store'[b] = "k8s")
    BY <2>1, <2>2 DEF ClusterInv, On
  <2>3. CASE /\ at'[r] # None /\ at'[r].op = "delete" /\ at'[r].adapter = b
             /\ at'[r].kind # None /\ Holds(at[r], b)' /\ at'[r].step # "unstore"
    <3>1. On(r, b)'
      BY <2>3 DEF On, Managing
    <3>2. store'[b] # "k8s" /\ (b \in cluster' => Owes(at[r])')
      BY <2>3, NoneAssumption DEF Holds, Owes
    <3> QED
      BY <2>1, <2>3, <3>1, <3>2 DEF ClusterInv
  <2> QED
    BY <1>5, <2>2, <2>3
<1>6. ASSUME b \notin disturbed PROVE Holds(at[r], b) /\ at[r].kind # None
  BY <1>1, <1>6 DEF CInv, ClusterInv
<1>7. ASSUME b \notin disturbed
      PROVE  at[r].step = "unstore" => (b \in cluster) = (at[r].kind = "k8s")
  <2>1. SUFFICES ASSUME at[r].step = "unstore" PROVE (b \in cluster) = (at[r].kind = "k8s")
    OBVIOUS
  <2>2. store[b] = at[r].kind /\ ClusterInv(b)
    BY <1>1, <1>6, <1>7, <2>1 DEF CInv, Holds
  <2>3. \A q \in Handlers : On(q, b) => ~Owes(at[q])
    BY <1>1, <2>1, <2>2, Alone DEF Owes
  <2> QED
    BY <2>2, <2>3 DEF ClusterInv
<1>8. CASE Unstore(r)
  <2>1. /\ store'[b] = None /\ (\A a \in Adapters \ {b} : store'[a] = store[a])
        /\ at[r].step = "unstore"
        /\ UNCHANGED cluster
    BY <1>1, <1>8 DEF Unstore, Step, CInv, TypeOK
  <2>2. CASE End(r) /\ disturbed' = disturbed \cup {b}
    BY <1>1, <1>2, <1>4, <2>1, <2>2, StepKeeps
  <2>3. CASE Goto(r, "sessions") /\ UNCHANGED disturbed
    <3>1. Goto(r, "sessions") /\ UNCHANGED disturbed
      BY <2>3
    <3>2. b \notin disturbed => ClusterInv(b)'
      BY <1>1, <1>3, <1>5, <1>6, <1>7, <2>1, <3>1 DEF Holds
    <3> QED
      BY <1>1, <1>2, <1>3, <2>1, <3>1, <3>2, StepKeeps
  <2> QED
    BY <1>8, <2>2, <2>3 DEF Unstore
<1>9. CASE DeleteSessionsOfAdapter(r)
  <2>1. at[r].step = "sessions" /\ UNCHANGED <<store, cluster, disturbed>>
    BY <1>9 DEF DeleteSessionsOfAdapter, Step
  <2>2. CASE at[r].kind = "k8s"
    <3>1. Goto(r, "undeploy")
      BY <1>9, <2>2 DEF DeleteSessionsOfAdapter
    <3>2. b \notin disturbed => ClusterInv(b)'
      BY <1>1, <1>3, <1>5, <1>6, <2>1, <2>2, <3>1 DEF Holds
    <3> QED
      BY <1>1, <1>2, <1>3, <2>1, <3>1, <3>2, StepKeeps
  <2>3. CASE at[r].kind # "k8s"
    <3>1. End(r)
      BY <1>9, <2>3 DEF DeleteSessionsOfAdapter
    <3>2. b \notin disturbed => ClusterInv(b)'
      BY <1>1, <1>4, <1>5, <1>6, <2>1, <2>3, <3>1, NoneAssumption DEF Holds
    <3> QED
      BY <1>1, <1>2, <1>4, <2>1, <3>1, <3>2, StepKeeps
  <2> QED
    BY <2>2, <2>3
<1>10. CASE DeleteDeployment(r)
  <2>1. at[r].step = "undeploy" /\ End(r) /\ UNCHANGED store
    BY <1>10 DEF DeleteDeployment, Step
  <2>2. CASE cluster' = cluster \ {b} /\ UNCHANGED disturbed
    <3>1. b \notin disturbed => ClusterInv(b)'
      BY <1>1, <1>4, <1>5, <1>6, <2>1, <2>2, NoneAssumption DEF Holds
    <3> QED
      BY <1>1, <1>2, <1>4, <2>1, <2>2, <3>1, StepKeeps
  <2>3. CASE cluster' = cluster /\ disturbed' = disturbed \cup {b}
    BY <1>1, <1>2, <1>4, <2>1, <2>3, StepKeeps
  <2> QED
    BY <1>10, <2>2, <2>3 DEF DeleteDeployment
<1> QED
  BY <1>8, <1>9, <1>10

-----------------------------------------------------------------------------
(***************************************************************************)
(* Requests that are not of ManagementService.                             *)
(***************************************************************************)
ManagingSteps == {"deploy", "store", "unstore", "sessions", "undeploy"}

Aside(r) ==
  /\ UNCHANGED <<store, cluster, disturbed>>
  /\ \A q \in Handlers \ {r} : at'[q] = at[q]
  /\ at[r] # None => at[r].op \notin Managing
  /\ at'[r] # None => at'[r].op \notin Managing /\ at'[r].step \notin ManagingSteps

LEMMA BeginAside ==
  ASSUME TypeOK, NEW r \in Handlers, NEW request \in Requests, Begin(r, request), Unmanaged,
         request.op \notin Managing, request.step \notin ManagingSteps
  PROVE  Aside(r)
BY DEF TypeOK, Begin, Aside, Unmanaged

LEMMA GotoAside ==
  ASSUME TypeOK, NEW r \in Handlers, at[r] # None, Unmanaged, at[r].op \notin Managing,
         NEW step \in {"details", "claim", "proxy", "stream", "enter", "status", "delete", "next"},
         Goto(r, step) \/ End(r)
  PROVE  Aside(r)
BY DEF TypeOK, Goto, End, Aside, Unmanaged, Requests, ManagingSteps

LEMMA ProxyAside ==
  ASSUME TypeOK, NEW r \in Handlers, Proxy(r)
  PROVE  Aside(r)
<1>1. CASE ForwardStreamableHttp(r)
  <2>1. PICK a \in Adapters, s \in Sessions :
          Begin(r, [Request("forward", "details", a) EXCEPT !.session = s, !.kind = store[a]])
    BY <1>1 DEF ForwardStreamableHttp
  <2> DEFINE request == [Request("forward", "details", a) EXCEPT !.session = s, !.kind = store[a]]
  <2>2. request \in Requests /\ request.op = "forward" /\ request.step = "details"
    BY DEF Request, Requests, TypeOK
  <2> HIDE DEF request
  <2>3. Begin(r, request)
    BY <2>1 DEF request
  <2> QED
    BY <1>1, <2>2, <2>3, BeginAside DEF ForwardStreamableHttp, Managing, ManagingSteps
<1>2. CASE ForwardSSE(r)
  <2>1. PICK a \in Adapters, s \in Sessions :
          Begin(r, [Request("sse", "stream", a) EXCEPT !.session = s])
    BY <1>2 DEF ForwardSSE
  <2> DEFINE request == [Request("sse", "stream", a) EXCEPT !.session = s]
  <2>2. request \in Requests /\ request.op = "sse" /\ request.step = "stream"
    BY DEF Request, Requests
  <2> HIDE DEF request
  <2>3. Begin(r, request)
    BY <2>1 DEF request
  <2> QED
    BY <1>2, <2>2, <2>3, BeginAside DEF ForwardSSE, Managing, ManagingSteps
<1>3. CASE GetDetails(r) \/ ClaimSession(r)
  <2>1. at[r] \in Requests /\ at[r].op = "forward" /\ Unmanaged
    BY <1>3 DEF GetDetails, ClaimSession, Step, TypeOK
  <2>2. \/ Goto(r, "claim") \/ End(r)
        \/ at' = [at EXCEPT ![r].step = "proxy", ![r].session = None]
    BY <1>3 DEF GetDetails, ClaimSession, GotoPlugin
  <2>3. CASE at' = [at EXCEPT ![r].step = "proxy", ![r].session = None]
    BY <2>1, <2>3 DEF Aside, Unmanaged, TypeOK, Requests, Managing, ManagingSteps
  <2> QED
    BY <1>3, <2>1, <2>2, <2>3, GotoAside DEF GetDetails, ClaimSession, Step, Managing
<1>4. CASE ProxyRequest(r) \/ StreamSSE(r)
  BY <1>4, GotoAside DEF ProxyRequest, StreamSSE, Step, Managing
<1> QED
  BY <1>1, <1>2, <1>3, <1>4 DEF Proxy

LEMMA AuthorizerAside ==
  ASSUME TypeOK, NEW r \in Handlers, Authorizer(r)
  PROVE  Aside(r) \/ (UNCHANGED at /\ Unmanaged)
<1>1. CASE ReinitializeSession(r)
  <2>1. PICK a \in Adapters : Begin(r, Request("reinit", "enter", a))
    BY <1>1 DEF ReinitializeSession
  <2>2. /\ Request("reinit", "enter", a) \in Requests
        /\ Request("reinit", "enter", a).op = "reinit"
        /\ Request("reinit", "enter", a).step = "enter"
    BY RequestType DEF Request
  <2> QED
    BY <1>1, <2>1, <2>2, BeginAside DEF ReinitializeSession, Managing, ManagingSteps
<1>2. CASE StartAuthorization(r)
  <2>1. PICK a \in Adapters, s \in Sessions :
          Begin(r, [Request("authorize", "status", a) EXCEPT !.session = s])
    BY <1>2 DEF StartAuthorization
  <2> DEFINE request == [Request("authorize", "status", a) EXCEPT !.session = s]
  <2>2. request \in Requests /\ request.op = "authorize" /\ request.step = "status"
    BY DEF Request, Requests
  <2> HIDE DEF request
  <2>3. Begin(r, request)
    BY <2>1 DEF request
  <2> QED
    BY <1>2, <2>2, <2>3, BeginAside DEF StartAuthorization, Managing, ManagingSteps
<1>3. CASE DeleteSession(r)
  <2>1. PICK a \in Adapters, s \in Sessions :
          Begin(r, [Request("deleteSession", "delete", a) EXCEPT !.session = s])
    BY <1>3 DEF DeleteSession, ListByAdapter
  <2> DEFINE request == [Request("deleteSession", "delete", a) EXCEPT !.session = s]
  <2>2. request \in Requests /\ request.op = "deleteSession" /\ request.step = "delete"
    BY DEF Request, Requests
  <2> HIDE DEF request
  <2>3. Begin(r, request)
    BY <2>1 DEF request
  <2> QED
    BY <1>3, <2>2, <2>3, BeginAside DEF DeleteSession, Managing, ManagingSteps
<1>4. CASE RevokeTokens(r)
  <2>1. PICK a \in Adapters :
          Begin(r, [Request("revoke", "next", a) EXCEPT !.left = Copies(a),
                                                       !.listed = ListByAdapter(a)])
    BY <1>4 DEF RevokeTokens
  <2> DEFINE request == [Request("revoke", "next", a) EXCEPT !.left = Copies(a),
                                                             !.listed = ListByAdapter(a)]
  <2>2. ListByAdapter(a) \subseteq Sessions
    BY DEF ListByAdapter
  <2>3. request \in Requests /\ request.op = "revoke" /\ request.step = "next"
    BY <2>2, CopiesType DEF Request, Requests
  <2> HIDE DEF request
  <2>4. Begin(r, request)
    BY <2>1 DEF request
  <2> QED
    BY <1>4, <2>3, <2>4, BeginAside DEF RevokeTokens, Managing, ManagingSteps
<1>5. CASE ClearToken(r) \/ ClearStatus(r)
  <2>1. at[r] \in Requests /\ at[r].op = "revoke" /\ at[r].step = "next" /\ Unmanaged
    BY <1>5 DEF ClearToken, ClearStatus, Step, TypeOK
  <2>2. \E left : at' = [at EXCEPT ![r].left = left]
    BY <1>5 DEF ClearToken, ClearStatus
  <2> QED
    BY <2>1, <2>2 DEF Aside, Unmanaged, TypeOK, Requests, Managing, ManagingSteps
<1>6. CASE CreateSession(r) \/ DeleteAllSessions(r)
  BY <1>6 DEF CreateSession, DeleteAllSessions
<1>7. CASE EnterSession(r) \/ StoreAuthorization(r) \/ DeleteLookedUp(r) \/ TokensRevoked(r)
  BY <1>7, GotoAside DEF EnterSession, StoreAuthorization, DeleteLookedUp, TokensRevoked, Step,
                         Managing
<1> QED
  BY <1>1, <1>2, <1>3, <1>4, <1>5, <1>6, <1>7 DEF Authorizer

LEMMA AsideKeeps ==
  ASSUME CInv, TypeOK', NEW r \in Handlers, Aside(r)
  PROVE  CInv'
<1>1. Apart'
  BY DEF CInv, Apart, Aside, ManagingSteps
<1>2. ASSUME NEW a \in Adapters \ disturbed PROVE ClusterInv(a)'
  BY Elsewhere DEF CInv, Aside, On
<1> QED
  BY <1>1, <1>2 DEF CInv, Aside

LEMMA RefreshKeeps ==
  ASSUME CInv, NEW s \in Sessions, RefreshToken(s)
  PROVE  CInv'
<1>1. TypeOK'
  BY RefreshType DEF CInv
<1>2. ASSUME NEW r \in Handlers
      PROVE  /\ at'[r] = None <=> at[r] = None
             /\ at[r] # None => /\ at'[r].op = at[r].op /\ at'[r].step = at[r].step
                                /\ at'[r].kind = at[r].kind /\ at'[r].adapter = at[r].adapter
  <2>1. CASE at[r] = None
    BY <2>1 DEF RefreshToken
  <2>2. CASE at[r] # None
    <3>1. at[r] \in Requests
      BY <2>2 DEF CInv, TypeOK
    <3>2. PICK t \in Tokens :
            at' = [q \in Handlers |->
                    IF at[q] = None THEN None
                    ELSE [at[q] EXCEPT !.listed = @ \ {s}, !.left = {Seen(c, t) : c \in @}]]
      <4>1. TypeOK
        BY DEF CInv
      <4> QED
        BY <4>1, RefreshGives
    <3>3. at'[r] = [at[r] EXCEPT !.listed = @ \ {s}, !.left = {Seen(c, t) : c \in @}]
      BY <2>2, <3>2
    <3>4. at'[r] \in Requests
      <4>1. TypeOK
        BY DEF CInv
      <4>2. [at[r] EXCEPT !.listed = @ \ {s}, !.left = {Seen(c, t) : c \in @}] \in Requests
        BY <2>2, <4>1, SeenType
      <4> QED
        BY <3>3, <4>2
    <3> QED
      BY <2>2, <3>1, <3>3, <3>4, NoneAssumption DEF Requests
  <2> QED
    BY <2>1, <2>2
<1>3. UNCHANGED <<store, cluster, disturbed>>
  BY DEF RefreshToken, Unmanaged
<1>4. Apart'
  BY <1>2 DEF CInv, Apart
<1>5. ASSUME NEW a \in Adapters \ disturbed PROVE ClusterInv(a)'
  BY <1>2, <1>3, Elsewhere DEF CInv, On
<1> QED
  BY <1>1, <1>3, <1>4, <1>5 DEF CInv

LEMMA ManagerKeeps ==
  ASSUME CInv, NEW r \in Handlers, Manager(r)
  PROVE  CInv'
<1>. USE ManagementAssumption, NoneAssumption
<1>1. CASE CreateAdapter(r)
  BY <1>1, BeginKeeps DEF CreateAdapter, Managing, Kind
<1>2. CASE UpdateAdapter(r)
  BY <1>2, BeginKeeps DEF UpdateAdapter, Managing, Kind
<1>3. CASE RefreshAdapter(r)
  BY <1>3, BeginKeeps DEF RefreshAdapter, Managing, Kind
<1>4. CASE DeleteAdapter(r)
  BY <1>4, BeginKeeps DEF DeleteAdapter, Managing, Kind, CInv, TypeOK
<1> QED
  BY <1>1, <1>2, <1>3, <1>4, DeployKeeps, StoreKeeps, DeleteKeeps DEF Manager

LEMMA InitCInv == Init => CInv
<1>1. SUFFICES ASSUME Init PROVE CInv
  OBVIOUS
<1>2. \A r \in Handlers : at[r] = None
  BY <1>1 DEF Init
<1>3. \A a \in Adapters : ClusterInv(a)
  BY <1>1, <1>2 DEF Init, ClusterInv, On
<1> QED
  BY <1>1, <1>2, <1>3, InitType DEF CInv, Apart

LEMMA NextCInv == CInv /\ [Next]_vars => CInv'
<1>1. SUFFICES ASSUME CInv, [Next]_vars PROVE CInv'
  OBVIOUS
<1>2. TypeOK'
  BY <1>1, NextType DEF CInv
<1>3. ASSUME NEW r \in Handlers, Proxy(r) PROVE CInv'
  BY <1>1, <1>2, <1>3, ProxyAside, AsideKeeps DEF CInv
<1>4. CASE UNCHANGED <<store, cluster, at, disturbed>>
  <2>1. Apart'
    BY <1>1, <1>4 DEF CInv, Apart
  <2>2. ASSUME NEW a \in Adapters \ disturbed PROVE ClusterInv(a)'
    BY <1>1, <1>4, Elsewhere DEF CInv, On
  <2> QED
    BY <1>2, <1>4, <2>1, <2>2 DEF CInv
<1>5. ASSUME NEW r \in Handlers, Authorizer(r) PROVE CInv'
  BY <1>1, <1>2, <1>4, <1>5, AuthorizerAside, AsideKeeps DEF CInv, Unmanaged
<1>6. CASE Expire \/ UNCHANGED vars
  BY <1>4, <1>6 DEF Expire, Unmanaged, vars
<1> QED
  BY <1>1, <1>3, <1>5, <1>6, ManagerKeeps, RefreshKeeps DEF Next

LEMMA CInvImplies == CInv => ClusterAgrees
BY DEF CInv, ClusterInv, ClusterAgrees, Busy, On, Owes

(* For any requests at a time, adapters and sessions: once nobody of       *)
(* ManagementService is at work on an adapter, the cluster has its         *)
(* StatefulSet exactly if the store has it as an adapter of the cluster.   *)
THEOREM ClusterFollows == Spec => []ClusterAgrees
BY InitCInv, NextCInv, CInvImplies, PTL DEF Spec

-----------------------------------------------------------------------------
(***************************************************************************)
(* Tokens.  Only RefreshToken gives one; every other step keeps it, and    *)
(* the adapter it is for, or takes it away.                                *)
(***************************************************************************)
HasToken(s) == HasSession(s) /\ sessions[s].token # None

NoneGiven ==
  \A s \in Sessions :
    HasToken(s)' => /\ HasToken(s)
                    /\ sessions'[s].token = sessions[s].token
                    /\ sessions'[s].adapter = sessions[s].adapter

LEMMA SetGivesNone ==
  ASSUME TypeOK, NEW s, NEW a \in Adapters \cup {None}, SetWithDetails(s, a)
  PROVE  NoneGiven
BY DEF TypeOK, SetWithDetails, NewSession, NoneGiven, HasToken, HasSession

LEMMA ClearGivesNone ==
  ASSUME TypeOK, NEW s, SetTokenInfo(s, None)
  PROVE  NoneGiven /\ (s \in Sessions => ~HasToken(s)')
BY DEF TypeOK, SetTokenInfo, SetField, NoneGiven, HasToken, HasSession, Records

LEMMA StatusGivesNone ==
  ASSUME TypeOK, NEW s, NEW i, SetAuthorizationInfo(s, i)
  PROVE  NoneGiven
BY DEF TypeOK, SetAuthorizationInfo, SetField, NoneGiven, HasToken, HasSession, Records

LEMMA DeleteGivesNone ==
  ASSUME TypeOK, NEW S, DeleteSessions(S)
  PROVE  NoneGiven
BY DEF TypeOK, DeleteSessions, NoneGiven, HasToken, HasSession

LEMMA SameGivesNone ==
  ASSUME UNCHANGED sessions
  PROVE  NoneGiven
BY DEF NoneGiven, HasToken, HasSession

LEMMA OnlyRefreshGives ==
  ASSUME TypeOK, [Next]_vars
  PROVE  NoneGiven \/ \E s \in Sessions : RefreshToken(s)
<1>1. ASSUME NEW r \in Handlers, Manager(r) PROVE NoneGiven
  <2>1. UNCHANGED sessions \/ DeleteSessionsOfAdapter(r)
    BY <1>1 DEF Manager, CreateAdapter, UpdateAdapter, RefreshAdapter, DeleteAdapter, Manage,
                DeployAdapter, StoreAdapter, Unstore, DeleteDeployment
  <2> QED
    BY <2>1, SameGivesNone, DeleteGivesNone DEF DeleteSessionsOfAdapter, DeleteByAdapter
<1>2. ASSUME NEW r \in Handlers, Proxy(r) PROVE NoneGiven
  <2>1. CASE ForwardStreamableHttp(r) \/ GetDetails(r)
    BY <2>1, SameGivesNone DEF ForwardStreamableHttp, GetDetails
  <2>2. CASE ClaimSession(r) \/ ProxyRequest(r)
    <3>1. at[r].adapter \in Adapters
      BY <2>2 DEF ClaimSession, ProxyRequest, Step, TypeOK, Requests
    <3> QED
      BY <2>2, <3>1, SetGivesNone, SameGivesNone DEF ClaimSession, ProxyRequest
  <2>3. CASE ForwardSSE(r) \/ StreamSSE(r)
    BY <2>3, SetGivesNone, SameGivesNone DEF ForwardSSE, StreamSSE
  <2> QED
    BY <1>2, <2>1, <2>2, <2>3 DEF Proxy
<1>3. ASSUME NEW r \in Handlers, Authorizer(r) PROVE NoneGiven
  <2>1. CASE ReinitializeSession(r) \/ DeleteSession(r) \/ RevokeTokens(r) \/ TokensRevoked(r)
    BY <2>1, SameGivesNone DEF ReinitializeSession, DeleteSession, RevokeTokens, TokensRevoked
  <2>2. CASE EnterSession(r)
    <3>1. at[r].adapter \in Adapters
      BY <2>2 DEF EnterSession, Step, TypeOK, Requests
    <3> QED
      BY <2>2, <3>1, SetGivesNone DEF EnterSession
  <2>3. CASE CreateSession(r) \/ StartAuthorization(r)
    BY <2>3, SetGivesNone DEF CreateSession, StartAuthorization
  <2>4. CASE StoreAuthorization(r) \/ ClearStatus(r)
    BY <2>4, StatusGivesNone, SameGivesNone DEF StoreAuthorization, ClearStatus
  <2>5. CASE DeleteLookedUp(r) \/ DeleteAllSessions(r)
    BY <2>5, DeleteGivesNone DEF DeleteLookedUp, DeleteAllSessions, DeleteByAdapter
  <2>6. CASE ClearToken(r)
    BY <2>6, ClearGivesNone DEF ClearToken
  <2> QED
    BY <1>3, <2>1, <2>2, <2>3, <2>4, <2>5, <2>6 DEF Authorizer
<1>4. CASE Expire
  BY <1>4, DeleteGivesNone DEF Expire, CleanupExpired
<1>5. CASE UNCHANGED vars
  BY <1>5, SameGivesNone DEF vars
<1> QED
  BY <1>1, <1>2, <1>3, <1>4, <1>5 DEF Next

-----------------------------------------------------------------------------
\* Of the sessions that a revocation found, those with a token are still to come.
RevokeInv ==
  \A r \in Handlers : Step(r, "revoke", "next") =>
    \A s \in at[r].listed :
      HasToken(s) =>
        \E c \in at[r].left : c.session = s /\ c.token # None

\* Revocations that go on do so with the same copies, and new ones are of everything.
SameRevocation(r) ==
  Step(r, "revoke", "next")' =>
    /\ Step(r, "revoke", "next")
    /\ at'[r].adapter = at[r].adapter
    /\ at'[r].left = at[r].left
    /\ at'[r].listed = at[r].listed

LEMMA RevocationsGoOn ==
  ASSUME RevokeInv, NoneGiven, \A r \in Handlers : SameRevocation(r),
         \A r \in Handlers : Step(r, "revoke", "next") => at[r].listed \subseteq Sessions
  PROVE  RevokeInv'
BY DEF RevokeInv, NoneGiven, SameRevocation

\* Others are not disturbed, one goes on with what is left.
LEMMA OneGoesOn ==
  ASSUME TypeOK, TypeOK', RevokeInv, NoneGiven, NEW r \in Handlers,
         \A q \in Handlers \ {r} : at'[q] = at[q],
         Step(r, "revoke", "next")' =>
           \A s \in at'[r].listed : HasToken(s)' => \E c \in at'[r].left : c.session = s /\ c.token # None
  PROVE  RevokeInv'
<1>1. ASSUME NEW q \in Handlers, Step(q, "revoke", "next")', NEW s \in at'[q].listed, HasToken(s)'
      PROVE  \E c \in at'[q].left : c.session = s /\ c.token # None
  <2>1. CASE q = r
    BY <1>1, <2>1
  <2>2. CASE q # r
    <3>1. at'[q] = at[q] /\ at[q] # None /\ at[q] \in Requests
      BY <1>1, <2>2 DEF Step, TypeOK
    <3>2. s \in Sessions
      BY <1>1, <3>1 DEF Requests
    <3> QED
      BY <1>1, <3>1, <3>2 DEF RevokeInv, NoneGiven, Step
  <2> QED
    BY <2>1, <2>2
<1> QED
  BY <1>1 DEF RevokeInv

\* Requests at work on something else than a revocation.
LEMMA BeginOther ==
  ASSUME TypeOK, NEW r \in Handlers, NEW request, Begin(r, request), request.op # "revoke"
  PROVE  \A q \in Handlers : SameRevocation(q)
BY DEF TypeOK, Begin, SameRevocation, Step

LEMMA GoOnOther ==
  ASSUME TypeOK, NEW r \in Handlers, at[r] # None, at[r].op # "revoke", NEW step,
         Goto(r, step) \/ End(r)
  PROVE  \A q \in Handlers : SameRevocation(q)
BY DEF TypeOK, Requests, Goto, End, SameRevocation, Step

LEMMA SameAtOther ==
  ASSUME UNCHANGED at
  PROVE  \A q \in Handlers : SameRevocation(q)
BY DEF SameRevocation, Step

LEMMA ManagerOther ==
  ASSUME TypeOK, Apart, NEW r \in Handlers, Manager(r)
  PROVE  \A q \in Handlers : SameRevocation(q)
<1>1. ASSUME NEW op \in Managing, NEW step, NEW a, NEW k, Manage(r, op, step, a, k)
      PROVE  \A q \in Handlers : SameRevocation(q)
  BY <1>1, BeginOther DEF Manage, Request, Managing
<1>2. CASE CreateAdapter(r) \/ UpdateAdapter(r) \/ RefreshAdapter(r) \/ DeleteAdapter(r)
  BY <1>1, <1>2 DEF CreateAdapter, UpdateAdapter, RefreshAdapter, DeleteAdapter, Managing
<1>3. CASE DeployAdapter(r) \/ StoreAdapter(r)
  BY <1>3, GoOnOther DEF DeployAdapter, StoreAdapter, Apart, Managing
<1>4. CASE Unstore(r) \/ DeleteSessionsOfAdapter(r) \/ DeleteDeployment(r)
  BY <1>4, GoOnOther DEF Unstore, DeleteSessionsOfAdapter, DeleteDeployment, Step
<1> QED
  BY <1>2, <1>3, <1>4 DEF Manager

LEMMA ProxyOther ==
  ASSUME TypeOK, NEW r \in Handlers, Proxy(r)
  PROVE  \A q \in Handlers : SameRevocation(q)
<1>1. CASE ForwardStreamableHttp(r) \/ ForwardSSE(r)
  BY <1>1, BeginOther DEF ForwardStreamableHttp, ForwardSSE, Request
<1>2. CASE at' = [at EXCEPT ![r].step = "proxy", ![r].session = None] /\ Step(r, "forward", at[r].step)
  BY <1>2 DEF TypeOK, Requests, Step, SameRevocation
<1>3. CASE GetDetails(r) \/ ClaimSession(r)
  BY <1>2, <1>3, GoOnOther DEF GetDetails, ClaimSession, GotoPlugin, Step
<1>4. CASE ProxyRequest(r) \/ StreamSSE(r)
  BY <1>4, GoOnOther DEF ProxyRequest, StreamSSE, Step
<1> QED
  BY <1>1, <1>3, <1>4 DEF Proxy

LEMMA RevokesOrNot ==
  ASSUME TypeOK, Apart, [Next]_vars, ~\E s \in Sessions : RefreshToken(s),
         ~\E r \in Handlers : RevokeTokens(r) \/ ClearToken(r) \/ ClearStatus(r)
  PROVE  \A q \in Handlers : SameRevocation(q)
<1>1. ASSUME NEW r \in Handlers, Authorizer(r) PROVE \A q \in Handlers : SameRevocation(q)
  <2>1. CASE ReinitializeSession(r) \/ StartAuthorization(r) \/ DeleteSession(r)
    BY <2>1, BeginOther DEF ReinitializeSession, StartAuthorization, DeleteSession, Request
  <2>2. CASE EnterSession(r) \/ StoreAuthorization(r) \/ DeleteLookedUp(r)
    BY <2>2, GoOnOther DEF EnterSession, StoreAuthorization, DeleteLookedUp, Step
  <2>3. CASE CreateSession(r) \/ DeleteAllSessions(r)
    BY <2>3, SameAtOther DEF CreateSession, DeleteAllSessions
  <2>4. CASE TokensRevoked(r)
    BY <2>4 DEF TokensRevoked, End, TypeOK, SameRevocation, Step
  <2> QED
    BY <1>1, <2>1, <2>2, <2>3, <2>4 DEF Authorizer
<1>2. CASE Expire \/ UNCHANGED vars
  BY <1>2, SameAtOther DEF Expire, vars
<1> QED
  BY <1>1, <1>2, ManagerOther, ProxyOther DEF Next

-----------------------------------------------------------------------------
(***************************************************************************)
(* Whose tokens there are in sessions and in copies: a session and a copy  *)
(* that have one object, or two sessions that do, are of one adapter.      *)
(***************************************************************************)
TokensInv ==
  /\ TokensKeepAdapter
  /\ \A s, t \in Sessions :
       (HasToken(s) /\ HasToken(t) /\ sessions[s].token.info = sessions[t].token.info) =>
         sessions[s].adapter = sessions[t].adapter
  /\ \A s \in Sessions, r \in Handlers :
       (HasToken(s) /\ Step(r, "revoke", "next")) =>
         \A c \in at[r].left :
           (c.token # None /\ c.token.info = sessions[s].token.info) =>
             sessions[s].adapter = at[r].adapter

\* Copies that have a token had it before.
CopiesKept ==
  \A r \in Handlers : Step(r, "revoke", "next")' =>
    \A c \in at'[r].left : c.token # None =>
      Step(r, "revoke", "next") /\ c \in at[r].left /\ at'[r].adapter = at[r].adapter

LEMMA KeptIsKept ==
  ASSUME TokensInv, NoneGiven, CopiesKept
  PROVE  TokensInv'
<1>1. TokensKeepAdapter'
  BY DEF TokensInv, NoneGiven, CopiesKept, TokensKeepAdapter, HasToken
<1>2. ASSUME NEW s \in Sessions, NEW t \in Sessions, HasToken(s)', HasToken(t)',
             sessions'[s].token.info = sessions'[t].token.info
      PROVE  sessions'[s].adapter = sessions'[t].adapter
  BY <1>2 DEF TokensInv, NoneGiven
<1>3. ASSUME NEW s \in Sessions, NEW r \in Handlers, HasToken(s)', Step(r, "revoke", "next")',
             NEW c \in at'[r].left, c.token # None, c.token.info = sessions'[s].token.info
      PROVE  sessions'[s].adapter = at'[r].adapter
  BY <1>3 DEF TokensInv, NoneGiven, CopiesKept
<1> QED
  BY <1>1, <1>2, <1>3 DEF TokensInv

LEMMA ClearingKeepsCopies ==
  ASSUME TypeOK, NEW r \in Handlers, ClearToken(r) \/ ClearStatus(r)
  PROVE  CopiesKept
<1>1. at[r] \in Requests /\ Step(r, "revoke", "next")
  BY DEF ClearToken, ClearStatus, Step, TypeOK
<1>2. PICK left : /\ at' = [at EXCEPT ![r].left = left]
                  /\ \A c \in left : c.token # None => c \in at[r].left
  <2>1. CASE ClearToken(r)
    <3>1. PICK c \in at[r].left :
            at' = [at EXCEPT ![r].left = (@ \ {c}) \cup IF HasSession(c.session)
                                                          THEN {[c EXCEPT !.token = None]} ELSE {}]
      BY <2>1 DEF ClearToken
    <3> DEFINE l == (at[r].left \ {c}) \cup IF HasSession(c.session)
                                              THEN {[c EXCEPT !.token = None]} ELSE {}
    <3>2. [c EXCEPT !.token = None].token = None
      BY <1>1 DEF Requests
    <3>3. at' = [at EXCEPT ![r].left = l] /\ \A d \in l : d.token # None => d \in at[r].left
      BY <3>1, <3>2
    <3> HIDE DEF l
    <3> QED
      BY <3>3
  <2>2. CASE ClearStatus(r)
    BY <2>2 DEF ClearStatus
  <2> QED
    BY <2>1, <2>2
<1>3. at'[r].left = left /\ at'[r].adapter = at[r].adapter /\ \A q \in Handlers \ {r} : at'[q] = at[q]
  BY <1>1, <1>2 DEF TypeOK, Requests
<1> QED
  BY <1>1, <1>2, <1>3 DEF CopiesKept, Step

LEMMA CopyingKeepsTokens ==
  ASSUME TypeOK, TokensInv, NEW r \in Handlers, RevokeTokens(r)
  PROVE  TokensInv'
<1>1. PICK a \in Adapters :
        Begin(r, [Request("revoke", "next", a) EXCEPT !.left = Copies(a),
                                                     !.listed = ListByAdapter(a)])
  BY DEF RevokeTokens
<1>2. /\ at'[r].left = Copies(a) /\ at'[r].adapter = a
      /\ \A q \in Handlers \ {r} : at'[q] = at[q]
      /\ UNCHANGED sessions
  BY <1>1 DEF RevokeTokens, Begin, Request, TypeOK
<1>3. ASSUME NEW c \in Copies(a), c.token # None
      PROVE  \E s \in Sessions : HasToken(s) /\ sessions[s].adapter = a /\ c.token = sessions[s].token
  BY <1>3 DEF Copies, ListByAdapter, HasToken
<1>4. TokensKeepAdapter'
  <2>1. ASSUME NEW q \in Handlers, Step(q, "revoke", "next")', NEW c \in at'[q].left,
               c.token # None
        PROVE  c.token.for = at'[q].adapter
    <3>1. CASE q = r
      BY <1>2, <1>3, <2>1, <3>1 DEF TokensInv, TokensKeepAdapter, HasToken
    <3>2. CASE q # r
      BY <1>2, <2>1, <3>2 DEF TokensInv, TokensKeepAdapter, Step
    <3> QED
      BY <3>1, <3>2
  <2> QED
    BY <1>2, <2>1 DEF TokensInv, TokensKeepAdapter, HasSession
<1>5. ASSUME NEW s \in Sessions, NEW q \in Handlers, HasToken(s), Step(q, "revoke", "next")',
             NEW c \in at'[q].left, c.token # None, c.token.info = sessions[s].token.info
      PROVE  sessions[s].adapter = at'[q].adapter
  <2>1. CASE q = r
    BY <1>2, <1>3, <1>5, <2>1 DEF TokensInv
  <2>2. CASE q # r
    BY <1>2, <1>5, <2>2 DEF TokensInv, Step
  <2> QED
    BY <2>1, <2>2
<1> QED
  BY <1>2, <1>4, <1>5 DEF TokensInv, HasToken, HasSession

\* The object that is written to is of one adapter everywhere, or nobody has it.
LEMMA RefreshKeepsTokens ==
  ASSUME TypeOK, TokensInv, NEW s \in Sessions, RefreshToken(s)
  PROVE  TokensInv'
<1>1. PICK t \in Tokens :
        /\ t.for = sessions[s].adapter
        /\ IF sessions[s].token = None THEN ~InUse(t.info) ELSE t.info = sessions[s].token.info
        /\ SetTokenInfo(s, t)
        /\ at' = [r \in Handlers |->
                   IF at[r] = None THEN None
                   ELSE [at[r] EXCEPT !.listed = @ \ {s}, !.left = {Seen(c, t) : c \in @}]]
  BY RefreshGives
<1>2. HasSession(s) /\ t # None /\ sessions[s] \in Records
  BY NoneAssumption DEF RefreshToken, HasSession, TypeOK
<1>3. /\ sessions'[s].token = t /\ sessions'[s].adapter = sessions[s].adapter
      /\ \A u \in Sessions \ {s} : sessions'[u] = sessions[u]
  BY <1>1, <1>2 DEF SetTokenInfo, SetField, TypeOK, Records
<1>4. ASSUME NEW u \in Sessions, HasToken(u)', sessions'[u].token.info = t.info
      PROVE  sessions'[u].adapter = t.for
  <2>1. CASE u = s
    BY <1>1, <1>3, <2>1
  <2>2. CASE u # s
    <3>1. HasToken(u) /\ sessions[u].token.info = t.info /\ sessions'[u] = sessions[u]
      BY <1>3, <1>4, <2>2 DEF HasToken, HasSession
    <3>2. InUse(t.info)
      BY <3>1 DEF InUse, HasToken
    <3>3. HasToken(s) /\ sessions[s].token.info = t.info
      BY <1>1, <1>2, <3>2 DEF HasToken
    <3> QED
      BY <1>1, <3>1, <3>3 DEF TokensInv
  <2> QED
    BY <2>1, <2>2
<1>5. ASSUME NEW r \in Handlers, Step(r, "revoke", "next")', NEW c \in at'[r].left, c.token # None
      PROVE  /\ at'[r].adapter = at[r].adapter /\ Step(r, "revoke", "next")
             /\ \/ c.token = t /\ at[r].adapter = t.for
                \/ c \in at[r].left /\ c.token.info # t.info
  <2>1. at[r] # None /\ at[r] \in Requests
    BY <1>1, <1>5 DEF Step, TypeOK
  <2>2. at'[r] = [at[r] EXCEPT !.listed = @ \ {s}, !.left = {Seen(d, t) : d \in @}]
    BY <1>1, <2>1
  <2>3. /\ at'[r].adapter = at[r].adapter /\ Step(r, "revoke", "next")
        /\ at'[r].left = {Seen(d, t) : d \in at[r].left}
    BY <1>5, <2>1, <2>2 DEF Requests, Step
  <2>4. PICK d \in at[r].left : c = Seen(d, t)
    BY <1>5, <2>3
  <2>5. CASE d.token # None /\ d.token.info = t.info
    <3>1. c.token = t
      BY <2>1, <2>4, <2>5 DEF Seen, Requests
    <3>2. InUse(t.info)
      BY <2>1, <2>5 DEF InUse
    <3>3. HasToken(s) /\ sessions[s].token.info = t.info
      BY <1>1, <1>2, <3>2 DEF HasToken
    <3> QED
      BY <1>1, <2>3, <2>5, <3>1, <3>3 DEF TokensInv
  <2>6. CASE ~(d.token # None /\ d.token.info = t.info)
    BY <1>5, <2>3, <2>4, <2>6 DEF Seen
  <2> QED
    BY <2>5, <2>6
<1>6. ASSUME NEW u \in Sessions, HasToken(u)'
      PROVE  \/ sessions'[u].token.info = t.info
             \/ sessions'[u] = sessions[u] /\ HasToken(u)
  BY <1>3, <1>6 DEF HasToken, HasSession
<1>7. TokensKeepAdapter'
  <2>1. \A u \in Sessions : HasToken(u)' => sessions'[u].token.for = sessions'[u].adapter
    BY <1>1, <1>3 DEF TokensInv, TokensKeepAdapter, HasToken, HasSession
  <2>2. ASSUME NEW r \in Handlers, Step(r, "revoke", "next")', NEW c \in at'[r].left, c.token # None
        PROVE  c.token.for = at'[r].adapter
    BY <1>5, <2>2 DEF TokensInv, TokensKeepAdapter
  <2> QED
    BY <2>1, <2>2 DEF TokensKeepAdapter, HasToken
<1>8. ASSUME NEW u \in Sessions, NEW v \in Sessions, HasToken(u)', HasToken(v)',
             sessions'[u].token.info = sessions'[v].token.info
      PROVE  sessions'[u].adapter = sessions'[v].adapter
  BY <1>4, <1>6, <1>8 DEF TokensInv
<1>9. ASSUME NEW u \in Sessions, NEW r \in Handlers, HasToken(u)', Step(r, "revoke", "next")',
             NEW c \in at'[r].left, c.token # None, c.token.info = sessions'[u].token.info
      PROVE  sessions'[u].adapter = at'[r].adapter
  BY <1>4, <1>5, <1>6, <1>9 DEF TokensInv
<1> QED
  BY <1>7, <1>8, <1>9 DEF TokensInv

LEMMA NextTokensInv == CInv /\ TokensInv /\ [Next]_vars => TokensInv'
<1>1. SUFFICES ASSUME CInv, TokensInv, [Next]_vars PROVE TokensInv'
  OBVIOUS
<1>2. TypeOK /\ Apart
  BY <1>1 DEF CInv
<1>3. ASSUME NEW r \in Handlers, ClearToken(r) \/ ClearStatus(r) PROVE TokensInv'
  <2>1. NoneGiven
    BY <1>2, <1>3, ClearGivesNone, StatusGivesNone, SameGivesNone DEF ClearToken, ClearStatus
  <2> QED
    BY <1>1, <1>2, <1>3, <2>1, ClearingKeepsCopies, KeptIsKept
<1>4. CASE /\ ~\E s \in Sessions : RefreshToken(s)
           /\ ~\E r \in Handlers : RevokeTokens(r) \/ ClearToken(r) \/ ClearStatus(r)
  <2>1. NoneGiven /\ \A r \in Handlers : SameRevocation(r)
    BY <1>1, <1>2, <1>4, OnlyRefreshGives, RevokesOrNot
  <2>2. CopiesKept
    BY <2>1 DEF SameRevocation, CopiesKept
  <2> QED
    BY <1>1, <2>1, <2>2, KeptIsKept
<1> QED
  BY <1>1, <1>2, <1>3, <1>4, CopyingKeepsTokens, RefreshKeepsTokens

(* For any number of sessions that change hands: a token is only ever in a *)
(* session, or in a copy of a session, of the adapter that it was given    *)
(* for, although RefreshToken writes to objects that copies have.          *)
THEOREM TokensStayWithAdapter == Spec => []TokensKeepAdapter
<1>1. Init => TokensInv
  BY DEF Init, SessionInit, TokensInv, TokensKeepAdapter, HasToken, HasSession, Step
<1>2. TokensInv => TokensKeepAdapter
  BY DEF TokensInv
<1> QED
  BY <1>1, <1>2, InitCInv, NextCInv, NextTokensInv, PTL DEF Spec

-----------------------------------------------------------------------------
LEMMA NextRevokeInv == CInv /\ RevokeInv /\ [Next]_vars => RevokeInv'
<1>1. SUFFICES ASSUME TypeOK, Apart, RevokeInv, [Next]_vars PROVE RevokeInv'
  BY DEF CInv
<1>2. TypeOK'
  BY <1>1, NextType
<1>3. ASSUME NEW r \in Handlers, RevokeTokens(r) PROVE RevokeInv'
  <2>1. PICK a \in Adapters :
          Begin(r, [Request("revoke", "next", a) EXCEPT !.left = Copies(a),
                                                       !.listed = ListByAdapter(a)])
    BY <1>3 DEF RevokeTokens
  <2>2. /\ at'[r].left = Copies(a) /\ at'[r].listed = ListByAdapter(a)
        /\ \A q \in Handlers \ {r} : at'[q] = at[q]
        /\ UNCHANGED sessions
    BY <1>1, <1>3, <2>1 DEF RevokeTokens, Begin, Request, TypeOK
  <2>3. ASSUME NEW s \in ListByAdapter(a), HasToken(s)
        PROVE  \E c \in Copies(a) : c.session = s /\ c.token # None
    <3> DEFINE c == [session |-> s, token |-> sessions[s].token,
                     status |-> sessions[s].status # None]
    <3>1. c \in Copies(a) /\ c.session = s /\ c.token # None
      BY <2>3 DEF Copies, HasToken
    <3> QED
      BY <3>1
  <2>4. NoneGiven
    BY <2>2, SameGivesNone
  <2> QED
    BY <1>1, <1>2, <2>2, <2>3, <2>4, OneGoesOn DEF HasToken, HasSession
<1>4. ASSUME NEW r \in Handlers, ClearToken(r) PROVE RevokeInv'
  <2>1. PICK c \in at[r].left :
          /\ SetTokenInfo(c.session, None)
          /\ at' = [at EXCEPT ![r].left =
                      (@ \ {c}) \cup IF HasSession(c.session)
                                       THEN {[c EXCEPT !.token = None]} ELSE {}]
    BY <1>4 DEF ClearToken
  <2>2. at[r] \in Requests /\ Step(r, "revoke", "next")
    BY <1>1, <1>4 DEF ClearToken, Step, TypeOK
  <2>3. /\ at'[r].listed = at[r].listed /\ at[r].left \ {c} \subseteq at'[r].left
        /\ \A q \in Handlers \ {r} : at'[q] = at[q]
    BY <1>1, <2>1, <2>2 DEF TypeOK, Requests
  <2>4. c.session \in Sessions /\ at[r].listed \subseteq Sessions
    BY <2>2 DEF Requests
  <2>5. NoneGiven /\ ~HasToken(c.session)'
    BY <1>1, <2>1, <2>4, ClearGivesNone
  <2>6. ASSUME NEW s \in at'[r].listed, HasToken(s)'
        PROVE  \E d \in at'[r].left : d.session = s /\ d.token # None
    <3>1. HasToken(s) /\ s # c.session
      BY <2>3, <2>4, <2>5, <2>6 DEF NoneGiven
    <3>2. PICK d \in at[r].left : d.session = s /\ d.token # None
      BY <1>1, <2>2, <2>3, <3>1 DEF RevokeInv
    <3> QED
      BY <2>3, <3>1, <3>2
  <2> QED
    BY <1>1, <1>2, <2>3, <2>5, <2>6, OneGoesOn
<1>5. ASSUME NEW r \in Handlers, ClearStatus(r) PROVE RevokeInv'
  <2>1. PICK c \in at[r].left :
          /\ c.token = None
          /\ IF c.status THEN SetAuthorizationInfo(c.session, "unauthorized")
                         ELSE UNCHANGED sessions
          /\ at' = [at EXCEPT ![r].left = @ \ {c}]
    BY <1>5 DEF ClearStatus
  <2>2. at[r] \in Requests /\ Step(r, "revoke", "next")
    BY <1>1, <1>5 DEF ClearStatus, Step, TypeOK
  <2>3. /\ at'[r].listed = at[r].listed /\ at'[r].left = at[r].left \ {c}
        /\ \A q \in Handlers \ {r} : at'[q] = at[q]
    BY <1>1, <2>1, <2>2 DEF TypeOK, Requests
  <2>4. NoneGiven
    BY <1>1, <2>1, StatusGivesNone, SameGivesNone
  <2>5. ASSUME NEW s \in at'[r].listed, HasToken(s)'
        PROVE  \E d \in at'[r].left : d.session = s /\ d.token # None
    <3>1. HasToken(s)
      BY <2>2, <2>3, <2>4, <2>5 DEF NoneGiven, Requests
    <3>2. PICK d \in at[r].left : d.session = s /\ d.token # None
      BY <1>1, <2>2, <2>3, <2>5, <3>1 DEF RevokeInv
    <3> QED
      BY <2>1, <2>3, <3>2
  <2> QED
    BY <1>1, <1>2, <2>3, <2>4, <2>5, OneGoesOn
<1>6. ASSUME NEW s \in Sessions, RefreshToken(s) PROVE RevokeInv'
  <2>1. PICK t \in Tokens :
          /\ SetTokenInfo(s, t)
          /\ at' = [r \in Handlers |->
                     IF at[r] = None THEN None
                     ELSE [at[r] EXCEPT !.listed = @ \ {s}, !.left = {Seen(c, t) : c \in @}]]
    BY <1>1, <1>6, RefreshGives
  <2>2. ASSUME NEW r \in Handlers, Step(r, "revoke", "next")'
        PROVE  /\ Step(r, "revoke", "next") /\ at[r] \in Requests
               /\ at'[r].left = {Seen(c, t) : c \in at[r].left}
               /\ at'[r].listed = at[r].listed \ {s}
    BY <1>1, <2>1, <2>2 DEF Step, TypeOK, Requests
  <2>3. \A u \in Sessions \ {s} : sessions'[u] = sessions[u]
    BY <1>1, <2>1 DEF SetTokenInfo, SetField, TypeOK
  <2>4. ASSUME NEW r \in Handlers, Step(r, "revoke", "next")', NEW u \in at'[r].listed, HasToken(u)'
        PROVE  \E c \in at'[r].left : c.session = u /\ c.token # None
    <3>1. u \in at[r].listed /\ HasToken(u)
      BY <2>2, <2>3, <2>4 DEF HasToken, HasSession, Requests
    <3>2. PICK c \in at[r].left : c.session = u /\ c.token # None
      BY <1>1, <2>2, <2>4, <3>1 DEF RevokeInv
    <3>3. Seen(c, t).session = u /\ Seen(c, t).token # None
      BY <2>2, <2>4, <3>2, NoneAssumption DEF Seen, Requests
    <3> QED
      BY <2>2, <2>4, <3>2, <3>3
  <2> QED
    BY <2>4 DEF RevokeInv
<1>7. ASSUME \A r \in Handlers : SameRevocation(r), ~\E s \in Sessions : RefreshToken(s)
      PROVE  RevokeInv'
  <2>1. \A r \in Handlers : Step(r, "revoke", "next") => at[r].listed \subseteq Sessions
    BY <1>1 DEF Step, TypeOK, Requests
  <2> QED
    BY <1>1, <1>7, <2>1, OnlyRefreshGives, RevocationsGoOn
<1>8. CASE ~\E r \in Handlers : RevokeTokens(r) \/ ClearToken(r) \/ ClearStatus(r)
  BY <1>1, <1>6, <1>7, <1>8, RevokesOrNot
<1> QED
  BY <1>3, <1>4, <1>5, <1>8

(* For any requests that replace, claim or delete sessions meanwhile: when *)
(* RevokeTokens is through, no session that it found has a token, unless   *)
(* RefreshToken gave it one since.                                         *)
THEOREM RevocationsHold == Spec => []TokensStayRevoked
<1>1. Init => RevokeInv
  BY DEF Init, RevokeInv, Step
<1>2. RevokeInv => TokensStayRevoked
  BY DEF RevokeInv, TokensStayRevoked, HasToken
<1> QED
  BY <1>1, <1>2, InitCInv, NextCInv, NextRevokeInv, PTL DEF Spec
=============================================================================
