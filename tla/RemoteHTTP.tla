------------------------------ MODULE RemoteHTTP ------------------------------
(***************************************************************************)
(* RemoteHTTPProxyAdapter (pkg/proxy/remote_http_proxy_adapter.go): the    *)
(* MCP requests and event streams of clients, passed on to remote servers. *)
(* A POST runs in the goroutine of its handler; a stream has a second one  *)
(* that copies the server's own stream.  Both hand every message of the    *)
(* server to handleRemoteMessage.                                          *)
(***************************************************************************)
EXTENDS FiniteSets, Integers

CONSTANTS
  Requests,    \* HTTP requests, streams among them
  Adapters,    \* remote adapters; each has its URL and credentials
  Sessions,    \* session ids, sent by clients or generated
  Ids,         \* JSON-RPC ids as strings
  Ops,         \* bound: subset of {"initialize", "call", "notify", "stream"}
  MaxPushes,   \* bound on the messages servers send of their own accord
  None

(* The answer to a request, or a message of the server's own; with an id or without. *)
Messages == [to: Requests \cup {None}, id: Ids \cup {None}, session: Sessions]

ASSUME RemoteAssumption ==
  /\ None \notin Requests \cup Adapters \cup Sessions \cup Ids \cup Messages
  /\ Ops \subseteq {"initialize", "call", "notify", "stream"}
  /\ MaxPushes \in Nat

Handler(r) == <<r, "handler">>
Feed(r) == <<r, "feed">>
Threads == {Handler(r) : r \in Requests} \cup {Feed(r) : r \in Requests}

VARIABLES
  sessions,   \* the session store
  remote,     \* remote[s]: the adapter whose URL and credentials session s keeps, or None
  streams,    \* streams[s]: SSEConnections, named by the request that opened them
  pending,    \* pending[i]: the request that waits for id i, or None
  channel,    \* channel[r]: what its channel of capacity one holds
  pc, job,    \* where each goroutine is, and what each request is
  msg, left,  \* the message a goroutine handles, and the streams it still writes it to
  answer,     \* answer[r]: the message the client got
  shown,      \* shown[c]: the messages written to stream c as events
  stalled,    \* streams whose client has stopped reading
  pushes,     \* how many messages servers have sent of their own accord
  contested   \* history: requests whose id another message or request bore meanwhile

INSTANCE SessionStore

vars == <<sessions, remote, streams, pending, channel, pc, job, msg, left,
          answer, shown, stalled, pushes, contested>>

Init ==
  /\ SessionInit
  /\ remote = [s \in Sessions |-> None]
  /\ streams = [s \in Sessions |-> {}]
  /\ pending = [i \in Ids |-> None]
  /\ channel = [r \in Requests |-> None]
  /\ pc = [t \in Threads |-> "idle"]
  /\ job = [r \in Requests |-> None]
  /\ msg = [t \in Threads |-> None]
  /\ left = [t \in Threads |-> {}]
  /\ answer = [r \in Requests |-> None]
  /\ shown = [r \in Requests |-> {}]
  /\ stalled = {}
  /\ pushes = 0
  /\ contested = {}

SessionOf(r) == job[r].session
AtWork(r) == pc[Handler(r)] \notin {"idle", "done"}

(* RLock of SSEMutex is held from the first write of a broadcast to the last. *)
Broadcasting(s) ==
  \E t \in Threads : pc[t] = "write" /\ SessionOf(t[1]) = s

Goto(t, label) == pc' = [pc EXCEPT ![t] = label]

(***************************************************************************)
(* getOrCreateSession: the map and the session store, under one mutex.  A  *)
(* session that is there is returned whatever adapter was asked for.       *)
(***************************************************************************)
(* Variant: the session is entered into the store each time. *)
GetOrEnterSession(s, a) ==
  /\ remote' = [remote EXCEPT ![s] = IF @ = None THEN a ELSE @]
  /\ SetWithDetails(s, a)

GetOrCreateSession(s, a) ==
  IF remote[s] = None
    THEN remote' = [remote EXCEPT ![s] = a] /\ SetWithDetails(s, a)
    ELSE UNCHANGED <<remote, sessions>>

(***************************************************************************)
(* HandleRequest up to the first access to a shared map: "initialize" and  *)
(* streams get a session, anything else needs to have one.                 *)
(***************************************************************************)
Accept(r) ==
  /\ pc[Handler(r)] = "idle"
  /\ \E op \in Ops, s \in Sessions, a \in Adapters, i \in Ids \cup {None} :
       /\ (i # None) = (op \in {"initialize", "call"})
       /\ job' = [job EXCEPT ![r] = [op |-> op, session |-> s, id |-> i]]
       /\ IF op \in {"initialize", "stream"}
            THEN GetOrCreateSession(s, a)
            ELSE UNCHANGED <<remote, sessions>>
       /\ Goto(Handler(r), CASE op = "stream" -> "open"
                             [] op = "initialize" -> "register"
                             [] op \in {"call", "notify"} /\ remote[s] = None -> "done"
                             [] op = "call" /\ remote[s] # None -> "register"
                             [] op = "notify" /\ remote[s] # None -> "post")
  /\ UNCHANGED <<streams, pending, channel, msg, left, answer, shown, stalled, pushes, contested>>

(* The pending request is entered under its id, over any other one. *)
Register(r) ==
  /\ pc[Handler(r)] = "register"
  /\ LET rivals == {q \in Requests \ {r} : AtWork(q) /\ job[q].id = job[r].id}
     IN contested' = contested \cup rivals \cup (IF rivals = {} THEN {} ELSE {r})
  /\ pending' = [pending EXCEPT ![job[r].id] = r]
  /\ Goto(Handler(r), "post")
  /\ UNCHANGED <<sessions, remote, streams, channel, job, msg, left, answer, shown, stalled, pushes>>

(***************************************************************************)
(* proxyToRemote: no address, no credential, no connection, another status *)
(* or a body that is no message (the empty one with which servers accept   *)
(* notifications) end the request; else the body is handled, under the id  *)
(* of the request or without one.                                          *)
(***************************************************************************)
Message(r, i) == [to |-> r, id |-> i, session |-> SessionOf(r)]

ProxyToRemote(r) ==
  /\ pc[Handler(r)] = "post"
  /\ \/ Goto(Handler(r), "end") /\ UNCHANGED msg
     \/ \E i \in {None, job[r].id} :
          /\ msg' = [msg EXCEPT ![Handler(r)] = Message(r, i)]
          /\ Goto(Handler(r), "handle")
  /\ UNCHANGED <<sessions, remote, streams, pending, channel, job, left, answer, shown, stalled, pushes, contested>>

(* The server's stream is opened and read, 60 seconds at most. *)
Connect(r) ==
  /\ pc[Feed(r)] = "connect"
  /\ Goto(Feed(r), "read") \/ Goto(Feed(r), "done")
  /\ UNCHANGED <<sessions, remote, streams, pending, channel, job, msg, left, answer, shown, stalled, pushes, contested>>

Push(r) ==
  /\ pc[Feed(r)] = "read"
  /\ pushes < MaxPushes
  /\ pushes' = pushes + 1
  /\ \E i \in Ids \cup {None} :
       msg' = [msg EXCEPT ![Feed(r)] = [Message(r, i) EXCEPT !.to = None]]
  /\ Goto(Feed(r), "handle")
  /\ UNCHANGED <<sessions, remote, streams, pending, channel, job, left, answer, shown, stalled, contested>>

EndFeed(r) ==
  /\ pc[Feed(r)] = "read"
  /\ Goto(Feed(r), "done")
  /\ UNCHANGED <<sessions, remote, streams, pending, channel, job, msg, left, answer, shown, stalled, pushes, contested>>

(***************************************************************************)
(* handleRemoteMessage.  A message whose id is pending goes to the channel *)
(* unless that is full, any other one to the streams of the session.       *)
(***************************************************************************)
Handled(t) == IF t[2] = "feed" THEN "forward"
              ELSE IF job[t[1]].op = "notify" THEN "end" ELSE "wait"

(* Variant: a message without an id is taken for the answer that is awaited. *)
ReceiverOrAny(m) ==
  IF m.id # None THEN pending[m.id]
  ELSE LET waiting == {pending[i] : i \in Ids} \ {None}
       IN IF waiting = {} THEN None ELSE CHOOSE q \in waiting : TRUE

Receiver(m) == IF m.id = None THEN None ELSE pending[m.id]

HandleRemoteMessage(t) ==
  /\ pc[t] = "handle"
  /\ LET q == Receiver(msg[t])
     IN IF q # None
          THEN /\ channel' = [channel EXCEPT ![q] = IF @ = None THEN msg[t] ELSE @]
               /\ contested' = IF msg[t].to = None THEN contested \cup {q} ELSE contested
               /\ Goto(t, Handled(t))
          ELSE Goto(t, "broadcast") /\ UNCHANGED <<channel, contested>>
  /\ UNCHANGED <<sessions, remote, streams, pending, job, msg, left, answer, shown, stalled, pushes>>

Broadcast(t) ==
  /\ pc[t] = "broadcast"
  /\ left' = [left EXCEPT ![t] = streams[SessionOf(t[1])]]
  /\ Goto(t, "write")
  /\ UNCHANGED <<sessions, remote, streams, pending, channel, job, msg, answer, shown, stalled, pushes, contested>>

(* A write waits for a client that does not read. *)
WriteEvent(t) ==
  /\ pc[t] = "write"
  /\ \E c \in left[t] \ stalled :
       /\ shown' = [shown EXCEPT ![c] = @ \cup {msg[t]}]
       /\ left' = [left EXCEPT ![t] = @ \ {c}]
  /\ UNCHANGED <<sessions, remote, streams, pending, channel, pc, job, msg, answer, stalled, pushes, contested>>

EndBroadcast(t) ==
  /\ pc[t] = "write" /\ left[t] = {}
  /\ Goto(t, Handled(t))
  /\ UNCHANGED <<sessions, remote, streams, pending, channel, job, msg, left, answer, shown, stalled, pushes, contested>>

(***************************************************************************)
(* The line itself is copied to the stream that the feed belongs to, whose *)
(* handler may have returned long ago; an error ends the feed.             *)
(***************************************************************************)
Forward(r) ==
  /\ pc[Feed(r)] = "forward"
  /\ r \notin stalled
  /\ Goto(Feed(r), "read") \/ (~AtWork(r) /\ Goto(Feed(r), "done"))
  /\ UNCHANGED <<sessions, remote, streams, pending, channel, job, msg, left, answer, shown, stalled, pushes, contested>>

(***************************************************************************)
(* The select: the answer, 30 seconds or a client that is gone.            *)
(***************************************************************************)
Answer(r) ==
  /\ pc[Handler(r)] = "wait" /\ channel[r] # None
  /\ answer' = [answer EXCEPT ![r] = channel[r]]
  /\ channel' = [channel EXCEPT ![r] = None]
  /\ Goto(Handler(r), "end")
  /\ UNCHANGED <<sessions, remote, streams, pending, job, msg, left, shown, stalled, pushes, contested>>

(* Variant: the wait has no end of its own. *)
GiveUpNever(r) == pc[Handler(r)] = "wait" /\ UNCHANGED vars

GiveUp(r) ==
  /\ pc[Handler(r)] = "wait"
  /\ Goto(Handler(r), "end")
  /\ UNCHANGED <<sessions, remote, streams, pending, channel, job, msg, left, answer, shown, stalled, pushes, contested>>

(* The deferred call deletes whatever is pending under the id. *)
End(r) ==
  /\ pc[Handler(r)] = "end"
  /\ pending' = [i \in Ids |-> IF i = job[r].id THEN None ELSE pending[i]]
  /\ Goto(Handler(r), "done")
  /\ UNCHANGED <<sessions, remote, streams, channel, job, msg, left, answer, shown, stalled, pushes, contested>>

(***************************************************************************)
(* handleSSEStream.                                                        *)
(***************************************************************************)
OpenStream(r) ==
  /\ pc[Handler(r)] = "open"
  /\ ~Broadcasting(SessionOf(r))
  /\ streams' = [streams EXCEPT ![SessionOf(r)] = @ \cup {r}]
  /\ pc' = [pc EXCEPT ![Handler(r)] = "stream", ![Feed(r)] = "connect"]
  /\ UNCHANGED <<sessions, remote, pending, channel, job, msg, left, answer, shown, stalled, pushes, contested>>

Leave(r) ==
  /\ pc[Handler(r)] = "stream"
  /\ stalled' = stalled \ {r}
  /\ Goto(Handler(r), "close")
  /\ UNCHANGED <<sessions, remote, streams, pending, channel, job, msg, left, answer, shown, pushes, contested>>

(* Variant: the connection is deleted without the mutex. *)
CloseStreamUnlocked(r) ==
  /\ pc[Handler(r)] = "close"
  /\ streams' = [streams EXCEPT ![SessionOf(r)] = @ \ {r}]
  /\ Goto(Handler(r), "done")
  /\ UNCHANGED <<sessions, remote, pending, channel, job, msg, left, answer, shown, stalled, pushes, contested>>

CloseStream(r) ==
  /\ pc[Handler(r)] = "close"
  /\ ~Broadcasting(SessionOf(r))
  /\ streams' = [streams EXCEPT ![SessionOf(r)] = @ \ {r}]
  /\ Goto(Handler(r), "done")
  /\ UNCHANGED <<sessions, remote, pending, channel, job, msg, left, answer, shown, stalled, pushes, contested>>

(* A client stops reading its stream. *)
Stall(r) ==
  /\ pc[Handler(r)] = "stream"
  /\ stalled' = stalled \cup {r}
  /\ UNCHANGED <<sessions, remote, streams, pending, channel, pc, job, msg, left, answer, shown, pushes, contested>>

(* The session store forgets sessions that were idle; the proxy never does. *)
Expire ==
  /\ CleanupExpired
  /\ UNCHANGED <<remote, streams, pending, channel, pc, job, msg, left, answer, shown, stalled, pushes, contested>>

Serve(r) ==
  \/ Register(r) \/ ProxyToRemote(r) \/ Answer(r) \/ GiveUp(r) \/ End(r)
  \/ OpenStream(r) \/ CloseStream(r)

Copy(r) == Connect(r) \/ EndFeed(r) \/ Forward(r)

Handle(t) == HandleRemoteMessage(t) \/ Broadcast(t) \/ WriteEvent(t) \/ EndBroadcast(t)

Next ==
  \/ \E r \in Requests : Accept(r) \/ Serve(r) \/ Copy(r) \/ Push(r) \/ Leave(r) \/ Stall(r)
  \/ \E t \in Threads : Handle(t)
  \/ Expire

(***************************************************************************)
(* A goroutine goes on while it can: calls of servers time out, and a      *)
(* client that has not stopped reading takes what is written to it.        *)
(***************************************************************************)
Fairness ==
  /\ \A r \in Requests : WF_vars(Serve(r)) /\ WF_vars(Copy(r))
  /\ \A t \in Threads : WF_vars(Handle(t))

Spec == Init /\ [][Next]_vars /\ Fairness

-----------------------------------------------------------------------------
(***************************************************************************)
(* Properties.                                                             *)
(***************************************************************************)
Labels == {"idle", "register", "post", "handle", "broadcast", "write", "wait", "end",
           "open", "stream", "close", "connect", "read", "forward", "done"}
Jobs == [op: Ops, session: Sessions, id: Ids \cup {None}]

(* Types. *)
TypeOK ==
  /\ remote \in [Sessions -> Adapters \cup {None}]
  /\ streams \in [Sessions -> SUBSET Requests]
  /\ pending \in [Ids -> Requests \cup {None}]
  /\ channel \in [Requests -> Messages \cup {None}]
  /\ pc \in [Threads -> Labels]
  /\ job \in [Requests -> Jobs \cup {None}]
  /\ msg \in [Threads -> Messages \cup {None}]
  /\ left \in [Threads -> SUBSET Requests]
  /\ answer \in [Requests -> Messages \cup {None}]
  /\ shown \in [Requests -> SUBSET Messages]
  /\ stalled \subseteq Requests
  /\ pushes \in 0 .. MaxPushes
  /\ contested \subseteq Requests

(***************************************************************************)
(* What a client gets is the answer to its own request, and once that has  *)
(* come in under the request's id it is there when the handler looks: no   *)
(* other goroutine takes it, deletes its entry or fills its channel.  Not  *)
(* so for requests that bear the same id at the same time, in whatever     *)
(* session, or the id of a message that the server itself sends, since     *)
(* pendingRequests is keyed by the id alone.                               *)
(***************************************************************************)
OwnAnswer ==
  \A r \in Requests \ contested :
    /\ answer[r] # None => answer[r].to = r
    /\ (pc[Handler(r)] = "wait" /\ msg[Handler(r)].id # None) =>
         /\ channel[r] # None
         /\ channel[r].to = r

(***************************************************************************)
(* An event is written only to streams that are open, those of the session *)
(* of the message: a connection is deleted before its handler returns, and *)
(* not during a broadcast.  (What Forward copies has no such guarantee.)   *)
(***************************************************************************)
EventsStayInSession ==
  [][\A c \in Requests : \A m \in shown'[c] \ shown[c] :
       /\ pc[Handler(c)] \in {"stream", "close"}
       /\ m.session = SessionOf(c)]_vars

(***************************************************************************)
(* The store and the proxy agree on the adapter of a session for as long   *)
(* as the store knows it, however many requests with other adapters in     *)
(* their path name the session.                                            *)
(***************************************************************************)
StoreAgrees ==
  \A s \in Sessions : HasSession(s) => sessions[s].adapter = remote[s]

(***************************************************************************)
(* Every request but a stream ends, and so does a stream whose client has  *)
(* left, unless a client of the same session does not read its stream: a   *)
(* broadcast waits for it with the mutex held.                             *)
(***************************************************************************)
Stuck(r) == \E c \in stalled : job[c].session = SessionOf(r)

RequestsEnd ==
  \A r \in Requests :
    (pc[Handler(r)] \notin {"idle", "stream"}) ~>
      (pc[Handler(r)] \in {"done", "stream"} \/ (AtWork(r) /\ Stuck(r)))
=============================================================================
