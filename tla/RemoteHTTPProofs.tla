-------------------------- MODULE RemoteHTTPProofs --------------------------
(***************************************************************************)
(* Proofs about RemoteHTTP, for any requests, adapters, sessions, ids and  *)
(* number of messages that servers send of their own accord.               *)
(*                                                                         *)
(* pendingRequests is keyed by the id alone, so an entry may be written    *)
(* over or deleted by any request that bears the id.  Entries says that    *)
(* what is there belongs to a request at work; Alone, that nobody bears    *)
(* the id of an uncontested one; Delivered, that therefore nothing but its *)
(* own answer reaches it.  Opened and Writing say what the read lock of a  *)
(* broadcast is for.                                                       *)
(***************************************************************************)
EXTENDS RemoteHTTP, TLAPS

\* A request with an id between Register and End: it has an entry of its own.
Registered(r) ==
  /\ pc[Handler(r)] \in {"post", "handle", "broadcast", "write", "wait", "end"}
  /\ job[r].id # None

\* The store holds of a session what the proxy keeps of it, or nothing.
Stored ==
  sessions \in [Sessions -> {None} \cup {NewSession(a) : a \in Adapters}] /\ StoreAgrees

\* Where a handler is from its POST until it waits.
Passing == {"post", "handle", "broadcast", "write"}

\* Goroutines belong to requests that were accepted, those that register or wait have
\* an id, and only notifications pass without one.
Routed ==
  \A r \in Requests :
    /\ pc[Handler(r)] # "idle" => job[r] \in Jobs
    /\ pc[Handler(r)] \in {"register", "wait"} => job[r].id # None
    /\ pc[Handler(r)] \in Passing => job[r].id # None \/ job[r].op = "notify"
    /\ pc[Feed(r)] # "idle" => pc[Handler(r)] # "idle"

\* The message a goroutine handles is about its request.
Carried ==
  \A r \in Requests :
    /\ pc[Handler(r)] \in {"handle", "broadcast", "write", "wait"} =>
         /\ msg[Handler(r)] \in Messages
         /\ msg[Handler(r)].to = r
         /\ msg[Handler(r)].id \in {None, job[r].id}
         /\ msg[Handler(r)].session = SessionOf(r)
    /\ pc[Feed(r)] \in {"handle", "broadcast", "write"} =>
         /\ msg[Feed(r)] \in Messages
         /\ msg[Feed(r)].to = None
         /\ msg[Feed(r)].session = SessionOf(r)

\* Entries are of requests that are at work, under their ids.
Entries ==
  \A i \in Ids :
    pending[i] # None => Registered(pending[i]) /\ job[pending[i]].id = i

\* An uncontested request shares its id with nobody, and its entry is there.
Alone ==
  \A r \in Requests \ contested :
    Registered(r) =>
      /\ pending[job[r].id] = r
      /\ \A q \in Requests \ {r} : Registered(q) => job[q].id # job[r].id

\* Only its own answer reaches its channel and its client, and that has come in once it waits.
Delivered ==
  \A r \in Requests \ contested :
    /\ channel[r] # None => channel[r].to = r
    /\ answer[r] # None => answer[r].to = r
    /\ pc[Handler(r)] \in {"broadcast", "write"} => msg[Handler(r)].id = None
    /\ (pc[Handler(r)] = "wait" /\ msg[Handler(r)].id # None) => channel[r] # None

\* Connections are in their own session, and until their handler returns.
Opened ==
  \A s \in Sessions : \A c \in streams[s] :
    SessionOf(c) = s /\ pc[Handler(c)] \in {"stream", "close"}

\* Who broadcasts has still to write to open streams of the session only.
Writing ==
  \A t \in Threads : pc[t] = "write" => left[t] \subseteq streams[SessionOf(t[1])]

IInv ==
  /\ TypeOK /\ Stored /\ Routed /\ Carried /\ Entries /\ Alone /\ Delivered
  /\ Opened /\ Writing

-----------------------------------------------------------------------------
USE DEF Passing

\* What tells goroutines apart.
LEMMA ThreadFacts ==
  /\ \A r \in Requests :
       /\ Handler(r) \in Threads /\ Handler(r)[1] = r /\ Handler(r)[2] = "handler"
       /\ Feed(r) \in Threads /\ Feed(r)[1] = r /\ Feed(r)[2] = "feed"
  /\ \A r, q \in Requests :
       /\ Handler(r) # Feed(q)
       /\ r # q => Handler(r) # Handler(q) /\ Feed(r) # Feed(q)
  /\ \A t \in Threads : \E r \in Requests : t = Handler(r) \/ t = Feed(r)
  BY DEF Handler, Feed, Threads

LEMMA InitIInv == Init => IInv
<1> SUFFICES ASSUME Init PROVE IInv
  OBVIOUS
<1>1. TypeOK
  BY RemoteAssumption DEF Init, TypeOK, Labels
<1>2. \A r \in Requests : pc[Handler(r)] = "idle" /\ pc[Feed(r)] = "idle"
  BY ThreadFacts DEF Init
<1>3. Stored
  BY DEF Init, SessionInit, Stored, StoreAgrees, HasSession
<1>4. Routed /\ Carried /\ Opened
  BY <1>2 DEF Init, Routed, Carried, Opened
<1>5. Entries /\ Alone /\ Delivered
  BY <1>2 DEF Init, Entries, Alone, Delivered, Registered
<1>6. Writing
  BY DEF Init, Writing
<1> QED
  BY <1>1, <1>3, <1>4, <1>5, <1>6 DEF IInv

-----------------------------------------------------------------------------
\* Where a goroutine goes, and that the others stay.
LEMMA GotoFacts ==
  ASSUME TypeOK, NEW t \in Threads, NEW label \in Labels, Goto(t, label)
  PROVE  /\ pc' \in [Threads -> Labels]
         /\ pc'[t] = label
         /\ \A u \in Threads \ {t} : pc'[u] = pc[u]
  BY DEF TypeOK, Goto

\* Every clause but the types of what it moves looks at pc, job and one thing more.
LEMMA AcceptStep ==
  ASSUME IInv, NEW r \in Requests, Accept(r)
  PROVE  IInv'
<1>1. PICK op \in Ops, s \in Sessions, a \in Adapters, i \in Ids \cup {None} :
        /\ (i # None) = (op \in {"initialize", "call"})
        /\ job' = [job EXCEPT ![r] = [op |-> op, session |-> s, id |-> i]]
        /\ IF op \in {"initialize", "stream"}
             THEN GetOrCreateSession(s, a)
             ELSE UNCHANGED <<remote, sessions>>
        /\ Goto(Handler(r), CASE op = "stream" -> "open"
                              [] op = "initialize" -> "register"
                              [] op \in {"call", "notify"} /\ remote[s] = None -> "done"
                              [] op = "call" /\ remote[s] # None -> "register"
                              [] op = "notify" /\ remote[s] # None -> "post")
  BY DEF Accept
<1>2. PICK label \in {"open", "register", "done", "post"} :
        /\ Goto(Handler(r), label)
        /\ label = "register" => i # None
        /\ label = "post" => op = "notify" /\ i = None
  BY <1>1, RemoteAssumption
<1>3. /\ job'[r] = [op |-> op, session |-> s, id |-> i]
      /\ job'[r] \in Jobs
      /\ job' \in [Requests -> Jobs \cup {None}]
      /\ \A q \in Requests \ {r} : job'[q] = job[q]
  BY <1>1 DEF IInv, TypeOK, Jobs
<1>4. /\ pc' \in [Threads -> Labels]
      /\ pc'[Handler(r)] = label
      /\ \A t \in Threads \ {Handler(r)} : pc'[t] = pc[t]
  BY <1>2, GotoFacts, ThreadFacts DEF IInv, Labels
<1>5. /\ pc[Handler(r)] = "idle" /\ pc[Feed(r)] = "idle"
      /\ UNCHANGED <<streams, pending, channel, msg, left, answer, shown, stalled, pushes, contested>>
  BY DEF Accept, IInv, Routed
<1>6. remote' \in [Sessions -> Adapters \cup {None}] /\ Stored'
  <2>1. CASE UNCHANGED <<remote, sessions>>
    BY <2>1 DEF IInv, TypeOK, Stored, StoreAgrees, HasSession
  <2>2. CASE remote' = [remote EXCEPT ![s] = a] /\ SetWithDetails(s, a)
    <3>1. /\ NewSession(a).adapter = a
          /\ sessions' = [sessions EXCEPT ![s] = NewSession(a)]
      BY <2>2 DEF SetWithDetails, NewSession
    <3> QED
      BY <2>2, <3>1 DEF IInv, TypeOK, Stored, StoreAgrees, HasSession
  <2> QED
    BY <1>1, <2>1, <2>2 DEF GetOrCreateSession
<1>7. TypeOK'
  BY <1>3, <1>4, <1>5, <1>6 DEF IInv, TypeOK
<1>8. ~Registered(r) /\ ~Registered(r)'
      /\ \A q \in Requests \ {r} : Registered(q)' = Registered(q)
  BY <1>2, <1>3, <1>4, <1>5, ThreadFacts DEF Registered
<1>9. Routed'
  BY <1>2, <1>3, <1>4, <1>5, ThreadFacts DEF IInv, Routed
<1>10. Carried'
  BY <1>2, <1>3, <1>4, <1>5, ThreadFacts DEF IInv, Carried, SessionOf
<1>11. Entries' /\ Alone'
  BY <1>3, <1>5, <1>8 DEF IInv, TypeOK, Entries, Alone
<1>12. Delivered'
  BY <1>2, <1>3, <1>4, <1>5, ThreadFacts DEF IInv, Delivered
<1>13. Opened'
  BY <1>3, <1>4, <1>5, ThreadFacts DEF IInv, TypeOK, Opened, SessionOf
<1>14. Writing'
  <2>1. SUFFICES ASSUME NEW t \in Threads, pc'[t] = "write"
                 PROVE  left'[t] \subseteq streams'[SessionOf(t[1])']
    BY DEF Writing
  <2>2. pc[t] = "write" /\ t # Handler(r) /\ t # Feed(r)
    BY <1>2, <1>4, <1>5, <2>1
  <2>3. SessionOf(t[1])' = SessionOf(t[1])
    BY <1>3, <2>2, ThreadFacts DEF SessionOf
  <2> QED
    BY <1>5, <2>2, <2>3 DEF IInv, Writing
<1> QED
  BY <1>6, <1>7, <1>9, <1>10, <1>11, <1>12, <1>13, <1>14 DEF IInv

LEMMA RegisterStep ==
  ASSUME IInv, NEW r \in Requests, Register(r)
  PROVE  IInv'
<1>1. /\ pc[Handler(r)] = "register" /\ job[r] \in Jobs /\ job[r].id \in Ids
      /\ pending' = [pending EXCEPT ![job[r].id] = r]
      /\ UNCHANGED <<sessions, remote, streams, channel, job, msg, left, answer, shown, stalled, pushes>>
  BY RemoteAssumption DEF Register, IInv, Routed, Jobs
<1>2. /\ pc' \in [Threads -> Labels]
      /\ pc'[Handler(r)] = "post"
      /\ \A t \in Threads \ {Handler(r)} : pc'[t] = pc[t]
  BY GotoFacts, ThreadFacts DEF Register, IInv, Labels
<1>3. /\ contested \subseteq contested' /\ contested' \subseteq Requests
      /\ \A q \in Requests \ {r} : AtWork(q) /\ job[q].id = job[r].id => q \in contested' /\ r \in contested'
  BY DEF Register, IInv, TypeOK
<1>4. /\ ~Registered(r) /\ Registered(r)'
      /\ \A q \in Requests \ {r} : Registered(q)' = Registered(q) /\ (Registered(q) => AtWork(q))
  BY <1>1, <1>2, ThreadFacts, RemoteAssumption DEF Registered, AtWork
<1>5. TypeOK'
  BY <1>1, <1>2, <1>3 DEF IInv, TypeOK
<1>6. Stored'
  BY <1>1 DEF IInv, Stored, StoreAgrees, HasSession
<1>7. Routed' /\ Carried' /\ Opened'
  BY <1>1, <1>2, ThreadFacts, RemoteAssumption DEF IInv, TypeOK, Routed, Carried, Opened, SessionOf
<1>8. Entries'
  BY <1>1, <1>4 DEF IInv, TypeOK, Entries
<1>9. Alone'
  BY <1>1, <1>3, <1>4, RemoteAssumption DEF IInv, TypeOK, Alone
<1>10. Delivered'
  BY <1>1, <1>2, <1>3, ThreadFacts DEF IInv, Delivered
<1>11. Writing'
  BY <1>1, <1>2 DEF IInv, Writing, SessionOf
<1> QED
  BY <1>5, <1>6, <1>7, <1>8, <1>9, <1>10, <1>11 DEF IInv

\* A handler that is registered or not stays so, whatever else it does in between.
LEMMA SameEntries ==
  ASSUME IInv, contested \subseteq contested', UNCHANGED <<pending, job>>,
         \A q \in Requests : Registered(q)' = Registered(q)
  PROVE  Entries' /\ Alone'
  BY DEF IInv, TypeOK, Entries, Alone

LEMMA SameRoutes ==
  ASSUME IInv, UNCHANGED job,
         \A r \in Requests :
           /\ pc[Handler(r)] = "idle" <=> pc'[Handler(r)] = "idle"
           /\ pc[Feed(r)] = "idle" => pc'[Feed(r)] = "idle" \/ pc'[Handler(r)] # "idle"
           /\ pc'[Handler(r)] \in {"register", "wait"} =>
                job[r].id # None \/ pc'[Handler(r)] = pc[Handler(r)]
           /\ pc'[Handler(r)] \in Passing => pc[Handler(r)] \in Passing
  PROVE  Routed'
  BY DEF IInv, Routed

\* A connection that is there stays where it is.
LEMMA SameStreams ==
  ASSUME IInv, UNCHANGED <<streams, job>>,
         \A r \in Requests :
           pc[Handler(r)] \in {"stream", "close"} => pc'[Handler(r)] \in {"stream", "close"}
  PROVE  Opened'
  BY DEF IInv, TypeOK, Opened, SessionOf

LEMMA SameWriters ==
  ASSUME IInv, UNCHANGED <<streams, job, left>>,
         \A t \in Threads : pc'[t] = "write" => pc[t] = "write"
  PROVE  Writing'
  BY DEF IInv, Writing, SessionOf

LEMMA ProxyToRemoteStep ==
  ASSUME IInv, NEW r \in Requests, ProxyToRemote(r)
  PROVE  IInv'
<1>1. /\ pc[Handler(r)] = "post" /\ job[r] \in Jobs
      /\ UNCHANGED <<sessions, remote, streams, pending, channel, job, left, answer, shown, stalled, pushes, contested>>
  BY DEF ProxyToRemote, IInv, Routed
<1>2. PICK label \in {"end", "handle"}, i \in {None, job[r].id} :
        /\ Goto(Handler(r), label)
        /\ msg' = IF label = "end" THEN msg ELSE [msg EXCEPT ![Handler(r)] = Message(r, i)]
  BY DEF ProxyToRemote
<1>3. /\ pc' \in [Threads -> Labels]
      /\ pc'[Handler(r)] = label
      /\ \A t \in Threads \ {Handler(r)} : pc'[t] = pc[t]
  BY <1>2, GotoFacts, ThreadFacts DEF IInv, Labels
<1>4. /\ Message(r, i) \in Messages
      /\ Message(r, i).to = r /\ Message(r, i).id = i /\ Message(r, i).session = SessionOf(r)
  BY <1>1 DEF Message, Messages, SessionOf, Jobs
<1>5. /\ label = "handle" => msg'[Handler(r)] = Message(r, i)
      /\ \A t \in Threads \ {Handler(r)} : msg'[t] = msg[t]
  BY <1>2, ThreadFacts DEF IInv, TypeOK
<1>6. TypeOK'
  BY <1>1, <1>2, <1>3, <1>4 DEF IInv, TypeOK
<1>7. Stored'
  BY <1>1 DEF IInv, Stored, StoreAgrees, HasSession
<1>8. Routed' /\ Opened' /\ Writing'
  BY <1>1, <1>3, ThreadFacts, SameRoutes, SameStreams, SameWriters DEF IInv, TypeOK
<1>9. Carried'
  BY <1>1, <1>3, <1>4, <1>5, ThreadFacts DEF IInv, Carried, SessionOf
<1>10. Entries' /\ Alone'
  BY <1>1, <1>3, ThreadFacts, SameEntries DEF Registered
<1>11. Delivered'
  BY <1>1, <1>3, <1>5, ThreadFacts DEF IInv, Delivered
<1> QED
  BY <1>6, <1>7, <1>8, <1>9, <1>10, <1>11 DEF IInv

\* Connect, EndFeed and Forward: the feed goes on or ends.
LEMMA CopyStep ==
  ASSUME IInv, NEW r \in Requests, Copy(r)
  PROVE  IInv'
<1>1. PICK label \in {"read", "done"} : Goto(Feed(r), label)
  BY DEF Copy, Connect, EndFeed, Forward
<1>2. /\ pc[Feed(r)] \in {"connect", "read", "forward"}
      /\ UNCHANGED <<sessions, remote, streams, pending, channel, job, msg, left, answer, shown, stalled, pushes, contested>>
  BY DEF Copy, Connect, EndFeed, Forward
<1>3. /\ pc' \in [Threads -> Labels]
      /\ pc'[Feed(r)] = label
      /\ \A t \in Threads \ {Feed(r)} : pc'[t] = pc[t]
  BY <1>1, GotoFacts, ThreadFacts DEF IInv, Labels
<1>4. \A q \in Requests : pc'[Handler(q)] = pc[Handler(q)]
  BY <1>3, ThreadFacts
<1>5. TypeOK' /\ Stored'
  BY <1>2, <1>3 DEF IInv, TypeOK, Stored, StoreAgrees, HasSession
<1>6. Routed' /\ Opened' /\ Writing'
  <2>1. pc[Handler(r)] # "idle"
    BY <1>2 DEF IInv, Routed
  <2>2. Routed'
    BY <1>2, <1>3, <1>4, <2>1, ThreadFacts, SameRoutes
  <2> QED
    BY <1>2, <1>3, <1>4, <2>2, SameStreams, SameWriters
<1>7. Carried'
  BY <1>2, <1>3, <1>4, ThreadFacts DEF IInv, Carried, SessionOf
<1>8. Entries' /\ Alone'
  BY <1>2, <1>4, SameEntries DEF Registered
<1>9. Delivered'
  BY <1>2, <1>4 DEF IInv, Delivered
<1> QED
  BY <1>5, <1>6, <1>7, <1>8, <1>9 DEF IInv

LEMMA PushStep ==
  ASSUME IInv, NEW r \in Requests, Push(r)
  PROVE  IInv'
<1>1. PICK i \in Ids \cup {None} : msg' = [msg EXCEPT ![Feed(r)] = [Message(r, i) EXCEPT !.to = None]]
  BY DEF Push
<1>2. /\ pc[Feed(r)] = "read" /\ pushes < MaxPushes /\ pushes' = pushes + 1
      /\ UNCHANGED <<sessions, remote, streams, pending, channel, job, left, answer, shown, stalled, contested>>
  BY DEF Push
<1>3. /\ pc' \in [Threads -> Labels]
      /\ pc'[Feed(r)] = "handle"
      /\ \A t \in Threads \ {Feed(r)} : pc'[t] = pc[t]
  BY GotoFacts, ThreadFacts DEF IInv, Labels, Push
<1>4. \A q \in Requests : pc'[Handler(q)] = pc[Handler(q)]
  BY <1>3, ThreadFacts
<1>5. pc[Handler(r)] # "idle" /\ job[r] \in Jobs
  BY <1>2 DEF IInv, Routed
<1> DEFINE m == [Message(r, i) EXCEPT !.to = None]
<1>6. m \in Messages /\ m.to = None /\ m.session = SessionOf(r)
  BY <1>5 DEF Message, Messages, Jobs, SessionOf
<1>7. /\ msg' \in [Threads -> Messages \cup {None}]
      /\ msg'[Feed(r)] = m
      /\ \A t \in Threads \ {Feed(r)} : msg'[t] = msg[t]
  BY <1>1, <1>6, ThreadFacts DEF IInv, TypeOK
<1> HIDE DEF m
<1>8. TypeOK' /\ Stored'
  BY <1>2, <1>3, <1>7, RemoteAssumption DEF IInv, TypeOK, Stored, StoreAgrees, HasSession
<1>9. Routed'
  BY <1>2, <1>3, <1>4, <1>5, ThreadFacts, SameRoutes
<1>10. Opened' /\ Writing'
  BY <1>2, <1>3, <1>4, SameStreams, SameWriters
<1>11. Carried'
  BY <1>2, <1>3, <1>4, <1>6, <1>7, ThreadFacts DEF IInv, Carried, SessionOf
<1>12. Entries' /\ Alone'
  BY <1>2, <1>4, SameEntries DEF Registered
<1>13. Delivered'
  BY <1>2, <1>4, <1>7, ThreadFacts DEF IInv, Delivered
<1> QED
  BY <1>8, <1>9, <1>10, <1>11, <1>12, <1>13 DEF IInv

\* What goes to a channel.
LEMMA ReceiverFacts ==
  ASSUME IInv, NEW t \in Threads, pc[t] = "handle", Receiver(msg[t]) # None
  PROVE  LET q == Receiver(msg[t])
         IN /\ q \in Requests /\ Registered(q) /\ msg[t] \in Messages
            /\ msg[t].to = None \/ q \in contested \/ (t = Handler(q) /\ msg[t].to = q)
<1> DEFINE q == Receiver(msg[t])
<1>1. /\ msg[t].id # None /\ q = pending[msg[t].id]
  BY DEF Receiver
<1>2. CASE \E r \in Requests : t = Feed(r)
  <2>1. msg[t] \in Messages /\ msg[t].to = None
    BY <1>2 DEF IInv, Carried
  <2>2. msg[t].id \in Ids
    BY <1>1, <2>1 DEF Messages
  <2> QED
    BY <1>1, <2>1, <2>2 DEF IInv, TypeOK, Entries
<1>3. ASSUME NEW r \in Requests, t = Handler(r)
      PROVE  /\ q \in Requests /\ Registered(q) /\ msg[t] \in Messages
             /\ q \in contested \/ (t = Handler(q) /\ msg[t].to = q)
  <2>1. msg[t] \in Messages /\ msg[t].to = r /\ msg[t].id = job[r].id
    BY <1>1, <1>3 DEF IInv, Carried
  <2>2. msg[t].id \in Ids
    BY <1>1, <2>1 DEF Messages
  <2>3. q \in Requests /\ Registered(q) /\ job[q].id = job[r].id
    BY <1>1, <2>1, <2>2 DEF IInv, TypeOK, Entries
  <2>4. Registered(r)
    BY <1>1, <1>3, <2>1 DEF Registered
  <2>5. q \in contested \/ q = r
    BY <2>3, <2>4 DEF IInv, Alone
  <2> QED
    BY <1>3, <2>1, <2>3, <2>5
<1> QED
  BY <1>2, <1>3, ThreadFacts

\* Where a goroutine goes after a message.
LEMMA HandledFacts ==
  ASSUME NEW t \in Threads
  PROVE  /\ Handled(t) \in Labels
         /\ \A r \in Requests :
              /\ t = Feed(r) => Handled(t) = "forward"
              /\ t = Handler(r) => Handled(t) = IF job[r].op = "notify" THEN "end" ELSE "wait"
  BY ThreadFacts DEF Handled, Labels

\* A goroutine that handles a message goes on to the next step of that.
LEMMA HandlingMoves ==
  ASSUME IInv, UNCHANGED <<job, msg>>, NEW t \in Threads, NEW label,
         pc[t] \in {"handle", "broadcast", "write"},
         label \in {"broadcast", "write", Handled(t)}, Goto(t, label)
  PROVE  /\ pc' \in [Threads -> Labels] /\ pc'[t] = label
         /\ \A u \in Threads \ {t} : pc'[u] = pc[u]
         /\ \A r \in Requests : Registered(r)' = Registered(r)
         /\ Routed' /\ Carried'
<1>1. /\ pc' \in [Threads -> Labels] /\ pc'[t] = label
      /\ \A u \in Threads \ {t} : pc'[u] = pc[u]
  BY GotoFacts, HandledFacts DEF IInv, Labels
<1>2. CASE \E r \in Requests : t = Feed(r)
  <2>1. PICK r \in Requests : t = Feed(r)
    BY <1>2
  <2>2. label \in {"broadcast", "write", "forward"}
    BY <2>1, HandledFacts
  <2>3. \A q \in Requests : pc'[Handler(q)] = pc[Handler(q)]
    BY <1>1, <2>1, ThreadFacts
  <2>4. Routed'
    BY <1>1, <2>1, <2>2, <2>3, ThreadFacts DEF IInv, Routed
  <2>5. Carried'
    BY <1>1, <2>1, <2>2, <2>3, ThreadFacts DEF IInv, Carried, SessionOf
  <2> QED
    BY <1>1, <2>3, <2>4, <2>5 DEF Registered
<1>3. CASE \E r \in Requests : t = Handler(r)
  <2>1. PICK r \in Requests : t = Handler(r)
    BY <1>3
  <2>2. label \in {"broadcast", "write", "wait", "end"} /\ (label = "wait" => job[r].id # None)
    BY <2>1, HandledFacts DEF IInv, Routed
  <2>3. \A q \in Requests \ {r} : pc'[Handler(q)] = pc[Handler(q)]
    BY <1>1, <2>1, ThreadFacts
  <2>4. Routed'
    BY <1>1, <2>1, <2>2, <2>3, ThreadFacts DEF IInv, Routed
  <2>5. Carried'
    BY <1>1, <2>1, <2>2, <2>3, ThreadFacts DEF IInv, Carried, SessionOf
  <2> QED
    BY <1>1, <2>1, <2>2, <2>3, <2>4, <2>5 DEF Registered
<1> QED
  BY <1>2, <1>3, ThreadFacts

LEMMA HandleStep ==
  ASSUME IInv, NEW t \in Threads, HandleRemoteMessage(t)
  PROVE  IInv'
<1> DEFINE q == Receiver(msg[t])
<1>1. /\ pc[t] = "handle"
      /\ UNCHANGED <<sessions, remote, streams, pending, job, msg, left, answer, shown, stalled, pushes>>
  BY DEF HandleRemoteMessage
<1>2. PICK label \in {"broadcast", Handled(t)} :
        /\ Goto(t, label)
        /\ \/ /\ q # None /\ label = Handled(t)
              /\ channel' = [channel EXCEPT ![q] = IF @ = None THEN msg[t] ELSE @]
              /\ contested' = IF msg[t].to = None THEN contested \cup {q} ELSE contested
           \/ q = None /\ label = "broadcast" /\ UNCHANGED <<channel, contested>>
  BY DEF HandleRemoteMessage
<1>3. /\ pc' \in [Threads -> Labels] /\ pc'[t] = label
      /\ \A u \in Threads \ {t} : pc'[u] = pc[u]
      /\ \A r \in Requests : Registered(r)' = Registered(r)
      /\ Routed' /\ Carried'
  BY <1>1, <1>2, HandlingMoves
<1>4. q # None => /\ q \in Requests /\ msg[t] \in Messages
                  /\ msg[t].to = None \/ q \in contested \/ (t = Handler(q) /\ msg[t].to = q)
  BY <1>1, ReceiverFacts
<1> HIDE DEF q
<1>5. /\ TypeOK' /\ contested \subseteq contested'
  BY <1>1, <1>2, <1>3, <1>4 DEF IInv, TypeOK
<1>6. Stored' /\ Entries' /\ Alone'
  BY <1>1, <1>3, <1>5, SameEntries DEF IInv, Stored, StoreAgrees, HasSession
<1>7. /\ label # "write"
      /\ \A r \in Requests : pc[Handler(r)] \in {"stream", "close"} => pc'[Handler(r)] = pc[Handler(r)]
  BY <1>1, <1>2, <1>3, ThreadFacts, HandledFacts
<1>8. Opened' /\ Writing'
  BY <1>1, <1>3, <1>7, SameStreams, SameWriters
<1>9. Delivered'
  <2>1. SUFFICES ASSUME NEW r \in Requests \ contested'
                 PROVE  /\ channel'[r] # None => channel'[r].to = r
                        /\ answer'[r] # None => answer'[r].to = r
                        /\ pc'[Handler(r)] \in {"broadcast", "write"} => msg'[Handler(r)].id = None
                        /\ pc'[Handler(r)] = "wait" /\ msg'[Handler(r)].id # None => channel'[r] # None
    BY DEF Delivered
  <2>2. r \notin contested
    BY <1>5, <2>1
  <2>3. /\ channel'[r] # None => channel'[r].to = r
        /\ channel[r] # None => channel'[r] # None
        /\ q = r => channel'[r] # None
    BY <1>2, <1>4, <1>5, <2>1, <2>2, RemoteAssumption DEF IInv, TypeOK, Delivered
  <2>4. answer'[r] # None => answer'[r].to = r
    BY <1>1, <2>2 DEF IInv, Delivered
  <2>5. CASE t # Handler(r)
    BY <1>1, <1>3, <2>2, <2>3, <2>4, <2>5, ThreadFacts DEF IInv, Delivered
  <2>6. CASE t = Handler(r)
    <3>1. msg[t].id \in {None, job[r].id} /\ (msg[t].id # None => Registered(r))
      BY <1>1, <2>6 DEF IInv, Carried, Registered
    <3>2. msg[t].id # None => q = r
      BY <2>2, <3>1 DEF q, Receiver, IInv, Alone
    <3>3. label = "broadcast" => msg[t].id = None
      BY <1>2, <2>6, <3>2, HandledFacts, RemoteAssumption
    <3>4. label # "write"
      BY <1>7
    <3> QED
      BY <1>1, <1>3, <2>3, <2>4, <2>6, <3>2, <3>3, <3>4
  <2> QED
    BY <2>5, <2>6
<1> QED
  BY <1>3, <1>5, <1>6, <1>8, <1>9 DEF IInv

LEMMA BroadcastStep ==
  ASSUME IInv, NEW t \in Threads, Broadcast(t)
  PROVE  IInv'
<1>1. /\ pc[t] = "broadcast"
      /\ left' = [left EXCEPT ![t] = streams[SessionOf(t[1])]]
      /\ Goto(t, "write")
      /\ UNCHANGED <<sessions, remote, streams, pending, channel, job, msg, answer, shown, stalled, pushes, contested>>
  BY DEF Broadcast
<1>2. /\ pc' \in [Threads -> Labels] /\ pc'[t] = "write"
      /\ \A u \in Threads \ {t} : pc'[u] = pc[u]
      /\ \A r \in Requests : Registered(r)' = Registered(r)
      /\ Routed' /\ Carried'
  BY <1>1, HandlingMoves
<1>3. streams[SessionOf(t[1])] \subseteq Requests
  <2>1. PICK r \in Requests : t = Handler(r) \/ t = Feed(r)
    BY ThreadFacts
  <2>2. t[1] = r /\ job[r] \in Jobs
    BY <1>1, <2>1, ThreadFacts DEF IInv, Routed
  <2> QED
    BY <2>2 DEF IInv, TypeOK, Jobs, SessionOf
<1>4. TypeOK'
  BY <1>1, <1>2, <1>3 DEF IInv, TypeOK
<1>5. Stored' /\ Entries' /\ Alone'
  BY <1>1, <1>2, SameEntries DEF IInv, Stored, StoreAgrees, HasSession
<1>6. Opened'
  <2>1. \A r \in Requests : pc[Handler(r)] \in {"stream", "close"} => pc'[Handler(r)] = pc[Handler(r)]
    BY <1>1, <1>2, ThreadFacts
  <2> QED
    BY <1>1, <2>1, SameStreams
<1>7. Writing'
  BY <1>1, <1>2 DEF IInv, TypeOK, Writing, SessionOf
<1>8. Delivered'
  BY <1>1, <1>2, ThreadFacts DEF IInv, Delivered
<1> QED
  BY <1>2, <1>4, <1>5, <1>6, <1>7, <1>8 DEF IInv

LEMMA WriteEventStep ==
  ASSUME IInv, NEW t \in Threads, WriteEvent(t)
  PROVE  IInv'
<1>1. PICK c \in left[t] \ stalled :
        /\ shown' = [shown EXCEPT ![c] = @ \cup {msg[t]}]
        /\ left' = [left EXCEPT ![t] = @ \ {c}]
  BY DEF WriteEvent
<1>2. /\ pc[t] = "write"
      /\ UNCHANGED <<sessions, remote, streams, pending, channel, pc, job, msg, answer, stalled, pushes, contested>>
  BY DEF WriteEvent
<1>3. msg[t] \in Messages
  BY <1>2, ThreadFacts DEF IInv, Carried
<1>4. TypeOK'
  BY <1>1, <1>2, <1>3 DEF IInv, TypeOK
<1>5. Stored' /\ Entries' /\ Alone'
  BY <1>2, SameEntries DEF IInv, Stored, StoreAgrees, HasSession, Registered
<1>6. Routed' /\ Carried' /\ Opened' /\ Delivered'
  BY <1>2 DEF IInv, Routed, Carried, Opened, Delivered, SessionOf
<1>7. Writing'
  BY <1>1, <1>2 DEF IInv, TypeOK, Writing, SessionOf
<1> QED
  BY <1>4, <1>5, <1>6, <1>7 DEF IInv

LEMMA EndBroadcastStep ==
  ASSUME IInv, NEW t \in Threads, EndBroadcast(t)
  PROVE  IInv'
<1>1. /\ pc[t] = "write" /\ Goto(t, Handled(t))
      /\ UNCHANGED <<sessions, remote, streams, pending, channel, job, msg, left, answer, shown, stalled, pushes, contested>>
  BY DEF EndBroadcast
<1>2. /\ pc' \in [Threads -> Labels] /\ pc'[t] = Handled(t)
      /\ \A u \in Threads \ {t} : pc'[u] = pc[u]
      /\ \A r \in Requests : Registered(r)' = Registered(r)
      /\ Routed' /\ Carried'
  BY <1>1, HandlingMoves
<1>3. TypeOK'
  BY <1>1, <1>2 DEF IInv, TypeOK
<1>4. Stored' /\ Entries' /\ Alone'
  BY <1>1, <1>2, SameEntries DEF IInv, Stored, StoreAgrees, HasSession
<1>5. /\ Handled(t) \in {"forward", "wait", "end"}
      /\ \A r \in Requests : pc[Handler(r)] \in {"stream", "close"} => pc'[Handler(r)] = pc[Handler(r)]
  BY <1>1, <1>2, ThreadFacts DEF Handled
<1>6. Opened' /\ Writing'
  BY <1>1, <1>2, <1>5, SameStreams, SameWriters
<1>7. Delivered'
  BY <1>1, <1>2, <1>5, ThreadFacts DEF IInv, Delivered
<1> QED
  BY <1>2, <1>3, <1>4, <1>6, <1>7 DEF IInv

\* Answer and GiveUp: the handler waits no longer.
LEMMA SelectStep ==
  ASSUME IInv, NEW r \in Requests, Answer(r) \/ GiveUp(r)
  PROVE  IInv'
<1>1. /\ pc[Handler(r)] = "wait" /\ Goto(Handler(r), "end")
      /\ UNCHANGED <<sessions, remote, streams, pending, job, msg, left, shown, stalled, pushes, contested>>
      /\ \/ /\ answer' = [answer EXCEPT ![r] = channel[r]]
            /\ channel' = [channel EXCEPT ![r] = None]
         \/ UNCHANGED <<channel, answer>>
  BY DEF Answer, GiveUp
<1>2. /\ pc' \in [Threads -> Labels] /\ pc'[Handler(r)] = "end"
      /\ \A t \in Threads \ {Handler(r)} : pc'[t] = pc[t]
  BY <1>1, GotoFacts, ThreadFacts DEF IInv, Labels
<1>3. \A q \in Requests : Registered(q)' = Registered(q)
  BY <1>1, <1>2, ThreadFacts DEF Registered
<1>4. TypeOK'
  BY <1>1, <1>2 DEF IInv, TypeOK
<1>5. Stored' /\ Entries' /\ Alone'
  BY <1>1, <1>3, SameEntries DEF IInv, Stored, StoreAgrees, HasSession
<1>6. Routed' /\ Opened' /\ Writing'
  BY <1>1, <1>2, ThreadFacts, SameRoutes, SameStreams, SameWriters
<1>7. Carried'
  BY <1>1, <1>2, ThreadFacts DEF IInv, Carried, SessionOf
<1>8. Delivered'
  BY <1>1, <1>2, ThreadFacts DEF IInv, TypeOK, Delivered
<1> QED
  BY <1>4, <1>5, <1>6, <1>7, <1>8 DEF IInv

LEMMA EndStep ==
  ASSUME IInv, NEW r \in Requests, End(r)
  PROVE  IInv'
<1>1. /\ pc[Handler(r)] = "end" /\ Goto(Handler(r), "done")
      /\ pending' = [i \in Ids |-> IF i = job[r].id THEN None ELSE pending[i]]
      /\ UNCHANGED <<sessions, remote, streams, channel, job, msg, left, answer, shown, stalled, pushes, contested>>
  BY DEF End
<1>2. /\ pc' \in [Threads -> Labels] /\ pc'[Handler(r)] = "done"
      /\ \A t \in Threads \ {Handler(r)} : pc'[t] = pc[t]
  BY <1>1, GotoFacts, ThreadFacts DEF IInv, Labels
<1>3. /\ ~Registered(r)'
      /\ \A q \in Requests \ {r} : Registered(q)' = Registered(q)
      /\ job[r].id # None => Registered(r)
  BY <1>1, <1>2, ThreadFacts DEF Registered
<1>4. TypeOK'
  BY <1>1, <1>2 DEF IInv, TypeOK
<1>5. Stored'
  BY <1>1 DEF IInv, Stored, StoreAgrees, HasSession
<1>6. Entries'
  BY <1>1, <1>3 DEF IInv, TypeOK, Entries
<1>7. Alone'
  <2>1. SUFFICES ASSUME NEW q \in Requests \ contested, q # r, Registered(q)
                 PROVE  /\ pending'[job[q].id] = q
                        /\ \A p \in Requests \ {q} : Registered(p)' => job[p].id # job[q].id
    BY <1>1, <1>3 DEF Alone
  <2>2. job[q].id # job[r].id
    BY <1>3, <2>1 DEF IInv, Alone, Registered
  <2>3. job[q].id \in Ids
    BY <2>1 DEF IInv, Routed, Registered, Jobs
  <2> QED
    BY <1>1, <1>3, <2>1, <2>2, <2>3 DEF IInv, Alone
<1>8. Routed' /\ Opened' /\ Writing'
  BY <1>1, <1>2, ThreadFacts, SameRoutes, SameStreams, SameWriters
<1>9. Carried' /\ Delivered'
  BY <1>1, <1>2, ThreadFacts DEF IInv, Carried, Delivered, SessionOf
<1> QED
  BY <1>4, <1>5, <1>6, <1>7, <1>8, <1>9 DEF IInv

LEMMA OpenStreamStep ==
  ASSUME IInv, NEW r \in Requests, OpenStream(r)
  PROVE  IInv'
<1>1. /\ pc[Handler(r)] = "open" /\ ~Broadcasting(SessionOf(r))
      /\ streams' = [streams EXCEPT ![SessionOf(r)] = @ \cup {r}]
      /\ pc' = [pc EXCEPT ![Handler(r)] = "stream", ![Feed(r)] = "connect"]
      /\ UNCHANGED <<sessions, remote, pending, channel, job, msg, left, answer, shown, stalled, pushes, contested>>
  BY DEF OpenStream
<1>2. /\ pc' \in [Threads -> Labels]
      /\ pc'[Handler(r)] = "stream" /\ pc'[Feed(r)] = "connect"
      /\ \A t \in Threads \ {Handler(r), Feed(r)} : pc'[t] = pc[t]
  BY <1>1, ThreadFacts DEF IInv, TypeOK, Labels
<1>3. \A q \in Requests : Registered(q)' = Registered(q)
  BY <1>1, <1>2, ThreadFacts DEF Registered
<1>4. SessionOf(r) \in Sessions
  BY <1>1 DEF IInv, Routed, Jobs, SessionOf
<1>5. TypeOK'
  BY <1>1, <1>2, <1>4 DEF IInv, TypeOK
<1>6. Stored' /\ Entries' /\ Alone'
  BY <1>1, <1>3, SameEntries DEF IInv, Stored, StoreAgrees, HasSession
<1>7. Routed'
  BY <1>1, <1>2, ThreadFacts, SameRoutes
<1>8. Carried' /\ Delivered'
  BY <1>1, <1>2, ThreadFacts DEF IInv, Carried, Delivered, SessionOf
<1>9. Opened'
  BY <1>1, <1>2, <1>4, ThreadFacts DEF IInv, TypeOK, Opened, SessionOf
<1>10. Writing'
  <2>1. \A s \in Sessions : streams[s] \subseteq streams'[s]
    BY <1>1, <1>4 DEF IInv, TypeOK
  <2>2. ASSUME NEW t \in Threads, pc'[t] = "write" PROVE left'[t] \subseteq streams'[SessionOf(t[1])']
    <3>1. pc[t] = "write"
      BY <1>2, <2>2
    <3>2. SessionOf(t[1]) \in Sessions
      BY <3>1, ThreadFacts DEF IInv, Routed, Jobs, SessionOf
    <3> QED
      BY <1>1, <2>1, <3>1, <3>2 DEF IInv, Writing, SessionOf
  <2> QED
    BY <2>2 DEF Writing
<1> QED
  BY <1>5, <1>6, <1>7, <1>8, <1>9, <1>10 DEF IInv

LEMMA LeaveStep ==
  ASSUME IInv, NEW r \in Requests, Leave(r)
  PROVE  IInv'
<1>1. /\ pc[Handler(r)] = "stream" /\ Goto(Handler(r), "close")
      /\ stalled' = stalled \ {r}
      /\ UNCHANGED <<sessions, remote, streams, pending, channel, job, msg, left, answer, shown, pushes, contested>>
  BY DEF Leave
<1>2. /\ pc' \in [Threads -> Labels] /\ pc'[Handler(r)] = "close"
      /\ \A t \in Threads \ {Handler(r)} : pc'[t] = pc[t]
  BY <1>1, GotoFacts, ThreadFacts DEF IInv, Labels
<1>3. \A q \in Requests : Registered(q)' = Registered(q)
  BY <1>1, <1>2, ThreadFacts DEF Registered
<1>4. TypeOK'
  BY <1>1, <1>2 DEF IInv, TypeOK
<1>5. Stored' /\ Entries' /\ Alone'
  BY <1>1, <1>3, SameEntries DEF IInv, Stored, StoreAgrees, HasSession
<1>6. Routed' /\ Opened' /\ Writing'
  BY <1>1, <1>2, ThreadFacts, SameRoutes, SameStreams, SameWriters
<1>7. Carried' /\ Delivered'
  BY <1>1, <1>2, ThreadFacts DEF IInv, Carried, Delivered, SessionOf
<1> QED
  BY <1>4, <1>5, <1>6, <1>7 DEF IInv

\* Nobody writes to the session's streams while a connection is deleted.
LEMMA CloseStreamStep ==
  ASSUME IInv, NEW r \in Requests, CloseStream(r)
  PROVE  IInv'
<1>1. /\ pc[Handler(r)] = "close" /\ ~Broadcasting(SessionOf(r))
      /\ streams' = [streams EXCEPT ![SessionOf(r)] = @ \ {r}]
      /\ Goto(Handler(r), "done")
      /\ UNCHANGED <<sessions, remote, pending, channel, job, msg, left, answer, shown, stalled, pushes, contested>>
  BY DEF CloseStream
<1>2. /\ pc' \in [Threads -> Labels] /\ pc'[Handler(r)] = "done"
      /\ \A t \in Threads \ {Handler(r)} : pc'[t] = pc[t]
  BY <1>1, GotoFacts, ThreadFacts DEF IInv, Labels
<1>3. \A q \in Requests : Registered(q)' = Registered(q)
  BY <1>1, <1>2, ThreadFacts DEF Registered
<1>4. SessionOf(r) \in Sessions
  BY <1>1 DEF IInv, Routed, Jobs, SessionOf
<1>5. TypeOK'
  BY <1>1, <1>2 DEF IInv, TypeOK
<1>6. Stored' /\ Entries' /\ Alone'
  BY <1>1, <1>3, SameEntries DEF IInv, Stored, StoreAgrees, HasSession
<1>7. Routed'
  BY <1>1, <1>2, ThreadFacts, SameRoutes
<1>8. Carried' /\ Delivered'
  BY <1>1, <1>2, ThreadFacts DEF IInv, Carried, Delivered, SessionOf
<1>9. Opened'
  <2>1. \A s \in Sessions : r \notin streams'[s] /\ streams'[s] \subseteq streams[s]
    BY <1>1, <1>4 DEF IInv, TypeOK, Opened
  <2> QED
    BY <1>1, <1>2, <2>1, ThreadFacts DEF IInv, TypeOK, Opened, SessionOf
<1>10. Writing'
  BY <1>1, <1>2 DEF IInv, TypeOK, Writing, Broadcasting, SessionOf
<1> QED
  BY <1>5, <1>6, <1>7, <1>8, <1>9, <1>10 DEF IInv

LEMMA StallStep ==
  ASSUME IInv, NEW r \in Requests, Stall(r)
  PROVE  IInv'
<1>1. /\ stalled' = stalled \cup {r}
      /\ UNCHANGED <<sessions, remote, streams, pending, channel, pc, job, msg, left, answer, shown, pushes, contested>>
  BY DEF Stall
<1>2. TypeOK' /\ Stored' /\ Entries' /\ Alone'
  BY <1>1, SameEntries DEF IInv, TypeOK, Stored, StoreAgrees, HasSession, Registered
<1>3. Routed' /\ Carried' /\ Opened' /\ Writing' /\ Delivered'
  BY <1>1 DEF IInv, Routed, Carried, Opened, Writing, Delivered, SessionOf
<1> QED
  BY <1>2, <1>3 DEF IInv

LEMMA ExpireStep ==
  ASSUME IInv, Expire
  PROVE  IInv'
<1>1. PICK S \in SUBSET Sessions : sessions' = [s \in Sessions |-> IF s \in S THEN None ELSE sessions[s]]
  BY DEF Expire, CleanupExpired, DeleteSessions
<1>2. UNCHANGED <<remote, streams, pending, channel, pc, job, msg, left, answer, shown, stalled, pushes, contested>>
  BY DEF Expire
<1>3. Stored'
  BY <1>1, <1>2 DEF IInv, Stored, StoreAgrees, HasSession
<1>4. TypeOK' /\ Entries' /\ Alone'
  BY <1>2, SameEntries DEF IInv, TypeOK, Registered
<1>5. Routed' /\ Carried' /\ Opened' /\ Writing' /\ Delivered'
  BY <1>2 DEF IInv, Routed, Carried, Opened, Writing, Delivered, SessionOf
<1> QED
  BY <1>3, <1>4, <1>5 DEF IInv

LEMMA StutterStep ==
  ASSUME IInv, UNCHANGED vars
  PROVE  IInv'
<1>1. TypeOK' /\ Stored' /\ Entries' /\ Alone'
  BY SameEntries DEF vars, IInv, TypeOK, Stored, StoreAgrees, HasSession, Registered
<1>2. Routed' /\ Carried' /\ Opened' /\ Writing' /\ Delivered'
  BY DEF vars, IInv, Routed, Carried, Opened, Writing, Delivered, SessionOf
<1> QED
  BY <1>1, <1>2 DEF IInv

LEMMA NextIInv == IInv /\ [Next]_vars => IInv'
<1> SUFFICES ASSUME IInv, [Next]_vars PROVE IInv'
  OBVIOUS
<1>1. CASE UNCHANGED vars
  BY <1>1, StutterStep
<1>2. CASE \E r \in Requests : Accept(r) \/ Serve(r) \/ Copy(r) \/ Push(r) \/ Leave(r) \/ Stall(r)
  <2>1. PICK r \in Requests : Accept(r) \/ Serve(r) \/ Copy(r) \/ Push(r) \/ Leave(r) \/ Stall(r)
    BY <1>2
  <2>2. CASE Serve(r)
    BY <2>2, RegisterStep, ProxyToRemoteStep, SelectStep, EndStep, OpenStreamStep, CloseStreamStep DEF Serve
  <2> QED
    BY <2>1, <2>2, AcceptStep, CopyStep, PushStep, LeaveStep, StallStep
<1>3. CASE \E t \in Threads : Handle(t)
  BY <1>3, HandleStep, BroadcastStep, WriteEventStep, EndBroadcastStep DEF Handle
<1>4. CASE Expire
  BY <1>4, ExpireStep
<1> QED
  BY <1>1, <1>2, <1>3, <1>4 DEF Next

-----------------------------------------------------------------------------
\* Types: the state stays well formed whatever handlers, feeds and clients do.
THEOREM Typed == Spec => []TypeOK
<1>1. IInv => TypeOK
  BY DEF IInv
<1> QED
  BY <1>1, InitIInv, NextIInv, PTL DEF Spec

\* handleRemoteMessage and the select of HandleRequest: a client gets the answer to its
\* own request, and it is there when it was sent under the id, unless somebody else
\* bears the id meanwhile.
THEOREM OwnAnswers == Spec => []OwnAnswer
<1>1. IInv => OwnAnswer
  BY DEF IInv, Delivered, OwnAnswer
<1> QED
  BY <1>1, InitIInv, NextIInv, PTL DEF Spec

\* getOrCreateSession: a session that is there keeps its adapter, in the store and in
\* the proxy, whatever adapter a request for it names.
THEOREM StoreAndProxyAgree == Spec => []StoreAgrees
<1>1. IInv => StoreAgrees
  BY DEF IInv, Stored
<1> QED
  BY <1>1, InitIInv, NextIInv, PTL DEF Spec

\* handleRemoteMessage's broadcast: what it writes goes to connections of the message's
\* session that are still open, though handlers open and close them all the time.
THEOREM EventsInSession == Spec => EventsStayInSession
<1>1. ASSUME IInv, [Next]_vars
      PROVE  [\A c \in Requests : \A m \in shown'[c] \ shown[c] :
                /\ pc[Handler(c)] \in {"stream", "close"}
                /\ m.session = SessionOf(c)]_vars
  <2>1. SUFFICES ASSUME NEW c \in Requests, NEW m \in shown'[c] \ shown[c]
                 PROVE  pc[Handler(c)] \in {"stream", "close"} /\ m.session = SessionOf(c)
    OBVIOUS
  <2>2. PICK t \in Threads : WriteEvent(t)
    BY <1>1, <2>1 DEF Next, vars, Accept, Serve, Copy, Push, Leave, Stall, Handle, Expire, Register,
         ProxyToRemote, Answer, GiveUp, End, OpenStream, CloseStream, Connect, EndFeed, Forward,
         HandleRemoteMessage, Broadcast, EndBroadcast
  <2>3. /\ pc[t] = "write" /\ c \in left[t] /\ m = msg[t]
    BY <2>1, <2>2 DEF WriteEvent, IInv, TypeOK
  <2>4. c \in streams[SessionOf(t[1])]
    BY <1>1, <2>3 DEF IInv, Writing
  <2>5. SessionOf(t[1]) \in Sessions /\ msg[t].session = SessionOf(t[1])
    BY <1>1, <2>3, ThreadFacts DEF IInv, Routed, Carried, Jobs, SessionOf
  <2> QED
    BY <1>1, <2>3, <2>4, <2>5 DEF IInv, Opened
<1> QED
  BY <1>1, InitIInv, NextIInv, PTL DEF Spec, EventsStayInSession
=============================================================================
