-------------------------- MODULE StdioBridgeProofs --------------------------
(***************************************************************************)
(* Proofs about StdioBridge, for any requests, ids, sessions and adapters: *)
(* pendingRequests leaks nothing, and a request whose id no other request  *)
(* has gets its own answer.                                                *)
(*                                                                         *)
(* An id that is not unique may be overwritten or deleted by any handler   *)
(* that uses it, so the entries of the map say little of it.  IInv says    *)
(* what is left: an entry belongs to a handler at work (NoLeak), a unique  *)
(* request at work has its entry (Entered), and an answer goes over the    *)
(* wire once, after the request was sent (AnsweredOnce).                   *)
(***************************************************************************)
EXTENDS StdioBridge, TLAPS

\* Between Register and Leave.
AtWork(r) == at[r] \in Waiting \cup {"leaving"}

Entered == \A r \in Requests : Unique(r) /\ AtWork(r) => pending[id[r]] = r

AnsweredOnce ==
    \A r \in Requests :
        /\ at[r] \in {"new", "ready", "registered", "writing"} => wire[r] = "none"
        /\ ch[r] = r => wire[r] = "gone"

IInv == TypeOK /\ NoLeak /\ OwnAnswer /\ Entered /\ AnsweredOnce

-----------------------------------------------------------------------------
LEMMA InitIInv == Init => IInv
<1>1. SUFFICES ASSUME Init PROVE IInv
  OBVIOUS
<1>2. TypeOK /\ Entered
  BY <1>1 DEF Init, TypeOK, Entered, AtWork, Waiting, Ended
<1>3. NoLeak /\ OwnAnswer /\ AnsweredOnce
  BY <1>1, NoneAssumption DEF Init, NoLeak, OwnAnswer, AnsweredOnce
<1> QED
  BY <1>2, <1>3 DEF IInv

\* Before the way of a request begins: its handler starts, sessions open, and
\* neither the map nor the wire is touched.
LEMMA PrologueStep ==
    ASSUME IInv, NEW r \in Requests, Begin(r)
    PROVE  IInv'
<1>0. Refuse(r) \/ Initialize(r) \/ Call(r)
  BY DEF Begin, handleMCPProxy, handleMCPToolCall, handleMCPResourcesList,
         handleMCPResourceRead, handleMCPPromptsList, handleMCPPromptGet, Rest
<1>1. /\ at[r] = "new"
      /\ \/ Goto(r, "ready")
         \/ Goto(r, "failed")
      /\ UNCHANGED <<id, of, wire, pending, ch, got>>
  BY <1>0 DEF Refuse, Initialize, Call
<1>2. TypeOK'
  <2>1. sessions' \in [Sessions -> {"none", "idle", "open", "broken"}]
        /\ processes' \in [Adapters -> {"none", "live", "stalled", "exited"}]
    BY <1>0 DEF IInv, TypeOK, Refuse, Initialize, Call
  <2> QED
    BY <1>1, <2>1 DEF IInv, TypeOK, Goto, Ended
<1>3. /\ ~AtWork(r) /\ ~AtWork(r)'
      /\ \A q \in Requests \ {r} : at'[q] = at[q]
  BY <1>1 DEF IInv, TypeOK, AtWork, Waiting, Goto
<1>4. NoLeak' /\ OwnAnswer' /\ Entered'
  BY <1>1, <1>3 DEF IInv, TypeOK, NoLeak, OwnAnswer, Entered, AtWork, Unique
<1>5. AnsweredOnce'
  BY <1>1, <1>3 DEF IInv, TypeOK, AnsweredOnce
<1> QED
  BY <1>2, <1>4, <1>5 DEF IInv

LEMMA OpenStreamStep ==
    ASSUME IInv, NEW s \in Sessions, OpenStream(s)
    PROVE  IInv'
  BY DEF OpenStream, IInv, TypeOK, NoLeak, OwnAnswer, Entered, AtWork, Unique, AnsweredOnce

\* What happens to a process can only lose what is on the wire.
LEMMA ProcessStep ==
    ASSUME IInv, NEW a \in Adapters, Stall(a) \/ Exit(a) \/ Monitor(a)
    PROVE  IInv'
<1>1. /\ \A r \in Requests : wire'[r] \in {wire[r], "gone"} /\ (wire[r] = "none" => wire'[r] = "none")
      /\ UNCHANGED <<id, of, at, pending, ch, got>>
  BY DEF Stall, Exit, Monitor, IInv, TypeOK
<1>2. TypeOK'
  BY DEF Stall, Exit, Monitor, IInv, TypeOK
<1>3. NoLeak' /\ OwnAnswer' /\ Entered'
  BY <1>1 DEF IInv, NoLeak, OwnAnswer, Entered, AtWork, Unique
<1>4. AnsweredOnce'
  BY <1>1 DEF IInv, TypeOK, AnsweredOnce
<1> QED
  BY <1>2, <1>3, <1>4 DEF IInv

LEMMA RegisterStep ==
    ASSUME IInv, NEW r \in Requests, Register(r)
    PROVE  IInv'
<1>1. /\ at[r] = "ready" /\ at' = [at EXCEPT ![r] = "registered"]
      /\ pending' = [pending EXCEPT ![id[r]] = r]
      /\ UNCHANGED <<id, of, processes, sessions, wire, ch, got>>
  BY DEF Register, Goto
<1>2. TypeOK'
  BY <1>1 DEF IInv, TypeOK, Waiting
<1>3. NoLeak'
  <2>1. SUFFICES ASSUME NEW i \in Ids, pending'[i] # None
                 PROVE  id[pending'[i]] = i /\ at'[pending'[i]] \in Waiting \cup {"leaving"}
    BY <1>1 DEF NoLeak
  <2>2. CASE i = id[r]
    BY <1>1, <2>1, <2>2 DEF IInv, TypeOK, Waiting
  <2>3. CASE i # id[r]
    <3>1. pending'[i] = pending[i]
      BY <1>1, <2>3 DEF IInv, TypeOK
    <3>2. id[pending[i]] = i /\ at[pending[i]] \in Waiting \cup {"leaving"}
      BY <2>1, <3>1 DEF IInv, NoLeak
    <3>3. pending[i] # r
      BY <2>3, <3>2
    <3> QED
      BY <1>1, <3>1, <3>2, <3>3 DEF IInv, TypeOK
  <2> QED
    BY <2>2, <2>3
<1>4. OwnAnswer'
  BY <1>1 DEF IInv, OwnAnswer, Unique
<1>5. Entered'
  BY <1>1 DEF IInv, TypeOK, Entered, AtWork, Unique
<1>6. AnsweredOnce'
  BY <1>1 DEF IInv, TypeOK, AnsweredOnce
<1> QED
  BY <1>2, <1>3, <1>4, <1>5, <1>6 DEF IInv

\* On its way to the process a request stays at work, and it is written once.
LEMMA SendStep ==
    ASSUME IInv, NEW r \in Requests, LockProcess(r) \/ Send(r)
    PROVE  IInv'
<1>1. /\ at[r] \in {"registered", "writing"}
      /\ \/ at' = [at EXCEPT ![r] = "writing"] /\ UNCHANGED wire
         \/ at' = [at EXCEPT ![r] = "sent"] /\ wire' = [wire EXCEPT ![r] = "stdin"]
         \/ at' = [at EXCEPT ![r] = "leaving"] /\ UNCHANGED wire
      /\ UNCHANGED <<id, of, processes, sessions, pending, ch, got>>
  BY DEF LockProcess, Send, Goto
<1>2. TypeOK'
  BY <1>1 DEF IInv, TypeOK, Waiting
<1>3. /\ AtWork(r) /\ AtWork(r)'
      /\ \A q \in Requests \ {r} : at'[q] = at[q] /\ wire'[q] = wire[q]
  BY <1>1 DEF IInv, TypeOK, AtWork, Waiting
<1>4. NoLeak' /\ OwnAnswer' /\ Entered'
  BY <1>1, <1>3 DEF IInv, TypeOK, NoLeak, OwnAnswer, Entered, AtWork, Unique
<1>5. ch[r] # r /\ wire[r] = "none"
  BY <1>1 DEF IInv, AnsweredOnce
<1>6. AnsweredOnce'
  BY <1>1, <1>3, <1>5 DEF IInv, TypeOK, AnsweredOnce
<1> QED
  BY <1>2, <1>4, <1>6 DEF IInv

LEMMA AnswerStep ==
    ASSUME IInv, NEW r \in Requests, Answer(r)
    PROVE  IInv'
<1>1. TypeOK'
  BY DEF Answer, IInv, TypeOK
<1>2. NoLeak' /\ OwnAnswer' /\ Entered'
  BY DEF Answer, IInv, NoLeak, OwnAnswer, Entered, AtWork, Unique
<1>3. AnsweredOnce'
  BY DEF Answer, IInv, TypeOK, AnsweredOnce
<1> QED
  BY <1>1, <1>2, <1>3 DEF IInv

\* An entry that a listener finds under the id of r is r itself, or the id is
\* not unique on either side.
LEMMA HandOverStep ==
    ASSUME IInv, NEW r \in Requests, handleStdioMessage(r)
    PROVE  IInv'
<1> DEFINE q == pending[id[r]]
<1>1. /\ wire[r] = "stdout" /\ wire' = [wire EXCEPT ![r] = "gone"]
      /\ \/ q # None /\ ch[q] = None /\ ch' = [ch EXCEPT ![q] = r]
         \/ UNCHANGED ch
      /\ UNCHANGED <<id, of, processes, sessions, at, pending, got>>
  BY DEF handleStdioMessage
<1>2. q \in Requests \cup {None} /\ (q # None => id[q] = id[r])
  BY DEF IInv, TypeOK, NoLeak
<1> HIDE DEF q
<1>3. TypeOK'
  BY <1>1, <1>2 DEF IInv, TypeOK
<1>4. NoLeak' /\ Entered'
  BY <1>1 DEF IInv, NoLeak, Entered, AtWork, Unique
<1>5. OwnAnswer'
  BY <1>1, <1>2 DEF IInv, TypeOK, OwnAnswer, Unique
<1>6. AnsweredOnce'
  BY <1>1, <1>2 DEF IInv, TypeOK, AnsweredOnce
<1> QED
  BY <1>3, <1>4, <1>5, <1>6 DEF IInv

LEMMA StopWaitingStep ==
    ASSUME IInv, NEW r \in Requests, Receive(r) \/ GiveUp(r)
    PROVE  IInv'
<1>1. /\ at[r] = "sent" /\ at' = [at EXCEPT ![r] = "leaving"]
      /\ got' \in {got, [got EXCEPT ![r] = ch[r]]}
      /\ UNCHANGED <<id, of, processes, sessions, wire, pending, ch>>
  BY DEF Receive, GiveUp, Goto
<1>2. TypeOK'
  BY <1>1 DEF IInv, TypeOK
<1>3. NoLeak' /\ Entered'
  BY <1>1 DEF IInv, TypeOK, NoLeak, Entered, AtWork, Unique, Waiting
<1>4. OwnAnswer'
  BY <1>1 DEF IInv, TypeOK, OwnAnswer, Unique
<1>5. AnsweredOnce'
  BY <1>1 DEF IInv, TypeOK, AnsweredOnce
<1> QED
  BY <1>2, <1>3, <1>4, <1>5 DEF IInv

LEMMA LeaveStep ==
    ASSUME IInv, NEW r \in Requests, Leave(r)
    PROVE  IInv'
<1>1. /\ at[r] = "leaving"
      /\ at' \in {[at EXCEPT ![r] = "failed"], [at EXCEPT ![r] = "answered"]}
      /\ pending' = [pending EXCEPT ![id[r]] = None]
      /\ UNCHANGED <<id, of, processes, sessions, wire, ch, got>>
  BY DEF Leave, Goto
<1>2. TypeOK'
  BY <1>1 DEF IInv, TypeOK, Ended
<1>3. NoLeak'
  <2>1. SUFFICES ASSUME NEW i \in Ids, pending'[i] # None
                 PROVE  id[pending'[i]] = i /\ at'[pending'[i]] \in Waiting \cup {"leaving"}
    BY <1>1 DEF NoLeak
  <2>2. i # id[r] /\ pending'[i] = pending[i]
    BY <1>1, <2>1 DEF IInv, TypeOK
  <2>3. id[pending[i]] = i /\ at[pending[i]] \in Waiting \cup {"leaving"}
    BY <2>1, <2>2 DEF IInv, NoLeak
  <2>4. pending[i] \in Requests \ {r}
    BY <2>1, <2>2, <2>3 DEF IInv, TypeOK
  <2>5. at'[pending[i]] = at[pending[i]]
    BY <1>1, <2>4 DEF IInv, TypeOK
  <2> QED
    BY <1>1, <2>2, <2>3, <2>5
<1>4. OwnAnswer'
  BY <1>1 DEF IInv, OwnAnswer, Unique
<1>5. ~AtWork(r)' /\ \A q \in Requests \ {r} : at'[q] = at[q]
  BY <1>1 DEF IInv, TypeOK, AtWork, Waiting
<1>6. Entered'
  BY <1>1, <1>5 DEF IInv, TypeOK, Entered, AtWork, Unique
<1>7. AnsweredOnce'
  BY <1>1 DEF IInv, TypeOK, AnsweredOnce
<1> QED
  BY <1>2, <1>3, <1>4, <1>6, <1>7 DEF IInv

LEMMA StutterStep == IInv /\ UNCHANGED vars => IInv'
  BY DEF vars, IInv, TypeOK, NoLeak, OwnAnswer, Entered, AtWork, Unique, AnsweredOnce

-----------------------------------------------------------------------------
LEMMA Invariance == Spec => []IInv
<1>1. IInv /\ [Next]_vars => IInv'
  BY PrologueStep, OpenStreamStep, ProcessStep, RegisterStep, SendStep, AnswerStep,
     HandOverStep, StopWaitingStep, LeaveStep, StutterStep
  DEF Next, Handler, Quiet
<1> QED
  BY InitIInv, <1>1, PTL DEF Spec

\* The bridge's maps, channels and sessions keep their types.
THEOREM TypeCorrect == Spec => []TypeOK
  BY Invariance, PTL DEF IInv

\* pendingRequests holds the entries of handlers at work and of no others,
\* also where clients share ids.
THEOREM NothingLeaks == Spec => []NoLeak
  BY Invariance, PTL DEF IInv

\* A request whose id no other request of the server has gets its own answer
\* or none.
THEOREM AnswersAreOwn == Spec => []OwnAnswer
  BY Invariance, PTL DEF IInv

\* The answer that a listener reads while such a request waits reaches it:
\* the entry is still there and the channel still empty.
THEOREM AnswersReach == Spec => AnswerReaches
<1> DEFINE Reaches ==
      \A r \in Requests :
         handleStdioMessage(r) /\ at[r] \in Waiting /\ Unique(r) => ch'[r] = r
<1>1. IInv => Reaches
  <2>1. SUFFICES ASSUME IInv, NEW r \in Requests, handleStdioMessage(r),
                        at[r] \in Waiting, Unique(r)
                 PROVE  ch'[r] = r
    OBVIOUS
  <2>2. pending[id[r]] = r
    BY <2>1 DEF IInv, Entered, AtWork
  <2>3. ch[r] = None
    BY <2>1 DEF IInv, OwnAnswer, AnsweredOnce, handleStdioMessage
  <2> QED
    BY <2>1, <2>2, <2>3, NoneAssumption DEF handleStdioMessage, IInv, TypeOK
<1>2. IInv => [Reaches]_vars
  BY <1>1
<1> QED
  BY Invariance, <1>2, PTL DEF Spec, AnswerReaches
=============================================================================
