---------------------------- MODULE StdioBridge ----------------------------
(***************************************************************************)
(* StdioToHTTPAdapter: HTTP requests of many sessions, forwarded to local  *)
(* MCP processes over their standard streams, and the answers' way back.   *)
(*                                                                         *)
(* One process serves all sessions of an adapter, each session has a       *)
(* listener on its standard output, and whichever reads a line looks the   *)
(* waiting request up by the JSON-RPC id the client chose.  Requests end   *)
(* by their answer, by a timeout or by a disconnect, and processes exit.   *)
(* A request is written under the mutex of its process, and the write      *)
(* blocks when the process stops reading: no timeout has begun then.       *)
(*                                                                         *)
(* Lines are read whole (the pipe is a set of answers in any order);       *)
(* notifications and the event streams they go to are left out.            *)
(***************************************************************************)
EXTENDS FiniteSets

CONSTANTS
    Requests,   \* HTTP requests that carry a JSON-RPC request, each sent once
    Ids,        \* JSON-RPC ids
    Sessions,   \* Mcp-Session-Id values
    Adapters,   \* adapters of type LocalStdio
    AdapterOf,  \* the adapter whose URL the clients of a session use
    None        \* "no request"

ASSUME AdapterAssumption == AdapterOf \in [Sessions -> Adapters]
ASSUME NoneAssumption == None \notin Requests

VARIABLES
    id, of,     \* the JSON-RPC id and the session of each request
    processes,  \* LocalStdioProxyPlugin.processes: the entry of each adapter
    sessions,   \* StdioToHTTPAdapter.sessions and the state of their Process
    at,         \* where the handler of each request is
    wire,       \* where the request or its answer is
    pending,    \* pendingRequests
    ch,         \* PendingRequest.ResponseCh: whose answer is in it
    got         \* whose answer the client of each request was given

vars == <<id, of, processes, sessions, at, wire, pending, ch, got>>

Ended == {"answered", "failed"}
Waiting == {"registered", "writing", "sent"}   \* registered, and not yet leaving

TypeOK ==
    /\ id \in [Requests -> Ids] /\ of \in [Requests -> Sessions]
    /\ processes \in [Adapters -> {"none", "live", "stalled", "exited"}]
    /\ sessions \in [Sessions -> {"none", "idle", "open", "broken"}]
    /\ at \in [Requests -> {"new", "ready", "leaving"} \cup Waiting \cup Ended]
    /\ wire \in [Requests -> {"none", "stdin", "stdout", "gone"}]
    /\ pending \in [Ids -> Requests \cup {None}]
    /\ ch \in [Requests -> Requests \cup {None}]
    /\ got \in [Requests -> Requests \cup {None}]

Init ==
    /\ id \in [Requests -> Ids] /\ of \in [Requests -> Sessions]
    /\ processes = [a \in Adapters |-> "none"]
    /\ sessions = [s \in Sessions |-> "none"]
    /\ at = [r \in Requests |-> "new"]
    /\ wire = [r \in Requests |-> "none"]
    /\ pending = [i \in Ids |-> None]
    /\ ch = [r \in Requests |-> None]
    /\ got = [r \in Requests |-> None]

Goto(r, step) == at' = [at EXCEPT ![r] = step]

-----------------------------------------------------------------------------
(* Sessions and processes.                                                 *)

\* handleSSEStream may create a session that has no process yet.
OpenStream(s) ==
    /\ sessions[s] = "none"
    /\ sessions' = [sessions EXCEPT ![s] = "idle"]
    /\ UNCHANGED <<id, of, processes, at, wire, pending, ch, got>>

\* handleInitialize: the session, its process and its listener.  A session
\* keeps the first process it got; a process that exited stays in the map
\* until its monitor goroutine has run.
Initialize(r) ==
    LET s == of[r]
        a == AdapterOf[s]
    IN  /\ at[r] = "new"
        /\ UNCHANGED <<id, of, wire, pending, ch, got>>
        /\ \/ /\ sessions[s] \in {"open", "broken"}
              /\ Goto(r, "ready")
              /\ UNCHANGED <<processes, sessions>>
           \/ /\ sessions[s] \in {"none", "idle"}
              /\ processes' = [processes EXCEPT ![a] = IF @ = "none" THEN "live" ELSE @]
              /\ sessions' = [sessions EXCEPT ![s] =
                                IF processes[a] = "exited" THEN "broken" ELSE "open"]
              /\ Goto(r, "ready")
           \/ /\ sessions[s] \in {"none", "idle"} /\ processes[a] = "none"
              /\ sessions' = [sessions EXCEPT ![s] = "idle"]
              /\ Goto(r, "failed")
              /\ UNCHANGED processes

\* handleRegularRequest: the session must exist.
Call(r) ==
    /\ at[r] = "new"
    /\ Goto(r, IF sessions[of[r]] = "none" THEN "failed" ELSE "ready")
    /\ UNCHANGED <<id, of, processes, sessions, wire, pending, ch, got>>

\* The adapter is unknown or of no known type, the client does not
\* authenticate, or the body says nothing.
Refuse(r) ==
    /\ at[r] = "new"
    /\ Goto(r, "failed")
    /\ UNCHANGED <<id, of, processes, sessions, wire, pending, ch, got>>

\* POST /adapters/{name}/mcp: the message is the client's, and so is its id.
handleMCPProxy(r) == Refuse(r) \/ Initialize(r) \/ Call(r)

\* The REST endpoints build the message themselves, and every one gives all
\* its requests the same id.
Rest(r, i) == id[r] = i /\ (Refuse(r) \/ Call(r))
handleMCPToolCall(r) == Rest(r, 2)
handleMCPResourcesList(r) == Rest(r, 3)
handleMCPResourceRead(r) == Rest(r, 4)
handleMCPPromptsList(r) == Rest(r, 5)
handleMCPPromptGet(r) == Rest(r, 6)

Begin(r) ==
    \/ handleMCPProxy(r) \/ handleMCPToolCall(r)
    \/ handleMCPResourcesList(r) \/ handleMCPResourceRead(r)
    \/ handleMCPPromptsList(r) \/ handleMCPPromptGet(r)

\* A process stops reading: its standard input is full and stays so.
Stall(a) ==
    /\ processes[a] = "live"
    /\ processes' = [processes EXCEPT ![a] = "stalled"]
    /\ UNCHANGED <<id, of, sessions, at, wire, pending, ch, got>>

\* A process exits: the sessions that hold it are of no use any more.
Exit(a) ==
    /\ processes[a] \in {"live", "stalled"}
    /\ processes' = [processes EXCEPT ![a] = "exited"]
    /\ sessions' = [s \in Sessions |->
                      IF AdapterOf[s] = a /\ sessions[s] = "open" THEN "broken" ELSE sessions[s]]
    /\ wire' = [r \in Requests |->
                  IF AdapterOf[of[r]] = a /\ wire[r] = "stdin" THEN "gone" ELSE wire[r]]
    /\ UNCHANGED <<id, of, at, pending, ch, got>>

\* The monitor goroutine: cmd.Wait closes the pipe, then the entry is deleted.
Monitor(a) ==
    /\ processes[a] = "exited"
    /\ processes' = [processes EXCEPT ![a] = "none"]
    /\ wire' = [r \in Requests |->
                  IF AdapterOf[of[r]] = a /\ wire[r] # "none" THEN "gone" ELSE wire[r]]
    /\ UNCHANGED <<id, of, sessions, at, pending, ch, got>>

-----------------------------------------------------------------------------
(* The way of a request: forwardInitializeToStdio and handleRegularRequest *)
(* do the same from here.                                                  *)

Register(r) ==
    /\ at[r] = "ready"
    /\ pending' = [pending EXCEPT ![id[r]] = r]
    /\ Goto(r, "registered")
    /\ UNCHANGED <<id, of, processes, sessions, wire, ch, got>>

\* Variant: who has written does not unlock.
WritersForEver(r) ==
    {q \in Requests : /\ at[q] = "writing" \/ wire[q] # "none"
                      /\ sessions[of[q]] = "open" /\ AdapterOf[of[q]] = AdapterOf[of[r]]}

\* The requests that hold the mutex of the process that r would be written to: a
\* session that is "open" holds the process its adapter has now.
Writers(r) ==
    {q \in Requests : /\ at[q] = "writing" /\ sessions[of[q]] = "open"
                      /\ AdapterOf[of[q]] = AdapterOf[of[r]]}

\* sendToStdio waits for the mutex.  It fails where the session has no process, and
\* soon where it has a dead one.
LockProcess(r) ==
    /\ at[r] = "registered"
    /\ \/ sessions[of[r]] # "open" /\ Goto(r, "leaving")
       \/ sessions[of[r]] = "open" /\ Writers(r) = {} /\ Goto(r, "writing")
    /\ UNCHANGED <<id, of, processes, sessions, wire, pending, ch, got>>

\* The write, and the mutex is free again: it blocks while the process does not read,
\* and fails when the process has exited.
Send(r) ==
    /\ at[r] = "writing"
    /\ \/ /\ sessions[of[r]] = "open" /\ processes[AdapterOf[of[r]]] = "live"
          /\ Goto(r, "sent") /\ wire' = [wire EXCEPT ![r] = "stdin"]
       \/ /\ sessions[of[r]] # "open"
          /\ Goto(r, "leaving") /\ UNCHANGED wire
    /\ UNCHANGED <<id, of, processes, sessions, pending, ch, got>>

\* The MCP process answers.
Answer(r) ==
    /\ wire[r] = "stdin"
    /\ wire' = [wire EXCEPT ![r] = "stdout"]
    /\ UNCHANGED <<id, of, processes, sessions, at, pending, ch, got>>

\* Variant: the answer goes to any request that is pending.
HandToAny(r) ==
    /\ wire[r] = "stdout"
    /\ wire' = [wire EXCEPT ![r] = "gone"]
    /\ IF \E i \in Ids : pending[i] # None
       THEN \E i \in Ids : pending[i] # None /\ ch' = [ch EXCEPT ![pending[i]] = r]
       ELSE UNCHANGED ch
    /\ UNCHANGED <<id, of, processes, sessions, at, pending, got>>

\* A listener reads the answer to r and hands it to the request that is
\* pending under the id; an answer nobody waits for goes to the event streams,
\* and a second one for a full channel is dropped.
handleStdioMessage(r) ==
    LET q == pending[id[r]]
    IN  /\ wire[r] = "stdout"
        /\ wire' = [wire EXCEPT ![r] = "gone"]
        /\ IF q # None /\ ch[q] = None
           THEN ch' = [ch EXCEPT ![q] = r] ELSE UNCHANGED ch
        /\ UNCHANGED <<id, of, processes, sessions, at, pending, got>>

Receive(r) ==
    /\ at[r] = "sent" /\ ch[r] # None
    /\ got' = [got EXCEPT ![r] = ch[r]]
    /\ Goto(r, "leaving")
    /\ UNCHANGED <<id, of, processes, sessions, wire, pending, ch>>

\* The timeout, or the client's disconnect.
GiveUp(r) ==
    /\ at[r] = "sent"
    /\ Goto(r, "leaving")
    /\ UNCHANGED <<id, of, processes, sessions, wire, pending, ch, got>>

\* Variant: an early return before the function is deferred.
LeaveWithoutDelete(r) ==
    /\ at[r] = "leaving"
    /\ Goto(r, IF got[r] = None THEN "failed" ELSE "answered")
    /\ UNCHANGED <<id, of, processes, sessions, wire, pending, ch, got>>

\* Variant: the map is made anew.
LeaveClearsAll(r) ==
    /\ at[r] = "leaving"
    /\ pending' = [i \in Ids |-> None]
    /\ Goto(r, IF got[r] = None THEN "failed" ELSE "answered")
    /\ UNCHANGED <<id, of, processes, sessions, wire, ch, got>>

\* Variant: the answer itself is remembered under the id.
LeaveKeepsId(r) ==
    /\ at[r] = "leaving"
    /\ pending' = [pending EXCEPT ![id[r]] = id[r]]
    /\ Goto(r, IF got[r] = None THEN "failed" ELSE "answered")
    /\ UNCHANGED <<id, of, processes, sessions, wire, ch, got>>

\* The deferred function deletes what is pending under the id.
Leave(r) ==
    /\ at[r] = "leaving"
    /\ pending' = [pending EXCEPT ![id[r]] = None]
    /\ Goto(r, IF got[r] = None THEN "failed" ELSE "answered")
    /\ UNCHANGED <<id, of, processes, sessions, wire, ch, got>>

Handler(r) ==
    \/ Register(r) \/ LockProcess(r) \/ Send(r)
    \/ Receive(r) \/ GiveUp(r) \/ Leave(r)

\* Every request has ended and no process runs.
Quiet ==
    /\ \A r \in Requests : at[r] \in Ended
    /\ \A a \in Adapters : processes[a] = "none"
    /\ UNCHANGED vars

Next ==
    \/ \E s \in Sessions : OpenStream(s)
    \/ \E r \in Requests : Begin(r) \/ Handler(r)
    \/ \E r \in Requests : Answer(r) \/ handleStdioMessage(r)
    \/ \E a \in Adapters : Stall(a) \/ Exit(a) \/ Monitor(a)
    \/ Quiet

\* Handlers run when they can, a write to a process that reads goes through, and a
\* timeout ends the waiting.  The processes owe nothing, neither answers nor reading
\* nor an end, and no more do the listeners.
Fairness == \A r \in Requests : WF_vars(Handler(r))

Spec == Init /\ [][Next]_vars /\ Fairness

-----------------------------------------------------------------------------
(* Properties.                                                             *)

\* No other request of the whole server has the id of r.
Unique(r) == \A q \in Requests \ {r} : id[q] # id[r]

\* pendingRequests holds requests only whose handler is at work, so it is
\* empty when all have returned, also where ids clash and handlers overwrite
\* and delete each other's entries.
NoLeak ==
    \A i \in Ids : pending[i] # None =>
        id[pending[i]] = i /\ at[pending[i]] \in Waiting \cup {"leaving"}

\* A request whose id is unique gets its own answer or none, whatever session,
\* process or listener the answer came through.
OwnAnswer ==
    \A r \in Requests : Unique(r) => {got[r], ch[r]} \subseteq {None, r}

\* ... and an answer that is read while it waits does reach it.
AnswerReaches ==
    [][\A r \in Requests :
         handleStdioMessage(r) /\ at[r] \in Waiting /\ Unique(r) => ch'[r] = r]_vars

\* Request r is written, or waits for the mutex to be, to a process that does not read.
Stuck(r) ==
    /\ at[r] \in {"registered", "writing"}
    /\ sessions[of[r]] = "open" /\ processes[AdapterOf[of[r]]] = "stalled"

\* Every request ends, whether its process answers, exits or stops reading after it has
\* read the request; only one that is stuck for ever, before the timeout begins, with a
\* process that neither reads nor exits, does not.
RequestsEnd ==
    \A r \in Requests :
        []<>~Stuck(r) => ((at[r] = "ready") ~> (at[r] \in Ended))
=============================================================================
