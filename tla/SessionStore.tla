---------------------------- MODULE SessionStore ----------------------------
(***************************************************************************)
(* InMemorySessionStore (pkg/session/store.go): a map of session records   *)
(* behind a mutex, one operator per method that writes.  The fields are    *)
(* pointers or maps, of which the store keeps the pointer: a token is      *)
(* changed in place by RefreshToken, so who has fetched it sees the        *)
(* change.  Setters of a session that is not there fail and change         *)
(* nothing.                                                                *)
(***************************************************************************)
CONSTANTS Sessions, None

VARIABLE sessions        \* sessions[s]: the record of session s, or None

SessionInit == sessions = [s \in Sessions |-> None]

HasSession(s) == sessions[s] # None

(* What SetWithDetails writes: a record without tokens or capabilities. *)
NewSession(a) ==
  [adapter |-> a, mcpId |-> None, capabilities |-> None, server |-> None,
   token |-> None, status |-> None]

(* Variant: a session that is there is moved to the adapter. *)
MoveSession(s, a) ==
  sessions' = [sessions EXCEPT ![s] = IF @ = None THEN NewSession(a)
                                      ELSE [@ EXCEPT !.adapter = a]]

SetWithDetails(s, a) == sessions' = [sessions EXCEPT ![s] = NewSession(a)]

SetField(s, field, value) ==
  sessions' = IF HasSession(s)
                THEN [sessions EXCEPT ![s] = [@ EXCEPT ![field] = value]]
                ELSE sessions

SetMCPSessionID(s, id) == SetField(s, "mcpId", id)
SetMCPCapabilities(s, c) == SetField(s, "capabilities", c)
SetMCPServerInfo(s, i) == SetField(s, "server", i)
SetTokenInfo(s, t) == SetField(s, "token", t)
SetAuthorizationInfo(s, i) == SetField(s, "status", i)

DeleteSessions(S) ==
  sessions' = [s \in Sessions |-> IF s \in S THEN None ELSE sessions[s]]

ListByAdapter(a) == {s \in Sessions : HasSession(s) /\ sessions[s].adapter = a}

DeleteByAdapter(a) == DeleteSessions(ListByAdapter(a))

(* Sessions that have not been used for some time; ages are left open. *)
CleanupExpired == \E S \in SUBSET Sessions : DeleteSessions(S)
=============================================================================
