---------------------------- MODULE AdapterTokens ----------------------------
(***************************************************************************)
(* The credentials of adapters: TokenHandler, which hands out and renews   *)
(* the bearer token of an adapter, the operations of AdapterService that   *)
(* write an adapter back, and the FileAdapterStore they share.             *)
(*                                                                         *)
(* The store copies an adapter when it is fetched, but not the object that *)
(* its Authentication points to: whoever has fetched an adapter shares the *)
(* credentials with the store, and with validateClientAuthentication.      *)
(* What the credentials are good for is in Credentials.                    *)
(***************************************************************************)
EXTENDS Credentials, FiniteSets, Integers

CONSTANTS
  Handlers,    \* requests in progress at a time
  Adapters,
  Objects,     \* Authentication objects; one that nobody points to is used again
  MaxTokens    \* bound on the tokens that are generated or configured

ASSUME TokensAssumption == MaxTokens \in Nat

Tokens == 1 .. MaxTokens

VARIABLES
  store,       \* store[a]: the Authentication object of adapter a, or None if there is no a
  token,       \* token[o]: the bearer token in object o
  file,        \* file[a]: the token of a in the file, or None
  valid,       \* tokens that this process has signed and that have not expired
  issued,      \* how many tokens there have been
  at,          \* at[r]: the request that handler r works on, or None
  dead,        \* history: tokens that were accepted and were then replaced or removed
  buried,      \* history: those that were dead when a change was last saved
  disturbed    \* history: adapters whose credentials were written back from before
               \* a change, or that a token request brought back

vars == <<store, token, file, valid, issued, at, dead, buried, disturbed>>

Init ==
  /\ store = [a \in Adapters |-> None]
  /\ token = [o \in Objects |-> None]
  /\ file = [a \in Adapters |-> None]
  /\ valid = {} /\ issued = 0
  /\ at = [r \in Handlers |-> None]
  /\ dead = {} /\ buried = {} /\ disturbed = {}

Free(o) ==
  /\ \A a \in Adapters : store[a] # o
  /\ \A r \in Handlers : at[r] # None => at[r].object # o

(* validateBearerAuth compares with what the store points to now. *)
Accepted(a) == IF store[a] = None THEN None ELSE token[store[a]]

(* Constraints on the next state: tokens no longer accepted are dead. *)
NoteDead ==
  dead' = (dead \cup {Accepted(a) : a \in {b \in Adapters : Accepted(b) # Accepted(b)'}}) \ {None}

-----------------------------------------------------------------------------
(***************************************************************************)
(* FileAdapterStore.  Each change saves all adapters, with the credentials *)
(* they have by then; a save that fails does not undo the change.          *)
(***************************************************************************)
SaveToFile ==
  \/ /\ file' = [a \in Adapters |-> Accepted(a)']
     /\ buried' = dead'
  \/ UNCHANGED <<file, buried>>

(* Variant: the adapters are saved first. *)
StoreAuthenticationLate(a, o) ==
  /\ store' = [store EXCEPT ![a] = o]
  /\ NoteDead
  /\ file' = [b \in Adapters |-> Accepted(b)] /\ buried' = dead'

(* What Create, Update and Delete have in common. *)
StoreAuthentication(a, o) ==
  /\ store' = [store EXCEPT ![a] = o]
  /\ NoteDead
  /\ SaveToFile

LoadFromFile ==
  \E f \in [Adapters -> Objects] :
    /\ \A a, b \in Adapters : f[a] = f[b] => a = b
    /\ store' = [a \in Adapters |-> IF file[a] = None THEN None ELSE f[a]]
    /\ token' = [o \in Objects |-> IF \E a \in Adapters : f[a] = o
                                     THEN file[CHOOSE a \in Adapters : f[a] = o] ELSE None]

-----------------------------------------------------------------------------
Request(op, step, a, o) ==
  [op |-> op, step |-> step, adapter |-> a, object |-> o]

(* store.Get: a copy of the adapter with the pointer in it. *)
Get(r, op, step) ==
  /\ at[r] = None
  /\ \E a \in Adapters :
       /\ store[a] # None
       /\ at' = [at EXCEPT ![r] = Request(op, step, a, store[a])]
  /\ UNCHANGED <<store, token, file, valid, issued, dead, buried, disturbed>>

End(r) == at' = [at EXCEPT ![r] = None]
AtStep(r, step) == at[r] # None /\ at[r].step = step
NextToken == issued + 1

(* A new Authentication object, from the body of a request. *)
NewObject(o) ==
  /\ Free(o)
  /\ issued < MaxTokens /\ issued' = NextToken
  /\ token' = [token EXCEPT ![o] = NextToken]

(***************************************************************************)
(* TokenHandler.                                                           *)
(***************************************************************************)
GetAdapterToken(r) == Get(r, "get", "validate") \/ Get(r, "generate", "validate")

RefreshToken(r) == Get(r, "refresh", "generate")

(* A token that is a valid JWT is handed out again, and so is any with generate=false. *)
ValidateToken(r) ==
  /\ AtStep(r, "validate")
  /\ IF token[at[r].object] \in valid \/ at[r].op = "get"
       THEN End(r)
       ELSE at' = [at EXCEPT ![r].step = "generate"]
  /\ UNCHANGED <<store, token, file, valid, issued, dead, buried, disturbed>>

(* The token is written through the pointer before it is stored. *)
GenerateBearerToken(r) ==
  /\ AtStep(r, "generate")
  /\ issued < MaxTokens /\ issued' = NextToken
  /\ token' = [token EXCEPT ![at[r].object] = NextToken]
  /\ valid' = valid \cup {NextToken}
  /\ at' = [at EXCEPT ![r].step = "store"]
  /\ UNCHANGED <<store, file, buried, disturbed>>
  /\ NoteDead

(* UpsertAsync is Create: the answer is an error unless the adapter was deleted meanwhile. *)
UpsertAsync(r) ==
  /\ AtStep(r, "store")
  /\ UNCHANGED <<token, valid, issued>>
  /\ LET a == at[r].adapter
     IN IF store[a] # None
          THEN UNCHANGED <<store, file, dead, buried, disturbed>>
          ELSE /\ StoreAuthentication(a, at[r].object)
               /\ disturbed' = disturbed \cup {a}
  /\ End(r)

(***************************************************************************)
(* AdapterService.                                                         *)
(***************************************************************************)
CreateAdapter(r) ==
  /\ at[r] = None
  /\ \E a \in Adapters, o \in Objects :
       /\ store[a] = None
       /\ NewObject(o)
       /\ StoreAuthentication(a, o)
  /\ UNCHANGED <<valid, at, disturbed>>

(* The body's credentials replace the object, whatever has happened since Get. *)
UpdateAdapter(r) == Get(r, "update", "update")

Update(r) ==
  /\ AtStep(r, "update")
  /\ LET a == at[r].adapter
     IN IF store[a] = None
          THEN UNCHANGED <<store, token, file, issued, dead, buried>>
          ELSE \E o \in Objects : NewObject(o) /\ StoreAuthentication(a, o)
  /\ End(r)
  /\ UNCHANGED <<valid, disturbed>>

(* A health check or the discovery of capabilities comes between Get and Update. *)
SyncAdapter(r) == Get(r, "sync", "writeback")

(* Variant: the copy has credentials of its own. *)
WriteBackCopy(r) ==
  /\ AtStep(r, "writeback")
  /\ LET a == at[r].adapter
     IN IF store[a] = None
          THEN UNCHANGED <<store, token, file, dead, buried>>
          ELSE \E o \in Objects, t \in dead \cup {Accepted(a)} :
                 /\ Free(o)
                 /\ token' = [token EXCEPT ![o] = t]
                 /\ StoreAuthentication(a, o)
  /\ End(r)
  /\ UNCHANGED <<valid, issued, disturbed>>

WriteBack(r) ==
  /\ AtStep(r, "writeback")
  /\ UNCHANGED <<token, valid, issued>>
  /\ LET a == at[r].adapter
     IN IF store[a] = None
          THEN UNCHANGED <<store, file, dead, buried, disturbed>>
          ELSE /\ StoreAuthentication(a, at[r].object)
               /\ disturbed' = IF store[a] = at[r].object THEN disturbed ELSE disturbed \cup {a}
  /\ End(r)

DeleteAdapter(r) ==
  /\ at[r] = None
  /\ UNCHANGED <<token, valid, issued, at, disturbed>>
  /\ \E a \in Adapters : store[a] # None /\ StoreAuthentication(a, None)

(* A new process has a new RSA key, and what the file holds is accepted again. *)
Restart ==
  /\ LoadFromFile
  /\ valid' = {}
  /\ at' = [r \in Handlers |-> None]
  /\ dead' = dead \ {file[a] : a \in Adapters}
  /\ UNCHANGED <<file, issued, buried, disturbed>>

ExpireToken ==
  /\ \E t \in valid : valid' = valid \ {t}
  /\ UNCHANGED <<store, token, file, issued, at, dead, buried, disturbed>>

Next ==
  \/ \E r \in Handlers :
       \/ GetAdapterToken(r) \/ RefreshToken(r) \/ ValidateToken(r)
       \/ GenerateBearerToken(r) \/ UpsertAsync(r)
       \/ CreateAdapter(r) \/ UpdateAdapter(r) \/ Update(r)
       \/ SyncAdapter(r) \/ WriteBack(r) \/ DeleteAdapter(r)
  \/ Restart \/ ExpireToken

Spec == Init /\ [][Next]_vars

-----------------------------------------------------------------------------
(***************************************************************************)
(* Properties.                                                             *)
(***************************************************************************)

(***************************************************************************)
(* A token that was replaced or whose adapter was deleted is not accepted  *)
(* again while the process runs, however many requests that fetched the    *)
(* adapter before come through later: they share its credentials, so they  *)
(* write back what a renewal has put there.  It is not so when the object  *)
(* itself was replaced, by an update or a new creation, between the two    *)
(* steps of a health check or a synchronisation, or when the token request *)
(* of an adapter that was deleted stores it again.                         *)
(***************************************************************************)
OldTokensStayDead ==
  \A a \in Adapters \ disturbed : Accepted(a) \notin dead

(***************************************************************************)
(* When an adapter with credentials is stored, whatever they are, a        *)
(* request signed with them, or with what the client was told of them, is  *)
(* let in (validateClientAuthentication, AdapterAuthMiddleware).           *)
(***************************************************************************)
CredentialsAgree == (\E a \in Adapters : store[a] # None) => SidesAgree

(***************************************************************************)
(* What a restart brings back is not older than the last change of any     *)
(* adapter that was saved: the file never holds a token that was dead by   *)
(* then, although renewed tokens are not saved themselves.                 *)
(***************************************************************************)
RestartKeepsChanges ==
  \A a \in Adapters \ disturbed : file[a] \notin buried

Requests ==
  [op: {"get", "generate", "refresh", "update", "sync"},
   step: {"validate", "generate", "store", "update", "writeback"},
   adapter: Adapters, object: Objects]

(* Types. *)
TypeOK ==
  /\ store \in [Adapters -> Objects \cup {None}]
  /\ token \in [Objects -> Tokens \cup {None}]
  /\ file \in [Adapters -> Tokens \cup {None}]
  /\ valid \subseteq Tokens /\ dead \subseteq Tokens /\ buried \subseteq Tokens
  /\ issued \in 0 .. MaxTokens
  /\ at \in [Handlers -> Requests \cup {None}]
  /\ disturbed \subseteq Adapters
=============================================================================
