------------------------------ MODULE MCPCache ------------------------------
(***************************************************************************)
(* The response cache of the message router (pkg/mcp/cache.go).  Its map   *)
(* is guarded by a mutex that is held for one operator at a time; a Get    *)
(* takes it twice, once to read the entry and once to count the hit.       *)
(*                                                                         *)
(* An entry is a pointer in the code.  A request fills the cache at most   *)
(* once, so the request that made an entry identifies it.                  *)
(***************************************************************************)
EXTENDS FiniteSets, Integers

CONSTANTS
  Adapters, ListMethods,
  Params, NoParams,      \* what a list request may ask for, NoParams among them
  Requests,
  MaxEntries,            \* CacheConfig.MaxEntries
  None

ASSUME CacheAssumption ==
  /\ MaxEntries \in Nat \ {0}
  /\ NoParams \in Params
  /\ None \notin Adapters \cup ListMethods \cup Params \cup Requests

VARIABLE cache           \* cache[k]: the entry under k, or None

(***************************************************************************)
(* generateCacheKey hashes adapter, method and parameters; keys are told   *)
(* apart by what is hashed.                                                *)
(***************************************************************************)
Keys == Adapters \X ListMethods \X Params

(* Variant: the adapter's name is left out of the hash. *)
KeyOfMethod(a, m, p) == <<CHOOSE x \in Adapters : TRUE, m, p>>

Key(a, m, p) == <<a, m, p>>

Cached == {k \in Keys : cache[k] # None}

CacheInit == cache = [k \in Keys |-> None]

NewEntry(data, r) == [data |-> data, by |-> r, hits |-> 0, expired |-> FALSE]

IsValid(e) == e # None /\ (e # None => ~e.expired)

(***************************************************************************)
(* The second half of Get: the entry that was read is counted a hit, in    *)
(* the map or, if it has left the map since, nowhere that matters.         *)
(***************************************************************************)
CountHit(k, e) ==
  cache' = IF cache[k] # None /\ (cache[k] # None => cache[k].by = e.by)
             THEN [cache EXCEPT ![k].hits = @ + 1]
             ELSE cache

(***************************************************************************)
(* evictLRU takes an entry with the fewest hits, whichever of them the     *)
(* iteration over the map meets first.                                     *)
(***************************************************************************)
LeastHit == {k \in Cached : \A j \in Cached : cache[k].hits <= cache[j].hits}

(***************************************************************************)
(* Set makes room first, even when the key is in the map already.          *)
(***************************************************************************)
(* Variant: room is made one entry too late. *)
SetLate(k, data, r) ==
  IF Cardinality(Cached) > MaxEntries
    THEN \E victim \in LeastHit :
           cache' = [cache EXCEPT ![victim] = None, ![k] = NewEntry(data, r)]
    ELSE cache' = [cache EXCEPT ![k] = NewEntry(data, r)]

Set(k, data, r) ==
  IF Cardinality(Cached) >= MaxEntries
    THEN \E victim \in LeastHit :
           cache' = [cache EXCEPT ![victim] = None, ![k] = NewEntry(data, r)]
    ELSE cache' = [cache EXCEPT ![k] = NewEntry(data, r)]

(***************************************************************************)
(* The keys Invalidate takes for an adapter and a method, None being the   *)
(* empty string.  Keys are hashes: with both given the key without         *)
(* parameters matches and no other; an adapter alone is compared with the  *)
(* hash for a method "test", which is no list method; a method alone       *)
(* compares what follows the hash, and nothing does.                       *)
(***************************************************************************)
(* Variant: invalidation looks for the method of another list. *)
MatchingOther(a, m) == {Key(a, n, NoParams) : n \in ListMethods \ {m}}

Matching(a, m) ==
  CASE a # None /\ m # None -> {Key(a, m, NoParams)}
    [] a # None /\ m = None -> {}
    [] a = None /\ m # None -> Keys
    [] OTHER -> {}

Invalidate(a, m) ==
  cache' = [k \in Keys |-> IF k \in Matching(a, m) THEN None ELSE cache[k]]

(* An entry outlives the TTL of its method. *)
Expire(k) ==
  /\ IsValid(cache[k])
  /\ cache' = [cache EXCEPT ![k].expired = TRUE]

(* The ticker of cleanupRoutine. *)
Cleanup ==
  /\ \E k \in Cached : cache[k].expired
  /\ cache' = [k \in Keys |-> IF IsValid(cache[k]) THEN cache[k] ELSE None]
=============================================================================
