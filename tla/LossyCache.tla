----------------------------- MODULE LossyCache -----------------------------
(***************************************************************************)
(* What a cache promises: a reader gets what is held under its key at the  *)
(* time, or nothing; nothing is held that was not put there under that     *)
(* very key; a cache may lose anything at any time, but putting one value  *)
(* costs at most one other; and it never holds more than its capacity.     *)
(***************************************************************************)
EXTENDS FiniteSets, Integers

CONSTANTS Keys, Values, Readers, None, Capacity

VARIABLES
  held,   \* held[k]: the value under k, or None
  got     \* got[r]: what reader r was told, None before that or if it missed

Full == {k \in Keys : held[k] # None}

(* Nothing appears under the keys of K, and what has gone is gone. *)
OnlyLoses(K) == \A k \in K : held'[k] \in {held[k], None}

Init ==
  /\ held = [k \in Keys |-> None]
  /\ got = [r \in Readers |-> None]

Put(k, v) ==
  /\ held'[k] = v
  /\ OnlyLoses(Keys \ {k})
  /\ Cardinality({i \in Keys \ {k} : held'[i] # held[i]}) <= 1
  /\ Cardinality(Full') <= Capacity
  /\ UNCHANGED got

Lose ==
  /\ OnlyLoses(Keys)
  /\ UNCHANGED got

Read(r, k) ==
  /\ got' = [got EXCEPT ![r] = held[k]]
  /\ UNCHANGED held

Next ==
  \/ \E k \in Keys, v \in Values : Put(k, v)
  \/ Lose
  \/ \E r \in Readers, k \in Keys : Read(r, k)

Spec == Init /\ [][Next]_<<held, got>>
=============================================================================
