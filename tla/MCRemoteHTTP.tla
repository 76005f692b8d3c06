---------------------------- MODULE MCRemoteHTTP ----------------------------
(* An instance of RemoteHTTP for TLC. *)
EXTENDS RemoteHTTP, TLC

CONSTANTS r1, r2, r3, s1, s2, a1, a2, i1, i2

(***************************************************************************)
(* Bound: nothing tells sessions, adapters or ids from one another, so     *)
(* call the session of the first request s1, its id, if it has one, i1,    *)
(* and the adapter of s1 a1: any other behaviour is one of these renamed.  *)
(***************************************************************************)
FirstNames ==
  /\ job[r1] # None => job[r1].session = s1 /\ job[r1].id # i2
  /\ remote[s1] # a2
============================================================================
