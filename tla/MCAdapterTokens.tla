--------------------------- MODULE MCAdapterTokens ---------------------------
(* An instance of AdapterTokens for TLC. *)
EXTENDS AdapterTokens, TLC

CONSTANTS r1, r2, r3, a1, a2, o1, o2, o3, o4

Symmetry == Permutations(Handlers) \cup Permutations(Objects) \cup Permutations(Adapters)
=============================================================================
