----------------------------- MODULE MCApiKeys -----------------------------
(* ApiKeys instantiated for TLC. *)
EXTENDS ApiKeys, TLC

RequestSymmetry == Permutations(Requests)
=============================================================================
