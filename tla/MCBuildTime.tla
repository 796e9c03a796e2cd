---------------------------- MODULE MCBuildTime ----------------------------
(* BuildTime instantiated for TLC. *)
EXTENDS BuildTime, TLC

Symmetric == Permutations(Requests) \cup Permutations(Apps) \cup Permutations(Builds)
=============================================================================
