-------------------------- MODULE MCDeviceUpdates --------------------------
(* DeviceUpdates instantiated for TLC. *)
EXTENDS DeviceUpdates, TLC

Symmetric == Permutations(Admins) \cup Permutations(Flows)

Upload(v, sum) == [version |-> v, sum |-> sum, min |-> NoVersion]

OneBundleEach == {Upload(1, "a"), Upload(2, "b")}

\* Version 2 asks for version 1.
Gated == {Upload(1, "a"), [Upload(2, "b") EXCEPT !.min = 1]}
=============================================================================
