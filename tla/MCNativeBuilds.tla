--------------------------- MODULE MCNativeBuilds ---------------------------
(* NativeBuilds instantiated for TLC. *)
EXTENDS NativeBuilds
=============================================================================
