--------------------------- MODULE MCReleaseStore ---------------------------
(* ReleaseStore instantiated for TLC. *)
EXTENDS ReleaseStore, TLC

MCTargets == {"ios", "android", "electron"}

RequestSymmetry == Permutations(Requests)

StoreSymmetry == Permutations(Requests) \cup Permutations(Contents)

Flags(ios, android, electron) ==
  [t \in MCTargets |-> CASE t = "ios" -> ios [] t = "android" -> android
                         [] t = "electron" -> electron]

\* A channel for one mobile platform, a channel for both (its electron flag
\* is then left unset), a private channel, and a body without any setting.
MCChannelInputs ==
  {[public |-> "on",    selfSet |-> "unset", flags |-> Flags("on", "off", "off")],
   [public |-> "on",    selfSet |-> "unset", flags |-> Flags("on", "on", "unset")],
   [public |-> "off",   selfSet |-> "off",   flags |-> Flags("on", "unset", "unset")],
   [public |-> "unset", selfSet |-> "unset", flags |-> Flags("unset", "unset", "unset")]}

NoInputs == {}
=============================================================================
