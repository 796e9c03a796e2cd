------------------------------ MODULE Catalog ------------------------------
(***************************************************************************)
(* What the release storage of one application promises its readers: a     *)
(* catalogue of releases that changes by whole operations only.  A release *)
(* is published or replaced under one key, and a deletion retracts         *)
(* everything it names in a single step: one version on every platform and *)
(* channel, one channel, or the whole application.  ReleaseStore, where    *)
(* each operation is several database statements and object-store calls of *)
(* concurrent requests, is shown to implement this module.                 *)
(***************************************************************************)
CONSTANTS
  Platforms,  \* platforms a bundle can be built for
  Channels,   \* channel names
  Versions,   \* release versions
  Contents,   \* uploads: bytes together with the checksum claimed for them
  NoContent   \* no release under this key

VARIABLE rows  \* the published upload of every key, or NoContent

Keys == [platform : Platforms, channel : Channels, version : Versions]

\* The sets of keys one deletion can name.
VersionKeys(v) == {k \in Keys : k.version = v}
ChannelKeys(c) == {k \in Keys : k.channel = c}

Init == rows = [k \in Keys |-> NoContent]

Publish(k, x) == rows' = [rows EXCEPT ![k] = x]

Retract(S) == rows' = [k \in Keys |-> IF k \in S THEN NoContent ELSE rows[k]]

Next ==
  \/ \E k \in Keys, x \in Contents : Publish(k, x)
  \/ \E v \in Versions : Retract(VersionKeys(v))
  \/ \E c \in Channels : Retract(ChannelKeys(c))
  \/ Retract(Keys)

Spec == Init /\ [][Next]_rows
=============================================================================
