------------------------- MODULE MCChannelOverrides -------------------------
(* ChannelOverrides instantiated for TLC. *)
EXTENDS ChannelOverrides, TLC

RequestSymmetry == Permutations(Requests)

\* The last version whose overrides are kept in KV, the first one whose are
\* not, and a body without a version.
MCPluginVersions == {<<7, 33, 9>>, <<7, 34, 0>>, NoVersion}

\* One version whose overrides are kept in KV and a body without a version:
\* without unassignments the versions above the limit act as the latter.
KvAndNone == {<<7, 33, 9>>, NoVersion}

Open   == [public |-> TRUE, selfSet |-> TRUE, supported |-> TRUE]
Closed == [public |-> FALSE, selfSet |-> FALSE, supported |-> TRUE]

MCChannelInputs == {Open, Closed}

OpenOnly == {Open}

\* What OverrideRequests tells states apart by: everything but the history of
\* choices, which no guard and none of its properties reads, and the version on
\* record, which only the routes this run leaves out read or drop.
ListedAndServed ==
  <<catalog, assigned, kv, plugin, req, outdated, stranded, orphaned, answer>>
=============================================================================
