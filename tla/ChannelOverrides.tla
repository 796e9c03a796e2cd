-------------------------- MODULE ChannelOverrides --------------------------
(***************************************************************************)
(* Which channel a device is served from.  A device can be assigned to a   *)
(* channel in two places: the D1 table device_channels and, for old        *)
(* versions of the updater plugin, the KV namespace CHANNEL_SELF_STORE     *)
(* (channel-self-store.ts).  Devices set and unset their own channel with  *)
(* /channel_self, administrators do it with /device, and the update        *)
(* handler reads both stores, then the channel's settings.                 *)
(*                                                                         *)
(* As in ReleaseStore, a request is a Worker invocation whose database and *)
(* KV calls are awaited one by one and interleave with those of others.    *)
(* listChannels is two queries, for the settings and for the releases, and *)
(* what it answers may be true at neither of them.  The application exists *)
(* throughout, although POST /v1/apps may create it once more.             *)
(***************************************************************************)
EXTENDS Integers

CONSTANTS
  Requests,        \* concurrent Worker invocations
  Devices,         \* device ids
  Channels,        \* channel names
  Production,      \* the channel a device without any other choice asks for
  PluginVersions,  \* versions of the updater plugin: triples, or NoVersion
  ChannelInputs,   \* settings POST /channel leaves a channel with
  Routes,          \* the operations in use
  NoVersion,       \* no plugin version, or one that cannot be parsed
  NoRow,           \* no channel row under this name
  NoChannel,       \* no assignment
  NoDevice         \* the request is about no device

AllRoutes == {"setSelf", "unsetSelf", "link", "unlink", "update",
              "postChannel", "deleteChannel", "upload", "deleteBundle", "createApp", "upgrade"}

\* public and allow_self_set, and whether the flag of the devices' platform is
\* anything but 0.
Settings == [public : BOOLEAN, selfSet : BOOLEAN, supported : BOOLEAN]

ASSUME OverrideAssumption ==
  /\ Production \in Channels
  /\ NoChannel \notin Channels
  /\ NoDevice \notin Devices
  /\ NoRow \notin Settings
  /\ NoVersion \in PluginVersions
  /\ PluginVersions \ {NoVersion} \subseteq Nat \X Nat \X Nat
  /\ ChannelInputs \subseteq Settings
  /\ Routes \subseteq AllRoutes

VARIABLES
  rows,       \* the channels table
  released,   \* the channels with a release for the devices' platform
  assigned,   \* device_channels
  kv,         \* CHANNEL_SELF_STORE
  plugin,     \* the plugin version inside each device's application
  recorded,   \* devices.plugin_version, or NoDevice when there is no row
  req,        \* the state of every request
  choice,     \* history: the channel asked for by the last assignment of each device
  unsettled,  \* history: devices whose last assignment was disturbed
  torn,       \* history: requests whose two writes another one came between
  outdated,   \* history: requests whose channel went away, or was closed, since they read it
  stranded,   \* history: devices assigned to a channel that was already gone
  orphaned,   \* history: channels that went away without their assignments
  closed,     \* history: channels an administrator last made private and closed
  reopened,   \* history: closed channels whose settings something else has rewritten since
  answer      \* the channel of each device's last update check, and how it was chosen

stores == <<assigned, kv, recorded>>
catalog == <<rows, released, closed, reopened>>
history == <<choice, unsettled, torn, outdated, stranded, orphaned>>
vars == <<catalog, stores, plugin, req, history, answer>>

Steps == {"idle",
          "setRecord", "setList", "setCheck", "setWrite",
          "unsetRecord", "unsetKv", "unsetRow",
          "linkCheck", "linkRecord", "linkRow", "linkRead", "linkKv",
          "unlinkKv", "unlinkRow", "unlinkDevice",
          "updateRecord", "explicitRecord", "updateKv", "updateRow", "updateList", "updateCheck",
          "deleteCheck", "dropChannel", "dropReleases", "clearAssigned",
          "uploadChannel", "uploadRelease"}

RequestStates ==
  [step    : Steps,
   device  : Devices \cup {NoDevice},
   channel : Channels \cup {NoChannel},
   version : PluginVersions,             \* the plugin version the body claims
   fromKv  : Channels \cup {NoChannel},  \* what an update check read in KV
   found   : Settings \cup {NoRow},      \* the row listChannels read of the channel
   forced  : BOOLEAN]                    \* deviceOverride

Idle == [step |-> "idle", device |-> NoDevice, channel |-> NoChannel,
         version |-> NoVersion, fromKv |-> NoChannel, found |-> NoRow, forced |-> FALSE]

At(r, step) == req[r].step = step
Become(r, state) == req' = [req EXCEPT ![r] = state]
Goto(r, step) == Become(r, [req[r] EXCEPT !.step = step])
Finish(r) == Become(r, Idle)
Begin(r, step, d, c, v) ==
  /\ At(r, "idle")
  /\ Become(r, [Idle EXCEPT !.step = step, !.device = d, !.channel = c, !.version = v])

\* The request begins with the first query of listChannels.
BeginListing(r, step, d, c, v) ==
  /\ At(r, "idle")
  /\ Become(r, [Idle EXCEPT !.step = step, !.device = d, !.channel = c, !.version = v,
                            !.found = rows[c]])

\* The channel the request has listed will do.
Accept(r, step) ==
  /\ Become(r, [req[r] EXCEPT !.step = step, !.found = NoRow])
  /\ UNCHANGED outdated

\* It will not, and the request answers so.
Refuse(r) == Finish(r) /\ outdated' = outdated \ {r}

-----------------------------------------------------------------------------
(* The plugin versions whose overrides are kept in KV *)

\* shouldSyncChannelSelfOverrideForPluginVersion
Syncs(v) ==
  /\ v # NoVersion
  /\ \/ v = <<0, 0, 0>>
     \/ v[1] \in 5 .. 7 /\ v[2] < 34

\* As if an override were deleted only for the versions it is written for.
PurgesSynced(v) == Syncs(v)

\* shouldDeleteChannelSelfOverrideForPluginVersion
Purges(v) == v = NoVersion \/ Syncs(v)

-----------------------------------------------------------------------------
(* Channels *)

\* releaseChannels: what a channel that only has releases is taken for.
ImpliedSettings(c) == [public |-> c = Production, selfSet |-> TRUE, supported |-> TRUE]

\* As if the channel of an upload were stored without its visibility.
UnsetSettings(c) == [ImpliedSettings(c) EXCEPT !.public = NoChannel]

\* createRelease upserts its channel with these before it stores the bundle.
UploadSettings(c) == ImpliedSettings(c)

\* createApp upserts the production channel with these.
AppSettings == [public |-> TRUE, selfSet |-> TRUE, supported |-> TRUE]

\* The second query of listChannels, and mergeChannels, after the first one
\* found that row of channel c.
Listed(found, c) == found # NoRow \/ c \in released
SettingsOf(found, c) == IF found # NoRow THEN found ELSE ImpliedSettings(c)

\* What the two queries would agree on now.
Exists(c) == Listed(rows[c], c)

\* As if a private channel were always open to self-assignment.
ServableToAll(found, c, forced) == Listed(found, c) /\ SettingsOf(found, c).supported

\* validateUpdateChannel
Servable(found, c, forced) ==
  /\ Listed(found, c)
  /\ SettingsOf(found, c).supported
  /\ forced \/ SettingsOf(found, c).public \/ SettingsOf(found, c).selfSet

-----------------------------------------------------------------------------
(* Assignments *)

\* As if the table were asked before the KV store.
RowFirst(v, fromKv, row) ==
  IF row # NoChannel THEN row ELSE IF Syncs(v) THEN fromKv ELSE NoChannel

\* resolveUpdateChannel after an explicit channel: KV when the plugin version
\* keeps its overrides there, then device_channels.
Override(v, fromKv, row) == IF Syncs(v) /\ fromKv # NoChannel THEN fromKv ELSE row

\* What the device would be resolved to now, by its own plugin version.
Resolved(d) == Override(plugin[d], kv[d], assigned[d])

\* The requests between the two writes of an assignment of d.
Midway(d) ==
  {r \in Requests : /\ req[r].device = d
                    /\ \/ /\ req[r].step \in {"linkRead", "linkKv"}
                          /\ Syncs(req[r].version)
                       \/ /\ req[r].step \in {"unsetRow", "unlinkRow"}
                          /\ Purges(req[r].version)}

\* r writes one of d's stores before its last write.
FirstWrite(r, d) ==
  /\ torn' = torn \cup (Midway(d) \ {r})
  /\ UNCHANGED <<choice, unsettled>>

\* r completes the assignment of d to c; routed says whether the version it
\* used reaches the store the device's own version is read from.
LastWrite(r, d, c, routed) ==
  /\ choice' = [choice EXCEPT ![d] = c]
  /\ unsettled' = IF r \in torn \/ ~routed \/ Midway(d) \ {r} # {}
                  THEN unsettled \cup {d} ELSE unsettled \ {d}
  /\ torn' = (torn \cup Midway(d)) \ {r}

\* setDeviceChannel; r may have checked a channel that has gone since.
SetDeviceChannel(r, d, c) ==
  /\ assigned' = [assigned EXCEPT ![d] = c]
  /\ stranded' = IF r \in outdated THEN stranded \cup {d} ELSE stranded \ {d}
  /\ outdated' = outdated \ {r}

\* clearDeviceChannel
ClearDeviceChannel(d) ==
  /\ assigned' = [assigned EXCEPT ![d] = NoChannel]
  /\ stranded' = stranded \ {d}

\* upsertDevice, before it assigns a channel.
RecordDevice(r) == recorded' = [recorded EXCEPT ![req[r].device] = req[r].version]

Init ==
  /\ rows = [c \in Channels |-> NoRow]
  /\ released = {}
  /\ assigned = [d \in Devices |-> NoChannel]
  /\ kv = [d \in Devices |-> NoChannel]
  /\ plugin \in [Devices -> PluginVersions]
  /\ recorded = [d \in Devices |-> NoDevice]
  /\ req = [r \in Requests |-> Idle]
  /\ choice = [d \in Devices |-> NoChannel]
  /\ unsettled = {}
  /\ torn = {}
  /\ outdated = {}
  /\ stranded = {}
  /\ orphaned = {}
  /\ closed = {}
  /\ reopened = {}
  /\ answer = [d \in Devices |-> [channel |-> NoChannel, forced |-> FALSE]]

-----------------------------------------------------------------------------
(* /channel_self *)

StartSetSelf(r) ==
  /\ "setSelf" \in Routes
  /\ \E d \in Devices, c \in Channels : Begin(r, "setRecord", d, c, plugin[d])
  /\ UNCHANGED <<catalog, stores, plugin, history, answer>>

SetRecord(r) ==
  /\ At(r, "setRecord")
  /\ RecordDevice(r)
  /\ Goto(r, "setList")
  /\ UNCHANGED <<catalog, assigned, kv, plugin, history, answer>>

\* The first query of listChannels, for an assignment or for an update check.
ListRows(r) ==
  /\ req[r].step \in {"setList", "updateList"}
  /\ Become(r, [req[r] EXCEPT !.step = IF At(r, "setList") THEN "setCheck" ELSE "updateCheck",
                              !.found = rows[req[r].channel]])
  /\ UNCHANGED <<catalog, stores, plugin, history, answer>>

SetCheck(r) ==
  LET c     == req[r].channel
      found == req[r].found
  IN
  /\ At(r, "setCheck")
  /\ IF Listed(found, c) /\ SettingsOf(found, c).selfSet
     THEN Accept(r, "setWrite") ELSE Refuse(r)
  /\ UNCHANGED <<catalog, stores, plugin, choice, unsettled, torn, stranded, orphaned, answer>>

\* The override goes to KV, or to the table when it does not belong there.
SetWrite(r) ==
  LET d == req[r].device
      c == req[r].channel
      v == req[r].version
  IN
  /\ At(r, "setWrite")
  /\ IF Syncs(v)
     THEN /\ kv' = [kv EXCEPT ![d] = c]
          /\ outdated' = outdated \ {r}
          /\ UNCHANGED <<assigned, stranded>>
     ELSE /\ SetDeviceChannel(r, d, c)
          /\ UNCHANGED kv
  /\ LastWrite(r, d, c, Syncs(v) = Syncs(plugin[d]))
  /\ Finish(r)
  /\ UNCHANGED <<catalog, recorded, plugin, orphaned, answer>>

StartUnsetSelf(r) ==
  /\ "unsetSelf" \in Routes
  /\ \E d \in Devices : Begin(r, "unsetRecord", d, NoChannel, plugin[d])
  /\ UNCHANGED <<catalog, stores, plugin, history, answer>>

UnsetRecord(r) ==
  /\ At(r, "unsetRecord")
  /\ RecordDevice(r)
  /\ Goto(r, IF Purges(req[r].version) THEN "unsetKv" ELSE "unsetRow")
  /\ UNCHANGED <<catalog, assigned, kv, plugin, history, answer>>

-----------------------------------------------------------------------------
(* POST /device and DELETE /device *)

\* The channel must be listed before the device is written.
StartLink(r) ==
  /\ "link" \in Routes
  /\ \E d \in Devices, c \in Channels, v \in PluginVersions :
       BeginListing(r, "linkCheck", d, c, v)
  /\ UNCHANGED <<catalog, stores, plugin, history, answer>>

LinkCheck(r) ==
  /\ At(r, "linkCheck")
  /\ IF Listed(req[r].found, req[r].channel) THEN Accept(r, "linkRecord") ELSE Refuse(r)
  /\ UNCHANGED <<catalog, stores, plugin, choice, unsettled, torn, stranded, orphaned, answer>>

LinkRecord(r) ==
  /\ At(r, "linkRecord")
  /\ RecordDevice(r)
  /\ Goto(r, "linkRow")
  /\ UNCHANGED <<catalog, assigned, kv, plugin, history, answer>>

LinkRow(r) ==
  LET d == req[r].device
      c == req[r].channel
      v == req[r].version
  IN
  /\ At(r, "linkRow")
  /\ SetDeviceChannel(r, d, c)
  /\ IF Syncs(v) THEN FirstWrite(r, d) ELSE LastWrite(r, d, c, ~Syncs(plugin[d]))
  /\ Goto(r, "linkRead")
  /\ UNCHANGED <<catalog, kv, recorded, plugin, orphaned, answer>>

\* upsertDevice reads the row back, and throws when it is gone.
LinkRead(r) ==
  LET d == req[r].device IN
  /\ At(r, "linkRead")
  /\ IF recorded[d] # NoDevice /\ Syncs(req[r].version)
     THEN Goto(r, "linkKv") /\ UNCHANGED <<unsettled, torn>>
     ELSE /\ Finish(r)
          /\ unsettled' = IF r \in Midway(d) THEN unsettled \cup {d} ELSE unsettled
          /\ torn' = torn \ {r}
  /\ UNCHANGED <<catalog, stores, plugin, choice, outdated, stranded, orphaned, answer>>

LinkKv(r) ==
  LET d == req[r].device
      c == req[r].channel
  IN
  /\ At(r, "linkKv")
  /\ kv' = [kv EXCEPT ![d] = c]
  /\ LastWrite(r, d, c, TRUE)
  /\ Finish(r)
  /\ UNCHANGED <<catalog, assigned, recorded, plugin, outdated, stranded, orphaned, answer>>

\* What is on record of d's plugin version.
Known(d) == IF recorded[d] = NoDevice THEN NoVersion ELSE recorded[d]

\* The version of the body, or the one on record when the body has none: one
\* that cannot be parsed stands for itself.
StartUnlink(r) ==
  /\ "unlink" \in Routes
  /\ \E d \in Devices : \E v \in PluginVersions \cup {Known(d)} :
       Begin(r, IF Purges(v) THEN "unlinkKv" ELSE "unlinkRow", d, NoChannel, v)
  /\ UNCHANGED <<catalog, stores, plugin, history, answer>>

\* deleteLegacyChannelSelfOverride, for the device or for an administrator.
PurgeKv(r) ==
  LET d == req[r].device IN
  /\ req[r].step \in {"unsetKv", "unlinkKv"}
  /\ kv' = [kv EXCEPT ![d] = NoChannel]
  /\ FirstWrite(r, d)
  /\ Goto(r, IF At(r, "unsetKv") THEN "unsetRow" ELSE "unlinkRow")
  /\ UNCHANGED <<catalog, assigned, recorded, plugin, outdated, stranded, orphaned, answer>>

PurgeRow(r) ==
  LET d == req[r].device IN
  /\ req[r].step \in {"unsetRow", "unlinkRow"}
  /\ ClearDeviceChannel(d)
  /\ LastWrite(r, d, NoChannel,
               Syncs(plugin[d]) => Syncs(req[r].version) \/ req[r].version = NoVersion)
  /\ IF At(r, "unsetRow") THEN Finish(r) ELSE Goto(r, "unlinkDevice")
  /\ UNCHANGED <<catalog, kv, recorded, plugin, outdated, orphaned, answer>>

UnlinkDevice(r) ==
  /\ At(r, "unlinkDevice")
  /\ recorded' = [recorded EXCEPT ![req[r].device] = NoDevice]
  /\ Finish(r)
  /\ UNCHANGED <<catalog, assigned, kv, plugin, history, answer>>

-----------------------------------------------------------------------------
(* POST /updates, up to the choice of the channel *)

\* The body names a channel, or a default channel that an override precedes.
StartUpdate(r) ==
  /\ "update" \in Routes
  /\ \E d \in Devices, c \in Channels, step \in {"updateRecord", "explicitRecord"} :
       Begin(r, step, d, c, plugin[d])
  /\ UNCHANGED <<catalog, stores, plugin, history, answer>>

UpdateRecord(r) ==
  /\ req[r].step \in {"updateRecord", "explicitRecord"}
  /\ RecordDevice(r)
  /\ Goto(r, IF At(r, "explicitRecord") THEN "updateList" ELSE "updateKv")
  /\ UNCHANGED <<catalog, assigned, kv, plugin, history, answer>>

\* readLegacyChannelSelfOverride
UpdateKv(r) ==
  /\ At(r, "updateKv")
  /\ Become(r, [req[r] EXCEPT !.step = "updateRow", !.fromKv = kv[req[r].device]])
  /\ UNCHANGED <<catalog, stores, plugin, history, answer>>

UpdateRow(r) ==
  LET c == Override(req[r].version, req[r].fromKv, assigned[req[r].device]) IN
  /\ At(r, "updateRow")
  /\ IF c = NoChannel
     THEN Goto(r, "updateList")
     ELSE Become(r, [req[r] EXCEPT !.step = "updateList", !.channel = c, !.forced = TRUE])
  /\ UNCHANGED <<catalog, stores, plugin, history, answer>>

UpdateCheck(r) ==
  LET c == req[r].channel IN
  /\ At(r, "updateCheck")
  /\ answer' = [answer EXCEPT ![req[r].device] =
                  IF Servable(req[r].found, c, req[r].forced)
                  THEN [channel |-> c, forced |-> req[r].forced]
                  ELSE [channel |-> NoChannel, forced |-> FALSE]]
  /\ Finish(r)
  /\ outdated' = outdated \ {r}
  /\ UNCHANGED <<catalog, stores, plugin, choice, unsettled, torn, stranded, orphaned>>

-----------------------------------------------------------------------------
(* Channels and releases *)

\* The requests that have found channel c and are about to assign it.
Assigning(c) ==
  {r \in Requests : /\ req[r].channel = c
                    /\ \/ req[r].step \in {"setWrite", "linkRecord", "linkRow"}
                       \/ req[r].step \in {"setCheck", "linkCheck"} /\ req[r].found # NoRow}

\* The update checks that have read the row of channel c.
Checking(c) == {r \in Requests : At(r, "updateCheck") /\ req[r].channel = c}

\* Channel c goes away under the requests that have found it.
Outdate(c) == outdated' = outdated \cup Assigning(c)

\* upsertChannel, seen by readers of one row; the demotion of other public
\* channels is in ReleaseStore.
PostChannel ==
  /\ "postChannel" \in Routes
  /\ \E c \in Channels, s \in ChannelInputs :
       /\ rows' = [rows EXCEPT ![c] = s]
       /\ IF s.public \/ s.selfSet
          THEN closed' = closed \ {c} /\ UNCHANGED outdated
          ELSE closed' = closed \cup {c} /\ outdated' = outdated \cup Checking(c)
       /\ reopened' = reopened \ {c}
  /\ UNCHANGED <<released, stores, plugin, req, choice, unsettled, torn, stranded, orphaned, answer>>

\* POST /v1/apps does not ask whether the application exists: createApp keeps
\* it and upserts its production channel.
CreateAppAgain ==
  /\ "createApp" \in Routes
  /\ rows' = [rows EXCEPT ![Production] = AppSettings]
  /\ reopened' = reopened \cup (closed \cap {Production})
  /\ UNCHANGED <<released, closed, stores, plugin, req, history, answer>>

\* createRelease: the channel's row, then in the end its release.
StartUpload(r) ==
  /\ "upload" \in Routes
  /\ \E c \in Channels : Begin(r, "uploadChannel", NoDevice, c, NoVersion)
  /\ UNCHANGED <<catalog, stores, plugin, history, answer>>

UploadChannel(r) ==
  LET c == req[r].channel IN
  /\ At(r, "uploadChannel")
  /\ rows' = [rows EXCEPT ![c] = UploadSettings(c)]
  /\ reopened' = reopened \cup (closed \cap {c})
  /\ Goto(r, "uploadRelease")
  /\ UNCHANGED <<released, closed, stores, plugin, history, answer>>

UploadRelease(r) ==
  /\ At(r, "uploadRelease")
  /\ released' = released \cup {req[r].channel}
  /\ Finish(r)
  /\ UNCHANGED <<rows, closed, reopened, stores, plugin, history, answer>>

\* deleteReleases takes the last release of a channel.
DeleteBundle ==
  /\ "deleteBundle" \in Routes
  /\ \E c \in released :
       /\ released' = released \ {c}
       /\ IF rows[c] = NoRow
          THEN Outdate(c) /\ orphaned' = orphaned \cup {c}
          ELSE UNCHANGED <<outdated, orphaned>>
  /\ UNCHANGED <<rows, closed, reopened, stores, plugin, req, choice, unsettled, torn, stranded, answer>>

StartDeleteChannel(r) ==
  /\ "deleteChannel" \in Routes
  /\ \E c \in Channels : BeginListing(r, "deleteCheck", NoDevice, c, NoVersion)
  /\ UNCHANGED <<catalog, stores, plugin, history, answer>>

DeleteCheck(r) ==
  /\ At(r, "deleteCheck")
  /\ IF Listed(req[r].found, req[r].channel) THEN Accept(r, "dropChannel") ELSE Refuse(r)
  /\ UNCHANGED <<catalog, stores, plugin, choice, unsettled, torn, stranded, orphaned, answer>>

DropChannel(r) ==
  LET c == req[r].channel IN
  /\ At(r, "dropChannel")
  /\ rows' = [rows EXCEPT ![c] = NoRow]
  /\ closed' = closed \ {c}
  /\ reopened' = reopened \ {c}
  /\ IF c \in released THEN UNCHANGED outdated ELSE Outdate(c)
  /\ Goto(r, "dropReleases")
  /\ UNCHANGED <<released, stores, plugin, choice, unsettled, torn, stranded, orphaned, answer>>

DropReleases(r) ==
  LET c == req[r].channel IN
  /\ At(r, "dropReleases")
  /\ released' = released \ {c}
  /\ IF rows[c] = NoRow THEN Outdate(c) ELSE UNCHANGED outdated
  /\ Goto(r, "clearAssigned")
  /\ UNCHANGED <<rows, closed, reopened, stores, plugin, choice, unsettled, torn, stranded, orphaned, answer>>

\* As if the assignments were left in place.
NoneAssigned(c) == {}

\* The devices whose row names c.
AssignedTo(c) == {d \in Devices : assigned[d] = c}

\* The last statement of deleteChannel; KV is left alone.
ClearAssigned(r) ==
  LET c       == req[r].channel
      cleared == AssignedTo(c)
  IN
  /\ At(r, "clearAssigned")
  /\ assigned' = [d \in Devices |-> IF d \in cleared THEN NoChannel ELSE assigned[d]]
  /\ stranded' = stranded \ cleared
  /\ orphaned' = orphaned \ {c}
  /\ unsettled' = unsettled \cup {d \in cleared : choice[d] = c}
  /\ torn' = torn \cup UNION {Midway(d) : d \in cleared}
  /\ Finish(r)
  /\ UNCHANGED <<catalog, kv, recorded, plugin, choice, outdated, answer>>

\* The application on a device is replaced by one with another plugin.
Upgrade(d) ==
  /\ "upgrade" \in Routes
  /\ \E v \in PluginVersions \ {plugin[d]} :
       /\ plugin' = [plugin EXCEPT ![d] = v]
       /\ unsettled' = IF Syncs(v) = Syncs(plugin[d]) THEN unsettled ELSE unsettled \cup {d}
  /\ UNCHANGED <<catalog, stores, req, choice, torn, outdated, stranded, orphaned, answer>>

\* The isolate is evicted, or the next statement or KV call throws.
Interrupt(r) ==
  /\ ~At(r, "idle")
  /\ unsettled' = unsettled \cup {d \in Devices : r \in Midway(d)}
  /\ orphaned' = IF req[r].step \in {"dropReleases", "clearAssigned"}
                 THEN orphaned \cup {req[r].channel} ELSE orphaned
  /\ torn' = torn \ {r}
  /\ outdated' = outdated \ {r}
  /\ Finish(r)
  /\ UNCHANGED <<catalog, stores, plugin, choice, stranded, answer>>

Step(r) ==
  \/ StartSetSelf(r) \/ SetRecord(r) \/ ListRows(r) \/ SetCheck(r) \/ SetWrite(r)
  \/ StartUnsetSelf(r) \/ UnsetRecord(r) \/ PurgeKv(r) \/ PurgeRow(r)
  \/ StartLink(r) \/ LinkCheck(r) \/ LinkRecord(r) \/ LinkRow(r) \/ LinkRead(r) \/ LinkKv(r)
  \/ StartUnlink(r) \/ UnlinkDevice(r)
  \/ StartUpdate(r) \/ UpdateRecord(r) \/ UpdateKv(r) \/ UpdateRow(r) \/ UpdateCheck(r)
  \/ StartUpload(r) \/ UploadChannel(r) \/ UploadRelease(r)
  \/ StartDeleteChannel(r) \/ DeleteCheck(r) \/ DropChannel(r) \/ DropReleases(r) \/ ClearAssigned(r)
  \/ Interrupt(r)

Next ==
  \/ PostChannel \/ CreateAppAgain \/ DeleteBundle
  \/ \E d \in Devices : Upgrade(d)
  \/ \E r \in Requests : Step(r)

Spec == Init /\ [][Next]_vars

-----------------------------------------------------------------------------
(* Properties *)

TypeOK ==
  /\ rows \in [Channels -> Settings \cup {NoRow}]
  /\ released \subseteq Channels
  /\ assigned \in [Devices -> Channels \cup {NoChannel}]
  /\ kv \in [Devices -> Channels \cup {NoChannel}]
  /\ plugin \in [Devices -> PluginVersions]
  /\ recorded \in [Devices -> PluginVersions \cup {NoDevice}]
  /\ req \in [Requests -> RequestStates]
  /\ choice \in [Devices -> Channels \cup {NoChannel}]
  /\ unsettled \subseteq Devices /\ stranded \subseteq Devices
  /\ torn \subseteq Requests /\ outdated \subseteq Requests
  /\ orphaned \subseteq Channels
  /\ closed \subseteq Channels /\ reopened \subseteq closed
  /\ answer \in [Devices -> [channel : Channels \cup {NoChannel}, forced : BOOLEAN]]

\* Two stores answer for one device, yet the channel it is resolved to is the
\* one it was last assigned to, by itself or by an administrator.  Exceptions:
\* assignments that overlapped, stopped between their two writes or lost their
\* channel, calls made for a plugin version of the other kind, and an upgrade
\* of the plugin across that line (channel-self-store.ts, resolveUpdateChannel).
LastChoiceResolved ==
  \A d \in Devices \ unsettled : Midway(d) = {} => Resolved(d) = choice[d]

\* Deleting a channel takes its devices' assignments with it: a table row that
\* names a channel nobody can list was written by a request that had looked the
\* channel up before it went, or belongs to a deletion that is under way or
\* stopped half way (deleteChannel, channelSelf and POST /device).
AssignedChannelsListed ==
  \A d \in Devices :
    assigned[d] # NoChannel /\ ~Exists(assigned[d]) =>
      \/ d \in stranded
      \/ assigned[d] \in orphaned
      \/ \E r \in Requests : /\ req[r].step \in {"dropReleases", "clearAssigned"}
                             /\ req[r].channel = assigned[d]

\* A channel an administrator made private and closed is served only to devices
\* assigned to it (validateUpdateChannel), until an upload to it or a repeated
\* POST /v1/apps writes its open settings again.  One exception: an update check
\* that had read the channel's row when it was closed answers by what it read.
ClosedUntilRewritten ==
  [][\A d \in Devices :
       answer'[d] # answer[d] /\ answer'[d].channel \in closed \ reopened =>
         \/ answer'[d].forced
         \/ \E r \in outdated : req[r].device = d /\ At(r, "updateCheck") /\ req'[r] # req[r]]_vars
=============================================================================
