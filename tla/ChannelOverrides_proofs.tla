----------------------- MODULE ChannelOverrides_proofs -----------------------
(***************************************************************************)
(* For every number of requests, devices, channels and plugin versions and *)
(* every choice of routes: the types of ChannelOverrides, that a device is *)
(* resolved to the channel it was last assigned to, that assignments name  *)
(* channels that exist, and that a closed channel is served to nobody who  *)
(* is not assigned to it, outside of the exceptions each of them names.    *)
(***************************************************************************)
EXTENDS ChannelOverrides, TLAPS

AboutDevice ==
  {"setRecord", "setList", "setCheck", "setWrite", "unsetRecord", "unsetKv", "unsetRow",
   "linkCheck", "linkRecord", "linkRow", "linkRead", "linkKv", "unlinkKv", "unlinkRow", "unlinkDevice",
   "updateRecord", "explicitRecord", "updateKv", "updateRow", "updateList", "updateCheck"}

WithChannel ==
  {"setRecord", "setList", "setCheck", "setWrite",
   "linkCheck", "linkRecord", "linkRow", "linkRead", "linkKv",
   "updateRecord", "explicitRecord", "updateKv", "updateRow", "updateList", "updateCheck",
   "deleteCheck", "dropChannel", "dropReleases", "clearAssigned", "uploadChannel", "uploadRelease"}

\* What a request knows at each step.
Formed(q) ==
  /\ q.step \in AboutDevice => q.device \in Devices
  /\ q.step \in WithChannel => q.channel \in Channels
  /\ q.step \in {"unsetKv", "unlinkKv"} => Purges(q.version)
  /\ q.step \notin AboutDevice => q.device = NoDevice

Typed == TypeOK /\ \A r \in Requests : Formed(req[r])

\* A request that has found the channel it is about to assign to a device.
Found(r) ==
  \/ req[r].step \in {"setWrite", "linkRecord", "linkRow"}
  \/ req[r].step \in {"setCheck", "linkCheck"} /\ req[r].found # NoRow

\* What was found is still there, or the request is known to be out of date.
CheckHolds(r) == Found(r) => Exists(req[r].channel) \/ r \in outdated

\* c is going away with its assignments, or has gone without them.
Leaving(c) ==
  \/ c \in orphaned
  \/ \E r \in Requests : req[r].step \in {"dropReleases", "clearAssigned"} /\ req[r].channel = c

\* The table row of a device names a channel that exists.
RowHolds(d) ==
  assigned[d] # NoChannel /\ ~Exists(assigned[d]) => d \in stranded \/ Leaving(assigned[d])

ListedInv ==
  Typed /\ (\A r \in Requests : CheckHolds(r)) /\ (\A d \in Devices : RowHolds(d))

\* A row that closes its channel.
Shut(row) == row # NoRow /\ ~row.public /\ ~row.selfSet

\* An update check that has read the row of a channel that counts as closed has
\* read it closed, or is known to be out of date.
ReadHolds(r) ==
  req[r].step = "updateCheck" /\ req[r].channel \in closed \ reopened =>
    r \in outdated \/ Shut(req[r].found)

\* A channel that counts as closed has the settings that close it.
ClosedInv ==
  Typed /\ (\A c \in closed \ reopened : Shut(rows[c])) /\ (\A r \in Requests : ReadHolds(r))

\* Between its two writes, what the request wrote first is still there.
FirstHolds(r) ==
  LET d == req[r].device IN
  /\ req[r].step = "linkKv" => Syncs(req[r].version)
  /\ r \in Midway(d) /\ r \notin torn =>
       /\ req[r].step \in {"linkRead", "linkKv"} => assigned[d] = req[r].channel
       /\ req[r].step \in {"unsetRow", "unlinkRow"} => kv[d] = NoChannel

\* A device nobody is assigning resolves to what it was last assigned to.
Resolves(d) == d \notin unsettled /\ Midway(d) = {} => Resolved(d) = choice[d]

ChoiceInv ==
  Typed /\ (\A r \in Requests : FirstHolds(r)) /\ (\A d \in Devices : Resolves(d))

-----------------------------------------------------------------------------
(* Requests *)

LEMMA IdleFormed ==
  /\ Idle \in RequestStates /\ Formed(Idle) /\ Idle.step = "idle" /\ Idle.device = NoDevice
  /\ Idle.channel = NoChannel
BY OverrideAssumption DEF Idle, RequestStates, Steps, Formed, AboutDevice, WithChannel

\* A request's new state types req and leaves the others alone.
LEMMA Becoming ==
  ASSUME Typed, NEW r \in Requests, NEW s \in RequestStates, Formed(s), Become(r, s)
  PROVE  /\ req' \in [Requests -> RequestStates]
         /\ \A q \in Requests : Formed(req'[q])
         /\ \A q \in Requests \ {r} : req'[q] = req[q]
         /\ req'[r] = s
<1>1. /\ req' \in [Requests -> RequestStates] /\ req'[r] = s
      /\ \A q \in Requests \ {r} : req'[q] = req[q]
  BY DEF Become, Typed, TypeOK
<1>2. \A q \in Requests : Formed(req'[q])
  BY <1>1 DEF Typed
<1> QED BY <1>1, <1>2

LEMMA Finishing ==
  ASSUME Typed, NEW r \in Requests, Finish(r)
  PROVE  /\ req' \in [Requests -> RequestStates]
         /\ \A q \in Requests : Formed(req'[q])
         /\ \A q \in Requests \ {r} : req'[q] = req[q]
         /\ req'[r] = Idle
BY IdleFormed, Becoming DEF Finish

\* A request goes on to a step it knows enough for.
LEMMA Moving ==
  ASSUME Typed, NEW r \in Requests, NEW s \in RequestStates, Become(r, s),
         s.device = req[r].device, s.channel = req[r].channel, s.version = req[r].version,
         s.step \in AboutDevice <=> req[r].step \in AboutDevice,
         s.step \in WithChannel => req[r].step \in WithChannel,
         s.step \in {"unsetKv", "unlinkKv"} => Purges(req[r].version)
  PROVE  /\ req' \in [Requests -> RequestStates]
         /\ \A q \in Requests : Formed(req'[q])
         /\ \A q \in Requests \ {r} : req'[q] = req[q]
         /\ req'[r] = s
<1>1. Formed(req[r])
  BY DEF Typed
<1>2. Formed(s)
  BY <1>1 DEF Formed
<1> QED BY <1>2, Becoming

LEMMA Going ==
  ASSUME Typed, NEW r \in Requests, NEW step \in Steps,
         Goto(r, step) \/ Accept(r, step),
         step \in AboutDevice <=> req[r].step \in AboutDevice,
         step \in WithChannel => req[r].step \in WithChannel,
         step \in {"unsetKv", "unlinkKv"} => Purges(req[r].version)
  PROVE  /\ req' \in [Requests -> RequestStates]
         /\ \A q \in Requests : Formed(req'[q])
         /\ \A q \in Requests \ {r} : req'[q] = req[q]
         /\ req'[r].step = step /\ req'[r].device = req[r].device
         /\ req'[r].channel = req[r].channel /\ req'[r].version = req[r].version
         /\ Goto(r, step) => req'[r].found = req[r].found
<1>1. req[r] \in RequestStates
  BY DEF Typed, TypeOK
<1>2. CASE Goto(r, step)
  <2> DEFINE s == [req[r] EXCEPT !.step = step]
  <2>1. /\ s \in RequestStates /\ s.step = step /\ s.device = req[r].device
        /\ s.channel = req[r].channel /\ s.version = req[r].version /\ s.found = req[r].found
    BY <1>1 DEF RequestStates
  <2>2. Become(r, s)
    BY <1>2 DEF Goto
  <2> HIDE DEF s
  <2> QED BY <2>1, <2>2, Moving
<1>3. CASE Accept(r, step) /\ ~Goto(r, step)
  <2> DEFINE s == [req[r] EXCEPT !.step = step, !.found = NoRow]
  <2>1. /\ s \in RequestStates /\ s.step = step /\ s.device = req[r].device
        /\ s.channel = req[r].channel /\ s.version = req[r].version
    BY <1>1 DEF RequestStates
  <2>2. Become(r, s)
    BY <1>3 DEF Accept
  <2> HIDE DEF s
  <2> QED BY <1>3, <2>1, <2>2, Moving
<1> QED BY <1>2, <1>3

LEMMA Beginning ==
  ASSUME Typed, NEW r \in Requests, NEW step \in Steps,
         NEW d \in Devices \cup {NoDevice}, NEW c \in Channels \cup {NoChannel},
         NEW v \in PluginVersions, Begin(r, step, d, c, v),
         IF step \in AboutDevice THEN d \in Devices ELSE d = NoDevice,
         step \in WithChannel => c \in Channels,
         step \in {"unsetKv", "unlinkKv"} => Purges(v)
  PROVE  /\ req' \in [Requests -> RequestStates]
         /\ \A q \in Requests : Formed(req'[q])
         /\ \A q \in Requests \ {r} : req'[q] = req[q]
         /\ req'[r].step = step /\ req'[r].device = d /\ req'[r].channel = c /\ req'[r].version = v
         /\ req[r].step = "idle"
<1> DEFINE s == [Idle EXCEPT !.step = step, !.device = d, !.channel = c, !.version = v]
<1>1. /\ s \in RequestStates /\ s.step = step /\ s.device = d /\ s.channel = c /\ s.version = v
  BY OverrideAssumption DEF Idle, RequestStates
<1>2. Become(r, s) /\ req[r].step = "idle"
  BY DEF Begin, At
<1> HIDE DEF s
<1>3. Formed(s)
  BY <1>1 DEF Formed
<1> QED BY <1>1, <1>2, <1>3, Becoming

\* The same with the first query of listChannels.
LEMMA BeginningToList ==
  ASSUME Typed, NEW r \in Requests, NEW step \in {"linkCheck", "deleteCheck"},
         NEW d \in Devices \cup {NoDevice}, NEW c \in Channels,
         NEW v \in PluginVersions, BeginListing(r, step, d, c, v),
         IF step = "linkCheck" THEN d \in Devices ELSE d = NoDevice
  PROVE  /\ req' \in [Requests -> RequestStates]
         /\ \A q \in Requests : Formed(req'[q])
         /\ \A q \in Requests \ {r} : req'[q] = req[q]
         /\ req'[r].step = step /\ req'[r].channel = c /\ req'[r].found = rows[c]
         /\ req[r].step = "idle"
<1> DEFINE s == [Idle EXCEPT !.step = step, !.device = d, !.channel = c, !.version = v,
                             !.found = rows[c]]
<1>0. rows[c] \in Settings \cup {NoRow}
  BY DEF Typed, TypeOK
<1>1. /\ s \in RequestStates /\ s.step = step /\ s.device = d /\ s.channel = c /\ s.version = v
      /\ s.found = rows[c]
  BY <1>0, OverrideAssumption DEF Idle, RequestStates, Steps
<1>2. Become(r, s) /\ req[r].step = "idle"
  BY DEF BeginListing, At
<1> HIDE DEF s
<1>3. Formed(s)
  BY <1>1 DEF Formed, AboutDevice
<1> QED BY <1>1, <1>2, <1>3, Becoming

\* What a step that begins a request does, and what it leaves alone.
Starts(r) ==
  \/ StartSetSelf(r) \/ StartUnsetSelf(r) \/ StartLink(r) \/ StartUnlink(r)
  \/ StartUpdate(r) \/ StartUpload(r) \/ StartDeleteChannel(r)

LEMMA Started ==
  ASSUME Typed, NEW r \in Requests, Starts(r)
  PROVE  /\ req' \in [Requests -> RequestStates]
         /\ \A q \in Requests : Formed(req'[q])
         /\ \A q \in Requests \ {r} : req'[q] = req[q]
         /\ req[r].step = "idle"
         /\ req'[r].step \in {"setRecord", "unsetRecord", "linkCheck", "unlinkKv", "unlinkRow",
                              "updateRecord", "explicitRecord", "uploadChannel", "deleteCheck"}
         /\ req'[r].step = "linkCheck" => req'[r].found = rows[req'[r].channel]
         /\ req'[r].step = "unlinkRow" => ~Purges(req'[r].version)
         /\ UNCHANGED <<catalog, stores, plugin, history, answer>>
<1>0. plugin \in [Devices -> PluginVersions] /\ recorded \in [Devices -> PluginVersions \cup {NoDevice}]
      /\ NoVersion \in PluginVersions
  BY OverrideAssumption DEF Typed, TypeOK
<1>s. \A step \in AboutDevice \cup WithChannel : step \in Steps
  BY DEF AboutDevice, WithChannel, Steps
<1>u. UNCHANGED <<catalog, stores, plugin, history, answer>>
  BY DEF Starts, StartSetSelf, StartUnsetSelf, StartLink, StartUnlink, StartUpdate, StartUpload,
         StartDeleteChannel
<1>1. CASE StartSetSelf(r) \/ StartUpdate(r)
  <2>1. PICK step \in {"setRecord", "updateRecord", "explicitRecord"}, d \in Devices, c \in Channels :
          Begin(r, step, d, c, plugin[d])
    BY <1>1 DEF StartSetSelf, StartUpdate
  <2>2. step \in AboutDevice /\ step \in WithChannel /\ plugin[d] \in PluginVersions
    BY <1>0 DEF AboutDevice, WithChannel
  <2> QED BY <1>s, <1>u, <2>1, <2>2, Beginning
<1>2. CASE StartUnsetSelf(r)
  <2>1. PICK d \in Devices : Begin(r, "unsetRecord", d, NoChannel, plugin[d])
    BY <1>2 DEF StartUnsetSelf
  <2>2. "unsetRecord" \in AboutDevice \ WithChannel /\ plugin[d] \in PluginVersions
    BY <1>0 DEF AboutDevice, WithChannel
  <2> QED BY <1>s, <1>u, <2>1, <2>2, Beginning
<1>3. CASE StartLink(r)
  <2>1. PICK d \in Devices, c \in Channels, v \in PluginVersions :
          BeginListing(r, "linkCheck", d, c, v)
    BY <1>3 DEF StartLink
  <2> QED BY <1>u, <2>1, BeginningToList
<1>4. CASE StartUnlink(r)
  <2>1. PICK d \in Devices, v \in PluginVersions :
          Begin(r, IF Purges(v) THEN "unlinkKv" ELSE "unlinkRow", d, NoChannel, v)
    BY <1>0, <1>4 DEF StartUnlink, Known
  <2>2. {"unlinkKv", "unlinkRow"} \subseteq AboutDevice \ WithChannel
    BY DEF AboutDevice, WithChannel
  <2>3. CASE Purges(v)
    BY <1>s, <1>u, <2>1, <2>2, <2>3, Beginning
  <2>4. CASE ~Purges(v)
    BY <1>s, <1>u, <2>1, <2>2, <2>4, Beginning
  <2> QED BY <2>3, <2>4
<1>5. CASE StartUpload(r)
  <2>1. PICK c \in Channels : Begin(r, "uploadChannel", NoDevice, c, NoVersion)
    BY <1>5 DEF StartUpload
  <2>2. "uploadChannel" \in WithChannel \ AboutDevice
    BY DEF AboutDevice, WithChannel
  <2> QED BY <1>0, <1>s, <1>u, <2>1, <2>2, Beginning
<1>6. CASE StartDeleteChannel(r)
  <2>1. PICK c \in Channels : BeginListing(r, "deleteCheck", NoDevice, c, NoVersion)
    BY <1>6 DEF StartDeleteChannel
  <2> QED BY <1>0, <1>u, <2>1, BeginningToList
<1> QED BY <1>1, <1>2, <1>3, <1>4, <1>5, <1>6 DEF Starts

\* The steps that follow one another.
Follows ==
  {<<"setRecord", "setList">>, <<"setList", "setCheck">>, <<"setCheck", "setWrite">>,
   <<"unsetRecord", "unsetKv">>, <<"unsetRecord", "unsetRow">>, <<"unsetKv", "unsetRow">>,
   <<"linkCheck", "linkRecord">>, <<"linkRecord", "linkRow">>, <<"linkRow", "linkRead">>, <<"linkRead", "linkKv">>,
   <<"unlinkKv", "unlinkRow">>, <<"unlinkRow", "unlinkDevice">>,
   <<"updateRecord", "updateKv">>, <<"explicitRecord", "updateList">>,
   <<"updateKv", "updateRow">>, <<"updateRow", "updateList">>, <<"updateList", "updateCheck">>,
   <<"uploadChannel", "uploadRelease">>,
   <<"deleteCheck", "dropChannel">>, <<"dropChannel", "dropReleases">>, <<"dropReleases", "clearAssigned">>}

LEMMA FollowsKept ==
  ASSUME NEW a, NEW b, <<a, b>> \in Follows
  PROVE  /\ a # "idle" /\ a \in Steps /\ b \in Steps /\ (b \in AboutDevice <=> a \in AboutDevice)
         /\ b \in WithChannel => a \in WithChannel
BY DEF Follows, Steps, AboutDevice, WithChannel

\* A step that is not the first one of its request.
LEMMA Advanced ==
  ASSUME Typed, NEW r \in Requests, Step(r), ~Starts(r)
  PROVE  /\ req' \in [Requests -> RequestStates]
         /\ \A q \in Requests : Formed(req'[q])
         /\ \A q \in Requests \ {r} : req'[q] = req[q]
         /\ req[r].step # "idle"
         /\ \/ req'[r] = Idle
            \/ /\ <<req[r].step, req'[r].step>> \in Follows
               /\ req'[r].device = req[r].device /\ req'[r].version = req[r].version
               /\ req[r].step # "updateRow" => req'[r].channel = req[r].channel
<1>0. Formed(req[r]) /\ req[r] \in RequestStates
  BY DEF Typed, TypeOK
<1>1. CASE Finish(r) /\ req[r].step # "idle"
  BY <1>1, Finishing
<1>2. ASSUME NEW step, Goto(r, step) \/ Accept(r, step), <<req[r].step, step>> \in Follows,
             step = "unsetKv" => Purges(req[r].version)
      PROVE  /\ req' \in [Requests -> RequestStates]
             /\ \A q \in Requests : Formed(req'[q])
             /\ \A q \in Requests \ {r} : req'[q] = req[q]
             /\ req'[r].step = step /\ req[r].step # "idle"
             /\ req'[r].device = req[r].device /\ req'[r].version = req[r].version
             /\ req'[r].channel = req[r].channel
  <2>1. step # "unlinkKv"
    BY <1>2 DEF Follows
  <2> QED BY <1>2, <2>1, FollowsKept, Going
<1>3. CASE SetRecord(r) \/ UnsetRecord(r)
  <2>1. \E step : /\ Goto(r, step) /\ <<req[r].step, step>> \in Follows
                  /\ step = "unsetKv" => Purges(req[r].version)
    BY <1>3 DEF SetRecord, UnsetRecord, At, Follows
  <2> QED BY <1>1, <1>2, <2>1
<1>4. CASE PurgeKv(r) \/ PurgeRow(r) \/ LinkRecord(r) \/ LinkRow(r) \/ LinkRead(r)
  <2>1. \/ Finish(r) /\ req[r].step # "idle"
        \/ \E step : /\ Goto(r, step) /\ <<req[r].step, step>> \in Follows
                     /\ step # "unsetKv"
    BY <1>4 DEF PurgeKv, PurgeRow, LinkRecord, LinkRow, LinkRead, At, Follows
  <2> QED BY <1>1, <1>2, <2>1
<1>c. CASE SetCheck(r) \/ LinkCheck(r) \/ DeleteCheck(r)
  <2>1. \/ Finish(r) /\ req[r].step # "idle"
        \/ \E step : /\ Accept(r, step) /\ <<req[r].step, step>> \in Follows
                     /\ step # "unsetKv"
    BY <1>c DEF SetCheck, LinkCheck, DeleteCheck, Refuse, At, Follows
  <2> QED BY <1>1, <1>2, <2>1
<1>l. CASE ListRows(r)
  <2> DEFINE step == IF At(r, "setList") THEN "setCheck" ELSE "updateCheck"
             s == [req[r] EXCEPT !.step = step, !.found = rows[req[r].channel]]
  <2>1. /\ <<req[r].step, step>> \in Follows
        /\ rows[req[r].channel] \in Settings \cup {NoRow}
    BY <1>0, <1>l DEF ListRows, At, Follows, Formed, WithChannel, Typed, TypeOK
  <2>2. /\ step \in Steps /\ step \notin {"unsetKv", "unlinkKv"} /\ req[r].step # "idle"
        /\ step \in AboutDevice <=> req[r].step \in AboutDevice
        /\ step \in WithChannel => req[r].step \in WithChannel
    BY <2>1, FollowsKept
  <2>3. Become(r, s)
    BY <1>l DEF ListRows
  <2> HIDE DEF step
  <2>4. /\ s \in RequestStates /\ s.step = step /\ s.device = req[r].device
        /\ s.channel = req[r].channel /\ s.version = req[r].version
    BY <1>0, <2>1, <2>2 DEF RequestStates
  <2> HIDE DEF s
  <2> QED BY <2>1, <2>2, <2>3, <2>4, Moving
<1>5. CASE UpdateRecord(r) \/ UploadChannel(r) \/ DropChannel(r) \/ DropReleases(r)
  <2>1. \E step : /\ Goto(r, step) /\ <<req[r].step, step>> \in Follows
                  /\ step # "unsetKv"
    BY <1>5 DEF UpdateRecord, UploadChannel, DropChannel, DropReleases, At, Follows
  <2> QED BY <1>2, <2>1
<1>6. CASE SetWrite(r) \/ LinkKv(r) \/ UnlinkDevice(r) \/ UpdateCheck(r) \/ UploadRelease(r)
           \/ ClearAssigned(r) \/ Interrupt(r)
  BY <1>1, <1>6 DEF SetWrite, LinkKv, UnlinkDevice, UpdateCheck, UploadRelease, ClearAssigned,
                    Interrupt, At
<1>7. CASE UpdateKv(r)
  <2> DEFINE s == [req[r] EXCEPT !.step = "updateRow", !.fromKv = kv[req[r].device]]
  <2>1. req[r].step = "updateKv" /\ req[r].device \in Devices
        /\ kv[req[r].device] \in Channels \cup {NoChannel}
    BY <1>0, <1>7 DEF UpdateKv, At, Formed, AboutDevice, Typed, TypeOK
  <2>2. /\ s \in RequestStates /\ s.step = "updateRow" /\ s.device = req[r].device
        /\ s.channel = req[r].channel /\ s.version = req[r].version
    BY <1>0, <2>1 DEF RequestStates, Steps
  <2>3. Become(r, s)
    BY <1>7 DEF UpdateKv
  <2> HIDE DEF s
  <2>4. <<"updateKv", "updateRow">> \in Follows
    BY DEF Follows
  <2>5. Formed(s)
    BY <1>0, <2>1, <2>2, <2>4, FollowsKept DEF Formed
  <2> QED BY <2>1, <2>2, <2>3, <2>4, <2>5, Becoming
<1>8. CASE UpdateRow(r)
  <2>1. req[r].step = "updateRow" /\ req[r].device \in Devices /\ req[r].channel \in Channels
    BY <1>0, <1>8 DEF UpdateRow, At, Formed, AboutDevice, WithChannel
  <2>2. <<"updateRow", "updateList">> \in Follows
    BY DEF Follows
  <2> DEFINE c == Override(req[r].version, req[r].fromKv, assigned[req[r].device])
  <2>3. c \in Channels \cup {NoChannel}
    BY <1>0, <2>1 DEF Override, Typed, TypeOK, RequestStates
  <2>4. CASE c = NoChannel
    <3>1. Goto(r, "updateList")
      BY <1>8, <2>4 DEF UpdateRow
    <3> QED BY <1>2, <2>1, <2>2, <3>1
  <2>5. CASE c # NoChannel
    <3> DEFINE s == [req[r] EXCEPT !.step = "updateList", !.channel = c, !.forced = TRUE]
    <3>1. Become(r, s)
      BY <1>8, <2>5 DEF UpdateRow
    <3> HIDE DEF c
    <3>2. /\ s \in RequestStates /\ s.step = "updateList" /\ s.device = req[r].device
          /\ s.channel \in Channels /\ s.version = req[r].version
      BY <1>0, <2>3, <2>5 DEF RequestStates, Steps
    <3> HIDE DEF s
    <3>3. Formed(s)
      BY <2>1, <3>2 DEF Formed, AboutDevice
    <3> QED BY <2>1, <2>2, <3>1, <3>2, <3>3, Becoming
  <2> QED BY <2>4, <2>5
<1> QED BY <1>3, <1>4, <1>c, <1>l, <1>5, <1>6, <1>7, <1>8 DEF Step, Starts

\* The first query of listChannels finds the row as it is.
LEMMA ListedRow ==
  ASSUME Typed, NEW r \in Requests, ListRows(r)
  PROVE  req'[r].found = rows[req'[r].channel] /\ UNCHANGED catalog
<1>1. req \in [Requests -> RequestStates] /\ req[r] \in RequestStates
  BY DEF Typed, TypeOK
<1>2. req'[r] = [req[r] EXCEPT !.step = IF At(r, "setList") THEN "setCheck" ELSE "updateCheck",
                               !.found = rows[req[r].channel]]
  BY <1>1 DEF ListRows, Become
<1> QED BY <1>1, <1>2 DEF ListRows, RequestStates

-----------------------------------------------------------------------------
(* Types *)

LEMMA TypeInit == Init => Typed
<1> SUFFICES ASSUME Init PROVE Typed
    OBVIOUS
<1>1. req \in [Requests -> RequestStates] /\ \A r \in Requests : Formed(req[r])
  BY IdleFormed DEF Init
<1> QED BY <1>1, OverrideAssumption DEF Init, Typed, TypeOK

LEMMA TypeStep == Typed /\ [Next]_vars => Typed'
<1> SUFFICES ASSUME Typed, [Next]_vars PROVE Typed'
    OBVIOUS
<1>c. /\ rows \in [Channels -> Settings \cup {NoRow}] /\ released \subseteq Channels
      /\ closed \subseteq Channels /\ reopened \subseteq closed
  BY DEF Typed, TypeOK
<1>s. /\ assigned \in [Devices -> Channels \cup {NoChannel}] /\ kv \in [Devices -> Channels \cup {NoChannel}]
      /\ recorded \in [Devices -> PluginVersions \cup {NoDevice}]
      /\ plugin \in [Devices -> PluginVersions]
      /\ answer \in [Devices -> [channel : Channels \cup {NoChannel}, forced : BOOLEAN]]
  BY DEF Typed, TypeOK
<1>h. /\ choice \in [Devices -> Channels \cup {NoChannel}]
      /\ unsettled \subseteq Devices /\ stranded \subseteq Devices
      /\ torn \subseteq Requests /\ outdated \subseteq Requests /\ orphaned \subseteq Channels
  BY DEF Typed, TypeOK
<1>q. req \in [Requests -> RequestStates] /\ \A r \in Requests : Formed(req[r])
  BY DEF Typed, TypeOK
<1>1. ASSUME NEW r \in Requests, Step(r) PROVE Typed'
  <2>1. req' \in [Requests -> RequestStates] /\ \A q \in Requests : Formed(req'[q])
    BY <1>1, Started, Advanced
  <2>2. Formed(req[r]) /\ req[r] \in RequestStates
    BY <1>q
  <2>3. /\ rows' \in [Channels -> Settings \cup {NoRow}] /\ released' \subseteq Channels
        /\ closed' \subseteq Channels /\ reopened' \subseteq closed'
    <3>1. CASE UploadChannel(r)
      <4>1. req[r].channel \in Channels /\ UploadSettings(req[r].channel) \in Settings
        BY <2>2, <3>1 DEF UploadChannel, At, Formed, WithChannel, UploadSettings, ImpliedSettings,
           Settings
      <4> QED BY <1>c, <3>1, <4>1 DEF UploadChannel
    <3>2. CASE UploadRelease(r) \/ DropReleases(r) \/ DropChannel(r)
      <4>1. req[r].channel \in Channels
        BY <2>2, <3>2 DEF UploadRelease, DropReleases, DropChannel, At, Formed, WithChannel
      <4> QED BY <1>c, <3>2, <4>1 DEF UploadRelease, DropReleases, DropChannel
    <3>3. CASE UNCHANGED catalog
      BY <1>c, <3>3 DEF catalog
    <3> QED BY <1>1, <3>1, <3>2, <3>3, Started DEF Step, SetRecord, ListRows, SetCheck, LinkCheck,
        DeleteCheck, SetWrite, UnsetRecord, PurgeKv, PurgeRow, LinkRecord, LinkRow, LinkRead,
        LinkKv, UnlinkDevice, UpdateRecord, UpdateKv, UpdateRow, UpdateCheck, ClearAssigned,
        Interrupt, Starts
  <2>4. /\ assigned' \in [Devices -> Channels \cup {NoChannel}]
        /\ kv' \in [Devices -> Channels \cup {NoChannel}]
    <3>1. CASE SetWrite(r) \/ LinkRow(r) \/ LinkKv(r)
      <4>1. req[r].channel \in Channels /\ req[r].device \in Devices
        BY <2>2, <3>1 DEF SetWrite, LinkRow, LinkKv, At, Formed, WithChannel, AboutDevice
      <4> QED BY <1>s, <3>1, <4>1 DEF SetWrite, LinkRow, LinkKv, SetDeviceChannel
    <3>2. CASE PurgeKv(r) \/ PurgeRow(r) \/ ClearAssigned(r)
      BY <1>s, <3>2 DEF PurgeKv, PurgeRow, ClearAssigned, ClearDeviceChannel
    <3>3. CASE UNCHANGED <<assigned, kv>>
      BY <1>s, <3>3
    <3> QED BY <1>1, <3>1, <3>2, <3>3, Started DEF Step, SetRecord, ListRows, SetCheck, LinkCheck,
        DeleteCheck, UnsetRecord, LinkRecord, LinkRead, UnlinkDevice, UpdateRecord, UpdateKv,
        UpdateRow, UpdateCheck, UploadChannel, UploadRelease, DropChannel, DropReleases,
        Interrupt, Starts, stores
  <2>5. /\ recorded' \in [Devices -> PluginVersions \cup {NoDevice}] /\ plugin' = plugin
    <3>1. CASE SetRecord(r) \/ UnsetRecord(r) \/ LinkRecord(r) \/ UpdateRecord(r) \/ UnlinkDevice(r)
      <4>1. req[r].version \in PluginVersions
        BY <2>2 DEF RequestStates
      <4> QED BY <1>s, <3>1, <4>1 DEF SetRecord, UnsetRecord, LinkRecord, UpdateRecord,
          UnlinkDevice, RecordDevice
    <3>2. CASE UNCHANGED <<recorded, plugin>>
      BY <1>s, <3>2
    <3> QED BY <1>1, <3>1, <3>2, Started DEF Step, ListRows, SetCheck, LinkCheck, DeleteCheck,
        SetWrite, PurgeKv, PurgeRow, LinkRow, LinkRead, LinkKv, UpdateKv, UpdateRow, UpdateCheck,
        UploadChannel, UploadRelease, DropChannel, DropReleases, ClearAssigned, Interrupt, Starts,
        stores
  <2>6. answer' \in [Devices -> [channel : Channels \cup {NoChannel}, forced : BOOLEAN]]
    <3>1. CASE UpdateCheck(r)
      <4>1. req[r].channel \in Channels /\ req[r].forced \in BOOLEAN
        BY <2>2, <3>1 DEF UpdateCheck, At, Formed, WithChannel, RequestStates
      <4> QED BY <1>s, <3>1, <4>1 DEF UpdateCheck
    <3>2. CASE UNCHANGED answer
      BY <1>s, <3>2
    <3> QED BY <1>1, <3>1, <3>2, Started DEF Step, SetRecord, ListRows, SetCheck, LinkCheck,
        DeleteCheck, SetWrite, UnsetRecord, PurgeKv, PurgeRow, LinkRecord, LinkRow, LinkRead,
        LinkKv, UnlinkDevice, UpdateRecord, UpdateKv, UpdateRow, UploadChannel, UploadRelease,
        DropChannel, DropReleases, ClearAssigned, Interrupt, Starts
  <2>7. /\ choice' \in [Devices -> Channels \cup {NoChannel}] /\ unsettled' \subseteq Devices
        /\ torn' \subseteq Requests
    <3>1. ASSUME NEW d \in Devices, NEW c \in Channels \cup {NoChannel}, NEW routed,
                 FirstWrite(r, d) \/ LastWrite(r, d, c, routed)
          PROVE  /\ choice' \in [Devices -> Channels \cup {NoChannel}] /\ unsettled' \subseteq Devices
                 /\ torn' \subseteq Requests
      BY <1>h, <3>1 DEF FirstWrite, LastWrite, Midway
    <3>2. CASE SetWrite(r) \/ LinkRow(r) \/ LinkKv(r) \/ PurgeKv(r) \/ PurgeRow(r)
      <4>1. /\ req[r].device \in Devices
            /\ ~PurgeKv(r) /\ ~PurgeRow(r) => req[r].channel \in Channels
        BY <2>2, <3>2 DEF SetWrite, LinkRow, LinkKv, PurgeKv, PurgeRow, At, Formed, WithChannel,
           AboutDevice
      <4> QED BY <3>1, <3>2, <4>1 DEF SetWrite, LinkRow, LinkKv, PurgeKv, PurgeRow
    <3>3. CASE LinkRead(r)
      <4>1. req[r].device \in Devices
        BY <2>2, <3>3 DEF LinkRead, At, Formed, AboutDevice
      <4> QED BY <1>h, <3>3, <4>1 DEF LinkRead
    <3>4. CASE ClearAssigned(r) \/ Interrupt(r)
      BY <1>h, <3>4 DEF ClearAssigned, Interrupt, AssignedTo, Midway
    <3>5. CASE UNCHANGED <<choice, unsettled, torn>>
      BY <1>h, <3>5
    <3> QED BY <1>1, <3>2, <3>3, <3>4, <3>5, Started DEF Step, SetRecord, ListRows, SetCheck,
        LinkCheck, DeleteCheck, UnsetRecord, LinkRecord, UnlinkDevice, UpdateRecord, UpdateKv,
        UpdateRow, UpdateCheck, UploadChannel, UploadRelease, DropChannel, DropReleases, Starts,
        history
  <2>8. stranded' \subseteq Devices /\ outdated' \subseteq Requests /\ orphaned' \subseteq Channels
    <3>1. CASE SetWrite(r) \/ LinkRow(r) \/ PurgeRow(r)
      <4>1. req[r].device \in Devices
        BY <2>2, <3>1 DEF SetWrite, LinkRow, PurgeRow, At, Formed, AboutDevice
      <4> QED BY <1>h, <3>1, <4>1 DEF SetWrite, LinkRow, PurgeRow, SetDeviceChannel,
          ClearDeviceChannel
    <3>2. CASE DropChannel(r) \/ DropReleases(r)
      BY <1>h, <3>2 DEF DropChannel, DropReleases, Outdate, Assigning
    <3>c. CASE SetCheck(r) \/ LinkCheck(r) \/ DeleteCheck(r) \/ UpdateCheck(r)
      BY <1>h, <3>c DEF SetCheck, LinkCheck, DeleteCheck, UpdateCheck, Accept, Refuse
    <3>3. CASE ClearAssigned(r) \/ Interrupt(r)
      <4>1. req[r].step \in {"dropReleases", "clearAssigned"} => req[r].channel \in Channels
        BY <2>2 DEF Formed, WithChannel
      <4> QED BY <1>h, <3>3, <4>1 DEF ClearAssigned, Interrupt
    <3>4. CASE UNCHANGED <<stranded, outdated, orphaned>>
      BY <1>h, <3>4
    <3> QED BY <1>1, <3>1, <3>2, <3>c, <3>3, <3>4, Started DEF Step, SetRecord, ListRows,
        UnsetRecord, PurgeKv, LinkRecord, LinkRead, LinkKv, UnlinkDevice, UpdateRecord, UpdateKv,
        UpdateRow, UploadChannel, UploadRelease, Starts, history
  <2> QED BY <1>s, <2>1, <2>3, <2>4, <2>5, <2>6, <2>7, <2>8 DEF Typed, TypeOK
<1>2. CASE PostChannel \/ CreateAppAgain
  <2>1. AppSettings \in Settings /\ Production \in Channels /\ ChannelInputs \subseteq Settings
    BY OverrideAssumption DEF AppSettings, Settings
  <2> QED BY <1>2, <1>c, <1>s, <1>h, <1>q, <2>1 DEF PostChannel, CreateAppAgain, Checking, stores,
              history, Typed, TypeOK
<1>3. CASE DeleteBundle
  BY <1>3, <1>c, <1>s, <1>h, <1>q DEF DeleteBundle, Outdate, Assigning, stores, Typed, TypeOK
<1>4. ASSUME NEW d \in Devices, Upgrade(d) PROVE Typed'
  BY <1>4, <1>c, <1>s, <1>h, <1>q DEF Upgrade, catalog, stores, Typed, TypeOK
<1>5. CASE UNCHANGED vars
  BY <1>5, <1>c, <1>s, <1>h, <1>q DEF vars, catalog, stores, history, Typed, TypeOK
<1> QED BY <1>1, <1>2, <1>3, <1>4, <1>5 DEF Next

\* Every variable has its type, in every reachable state.
THEOREM TypeCorrect == Spec => []TypeOK
<1>1. Spec => []Typed
  BY TypeInit, TypeStep, PTL DEF Spec
<1>2. Typed => TypeOK
  BY DEF Typed
<1> QED BY <1>1, <1>2, PTL

-----------------------------------------------------------------------------
(* Assignments name channels that exist *)

\* Exists and Leaving after a step.
WillList(c) == rows'[c] # NoRow \/ c \in released'
WillLeave(c) ==
  \/ c \in orphaned'
  \/ \E r \in Requests : req'[r].step \in {"dropReleases", "clearAssigned"} /\ req'[r].channel = c

\* A request takes a channel away only as the first steps of its deletion.
LEMMA Unlisting ==
  ASSUME Typed, NEW r \in Requests, Step(r), NEW c \in Channels, Exists(c), ~WillList(c)
  PROVE  /\ Outdate(c) /\ UNCHANGED <<assigned, stranded, orphaned>>
         /\ req'[r].step \in {"dropReleases", "clearAssigned"} /\ req'[r].channel = c
<1>0. /\ rows \in [Channels -> Settings \cup {NoRow}] /\ released \subseteq Channels
      /\ Formed(req[r])
  BY DEF Typed, TypeOK
<1>1. CASE DropChannel(r) \/ DropReleases(r)
  <2>1. /\ req'[r].step \in {"dropReleases", "clearAssigned"}
        /\ req'[r].channel = req[r].channel
    <3>1. /\ <<req[r].step, IF DropChannel(r) THEN "dropReleases" ELSE "clearAssigned">> \in Follows
          /\ Goto(r, IF DropChannel(r) THEN "dropReleases" ELSE "clearAssigned")
      BY <1>1 DEF DropChannel, DropReleases, At, Follows
    <3> QED BY <3>1, FollowsKept, Going
  <2>2. c = req[r].channel /\ Outdate(c) /\ UNCHANGED <<assigned, stranded, orphaned>>
    BY <1>0, <1>1 DEF DropChannel, DropReleases, Exists, Listed, WillList, stores, history
  <2> QED BY <2>1, <2>2
<1>2. CASE UploadChannel(r)
  <2>1. req[r].channel \in Channels /\ UploadSettings(req[r].channel) \in Settings
    BY <1>0, <1>2 DEF UploadChannel, At, Formed, WithChannel, UploadSettings, ImpliedSettings,
       Settings
  <2> QED BY <1>0, <1>2, <2>1, OverrideAssumption DEF UploadChannel, Exists, Listed, WillList
<1>3. CASE UploadRelease(r)
  BY <1>3 DEF UploadRelease, Exists, Listed, WillList
<1>4. CASE UNCHANGED catalog
  BY <1>4 DEF catalog, Exists, Listed, WillList
<1> QED BY <1>1, <1>2, <1>3, <1>4, Started DEF Step, SetRecord, ListRows, SetCheck, LinkCheck,
    DeleteCheck, SetWrite, UnsetRecord, PurgeKv, PurgeRow, LinkRecord, LinkRow, LinkRead, LinkKv,
    UnlinkDevice, UpdateRecord, UpdateKv, UpdateRow, UpdateCheck, ClearAssigned, Interrupt, Starts

\* A request that was overtaken by a deletion is forgotten only when it acts.
LEMMA OutdatedKept ==
  ASSUME Typed, NEW r \in Requests, Step(r), NEW q \in outdated, q # r
  PROVE  q \in outdated'
<1>1. CASE Starts(r)
  BY <1>1, Started DEF history
<1>2. CASE ~Starts(r)
  BY <1>2 DEF Step, Starts, SetRecord, ListRows, SetCheck, LinkCheck, DeleteCheck, SetWrite,
     UnsetRecord, PurgeKv, PurgeRow, LinkRecord, LinkRow, LinkRead, LinkKv, UnlinkDevice,
     UpdateRecord, UpdateKv, UpdateRow, UpdateCheck, UploadChannel, UploadRelease, DropChannel,
     DropReleases, ClearAssigned, Interrupt, SetDeviceChannel, Outdate, Accept, Refuse, history
<1> QED BY <1>1, <1>2

LEMMA ChecksKept ==
  ASSUME ListedInv, NEW r \in Requests, Step(r), NEW q \in Requests
  PROVE  CheckHolds(q)'
<1>0. Typed /\ CheckHolds(q) /\ CheckHolds(r) /\ Formed(req[q]) /\ Formed(req[r])
  BY DEF ListedInv, Typed
<1> SUFFICES ASSUME Found(q)', ~WillList(req'[q].channel) PROVE q \in outdated'
    BY DEF CheckHolds, Exists, Listed, WillList
<1>1. CASE q # r
  <2>1. req'[q] = req[q]
    BY <1>0, <1>1, Started, Advanced
  <2>2. Found(q) /\ req[q].channel \in Channels
    BY <1>0, <2>1 DEF Found, Formed, WithChannel
  <2>3. CASE Exists(req[q].channel)
    <3>1. Outdate(req[q].channel)
      BY <1>0, <2>1, <2>2, <2>3, Unlisting
    <3> QED BY <2>2, <3>1 DEF Outdate, Assigning, Found
  <2>4. CASE q \in outdated
    BY <1>0, <1>1, <2>4, OutdatedKept
  <2> QED BY <1>0, <2>2, <2>3, <2>4 DEF CheckHolds
<1>2. CASE q = r
  <2>1. CASE Starts(r)
    <3>1. req'[r].step = "linkCheck" /\ UNCHANGED catalog /\ rows[req'[r].channel] # NoRow
      BY <1>0, <1>2, <2>1, Started DEF Found
    <3> QED BY <1>2, <3>1 DEF catalog, WillList
  <2>2. CASE ~Starts(r)
    <3>1. <<req[r].step, req'[r].step>> \in Follows /\ req'[r].channel = req[r].channel
      BY <1>0, <1>2, <2>2, Advanced, IdleFormed DEF Found, Follows
    <3>2. \/ req[r].step = "setList" /\ req'[r].step = "setCheck"
          \/ req[r].step \in {"setCheck", "linkCheck"}
          \/ req[r].step = "linkRecord" /\ req'[r].step = "linkRow"
      BY <1>2, <3>1 DEF Found, Follows
    <3>0. ~Interrupt(r)
      BY <1>0, <1>2, Finishing, IdleFormed DEF Interrupt, Found
    <3>3. CASE req[r].step = "setList" /\ req'[r].step = "setCheck"
      <4>1. ListRows(r)
        BY <3>0, <3>3, <2>2 DEF Step, Starts, At, SetRecord, SetCheck, SetWrite, UnsetRecord,
           PurgeKv, PurgeRow, LinkCheck, LinkRecord, LinkRow, LinkRead, LinkKv, UnlinkDevice,
           UpdateRecord, UpdateKv, UpdateRow, UpdateCheck, UploadChannel, UploadRelease,
           DeleteCheck, DropChannel, DropReleases, ClearAssigned
      <4>2. rows[req'[r].channel] # NoRow /\ UNCHANGED catalog
        BY <1>0, <1>2, <3>3, <4>1, ListedRow DEF Found
      <4> QED BY <1>2, <4>2 DEF catalog, WillList
    <3>4. CASE req[r].step \in {"setCheck", "linkCheck"}
      <4>1. SetCheck(r) \/ LinkCheck(r)
        BY <3>0, <3>4, <2>2 DEF Step, Starts, At, SetRecord, ListRows, SetWrite, UnsetRecord,
           PurgeKv, PurgeRow, LinkRecord, LinkRow, LinkRead, LinkKv, UnlinkDevice, UpdateRecord,
           UpdateKv, UpdateRow, UpdateCheck, UploadChannel, UploadRelease, DeleteCheck,
           DropChannel, DropReleases, ClearAssigned
      <4>2. ~Finish(r)
        BY <1>0, <1>2, Finishing, IdleFormed DEF Found
      <4>3. /\ Listed(req[r].found, req[r].channel) /\ UNCHANGED <<catalog, outdated>>
        BY <4>1, <4>2 DEF SetCheck, LinkCheck, Accept, Refuse
      <4>4. Exists(req[r].channel) \/ r \in outdated
        <5>1. CASE req[r].found # NoRow
          BY <1>0, <3>4, <5>1 DEF CheckHolds, Found
        <5>2. CASE req[r].found = NoRow
          BY <4>3, <5>2 DEF Listed, Exists
        <5> QED BY <5>1, <5>2
      <4> QED BY <1>2, <3>1, <4>3, <4>4 DEF catalog, Exists, Listed, WillList
    <3>5. CASE req[r].step = "linkRecord" /\ req'[r].step = "linkRow"
      <4>1. LinkRecord(r)
        BY <3>0, <3>5, <2>2 DEF Step, Starts, At, SetRecord, ListRows, SetCheck, SetWrite,
           UnsetRecord, PurgeKv, PurgeRow, LinkCheck, LinkRow, LinkRead, LinkKv, UnlinkDevice,
           UpdateRecord, UpdateKv, UpdateRow, UpdateCheck, UploadChannel, UploadRelease,
           DeleteCheck, DropChannel, DropReleases, ClearAssigned
      <4>2. UNCHANGED <<catalog, history>>
        BY <4>1 DEF LinkRecord
      <4>3. Exists(req[r].channel) \/ r \in outdated
        BY <1>0, <3>5 DEF CheckHolds, Found
      <4> QED BY <1>2, <3>1, <4>2, <4>3 DEF catalog, history, Exists, Listed, WillList
    <3> QED BY <3>2, <3>3, <3>4, <3>5
  <2> QED BY <2>1, <2>2
<1> QED BY <1>1, <1>2

\* What an action does to the row of a device.
LEMMA RowStep ==
  ASSUME Typed, NEW r \in Requests, Step(r), NEW d \in Devices, assigned'[d] # NoChannel
  PROVE  \/ /\ SetWrite(r) \/ LinkRow(r)
            /\ SetDeviceChannel(r, d, req[r].channel) /\ d = req[r].device
            /\ Found(r) /\ UNCHANGED catalog
         \/ /\ assigned'[d] = assigned[d]
            /\ d \in stranded => d \in stranded'
<1>0. assigned \in [Devices -> Channels \cup {NoChannel}] /\ Formed(req[r])
  BY DEF Typed, TypeOK
<1>1. CASE SetWrite(r) \/ LinkRow(r)
  <2>1. Found(r) /\ UNCHANGED catalog
    BY <1>1 DEF SetWrite, LinkRow, At, Found
  <2>2. CASE d = req[r].device
    BY <1>1, <2>1, <2>2 DEF SetWrite, LinkRow
  <2>3. CASE d # req[r].device
    BY <1>0, <1>1, <2>3 DEF SetWrite, LinkRow, SetDeviceChannel
  <2> QED BY <2>2, <2>3
<1>2. CASE PurgeRow(r)
  BY <1>0, <1>2 DEF PurgeRow, ClearDeviceChannel
<1>3. CASE ClearAssigned(r)
  BY <1>0, <1>3 DEF ClearAssigned, AssignedTo
<1>4. CASE UNCHANGED <<assigned, stranded>>
  BY <1>4
<1> QED BY <1>1, <1>2, <1>3, <1>4, Started DEF Step, SetRecord, ListRows, SetCheck, LinkCheck,
    DeleteCheck, UnsetRecord, PurgeKv, LinkRecord, LinkRead, LinkKv, UnlinkDevice, UpdateRecord,
    UpdateKv, UpdateRow, UpdateCheck, UploadChannel, UploadRelease, DropChannel, DropReleases,
    Interrupt, Starts, stores, history

\* A deletion that is under way goes on, takes the assignments or stops half way.
LEMMA LeavingKept ==
  ASSUME Typed, NEW r \in Requests, Step(r), NEW c \in Channels, Leaving(c)
  PROVE  WillLeave(c) \/ \A d \in Devices : assigned'[d] # c
<1>0. assigned \in [Devices -> Channels \cup {NoChannel}] /\ Formed(req[r])
      /\ \A q \in Requests \ {r} : req'[q] = req[q]
  BY Started, Advanced DEF Typed, TypeOK
<1>1. CASE ClearAssigned(r) /\ req[r].channel = c
  BY <1>0, <1>1, OverrideAssumption DEF ClearAssigned, AssignedTo
<1>2. CASE ~(ClearAssigned(r) /\ req[r].channel = c)
  <2>1. CASE c \in orphaned
    <3>1. c \in orphaned'
      BY <1>2, <2>1, Started DEF Step, SetRecord, ListRows, SetCheck, LinkCheck, DeleteCheck,
         SetWrite, UnsetRecord, PurgeKv, PurgeRow, LinkRecord, LinkRow, LinkRead, LinkKv,
         UnlinkDevice, UpdateRecord, UpdateKv, UpdateRow, UpdateCheck, UploadChannel,
         UploadRelease, DropChannel, DropReleases, ClearAssigned, Interrupt, Starts, history
    <3> QED BY <3>1 DEF WillLeave
  <2>2. CASE \E q \in Requests : req[q].step \in {"dropReleases", "clearAssigned"} /\ req[q].channel = c
    <3>1. PICK q \in Requests : req[q].step \in {"dropReleases", "clearAssigned"} /\ req[q].channel = c
      BY <2>2
    <3>2. CASE q # r
      BY <1>0, <3>1, <3>2 DEF WillLeave
    <3>3. CASE q = r
      <4>1. ~Starts(r)
        BY <3>1, <3>3, Started
      <4>2. DropReleases(r) \/ Interrupt(r)
        BY <1>2, <3>1, <3>3, <4>1 DEF Step, Starts, At, SetRecord, ListRows, SetCheck, LinkCheck,
           DeleteCheck, SetWrite, UnsetRecord, PurgeKv, PurgeRow, LinkRecord, LinkRow, LinkRead,
           LinkKv, UnlinkDevice, UpdateRecord, UpdateKv, UpdateRow, UpdateCheck, UploadChannel,
           UploadRelease, DropChannel, ClearAssigned
      <4>3. CASE Interrupt(r)
        BY <3>1, <3>3, <4>3 DEF Interrupt, WillLeave
      <4>4. CASE DropReleases(r)
        <5>1. <<req[r].step, "clearAssigned">> \in Follows /\ Goto(r, "clearAssigned")
          BY <4>4 DEF DropReleases, At, Follows
        <5>2. req'[r].step = "clearAssigned" /\ req'[r].channel = req[r].channel
          BY <5>1, FollowsKept, Going
        <5> QED BY <3>1, <3>3, <5>2 DEF WillLeave
      <4> QED BY <4>2, <4>3, <4>4
    <3> QED BY <3>2, <3>3
  <2> QED BY <2>1, <2>2 DEF Leaving
<1> QED BY <1>1, <1>2

LEMMA RowsKept ==
  ASSUME ListedInv, NEW r \in Requests, Step(r), NEW d \in Devices
  PROVE  RowHolds(d)'
<1>0. Typed /\ CheckHolds(r) /\ RowHolds(d) /\ Typed'
  BY TypeStep DEF ListedInv, Next
<1> SUFFICES ASSUME assigned'[d] # NoChannel, ~WillList(assigned'[d])
             PROVE  d \in stranded' \/ WillLeave(assigned'[d])
    BY DEF RowHolds, Exists, Listed, Leaving, WillList, WillLeave
<1>1. assigned'[d] \in Channels
  BY <1>0 DEF Typed, TypeOK
<1>2. CASE SetDeviceChannel(r, d, req[r].channel) /\ Found(r) /\ UNCHANGED catalog
  <2>1. assigned'[d] = req[r].channel
    BY <1>0, <1>2 DEF SetDeviceChannel, Typed, TypeOK
  <2>2. ~Exists(req[r].channel)
    BY <1>2, <2>1 DEF catalog, Exists, Listed, WillList
  <2>3. r \in outdated
    BY <1>0, <1>2, <2>2 DEF CheckHolds
  <2> QED BY <1>2, <2>3 DEF SetDeviceChannel
<1>3. CASE assigned'[d] = assigned[d] /\ (d \in stranded => d \in stranded')
  <2>1. CASE Exists(assigned[d])
    <3>1. /\ req'[r].step \in {"dropReleases", "clearAssigned"} /\ req'[r].channel = assigned[d]
      BY <1>0, <1>1, <1>3, <2>1, Unlisting
    <3> QED BY <1>3, <3>1 DEF WillLeave
  <2>2. CASE Leaving(assigned[d])
    BY <1>0, <1>1, <1>3, <2>2, LeavingKept
  <2> QED BY <1>0, <1>3, <2>1, <2>2 DEF RowHolds
<1> QED BY <1>0, <1>2, <1>3, RowStep

LEMMA ListedInit == Init => ListedInv
<1> SUFFICES ASSUME Init PROVE ListedInv
    OBVIOUS
<1>1. \A r \in Requests : CheckHolds(r)
  BY IdleFormed DEF Init, CheckHolds, Found
<1>2. \A d \in Devices : RowHolds(d)
  BY DEF Init, RowHolds
<1> QED BY <1>1, <1>2, TypeInit DEF ListedInv

LEMMA ListedStep == ListedInv /\ [Next]_vars => ListedInv'
<1> SUFFICES ASSUME ListedInv, [Next]_vars PROVE ListedInv'
    OBVIOUS
<1>0. /\ Typed /\ Typed'
      /\ \A r \in Requests : CheckHolds(r)
      /\ \A d \in Devices : RowHolds(d)
  BY TypeStep DEF ListedInv
<1>1. ASSUME NEW r \in Requests, Step(r) PROVE ListedInv'
  BY <1>0, <1>1, ChecksKept, RowsKept DEF ListedInv
<1>2. ASSUME UNCHANGED <<req, stores>>,
             \A q \in outdated : q \in outdated', \A c \in orphaned : c \in orphaned',
             stranded' = stranded,
             \A c \in Channels : Exists(c) /\ ~WillList(c) => Outdate(c) /\ c \in orphaned'
      PROVE  ListedInv'
  <2>1. ASSUME NEW q \in Requests PROVE CheckHolds(q)'
    <3> SUFFICES ASSUME Found(q)', ~WillList(req'[q].channel) PROVE q \in outdated'
        BY DEF CheckHolds, Exists, Listed, WillList
    <3>1. Found(q) /\ req'[q] = req[q]
      BY <1>2 DEF Found
    <3>2. req[q].channel \in Channels
      BY <1>0, <3>1 DEF Typed, Formed, Found, WithChannel
    <3>3. CASE q \in outdated
      BY <1>2, <3>3
    <3>4. CASE Exists(req[q].channel)
      <4>1. Outdate(req[q].channel)
        BY <1>2, <3>1, <3>2, <3>4
      <4> QED BY <3>1, <4>1 DEF Outdate, Assigning, Found
    <3> QED BY <1>0, <3>1, <3>3, <3>4 DEF CheckHolds
  <2>2. ASSUME NEW d \in Devices PROVE RowHolds(d)'
    <3> SUFFICES ASSUME assigned'[d] # NoChannel, ~WillList(assigned'[d])
                 PROVE  d \in stranded' \/ WillLeave(assigned'[d])
        BY DEF RowHolds, Exists, Listed, Leaving, WillList, WillLeave
    <3>1. assigned' = assigned /\ assigned[d] \in Channels /\ req' = req
      BY <1>0, <1>2 DEF stores, Typed, TypeOK
    <3>2. CASE Exists(assigned[d])
      <4>1. assigned[d] \in orphaned'
        BY <1>2, <3>1, <3>2
      <4> QED BY <3>1, <4>1 DEF WillLeave
    <3>3. CASE d \in stranded \/ Leaving(assigned[d])
      BY <1>2, <3>1, <3>3 DEF Leaving, WillLeave
    <3> QED BY <1>0, <3>1, <3>2, <3>3 DEF RowHolds
  <2> QED BY <1>0, <2>1, <2>2 DEF ListedInv
<1>3. CASE PostChannel \/ CreateAppAgain
  <2>0. AppSettings \in Settings
    BY DEF AppSettings, Settings
  <2>1. AppSettings # NoRow /\ NoRow \notin ChannelInputs
    BY <2>0, OverrideAssumption
  <2>2. \A c \in Channels : Exists(c) /\ ~WillList(c) => FALSE
    BY <1>0, <1>3, <2>1 DEF PostChannel, CreateAppAgain, Exists, Listed, WillList, Typed, TypeOK
  <2> QED BY <1>2, <1>3, <2>2 DEF PostChannel, CreateAppAgain, history
<1>4. CASE DeleteBundle
  <2>1. \A c \in Channels : Exists(c) /\ ~WillList(c) => Outdate(c) /\ c \in orphaned'
    BY <1>4 DEF DeleteBundle, Exists, Listed, WillList
  <2>2. UNCHANGED <<req, stores, stranded>>
    BY <1>4 DEF DeleteBundle
  <2>3. (\A q \in outdated : q \in outdated') /\ (\A c \in orphaned : c \in orphaned')
    BY <1>4 DEF DeleteBundle, Outdate
  <2> QED BY <1>2, <2>1, <2>2, <2>3
<1>5. ASSUME NEW d \in Devices, Upgrade(d) PROVE ListedInv'
  BY <1>2, <1>5 DEF Upgrade, catalog, Exists, Listed, WillList
<1>6. CASE UNCHANGED vars
  BY <1>2, <1>6 DEF vars, catalog, history, Exists, Listed, WillList
<1> QED BY <1>1, <1>3, <1>4, <1>5, <1>6 DEF Next

\* Deleting a channel takes its assignments with it: a row that names a channel
\* nobody can list was written by a request that had looked it up before, or the
\* deletion is under way or stopped half way (AssignedChannelsListed).
THEOREM AssignmentsListed == Spec => []AssignedChannelsListed
<1>1. Spec => []ListedInv
  BY ListedInit, ListedStep, PTL DEF Spec
<1>2. ListedInv => AssignedChannelsListed
  BY DEF ListedInv, RowHolds, Leaving, AssignedChannelsListed
<1> QED BY <1>1, <1>2, PTL

-----------------------------------------------------------------------------
(* Closed channels *)

LEMMA ClosedInit == Init => ClosedInv
BY TypeInit, IdleFormed DEF Init, ClosedInv, ReadHolds

\* What a request does to the channels that count as closed.
LEMMA ClosedByRequest ==
  ASSUME ClosedInv, NEW r \in Requests, Step(r)
  PROVE  /\ \A c \in closed' \ reopened' : Shut(rows'[c])
         /\ closed' \ reopened' \subseteq closed \ reopened
<1>0. /\ Typed /\ rows \in [Channels -> Settings \cup {NoRow}]
      /\ closed \subseteq Channels /\ reopened \subseteq closed
      /\ \A c \in closed \ reopened : Shut(rows[c])
  BY DEF ClosedInv, Typed, TypeOK
<1>1. CASE UploadChannel(r) \/ DropChannel(r)
  BY <1>0, <1>1 DEF UploadChannel, DropChannel
<1>2. CASE UNCHANGED <<rows, closed, reopened>>
  BY <1>0, <1>2
<1> QED BY <1>0, <1>1, <1>2, Started DEF Step, SetRecord, ListRows, SetCheck, SetWrite, UnsetRecord,
    PurgeKv, PurgeRow, LinkCheck, LinkRecord, LinkRow, LinkRead, LinkKv, UnlinkDevice, UpdateRecord,
    UpdateKv, UpdateRow, UpdateCheck, UploadRelease, DeleteCheck, DropReleases, ClearAssigned,
    Interrupt, Starts, catalog

\* What an update check has read stays as it was until the check answers.
LEMMA ReadsKept ==
  ASSUME ClosedInv, NEW r \in Requests, Step(r), NEW q \in Requests
  PROVE  ReadHolds(q)'
<1>0. Typed /\ ReadHolds(q) /\ Formed(req[r]) /\ (\A c \in closed \ reopened : Shut(rows[c]))
  BY DEF ClosedInv, Typed
<1>1. CASE q # r
  <2>1. req'[q] = req[q] /\ (q \in outdated => q \in outdated')
    BY <1>0, <1>1, Started, Advanced, OutdatedKept
  <2> QED BY <1>0, <2>1, ClosedByRequest DEF ReadHolds
<1>2. CASE q = r
  <2> SUFFICES ASSUME req'[r].step = "updateCheck", req'[r].channel \in closed' \ reopened'
               PROVE  Shut(req'[r].found)
      BY <1>2 DEF ReadHolds
  <2>1. <<req[r].step, "updateCheck">> \in Follows /\ ~Starts(r)
    BY <1>0, Started, Advanced, IdleFormed
  <2>2. req[r].step = "updateList"
    BY <2>1 DEF Follows
  <2>3. ListRows(r) \/ Interrupt(r)
    BY <2>1, <2>2 DEF Step, Starts, At, SetRecord, SetCheck, SetWrite, UnsetRecord, PurgeKv,
       PurgeRow, LinkCheck, LinkRecord, LinkRow, LinkRead, LinkKv, UnlinkDevice, UpdateRecord,
       UpdateKv, UpdateRow, UpdateCheck, UploadChannel, UploadRelease, DeleteCheck, DropChannel,
       DropReleases, ClearAssigned
  <2>4. ListRows(r)
    BY <1>0, <2>3, Finishing, IdleFormed DEF Interrupt
  <2>5. req'[r].found = rows[req'[r].channel]
    BY <1>0, <2>4, ListedRow
  <2> QED BY <1>0, <2>5, ClosedByRequest
<1> QED BY <1>1, <1>2

LEMMA ClosedStep == ClosedInv /\ [Next]_vars => ClosedInv'
<1> SUFFICES ASSUME ClosedInv, [Next]_vars PROVE ClosedInv'
    OBVIOUS
<1>0. /\ Typed /\ Typed' /\ rows \in [Channels -> Settings \cup {NoRow}]
      /\ closed \subseteq Channels /\ reopened \subseteq closed
      /\ \A c \in closed \ reopened : Shut(rows[c])
      /\ \A r \in Requests : ReadHolds(r)
  BY TypeStep DEF ClosedInv, Typed, TypeOK
<1>1. CASE PostChannel
  <2>1. PICK c \in Channels, s \in ChannelInputs :
          /\ rows' = [rows EXCEPT ![c] = s]
          /\ IF s.public \/ s.selfSet
             THEN closed' = closed \ {c} /\ UNCHANGED outdated
             ELSE closed' = closed \cup {c} /\ outdated' = outdated \cup Checking(c)
          /\ reopened' = reopened \ {c}
    BY <1>1 DEF PostChannel
  <2>2. s # NoRow /\ req' = req
    BY <1>1, OverrideAssumption DEF PostChannel
  <2>3. \A d \in closed' \ reopened' : Shut(rows'[d])
    BY <1>0, <2>1, <2>2 DEF Shut
  <2>4. ASSUME NEW q \in Requests PROVE ReadHolds(q)'
    <3> SUFFICES ASSUME req[q].step = "updateCheck", req[q].channel \in closed' \ reopened'
                 PROVE  q \in outdated' \/ Shut(req[q].found)
        BY <2>2 DEF ReadHolds
    <3>1. CASE req[q].channel = c
      <4>1. q \in Checking(c) /\ ~(s.public \/ s.selfSet)
        BY <2>1, <3>1 DEF Checking, At
      <4> QED BY <2>1, <4>1
    <3>2. CASE req[q].channel # c
      <4>1. req[q].channel \in closed \ reopened /\ (q \in outdated => q \in outdated')
        BY <2>1, <3>2
      <4> QED BY <1>0, <4>1 DEF ReadHolds
    <3> QED BY <3>1, <3>2
  <2> QED BY <1>0, <2>3, <2>4 DEF ClosedInv
<1>2. ASSUME NEW r \in Requests, Step(r) PROVE ClosedInv'
  BY <1>0, <1>2, ClosedByRequest, ReadsKept DEF ClosedInv
<1>3. ASSUME req' = req, closed' \ reopened' \subseteq closed \ reopened, outdated \subseteq outdated',
             \A c \in closed' \ reopened' : rows'[c] = rows[c]
      PROVE  ClosedInv'
  <2>1. \A r \in Requests : ReadHolds(r)'
    BY <1>0, <1>3 DEF ReadHolds
  <2> QED BY <1>0, <1>3, <2>1 DEF ClosedInv
<1>4. CASE CreateAppAgain
  <2>1. /\ rows' = [rows EXCEPT ![Production] = AppSettings]
        /\ reopened' = reopened \cup (closed \cap {Production})
        /\ UNCHANGED <<closed, req, outdated>>
    BY <1>4 DEF CreateAppAgain, history
  <2> QED BY <1>0, <1>3, <2>1
<1>5. CASE DeleteBundle \/ (\E d \in Devices : Upgrade(d)) \/ UNCHANGED vars
  BY <1>3, <1>5 DEF DeleteBundle, Outdate, Upgrade, vars, catalog, history
<1> QED BY <1>1, <1>2, <1>4, <1>5 DEF Next

\* An update check that found its channel open before an administrator closed
\* it may answer with it; any other answer serves a closed channel only to a
\* device assigned to it, until an upload or a repeated POST /v1/apps rewrites
\* the channel's settings (ClosedUntilRewritten).
THEOREM ClosedServed == Spec => ClosedUntilRewritten
<1> DEFINE Answered(d) ==
             answer'[d] # answer[d] /\ answer'[d].channel \in closed \ reopened =>
               \/ answer'[d].forced
               \/ \E r \in outdated : req[r].device = d /\ At(r, "updateCheck") /\ req'[r] # req[r]
<1>1. ClosedInv /\ [Next]_vars => [\A d \in Devices : Answered(d)]_vars
  <2> SUFFICES ASSUME ClosedInv, Next, NEW d \in Devices, answer'[d] # answer[d],
                      answer'[d].channel \in closed \ reopened, ~answer'[d].forced
               PROVE  \E r \in outdated :
                        req[r].device = d /\ At(r, "updateCheck") /\ req'[r] # req[r]
      OBVIOUS
  <2>0. /\ Typed /\ \A r \in Requests : ReadHolds(r)
        /\ answer \in [Devices -> [channel : Channels \cup {NoChannel}, forced : BOOLEAN]]
        /\ NoChannel \notin closed
    BY OverrideAssumption DEF ClosedInv, Typed, TypeOK
  <2>1. ASSUME NEW r \in Requests, Step(r) PROVE UpdateCheck(r) \/ UNCHANGED answer
    BY <2>0, <2>1, Started DEF Step, SetRecord, ListRows, SetCheck, SetWrite, UnsetRecord, PurgeKv,
       PurgeRow, LinkCheck, LinkRecord, LinkRow, LinkRead, LinkKv, UnlinkDevice, UpdateRecord,
       UpdateKv, UpdateRow, UploadChannel, UploadRelease, DeleteCheck, DropChannel, DropReleases,
       ClearAssigned, Interrupt, Starts
  <2>2. PICK r \in Requests : UpdateCheck(r)
    BY <2>1 DEF Next, PostChannel, CreateAppAgain, DeleteBundle, Upgrade
  <2> DEFINE c == req[r].channel
             forced == req[r].forced
             found == req[r].found
  <2>3. /\ d = req[r].device
        /\ answer'[d] = IF Servable(found, c, forced) THEN [channel |-> c, forced |-> forced]
                        ELSE [channel |-> NoChannel, forced |-> FALSE]
    BY <2>0, <2>2 DEF UpdateCheck
  <2>4. Servable(found, c, forced) /\ answer'[d].channel = c /\ answer'[d].forced = forced
    <3>1. CASE ~Servable(found, c, forced)
      <4>1. answer'[d].channel = NoChannel
        BY <2>3, <3>1
      <4> QED BY <2>0, <4>1
    <3>2. CASE Servable(found, c, forced)
      BY <2>3, <3>2
    <3> QED BY <3>1, <3>2
  <2>5. ~Shut(found)
    BY <2>4 DEF Servable, SettingsOf, Shut
  <2>6. req[r].step = "updateCheck" /\ r \in outdated
    BY <2>0, <2>2, <2>4, <2>5 DEF UpdateCheck, At, ReadHolds
  <2>7. req'[r] # req[r]
    BY <2>0, <2>2, <2>6, Finishing, IdleFormed DEF UpdateCheck
  <2> QED BY <2>3, <2>6, <2>7 DEF At
<1>2. Spec => [][\A d \in Devices : Answered(d)]_vars
  BY <1>1, ClosedInit, ClosedStep, PTL DEF Spec
<1> QED BY <1>2 DEF ClosedUntilRewritten

-----------------------------------------------------------------------------
(* A device is resolved to what it was last assigned to *)

\* The steps that write a store for one device.
Writes(r) == SetWrite(r) \/ LinkRow(r) \/ LinkKv(r) \/ PurgeKv(r) \/ PurgeRow(r)

\* Only the request that steps enters or leaves the middle of an assignment,
\* and only that of its own device.
LEMMA MidwayOthers ==
  ASSUME Typed, NEW r \in Requests, Step(r), NEW d \in Devices
  PROVE  /\ \A q \in Requests \ {r} : q \in Midway(d)' <=> q \in Midway(d)
         /\ ~Starts(r) /\ req[r].device # d => Midway(d)' = Midway(d) /\ r \notin Midway(d)
<1>1. \A q \in Requests \ {r} : q \in Midway(d)' <=> q \in Midway(d)
  BY Started, Advanced DEF Midway
<1>2. ASSUME ~Starts(r), req[r].device # d PROVE r \notin Midway(d) /\ r \notin Midway(d)'
  <2>1. req'[r].device # d
    BY <1>2, Advanced, IdleFormed, OverrideAssumption
  <2> QED BY <1>2, <2>1 DEF Midway
<1>3. Midway(d) \subseteq Requests /\ Midway(d)' \subseteq Requests
  BY DEF Midway
<1> QED BY <1>1, <1>2, <1>3

\* A write reaches one device, and whoever was assigning it knows.
LEMMA WriteReach ==
  ASSUME Typed, NEW r \in Requests, Writes(r), NEW d, d = req[r].device
  PROVE  /\ d \in Devices /\ ~Starts(r)
         /\ \A e \in Devices \ {d} : /\ assigned'[e] = assigned[e] /\ kv'[e] = kv[e]
                                     /\ choice'[e] = choice[e]
                                     /\ e \in unsettled' <=> e \in unsettled
         /\ plugin' = plugin
         /\ \A q \in Requests \ {r} : q \in torn \/ q \in Midway(d) => q \in torn'
<1>0. /\ assigned \in [Devices -> Channels \cup {NoChannel}] /\ kv \in [Devices -> Channels \cup {NoChannel}]
      /\ choice \in [Devices -> Channels \cup {NoChannel}] /\ Formed(req[r])
  BY DEF Typed, TypeOK
<1>1. /\ req[r].step \in {"setWrite", "linkRow", "linkKv", "unsetKv", "unlinkKv", "unsetRow", "unlinkRow"}
  BY DEF Writes, SetWrite, LinkRow, LinkKv, PurgeKv, PurgeRow, At
<1>2. d \in Devices /\ ~Starts(r)
  BY <1>0, <1>1, Started DEF Formed, AboutDevice
<1>3. \A e \in Devices \ {d} : assigned'[e] = assigned[e] /\ kv'[e] = kv[e]
  BY <1>0 DEF Writes, SetWrite, LinkRow, LinkKv, PurgeKv, PurgeRow, SetDeviceChannel,
     ClearDeviceChannel
<1>4. plugin' = plugin
  BY DEF Writes, SetWrite, LinkRow, LinkKv, PurgeKv, PurgeRow
<1>5. FirstWrite(r, d) \/ \E c, routed : LastWrite(r, d, c, routed)
  BY DEF Writes, SetWrite, LinkRow, LinkKv, PurgeKv, PurgeRow
<1>6. CASE FirstWrite(r, d)
  BY <1>2, <1>3, <1>4, <1>6 DEF FirstWrite
<1>7. ASSUME NEW c, NEW routed, LastWrite(r, d, c, routed)
      PROVE  /\ \A e \in Devices \ {d} : choice'[e] = choice[e] /\ (e \in unsettled' <=> e \in unsettled)
             /\ \A q \in Requests \ {r} : q \in torn \/ q \in Midway(d) => q \in torn'
  BY <1>0, <1>7 DEF LastWrite
<1> QED BY <1>2, <1>3, <1>4, <1>5, <1>6, <1>7

\* After a last write that nothing disturbed, nobody else is assigning the device.
LEMMA LastWriteSettles ==
  ASSUME Typed, NEW r \in Requests, NEW d \in Devices, NEW c \in Channels \cup {NoChannel},
         NEW routed \in BOOLEAN, LastWrite(r, d, c, routed), d \notin unsettled'
  PROVE  r \notin torn /\ routed /\ Midway(d) \ {r} = {} /\ choice'[d] = c
<1>1. choice \in [Devices -> Channels \cup {NoChannel}]
  BY DEF Typed, TypeOK
<1> QED BY <1>1 DEF LastWrite

\* What was written first, for the requests that do not step.
LEMMA FirstKeptByOthers ==
  ASSUME ChoiceInv, NEW r \in Requests, Writes(r), Step(r), NEW q \in Requests \ {r}
  PROVE  FirstHolds(q)'
<1>0. Typed /\ FirstHolds(q) /\ req'[q] = req[q] /\ Formed(req[q])
  BY Started, Advanced DEF ChoiceInv, Typed
<1> DEFINE e == req[q].device
           d == req[r].device
<1>1. CASE ~(q \in Midway(e))
  BY <1>0, <1>1 DEF FirstHolds, Midway
<1>2. CASE q \in Midway(e) /\ e = d
  <2>1. q \in torn'
    BY <1>0, <1>2, WriteReach
  <2> QED BY <1>0, <2>1 DEF FirstHolds
<1>3. CASE q \in Midway(e) /\ e # d
  <2>1. e \in Devices
    BY <1>0, <1>3 DEF Formed, Midway, AboutDevice
  <2>2. assigned'[e] = assigned[e] /\ kv'[e] = kv[e] /\ (q \in torn => q \in torn')
    BY <1>0, <1>3, <2>1, WriteReach
  <2> QED BY <1>0, <1>3, <2>2 DEF FirstHolds
<1> QED BY <1>1, <1>2, <1>3

\* A write leaves the resolution of other devices alone.
LEMMA ResolvesKeptForOthers ==
  ASSUME ChoiceInv, NEW r \in Requests, Writes(r), Step(r), NEW e \in Devices, e # req[r].device
  PROVE  Resolves(e)'
<1>0. Typed /\ Resolves(e)
  BY DEF ChoiceInv
<1>1. /\ assigned'[e] = assigned[e] /\ kv'[e] = kv[e] /\ plugin' = plugin
      /\ choice'[e] = choice[e] /\ (e \in unsettled' <=> e \in unsettled) /\ ~Starts(r)
  BY <1>0, WriteReach
<1>2. Midway(e)' = Midway(e)
  BY <1>0, <1>1, MidwayOthers
<1> QED BY <1>0, <1>1, <1>2 DEF Resolves, Resolved

\* Steps that write nothing for any device and enter or leave no assignment.
LEMMA ChoiceKeptWhenQuiet ==
  ASSUME ChoiceInv, Typed', UNCHANGED <<assigned, kv, plugin, choice, unsettled, torn>>,
         \A d \in Devices : Midway(d)' = Midway(d),
         \A q \in Requests : /\ \/ req'[q] = req[q]
                                \/ req'[q].step \notin {"linkRead", "linkKv", "unsetRow", "unlinkRow"}
                                \/ req'[q].step \in {"unsetRow", "unlinkRow"} /\ ~Purges(req'[q].version)
  PROVE  ChoiceInv'
<1>1. ASSUME NEW q \in Requests PROVE FirstHolds(q)'
  <2>1. CASE req'[q] = req[q]
    BY <1>1, <2>1 DEF ChoiceInv, FirstHolds, Midway
  <2>2. CASE req'[q].step \notin {"linkRead", "linkKv", "unsetRow", "unlinkRow"}
    BY <2>2 DEF FirstHolds, Midway
  <2>3. CASE req'[q].step \in {"unsetRow", "unlinkRow"} /\ ~Purges(req'[q].version)
    BY <2>3 DEF FirstHolds, Midway
  <2> QED BY <2>1, <2>2, <2>3
<1>2. ASSUME NEW d \in Devices PROVE Resolves(d)'
  BY <1>2 DEF ChoiceInv, Resolves, Resolved
<1> QED BY <1>1, <1>2 DEF ChoiceInv

\* The writes, for the request and the device they are about.
LEMMA ChoiceKeptByWrites ==
  ASSUME ChoiceInv, NEW r \in Requests, Writes(r), Step(r)
  PROVE  ChoiceInv'
<1>d. PICK d \in Devices : d = req[r].device
  BY WriteReach DEF ChoiceInv
<1> DEFINE c == req[r].channel
           v == req[r].version
<1>0. /\ Typed /\ Typed' /\ FirstHolds(r) /\ Formed(req[r]) /\ ~Starts(r)
      /\ assigned \in [Devices -> Channels \cup {NoChannel}]
      /\ kv \in [Devices -> Channels \cup {NoChannel}]
      /\ plugin' = plugin
  BY TypeStep, WriteReach DEF ChoiceInv, Next, Typed, TypeOK
<1> SUFFICES FirstHolds(r)' /\ Resolves(d)'
  <2>1. \A q \in Requests \ {r} : FirstHolds(q)'
    BY FirstKeptByOthers
  <2>2. \A e \in Devices \ {d} : Resolves(e)'
    BY <1>d, ResolvesKeptForOthers
  <2> QED BY <1>0, <2>1, <2>2 DEF ChoiceInv
\* A last write: what it leaves resolves to its channel, unless it was disturbed.
<1>2. ASSUME NEW to \in Channels \cup {NoChannel}, NEW routed \in BOOLEAN,
             LastWrite(r, d, to, routed),
             r \notin torn /\ routed => Override(plugin[d], kv'[d], assigned'[d]) = to
      PROVE  Resolves(d)'
  <2>1. d \notin unsettled' => Override(plugin'[d], kv'[d], assigned'[d]) = choice'[d]
    BY <1>0, <1>2, LastWriteSettles
  <2> QED BY <2>1 DEF Resolves, Resolved
\* A request that has finished is in the middle of nothing.
<1>3. ASSUME Finish(r) PROVE FirstHolds(r)'
  <2>1. req'[r] = Idle
    BY <1>0, <1>3, Finishing
  <2> QED BY <2>1, IdleFormed DEF FirstHolds, Midway
<1>4. CASE SetWrite(r)
  <2>1. c \in Channels /\ Finish(r) /\ LastWrite(r, d, c, Syncs(v) = Syncs(plugin[d]))
    BY <1>0, <1>d, <1>4 DEF SetWrite, At, Formed, WithChannel
  <2>2. (Syncs(v) = Syncs(plugin[d])) => Override(plugin[d], kv'[d], assigned'[d]) = c
    <3>1. CASE Syncs(v)
      BY <1>0, <1>d, <1>4, <2>1, <3>1, OverrideAssumption DEF SetWrite, Override
    <3>2. CASE ~Syncs(v)
      BY <1>0, <1>d, <1>4, <2>1, <3>2 DEF SetWrite, SetDeviceChannel, Override
    <3> QED BY <3>1, <3>2
  <2>3. Resolves(d)'
    BY <1>2, <2>1, <2>2
  <2> QED BY <1>3, <2>1, <2>3
<1>5. CASE LinkRow(r)
  <2>1. /\ req'[r].step = "linkRead" /\ req'[r].device = d /\ req'[r].channel = c
        /\ req'[r].version = v /\ c \in Channels
    <3>1. <<req[r].step, "linkRead">> \in Follows /\ Goto(r, "linkRead") /\ c \in Channels
      BY <1>0, <1>5 DEF LinkRow, At, Follows, Formed, WithChannel
    <3> QED BY <1>0, <1>d, <3>1, FollowsKept, Going
  <2>2. assigned'[d] = c
    BY <1>0, <1>d, <1>5 DEF LinkRow, SetDeviceChannel
  <2>3. FirstHolds(r)'
    BY <2>1, <2>2 DEF FirstHolds
  <2>4. CASE Syncs(v)
    <3>1. r \in Midway(d)'
      BY <2>1, <2>4 DEF Midway
    <3> QED BY <2>3, <3>1 DEF Resolves
  <2>5. CASE ~Syncs(v)
    <3>1. LastWrite(r, d, c, ~Syncs(plugin[d]))
      BY <1>d, <1>5, <2>5 DEF LinkRow
    <3>2. ~Syncs(plugin[d]) => Override(plugin[d], kv'[d], assigned'[d]) = c
      BY <2>2 DEF Override
    <3>3. Resolves(d)'
      BY <1>2, <2>1, <3>1, <3>2
    <3> QED BY <2>3, <3>3
  <2> QED BY <2>4, <2>5
<1>6. CASE LinkKv(r)
  <2>1. /\ c \in Channels /\ Finish(r) /\ LastWrite(r, d, c, TRUE) /\ req[r].step = "linkKv"
        /\ kv'[d] = c /\ assigned'[d] = assigned[d] /\ c # NoChannel
    BY <1>0, <1>d, <1>6, OverrideAssumption DEF LinkKv, At, Formed, WithChannel
  <2>2. r \notin torn => assigned[d] = c
    BY <1>0, <1>d, <2>1 DEF FirstHolds, Midway
  <2>3. r \notin torn => Override(plugin[d], kv'[d], assigned'[d]) = c
    BY <2>1, <2>2 DEF Override
  <2>4. Resolves(d)'
    BY <1>2, <2>1, <2>3
  <2> QED BY <1>3, <2>1, <2>4
<1>7. CASE PurgeKv(r)
  <2>1. /\ req'[r].step \in {"unsetRow", "unlinkRow"} /\ req'[r].device = d /\ req'[r].version = v
        /\ Purges(v)
    <3>1. PICK step \in {"unsetRow", "unlinkRow"} :
            <<req[r].step, step>> \in Follows /\ Goto(r, step) /\ Purges(v)
      BY <1>0, <1>7 DEF PurgeKv, At, Follows, Formed
    <3> QED BY <1>0, <1>d, <3>1, FollowsKept, Going
  <2>2. kv'[d] = NoChannel
    BY <1>0, <1>d, <1>7 DEF PurgeKv
  <2>3. FirstHolds(r)'
    BY <2>1, <2>2 DEF FirstHolds
  <2>4. r \in Midway(d)'
    BY <2>1 DEF Midway
  <2> QED BY <2>3, <2>4 DEF Resolves
<1>8. CASE PurgeRow(r)
  <2>1. /\ req[r].step \in {"unsetRow", "unlinkRow"} /\ kv' = kv /\ assigned'[d] = NoChannel
        /\ LastWrite(r, d, NoChannel, Syncs(plugin[d]) => Syncs(v) \/ v = NoVersion)
    BY <1>0, <1>d, <1>8 DEF PurgeRow, ClearDeviceChannel
  <2>2. (Syncs(plugin[d]) => Syncs(v) \/ v = NoVersion) <=> (Syncs(plugin[d]) => Purges(v))
    BY DEF Purges
  <2>3. r \notin torn /\ Purges(v) => kv[d] = NoChannel
    BY <1>0, <1>d, <2>1 DEF FirstHolds, Midway
  <2>4. r \notin torn /\ (Syncs(plugin[d]) => Purges(v))
          => Override(plugin[d], kv'[d], assigned'[d]) = NoChannel
    BY <2>1, <2>3 DEF Override
  <2>5. Resolves(d)'
    <3> DEFINE routed == Syncs(plugin[d]) => Syncs(v) \/ v = NoVersion
    <3>1. routed \in BOOLEAN /\ LastWrite(r, d, NoChannel, routed)
      BY <2>1
    <3>2. r \notin torn /\ routed => Override(plugin[d], kv'[d], assigned'[d]) = NoChannel
      BY <2>2, <2>4
    <3> HIDE DEF routed
    <3> QED BY <1>2, <3>1, <3>2
  <2>6. FirstHolds(r)'
    <3>1. CASE Finish(r)
      BY <1>3, <3>1
    <3>2. CASE Goto(r, "unlinkDevice") /\ req[r].step = "unlinkRow"
      <4>1. <<req[r].step, "unlinkDevice">> \in Follows
        BY <3>2 DEF Follows
      <4>2. req'[r].step = "unlinkDevice"
        BY <1>0, <3>2, <4>1, FollowsKept, Going
      <4> QED BY <4>2 DEF FirstHolds, Midway
    <3> QED BY <1>8, <3>1, <3>2 DEF PurgeRow, At
  <2> QED BY <2>5, <2>6
<1> QED BY <1>4, <1>5, <1>6, <1>7, <1>8 DEF Writes

\* The steps that write no assignment and are not between two writes.
LEMMA ChoiceKeptByOthers ==
  ASSUME ChoiceInv, NEW r \in Requests, Step(r), ~Writes(r),
         ~LinkRead(r), ~ClearAssigned(r), ~Interrupt(r)
  PROVE  ChoiceInv'
<1>0. Typed /\ Typed' /\ Formed(req[r]) /\ \A q \in Requests \ {r} : req'[q] = req[q]
  BY TypeStep, Started, Advanced DEF ChoiceInv, Typed, Next
<1> DEFINE Between == {"linkRead", "linkKv", "unsetRow", "unlinkRow"}
<1>1. UNCHANGED <<assigned, kv, plugin, choice, unsettled, torn>>
  <2>1. CASE Starts(r)
    BY <1>0, <2>1, Started DEF stores, history
  <2>2. CASE ~Starts(r)
    BY <2>2 DEF Step, Starts, Writes, SetRecord, ListRows, SetCheck, LinkCheck, DeleteCheck,
       UnsetRecord, LinkRecord, UnlinkDevice, UpdateRecord, UpdateKv, UpdateRow, UpdateCheck,
       UploadChannel, UploadRelease, DropChannel, DropReleases, stores, history
  <2> QED BY <2>1, <2>2
<1>2. req[r].step \notin Between
  <2>1. CASE Starts(r)
    BY <1>0, <2>1, Started
  <2>2. CASE ~Starts(r)
    BY <2>2 DEF Step, Starts, Writes, SetRecord, ListRows, SetCheck, LinkCheck, DeleteCheck,
       UnsetRecord, LinkRecord, UnlinkDevice, UpdateRecord, UpdateKv, UpdateRow, UpdateCheck,
       UploadChannel, UploadRelease, DropChannel, DropReleases, At
  <2> QED BY <2>1, <2>2
<1>3. req'[r].step \in Between => req'[r].step \in {"unsetRow", "unlinkRow"} /\ ~Purges(req'[r].version)
  <2> SUFFICES ASSUME req'[r].step \in Between
               PROVE  req'[r].step \in {"unsetRow", "unlinkRow"} /\ ~Purges(req'[r].version)
      OBVIOUS
  <2>1. CASE Starts(r)
    BY <1>0, <2>1, Started
  <2>2. CASE ~Starts(r)
    <3>1. req'[r] # Idle
      BY IdleFormed
    <3>2. /\ <<req[r].step, req'[r].step>> \in Follows /\ req'[r].version = req[r].version
      BY <1>0, <2>2, <3>1, Advanced
    <3>3. /\ req[r].step \in {"linkRow", "unsetKv", "unlinkKv", "unsetRecord"}
          /\ req[r].step = "unsetRecord" => req'[r].step \in {"unsetRow", "unsetKv"}
      BY <1>2, <3>2 DEF Follows
    <3>4. UnsetRecord(r)
      BY <2>2, <3>3 DEF Step, Starts, Writes, At, SetRecord, ListRows, SetCheck, LinkCheck,
         DeleteCheck, LinkRecord, UnlinkDevice, UpdateRecord, UpdateKv, UpdateRow, UpdateCheck,
         UploadChannel, UploadRelease, DropChannel, DropReleases
    <3>5. req'[r].step = (IF Purges(req[r].version) THEN "unsetKv" ELSE "unsetRow")
      BY <1>0, <3>4 DEF UnsetRecord, Goto, Become, Typed, TypeOK, RequestStates
    <3> QED BY <3>2, <3>5
  <2> QED BY <2>1, <2>2
<1>4. ASSUME NEW d \in Devices PROVE Midway(d)' = Midway(d)
  <2>1. r \notin Midway(d) /\ r \notin Midway(d)'
    BY <1>2, <1>3 DEF Midway
  <2>2. \A q \in Requests \ {r} : q \in Midway(d)' <=> q \in Midway(d)
    BY <1>0, MidwayOthers
  <2>3. Midway(d) \subseteq Requests /\ Midway(d)' \subseteq Requests
    BY DEF Midway
  <2> QED BY <2>1, <2>2, <2>3
<1> QED BY <1>0, <1>1, <1>3, <1>4, ChoiceKeptWhenQuiet

\* The device is read back between the two writes of its assignment.
LEMMA ChoiceKeptByReading ==
  ASSUME ChoiceInv, NEW r \in Requests, LinkRead(r)
  PROVE  ChoiceInv'
<1>0. /\ Typed /\ Typed' /\ Formed(req[r]) /\ Step(r) /\ req[r].step = "linkRead" /\ FirstHolds(r)
      /\ \A q \in Requests \ {r} : FirstHolds(q)
      /\ UNCHANGED <<assigned, kv, plugin, choice>>
      /\ unsettled \subseteq Devices
  BY TypeStep DEF ChoiceInv, Typed, TypeOK, Next, Step, LinkRead, At, stores
<1>1. ~Starts(r)
  BY <1>0, Started
<1>2. /\ req[r].device \in Devices
      /\ \A q \in Requests \ {r} : req'[q] = req[q] /\ (q \in torn => q \in torn')
      /\ \A d \in Devices : d \in unsettled => d \in unsettled'
  <2>1. \A q \in Requests \ {r} : q \in torn => q \in torn'
    BY DEF LinkRead
  <2>2. \A d \in Devices : d \in unsettled => d \in unsettled'
    BY DEF LinkRead
  <2> QED BY <1>0, <1>1, <2>1, <2>2, Advanced DEF Formed, AboutDevice
<1>3. ASSUME NEW q \in Requests \ {r} PROVE FirstHolds(q)'
  BY <1>0, <1>2, <1>3 DEF FirstHolds, Midway
<1>4. ASSUME NEW d \in Devices, d # req[r].device PROVE Resolves(d)'
  <2>1. Midway(d)' = Midway(d)
    BY <1>0, <1>1, <1>4, MidwayOthers
  <2>2. Resolves(d)
    BY DEF ChoiceInv
  <2> QED BY <1>0, <1>2, <2>1, <2>2 DEF Resolves, Resolved
<1>5. PICK d \in Devices : d = req[r].device
  BY <1>2
<1>6. CASE Goto(r, "linkKv") /\ Syncs(req[r].version) /\ UNCHANGED <<unsettled, torn>>
  <2>1. /\ req'[r].step = "linkKv" /\ req'[r].device = d /\ req'[r].channel = req[r].channel
        /\ req'[r].version = req[r].version
    <3>1. <<req[r].step, "linkKv">> \in Follows
      BY <1>0 DEF Follows
    <3> QED BY <1>0, <1>5, <1>6, <3>1, FollowsKept, Going
  <2>2. r \in Midway(d)
    BY <1>0, <1>5, <1>6 DEF Midway
  <2>3. r \notin torn => assigned[d] = req[r].channel
    BY <1>0, <1>5, <2>2 DEF FirstHolds
  <2>4. FirstHolds(r)'
    BY <1>0, <1>6, <2>1, <2>3 DEF FirstHolds
  <2>5. r \in Midway(d)'
    BY <1>6, <2>1 DEF Midway
  <2>6. Resolves(d)'
    BY <2>5 DEF Resolves
  <2> QED BY <1>0, <1>3, <1>4, <1>5, <2>4, <2>6 DEF ChoiceInv
<1>7. CASE Finish(r) /\ unsettled' = IF r \in Midway(d) THEN unsettled \cup {d} ELSE unsettled
  <2>1. req'[r] = Idle
    BY <1>0, <1>7, Finishing
  <2>2. FirstHolds(r)'
    BY <2>1, IdleFormed DEF FirstHolds, Midway
  <2>3. Resolves(d)'
    <3>1. CASE r \in Midway(d)
      BY <1>7, <3>1 DEF Resolves
    <3>2. CASE r \notin Midway(d)
      <4>1. r \notin Midway(d)'
        BY <2>1, IdleFormed DEF Midway
      <4>2. Midway(d)' = Midway(d)
        <5>1. Midway(d) \subseteq Requests /\ Midway(d)' \subseteq Requests
          BY DEF Midway
        <5> QED BY <1>0, <3>2, <4>1, <5>1, MidwayOthers
      <4>3. Resolves(d)
        BY DEF ChoiceInv
      <4> QED BY <1>0, <1>2, <4>2, <4>3 DEF Resolves, Resolved
    <3> QED BY <3>1, <3>2
  <2> QED BY <1>0, <1>3, <1>4, <1>5, <2>2, <2>3 DEF ChoiceInv
<1> QED BY <1>5, <1>6, <1>7 DEF LinkRead

\* A request that stops leaves the devices it was assigning unsettled.
LEMMA ChoiceKeptByInterrupt ==
  ASSUME ChoiceInv, NEW r \in Requests, Interrupt(r)
  PROVE  ChoiceInv'
<1>0. /\ Typed /\ Typed' /\ Step(r) /\ Finish(r)
      /\ UNCHANGED <<assigned, kv, plugin, choice>>
      /\ \A d \in Devices : d \in unsettled \/ r \in Midway(d) => d \in unsettled'
      /\ \A q \in Requests \ {r} : q \in torn => q \in torn'
  BY TypeStep DEF ChoiceInv, Next, Step, Interrupt, stores
<1>1. req'[r] = Idle /\ \A q \in Requests \ {r} : req'[q] = req[q]
  BY <1>0, Finishing
<1>2. ASSUME NEW q \in Requests PROVE FirstHolds(q)'
  <2>1. CASE q = r
    BY <1>1, <2>1, IdleFormed DEF FirstHolds, Midway
  <2>2. CASE q # r
    BY <1>0, <1>1, <2>2 DEF ChoiceInv, FirstHolds, Midway
  <2> QED BY <2>1, <2>2
<1>3. ASSUME NEW d \in Devices PROVE Resolves(d)'
  <2>1. CASE r \in Midway(d)
    BY <1>0, <2>1 DEF Resolves
  <2>2. CASE r \notin Midway(d)
    <3>1. r \notin Midway(d)'
      BY <1>1, IdleFormed DEF Midway
    <3>2. Midway(d)' = Midway(d)
      <4>1. Midway(d) \subseteq Requests /\ Midway(d)' \subseteq Requests
        BY DEF Midway
      <4> QED BY <1>0, <2>2, <3>1, <4>1, MidwayOthers
    <3>3. Resolves(d)
      BY DEF ChoiceInv
    <3> QED BY <1>0, <3>2, <3>3 DEF Resolves, Resolved
  <2> QED BY <2>1, <2>2
<1> QED BY <1>0, <1>2, <1>3 DEF ChoiceInv

\* A deletion of a channel clears the rows that name it: a device that had chosen
\* the channel is unsettled, and any other was resolved by KV before and after.
LEMMA ChoiceKeptByClearing ==
  ASSUME ChoiceInv, NEW r \in Requests, ClearAssigned(r)
  PROVE  ChoiceInv'
<1> DEFINE c == req[r].channel
           cleared == AssignedTo(c)
<1>0. /\ Typed /\ Typed' /\ Step(r) /\ Finish(r) /\ req[r].step = "clearAssigned"
      /\ UNCHANGED <<kv, plugin, choice>>
      /\ assigned' = [d \in Devices |-> IF d \in cleared THEN NoChannel ELSE assigned[d]]
      /\ unsettled' = unsettled \cup {d \in cleared : choice[d] = c}
      /\ torn' = torn \cup UNION {Midway(d) : d \in cleared}
  BY TypeStep DEF ChoiceInv, Next, Step, ClearAssigned, At
<1>1. req'[r] = Idle /\ \A q \in Requests \ {r} : req'[q] = req[q]
  BY <1>0, Finishing
<1>2. ASSUME NEW q \in Requests PROVE FirstHolds(q)'
  <2>1. CASE q = r
    BY <1>1, <2>1, IdleFormed DEF FirstHolds, Midway
  <2>2. CASE q # r
    <3>0. FirstHolds(q) /\ req'[q] = req[q] /\ Formed(req[q])
      BY <1>0, <1>1, <2>2 DEF ChoiceInv, Typed
    <3> DEFINE e == req[q].device
    <3>1. CASE q \notin Midway(e)
      BY <3>0, <3>1 DEF FirstHolds, Midway
    <3>2. CASE q \in Midway(e) /\ e \in cleared
      <4>1. q \in torn'
        BY <1>0, <3>2
      <4> QED BY <3>0, <4>1 DEF FirstHolds
    <3>3. CASE q \in Midway(e) /\ e \notin cleared
      <4>1. e \in Devices
        BY <3>0, <3>3 DEF Formed, Midway, AboutDevice
      <4>2. assigned'[e] = assigned[e] /\ (q \in torn => q \in torn')
        BY <1>0, <3>3, <4>1
      <4> QED BY <1>0, <3>0, <3>3, <4>2 DEF FirstHolds
    <3> QED BY <3>1, <3>2, <3>3
  <2> QED BY <2>1, <2>2
<1>3. ASSUME NEW d \in Devices PROVE Resolves(d)'
  <2>1. Midway(d)' = Midway(d)
    <3>1. r \notin Midway(d)' /\ r \notin Midway(d)
      BY <1>0, <1>1, IdleFormed DEF Midway
    <3>2. Midway(d) \subseteq Requests /\ Midway(d)' \subseteq Requests
      BY DEF Midway
    <3>3. \A q \in Requests \ {r} : q \in Midway(d)' <=> q \in Midway(d)
      <4>1. Typed /\ Step(r)
        BY <1>0
      <4> QED BY <4>1, MidwayOthers
    <3> QED BY <3>1, <3>2, <3>3
  <2>2. Resolves(d)
    BY DEF ChoiceInv
  <2>3. CASE d \notin cleared
    <3>1. assigned'[d] = assigned[d] /\ (d \in unsettled => d \in unsettled')
      BY <1>0, <2>3
    <3> QED BY <1>0, <2>1, <2>2, <3>1 DEF Resolves, Resolved
  <2>4. CASE d \in cleared
    <3>1. assigned[d] = c /\ assigned'[d] = NoChannel
      BY <1>0, <2>4 DEF AssignedTo
    <3>2. d \notin unsettled' => d \notin unsettled /\ choice[d] # c
      BY <1>0, <2>4
    <3>3. ASSUME d \notin unsettled', Midway(d)' = {} PROVE Resolved(d)' = choice'[d]
      <4>1. Resolved(d) = choice[d] /\ choice[d] # assigned[d]
        BY <2>1, <2>2, <3>1, <3>2, <3>3 DEF Resolves
      <4>2. Syncs(plugin[d]) /\ kv[d] # NoChannel
        BY <4>1 DEF Resolved, Override
      <4> QED BY <1>0, <4>1, <4>2 DEF Resolved, Override
    <3> QED BY <3>3 DEF Resolves
  <2> QED BY <2>3, <2>4
<1> QED BY <1>0, <1>2, <1>3 DEF ChoiceInv

\* Another plugin in the application: a device whose versions are on the other
\* side of the line is unsettled, any other reads the same stores.
LEMMA ChoiceKeptByUpgrade ==
  ASSUME ChoiceInv, NEW d \in Devices, Upgrade(d)
  PROVE  ChoiceInv'
<1>0. /\ Typed /\ Typed' /\ plugin \in [Devices -> PluginVersions]
      /\ UNCHANGED <<assigned, kv, req, choice, torn>>
  BY TypeStep DEF ChoiceInv, Next, Upgrade, stores, Typed, TypeOK
<1>1. PICK v \in PluginVersions :
        /\ plugin' = [plugin EXCEPT ![d] = v]
        /\ unsettled' = IF Syncs(v) = Syncs(plugin[d]) THEN unsettled ELSE unsettled \cup {d}
  BY DEF Upgrade
<1>2. \A e \in Devices : Midway(e)' = Midway(e)
  BY <1>0 DEF Midway
<1>3. ASSUME NEW q \in Requests PROVE FirstHolds(q)'
  <2>1. FirstHolds(q)
    BY DEF ChoiceInv
  <2> QED BY <1>0, <2>1 DEF FirstHolds, Midway
<1>4. ASSUME NEW e \in Devices PROVE Resolves(e)'
  <2>0. Resolves(e)
    BY DEF ChoiceInv
  <2>1. e \in unsettled => e \in unsettled'
    BY <1>1
  <2>2. CASE Syncs(plugin'[e]) = Syncs(plugin[e])
    BY <1>0, <1>2, <2>0, <2>1, <2>2 DEF Resolves, Resolved, Override
  <2>3. CASE Syncs(plugin'[e]) # Syncs(plugin[e])
    <3>1. e = d /\ plugin'[e] = v
      BY <1>0, <1>1, <2>3
    <3>2. e \in unsettled'
      BY <1>1, <2>3, <3>1
    <3> QED BY <3>2 DEF Resolves
  <2> QED BY <2>2, <2>3
<1> QED BY <1>0, <1>3, <1>4 DEF ChoiceInv

LEMMA ChoiceInit == Init => ChoiceInv
<1> SUFFICES ASSUME Init PROVE ChoiceInv
    OBVIOUS
<1>1. \A r \in Requests : FirstHolds(r)
  BY IdleFormed DEF Init, FirstHolds, Midway
<1>2. \A d \in Devices : Resolves(d)
  BY DEF Init, Resolves, Resolved, Override
<1> QED BY <1>1, <1>2, TypeInit DEF ChoiceInv

LEMMA ChoiceStep == ChoiceInv /\ [Next]_vars => ChoiceInv'
<1> SUFFICES ASSUME ChoiceInv, [Next]_vars PROVE ChoiceInv'
    OBVIOUS
<1>1. ASSUME NEW r \in Requests, Step(r) PROVE ChoiceInv'
  BY <1>1, ChoiceKeptByWrites, ChoiceKeptByOthers, ChoiceKeptByReading, ChoiceKeptByInterrupt,
     ChoiceKeptByClearing
<1>2. ASSUME UNCHANGED <<assigned, kv, plugin, choice, unsettled, torn, req>> PROVE ChoiceInv'
  <2>1. Typed'
    BY TypeStep DEF ChoiceInv
  <2>2. \A d \in Devices : Midway(d)' = Midway(d)
    BY <1>2 DEF Midway
  <2> QED BY <1>2, <2>1, <2>2, ChoiceKeptWhenQuiet
<1>3. CASE PostChannel \/ CreateAppAgain \/ DeleteBundle \/ UNCHANGED vars
  BY <1>2, <1>3 DEF PostChannel, CreateAppAgain, DeleteBundle, vars, stores, history
<1> QED BY <1>1, <1>3, ChoiceKeptByUpgrade DEF Next

\* Two stores answer for one device, yet it is resolved to the channel it was
\* last assigned to, whenever nothing disturbed that assignment (LastChoiceResolved).
THEOREM LastChoiceWins == Spec => []LastChoiceResolved
<1>1. Spec => []ChoiceInv
  BY ChoiceInit, ChoiceStep, PTL DEF Spec
<1>2. ChoiceInv => LastChoiceResolved
  BY DEF ChoiceInv, Resolves, LastChoiceResolved
<1> QED BY <1>1, <1>2, PTL
=============================================================================
