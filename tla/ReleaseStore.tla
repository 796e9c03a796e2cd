---------------------------- MODULE ReleaseStore ----------------------------
(***************************************************************************)
(* The release storage of one application: the D1 tables apps, channels    *)
(* and releases and the R2 bucket of bundles, as D1R2Storage (storage.ts)  *)
(* writes them for the administration routes of the Worker (index.ts).     *)
(*                                                                         *)
(* No operation runs in a transaction.  Every SQL statement and every      *)
(* bucket call is awaited on its own, so the requests of concurrent Worker *)
(* invocations interleave between any two of them, and an invocation that  *)
(* is evicted, or whose next call fails, stops there.  A request below is  *)
(* one such invocation; req[r].step names the statement it sends next.     *)
(*                                                                         *)
(* Every statement carries app_id, so one application is enough.           *)
(***************************************************************************)
CONSTANTS
  Requests,       \* concurrent Worker invocations
  Platforms,      \* platforms a bundle can be uploaded for
  Targets,        \* platforms a channel row has a flag for
  Channels,       \* channel names
  Production,     \* the channel every application starts with
  Versions,       \* release versions
  Contents,       \* uploads: bytes together with the checksum claimed for them
  ChannelInputs,  \* bodies POST /channel is called with
  Routes,         \* the operations in use
  NoContent,      \* no row, or no object, under this key
  NoRow,          \* no channel row under this name
  NoKey           \* the request is about no key

AllRoutes == {"createApp", "v1CreateApp", "deleteApp", "v1Upload", "postBundle", "deleteBundle",
              "postChannel", "deleteChannel"}

Flag == {"on", "off", "unset"}

ChannelRows ==
  [public : BOOLEAN, selfSet : BOOLEAN, flags : [Targets -> Flag]]

ChannelBodies ==
  [public : Flag, selfSet : Flag, flags : [Targets -> Flag]]

ASSUME StoreAssumption ==
  /\ Production \in Channels
  /\ {"ios", "android", "electron"} \subseteq Targets
  /\ ChannelInputs \subseteq ChannelBodies
  /\ Routes \subseteq AllRoutes
  /\ NoContent \notin Contents
  /\ NoRow \notin ChannelRows

Keys == [platform : Platforms, channel : Channels, version : Versions]

ASSUME NoKeyAssumption == NoKey \notin Keys

VARIABLES
  app,        \* whether the apps row exists
  channels,   \* the channels table
  releases,   \* the releases table: the upload whose checksum each row holds
  bundles,    \* the bucket: the upload stored at each release's path
  req,        \* the state of every request
  overrun,    \* history: uploads whose object another request touched before its row
  disturbed,  \* history: keys left apart by an overlap or an interruption
  outrun,     \* history: promotions an overlapping channel went public under
  contested   \* history: channels published by an outrun promotion

vars == <<app, channels, releases, bundles, req, overrun, disturbed, outrun, contested>>

Steps == {"idle", "createApp", "createAppChannel", "confirmApp", "release",
          "uploadChannel", "put", "insert", "confirm", "delete", "selectPublic", "upsert",
          "dropChannel", "dropReleases"}

RequestStates ==
  [step    : Steps,
   key     : Keys \cup {NoKey},            \* the release being stored
   content : Contents \cup {NoContent},    \* NoContent: only creates the app
   later   : SUBSET Channels,              \* channels still to release to
   name    : Channels,                     \* the channel written or deleted
   row     : ChannelRows \cup {NoRow},     \* the row POST /channel writes
   demote  : SUBSET Channels,              \* public channels still to demote
   scope   : SUBSET Keys,                  \* rows a deletion will drop
   pending : SUBSET Keys,                  \* objects it has still to delete
   held    : SUBSET Keys]                  \* objects deleted, rows not yet

Idle ==
  [step |-> "idle", key |-> NoKey, content |-> NoContent, later |-> {},
   name |-> Production, row |-> NoRow, demote |-> {},
   scope |-> {}, pending |-> {}, held |-> {}]

At(r, step) == req[r].step = step
Become(r, state) == req' = [req EXCEPT ![r] = state]
Goto(r, step) == Become(r, [req[r] EXCEPT !.step = step])
Finish(r) == Become(r, Idle)

Init ==
  /\ app = FALSE
  /\ channels = [c \in Channels |-> NoRow]
  /\ releases = [k \in Keys |-> NoContent]
  /\ bundles = [k \in Keys |-> NoContent]
  /\ req = [r \in Requests |-> Idle]
  /\ overrun = {}
  /\ disturbed = {}
  /\ outrun = {}
  /\ contested = {}

-----------------------------------------------------------------------------
(* Channel rows *)

IsSet(flag, default) == flag = "on" \/ (flag = "unset" /\ default)

\* As if an absent electron flag were stored as the literal undefined.
LeakedFlag(flags, t) ==
  IF t = "electron" /\ flags[t] = "unset" THEN "undefined" ELSE flags[t]

\* An absent flag is stored as NULL, except that electron is opted out of
\* when the channel is not for both mobile platforms.
StoredFlag(flags, t) ==
  IF /\ t = "electron" /\ flags[t] = "unset"
     /\ ~ (flags["ios"] = "on" /\ flags["android"] = "on")
  THEN "off"
  ELSE flags[t]

\* channelRow: the row an input stands for, absent fields defaulted.
ChannelRow(name, input) ==
  [public  |-> IsSet(input.public, name = Production),
   selfSet |-> IsSet(input.selfSet, TRUE),
   flags   |-> [t \in Targets |-> StoredFlag(input.flags, t)]]

\* What createApp and createRelease upsert: production public, every channel
\* self-assignable, no platform flag.
UploadInput(name) ==
  [public  |-> IF name = Production THEN "on" ELSE "off",
   selfSet |-> "on",
   flags   |-> [t \in Targets |-> "unset"]]

\* publicChannelsOverlap: only a flag stored as 1 on both sides counts.
Overlap(a, b) == \E t \in Targets : a.flags[t] = "on" /\ b.flags[t] = "on"

IsPublic(c) == channels[c] # NoRow /\ channels[c].public

\* The public channels that share a platform with a row for name.
OverlappingPublic(name, row) ==
  {c \in Channels \ {name} : IsPublic(c) /\ Overlap(row, channels[c])}

\* As if only a channel with the same flags were demoted.
SameFlagsPublic(name, row) ==
  {c \in Channels \ {name} : IsPublic(c) /\ channels[c].flags = row.flags}

\* The channels upsertChannel demotes, as its SELECT and its loop find them.
DemotionList(name, row) == OverlappingPublic(name, row)

\* listChannels and mergeChannels: explicit rows, and channels with releases.
ListedChannels ==
  {c \in Channels : \/ channels[c] # NoRow
                    \/ \E k \in Keys : k.channel = c /\ releases[k] # NoContent}

HasSettings(input) ==
  \/ input.public # "unset"
  \/ input.selfSet # "unset"
  \/ \E t \in Targets : input.flags[t] # "unset"

\* An INSERT .. ON CONFLICT DO UPDATE of a row without platform flags.  Its
\* SELECT of overlapping public channels finds none whatever the table holds.
UpsertUnflagged(c) ==
  /\ channels' = [channels EXCEPT ![c] = ChannelRow(c, UploadInput(c))]
  /\ contested' = contested \ {c}

-----------------------------------------------------------------------------
(* The statements on releases and bundles *)

\* As if the conflict clause of the INSERT were DO NOTHING.
KeepExistingRow(k, x) ==
  releases' = IF releases[k] = NoContent THEN [releases EXCEPT ![k] = x] ELSE releases

\* INSERT INTO releases .. ON CONFLICT DO UPDATE of every column.
UpsertRow(k, x) == releases' = [releases EXCEPT ![k] = x]

\* As if the put were made only when the path is free.
KeepExistingObject(k, x) ==
  bundles' = IF bundles[k] = NoContent THEN [bundles EXCEPT ![k] = x] ELSE bundles

\* bundleBucket.put: bytes and checksum metadata in one object.
PutObject(k, x) == bundles' = [bundles EXCEPT ![k] = x]

DropRows(S) == releases' = [k \in Keys |-> IF k \in S THEN NoContent ELSE releases[k]]

-----------------------------------------------------------------------------
(* createApp, deleteApp *)

\* POST /app: 409 when the id is taken.  POST /v1/apps does not ask.
StartCreateApp(r) ==
  /\ At(r, "idle")
  /\ \/ "createApp" \in Routes /\ ~app
     \/ "v1CreateApp" \in Routes
  /\ Goto(r, "createApp")
  /\ UNCHANGED <<app, channels, releases, bundles, overrun, disturbed, outrun, contested>>

CreateAppRow(r) ==
  /\ At(r, "createApp")
  /\ app' = TRUE
  /\ Goto(r, "createAppChannel")
  /\ UNCHANGED <<channels, releases, bundles, overrun, disturbed, outrun, contested>>

CreateAppChannel(r) ==
  /\ At(r, "createAppChannel")
  /\ UpsertUnflagged(Production)
  /\ Goto(r, "confirmApp")
  /\ UNCHANGED <<app, releases, bundles, overrun, disturbed, outrun>>

\* createApp throws when the application is already gone; otherwise an upload
\* that had to create it goes on.
ConfirmApp(r) ==
  /\ At(r, "confirmApp")
  /\ IF app /\ req[r].content # NoContent THEN Goto(r, "uploadChannel") ELSE Finish(r)
  /\ UNCHANGED <<app, channels, releases, bundles, overrun, disturbed, outrun, contested>>

\* DELETE /app/:appId drops the apps row and nothing that hangs from it.
DeleteApp ==
  /\ "deleteApp" \in Routes
  /\ app
  /\ app' = FALSE
  /\ UNCHANGED <<channels, releases, bundles, req, overrun, disturbed, outrun, contested>>

-----------------------------------------------------------------------------
(* createRelease *)

Uploading(k, x, later) ==
  [Idle EXCEPT !.step = "release", !.key = k, !.content = x, !.later = later]

\* POST /v1/apps/:appId/bundles: no check for an existing version.
StartV1Upload(r) ==
  /\ "v1Upload" \in Routes
  /\ At(r, "idle")
  /\ \E k \in Keys, x \in Contents : Become(r, Uploading(k, x, {}))
  /\ UNCHANGED <<app, channels, releases, bundles, overrun, disturbed, outrun, contested>>

\* POST /bundle: the application exists and none of the requested channels
\* has this version for this platform.
StartPostBundle(r) ==
  /\ "postBundle" \in Routes
  /\ At(r, "idle") /\ app
  /\ \E k \in Keys, x \in Contents, later \in SUBSET Channels :
       /\ k.channel \notin later
       /\ \A c \in later \cup {k.channel} :
            releases[[k EXCEPT !.channel = c]] = NoContent
       /\ Become(r, Uploading(k, x, later))
  /\ UNCHANGED <<app, channels, releases, bundles, overrun, disturbed, outrun, contested>>

\* getApp, and createApp when there is none.
BeginRelease(r) ==
  /\ At(r, "release")
  /\ Goto(r, IF app THEN "uploadChannel" ELSE "createApp")
  /\ UNCHANGED <<app, channels, releases, bundles, overrun, disturbed, outrun, contested>>

UpsertUploadChannel(r) ==
  /\ At(r, "uploadChannel")
  /\ UpsertUnflagged(req[r].key.channel)
  /\ Goto(r, "put")
  /\ UNCHANGED <<app, releases, bundles, overrun, disturbed, outrun>>

\* The requests whose object of key k is in the bucket and row is not.
Storing(k) == {r \in Requests : At(r, "insert") /\ req[r].key = k}

PutBundle(r) ==
  LET k == req[r].key IN
  /\ At(r, "put")
  /\ PutObject(k, req[r].content)
  /\ Goto(r, "insert")
  /\ overrun' = overrun \cup Storing(k)
  /\ UNCHANGED <<app, channels, releases, disturbed, outrun, contested>>

InsertRelease(r) ==
  LET k == req[r].key IN
  /\ At(r, "insert")
  /\ UpsertRow(k, req[r].content)
  /\ Goto(r, "confirm")
  /\ disturbed' = IF r \in overrun THEN disturbed \cup {k} ELSE disturbed \ {k}
  /\ overrun' = overrun \ {r}
  /\ UNCHANGED <<app, channels, bundles, outrun, contested>>

\* getRelease: createRelease throws when the row is already gone; otherwise
\* POST /bundle goes on to the next requested channel.
ConfirmRelease(r) ==
  /\ At(r, "confirm")
  /\ IF releases[req[r].key] = NoContent \/ req[r].later = {}
     THEN Finish(r)
     ELSE \E c \in req[r].later :
            Become(r, Uploading([req[r].key EXCEPT !.channel = c],
                                req[r].content, req[r].later \ {c}))
  /\ UNCHANGED <<app, channels, releases, bundles, overrun, disturbed, outrun, contested>>

-----------------------------------------------------------------------------
(* deleteReleases *)

\* DELETE /bundle: one version, or every release when no version is given.
StartDeleteReleases(r) ==
  /\ "deleteBundle" \in Routes
  /\ At(r, "idle") /\ app
  /\ \E scope \in {{k \in Keys : k.version = v} : v \in Versions} \cup {Keys} :
       LET matches == {k \in scope : releases[k] # NoContent} IN
       /\ matches # {}
       /\ Become(r, [Idle EXCEPT !.step = "delete", !.scope = scope, !.pending = matches])
  /\ UNCHANGED <<app, channels, releases, bundles, overrun, disturbed, outrun, contested>>

\* One bucket delete of the loop; the order among the matches is left open.
DeleteObject(r) ==
  /\ At(r, "delete")
  /\ \E k \in req[r].pending :
       /\ bundles' = [bundles EXCEPT ![k] = NoContent]
       /\ Become(r, [req[r] EXCEPT !.pending = @ \ {k}, !.held = @ \cup {k}])
       /\ overrun' = overrun \cup Storing(k)
  /\ UNCHANGED <<app, channels, releases, disturbed, outrun, contested>>

\* As if the rows of the listed releases were deleted, not those of the version.
ListedRows(r) == req[r].held

\* The DELETE is by version, so it also drops rows inserted since the listing.
DeletedRows(r) == req[r].scope

DeleteRows(r) ==
  /\ At(r, "delete") /\ req[r].pending = {}
  /\ DropRows(DeletedRows(r))
  /\ disturbed' = disturbed \ req[r].scope
  /\ Finish(r)
  /\ UNCHANGED <<app, channels, bundles, overrun, outrun, contested>>

-----------------------------------------------------------------------------
(* upsertChannel, deleteChannel *)

\* POST /channel: an existing channel needs at least one setting to change.
StartPostChannel(r) ==
  /\ "postChannel" \in Routes
  /\ At(r, "idle") /\ app
  /\ \E c \in Channels, input \in ChannelInputs :
       LET row == ChannelRow(c, input) IN
       /\ c \in ListedChannels => HasSettings(input)
       /\ Become(r, [Idle EXCEPT !.step = IF row.public THEN "selectPublic" ELSE "upsert",
                                 !.name = c, !.row = row])
  /\ UNCHANGED <<app, channels, releases, bundles, overrun, disturbed, outrun, contested>>

SelectPublic(r) ==
  /\ At(r, "selectPublic")
  /\ Become(r, [req[r] EXCEPT !.step = "upsert",
                              !.demote = DemotionList(req[r].name, req[r].row)])
  /\ UNCHANGED <<app, channels, releases, bundles, overrun, disturbed, outrun, contested>>

\* One UPDATE of the loop; it finds no row when the channel was deleted.
DemoteChannel(r) ==
  /\ At(r, "upsert")
  /\ \E c \in req[r].demote :
       /\ channels' = IF channels[c] = NoRow THEN channels
                      ELSE [channels EXCEPT ![c].public = FALSE]
       /\ contested' = contested \ {c}
       /\ Become(r, [req[r] EXCEPT !.demote = @ \ {c}])
  /\ UNCHANGED <<app, releases, bundles, overrun, disturbed, outrun>>

\* The promotions under way that publishing row under name outruns.
Outrunning(name, row) ==
  {q \in Requests : /\ row.public
                    /\ At(q, "upsert") /\ req[q].row.public
                    /\ req[q].name # name
                    /\ Overlap(req[q].row, row)}

UpsertChannel(r) ==
  LET name == req[r].name
      row  == req[r].row
  IN
  /\ At(r, "upsert") /\ req[r].demote = {}
  /\ channels' = [channels EXCEPT ![name] = row]
  /\ outrun' = (outrun \cup Outrunning(name, row)) \ {r}
  /\ contested' = IF r \in outrun
                  THEN contested \cup {name}
                  ELSE contested \ {name}
  /\ Finish(r)
  /\ UNCHANGED <<app, releases, bundles, overrun, disturbed>>

\* DELETE /channel: bundles stay in the bucket.  The last statement, on
\* device_channels, is in module ChannelOverrides.
StartDeleteChannel(r) ==
  /\ "deleteChannel" \in Routes
  /\ At(r, "idle") /\ app
  /\ \E c \in ListedChannels : Become(r, [Idle EXCEPT !.step = "dropChannel", !.name = c])
  /\ UNCHANGED <<app, channels, releases, bundles, overrun, disturbed, outrun, contested>>

DropChannel(r) ==
  /\ At(r, "dropChannel")
  /\ channels' = [channels EXCEPT ![req[r].name] = NoRow]
  /\ contested' = contested \ {req[r].name}
  /\ Goto(r, "dropReleases")
  /\ UNCHANGED <<app, releases, bundles, overrun, disturbed, outrun>>

DropReleases(r) ==
  LET dropped == {k \in Keys : k.channel = req[r].name} IN
  /\ At(r, "dropReleases")
  /\ DropRows(dropped)
  /\ disturbed' = disturbed \ dropped
  /\ Finish(r)
  /\ UNCHANGED <<app, channels, bundles, overrun, outrun, contested>>

-----------------------------------------------------------------------------
\* The keys whose object this request has changed and row not yet.
Window(r) ==
  IF At(r, "insert") THEN {req[r].key}
  ELSE IF At(r, "delete") THEN req[r].held
  ELSE {}

\* The isolate is evicted, or the next statement or bucket call throws.
Interrupt(r) ==
  /\ ~ At(r, "idle")
  /\ disturbed' = disturbed \cup Window(r)
  /\ overrun' = overrun \ {r}
  /\ outrun' = outrun \ {r}
  /\ Finish(r)
  /\ UNCHANGED <<app, channels, releases, bundles, contested>>

Step(r) ==
  \/ StartCreateApp(r) \/ CreateAppRow(r) \/ CreateAppChannel(r) \/ ConfirmApp(r)
  \/ StartV1Upload(r) \/ StartPostBundle(r) \/ BeginRelease(r)
  \/ UpsertUploadChannel(r) \/ PutBundle(r) \/ InsertRelease(r) \/ ConfirmRelease(r)
  \/ StartDeleteReleases(r) \/ DeleteObject(r) \/ DeleteRows(r)
  \/ StartPostChannel(r) \/ SelectPublic(r) \/ DemoteChannel(r) \/ UpsertChannel(r)
  \/ StartDeleteChannel(r) \/ DropChannel(r) \/ DropReleases(r)
  \/ Interrupt(r)

Next == DeleteApp \/ \E r \in Requests : Step(r)

Spec == Init /\ [][Next]_vars

-----------------------------------------------------------------------------
(* Properties *)

TypeOK ==
  /\ app \in BOOLEAN
  /\ channels \in [Channels -> ChannelRows \cup {NoRow}]
  /\ releases \in [Keys -> Contents \cup {NoContent}]
  /\ bundles \in [Keys -> Contents \cup {NoContent}]
  /\ req \in [Requests -> RequestStates]
  /\ overrun \subseteq Requests
  /\ disturbed \subseteq Keys
  /\ outrun \subseteq Requests
  /\ contested \subseteq Channels

\* A release row and the object at its path come from the same upload: the
\* object is there and its checksum is the one the row advertises to devices.
\* The only exceptions are keys a request is in the middle of changing, and
\* keys on which two requests overlapped or one stopped half way
\* (createRelease and deleteReleases in storage.ts).
RowsMatchBundles ==
  \A k \in Keys :
    releases[k] # NoContent /\ bundles[k] # releases[k] =>
      k \in disturbed \cup UNION {Window(r) : r \in Requests}

\* An upload nobody interfered with finds in the bucket what it put there.
IntactUploads ==
  \A r \in Requests \ overrun :
    At(r, "insert") => bundles[req[r].key] = req[r].content

\* A platform has at most one public channel among those flagged for it,
\* unless one of them was published while another promotion was under way
\* (upsertChannel in storage.ts).
PublicOverlapOnlyByRace ==
  \A a, b \in Channels :
    a # b /\ IsPublic(a) /\ IsPublic(b) /\ Overlap(channels[a], channels[b]) =>
      a \in contested \/ b \in contested

\* A promotion nobody outran has every overlapping public channel on the list
\* of those it still demotes before it publishes (upsertChannel).
FreshPromotions ==
  \A r \in Requests \ outrun :
    At(r, "upsert") /\ req[r].row.public =>
      OverlappingPublic(req[r].name, req[r].row) \subseteq req[r].demote

\* The visible releases change by whole operations only, although a deletion
\* takes its objects away one by one (deleteReleases, deleteChannel).
Published == INSTANCE Catalog WITH rows <- releases

ImplementsCatalog == Published!Spec
=============================================================================
