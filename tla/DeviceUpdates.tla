--------------------------- MODULE DeviceUpdates ---------------------------
(***************************************************************************)
(* The way of an update to a device: the updater client                    *)
(* (react-native-updater/src/index.ts) asks POST /updates for the newest   *)
(* release, downloads its bundle, remembers it as pending and hands it to  *)
(* the application, while administrators upload and delete releases.       *)
(*                                                                         *)
(* One application, platform and channel (ChannelOverrides chooses the     *)
(* channel) and one device.  A flow is one call of startCodePushGo;        *)
(* several may overlap in one run of the application.  The rows these      *)
(* handlers write to devices and to the statistics are never read back     *)
(* here and are left out.  What the repository leaves to others is         *)
(* external: the HTTP cache the download's headers address, and the        *)
(* restart that puts a new bundle into use.                                *)
(***************************************************************************)
EXTENDS Integers

CONSTANTS
  Admins,      \* concurrent upload and delete requests
  Flows,       \* concurrent calls of startCodePushGo
  MaxVersion,  \* release versions, in the order of compareVersions
  Contents,    \* bundles, and the checksums that identify them
  Uploads,     \* the releases administrators upload
  None         \* no row, object, update or bytes

Versions == 1 .. MaxVersion
NoVersion == 0  \* no min_update_version; the bundle the application ships with

Releases == [version : Versions, sum : Contents, min : Versions \cup {NoVersion}]
Updates == [version : Versions, sum : Contents]
Downloads == [update : Updates, bytes : Contents]

ASSUME UpdateAssumption ==
  /\ MaxVersion \in Nat
  /\ Uploads \subseteq Releases
  /\ None \notin Contents \cup Releases \cup Updates \cup Downloads

VARIABLES
  releases,   \* the releases table
  bundles,    \* the bucket
  admin,      \* the state of every upload and deletion
  flow,       \* the state of every call of startCodePushGo
  cache,      \* responses to downloads the device keeps, by version
  pending,    \* codepushgo:pending-update in the device's storage
  handed,     \* the last download startCodePushGo returned in this run
  installed,  \* currentVersion
  used,       \* history: versions an upload was started for
  reused,     \* history: versions a second upload was started for
  withdrawn,  \* history: versions whose release was deleted
  outdated,   \* history: flows another flow was answered after
  crossed,    \* history: flows that remembered and returned across each other
  apart       \* history: the device's last download was disturbed

store == <<releases, bundles, admin, used, reused, withdrawn>>
device == <<cache, pending, handed, installed>>
history == <<outdated, crossed, apart>>
vars == <<store, device, flow, history>>

AdminStates ==
  [step    : {"idle", "putBundle", "insertRelease", "dropBundle", "dropRelease"},
   version : Versions \cup {NoVersion},
   upload  : Uploads \cup {None}]

Resting == [step |-> "idle", version |-> NoVersion, upload |-> None]

FlowStates ==
  [step   : {"idle", "asked", "offered", "fetching", "located", "received", "remembered"},
   update : Updates \cup {None},
   bytes  : Contents \cup {None}]

Idle == [step |-> "idle", update |-> None, bytes |-> None]

At(f, step) == flow[f].step = step
Become(f, state) == flow' = [flow EXCEPT ![f] = state]
Goto(f, step) == Become(f, [flow[f] EXCEPT !.step = step])
BecomeAdmin(a, state) == admin' = [admin EXCEPT ![a] = state]

-----------------------------------------------------------------------------
(* The server's choice of an update *)

Stored == {v \in Versions : releases[v] # None}

\* As if the releases were taken oldest first.
Oldest == IF Stored = {} THEN NoVersion
          ELSE CHOOSE v \in Stored : \A w \in Stored : v <= w

\* sortReleasesNewestFirst and findLatestRelease.
Latest == IF Stored = {} THEN NoVersion
          ELSE CHOOSE v \in Stored : \A w \in Stored : v >= w

\* The conditions under which the newest release is offered to the device.
Available ==
  /\ Latest # NoVersion
  /\ Latest > installed
  /\ releases[Latest].min <= installed

Offer == [version |-> Latest, sum |-> releases[Latest].sum]

\* As if the path of a bundle did not name its version.
OnePath(v) == 1

\* Where the bucket keeps the bundle of version v.
Path(v) == v

\* The version in the download's URL.
Requested(f) == flow[f].update.version

Init ==
  /\ releases = [v \in Versions |-> None]
  /\ bundles = [v \in Versions |-> None]
  /\ admin = [a \in Admins |-> Resting]
  /\ flow = [f \in Flows |-> Idle]
  /\ cache = [v \in Versions |-> None]
  /\ pending = None
  /\ handed = None
  /\ installed = NoVersion
  /\ used = {} /\ reused = {} /\ withdrawn = {}
  /\ outdated = {} /\ crossed = {}
  /\ apart = FALSE

-----------------------------------------------------------------------------
(* Administrators: uploads to /v1/apps/:appId/bundles and DELETE /bundle *)

StartUpload(a) ==
  /\ admin[a] = Resting
  /\ \E u \in Uploads :
       /\ BecomeAdmin(a, [step |-> "putBundle", version |-> u.version, upload |-> u])
       /\ used' = used \cup {u.version}
       /\ reused' = reused \cup (used \cap {u.version})
  /\ UNCHANGED <<releases, bundles, withdrawn, device, flow, history>>

PutBundle(a) ==
  LET v == admin[a].version IN
  /\ admin[a].step = "putBundle"
  /\ bundles' = [bundles EXCEPT ![Path(v)] = admin[a].upload.sum]
  /\ BecomeAdmin(a, [admin[a] EXCEPT !.step = "insertRelease"])
  /\ UNCHANGED <<releases, used, reused, withdrawn, device, flow, history>>

InsertRelease(a) ==
  LET v == admin[a].version IN
  /\ admin[a].step = "insertRelease"
  /\ releases' = [releases EXCEPT ![v] = admin[a].upload]
  /\ BecomeAdmin(a, Resting)
  /\ UNCHANGED <<bundles, used, reused, withdrawn, device, flow, history>>

\* deleteReleases lists the rows of the version before it deletes anything.
StartDelete(a) ==
  /\ admin[a] = Resting
  /\ \E v \in Stored : BecomeAdmin(a, [Resting EXCEPT !.step = "dropBundle", !.version = v])
  /\ UNCHANGED <<releases, bundles, used, reused, withdrawn, device, flow, history>>

DropBundle(a) ==
  /\ admin[a].step = "dropBundle"
  /\ bundles' = [bundles EXCEPT ![Path(admin[a].version)] = None]
  /\ BecomeAdmin(a, [admin[a] EXCEPT !.step = "dropRelease"])
  /\ UNCHANGED <<releases, used, reused, withdrawn, device, flow, history>>

DropRelease(a) ==
  LET v == admin[a].version IN
  /\ admin[a].step = "dropRelease"
  /\ releases' = [releases EXCEPT ![v] = None]
  /\ withdrawn' = withdrawn \cup {v}
  /\ BecomeAdmin(a, Resting)
  /\ UNCHANGED <<bundles, used, reused, device, flow, history>>

\* The isolate is evicted, or the next call to the bucket or to D1 throws.
Interrupt(a) ==
  /\ admin[a] # Resting
  /\ BecomeAdmin(a, Resting)
  /\ UNCHANGED <<releases, bundles, used, reused, withdrawn, device, flow, history>>

-----------------------------------------------------------------------------
(* The device: startCodePushGo *)

Ask(f) ==
  /\ At(f, "idle")
  /\ Goto(f, "asked")
  /\ UNCHANGED <<store, device, history>>

\* POST /updates reads the releases once; an answer without an update ends
\* the flow.
Answer(f) ==
  /\ At(f, "asked")
  /\ Become(f, IF Available
               THEN [step |-> "offered", update |-> Offer, bytes |-> None]
               ELSE Idle)
  /\ outdated' = (outdated \cup {g \in Flows : flow[g].update # None}) \ {f}
  /\ UNCHANGED <<store, device, crossed, apart>>

\* downloadUpdate reports download_start before it fetches anything.
ReportStart(f) ==
  /\ At(f, "offered")
  /\ Goto(f, "fetching")
  /\ UNCHANGED <<store, device, history>>

Receive(f, bytes) == Become(f, [flow[f] EXCEPT !.step = "received", !.bytes = bytes])

\* The headers let a cache answer for the URL for a year.
FetchCached(f) ==
  /\ At(f, "fetching")
  /\ cache[Requested(f)] # None
  /\ Receive(f, cache[Requested(f)])
  /\ UNCHANGED <<store, device, history>>

\* The download route finds the release, then its object.
Locate(f) ==
  /\ At(f, "fetching")
  /\ IF releases[Requested(f)] # None THEN Goto(f, "located") ELSE Become(f, Idle)
  /\ UNCHANGED <<store, device, history>>

Deliver(f) ==
  LET bytes == bundles[Path(Requested(f))] IN
  /\ At(f, "located")
  /\ IF bytes # None
     THEN /\ Receive(f, bytes)
          /\ cache' = [cache EXCEPT ![Requested(f)] = bytes]
     ELSE Become(f, Idle) /\ UNCHANGED cache
  /\ UNCHANGED <<store, pending, handed, installed, history>>

\* As if an update that is already pending were kept.
KeepPending(update) == IF pending = None THEN update ELSE pending

\* As if the version were not written.
WithoutVersion(update) == [update EXCEPT !.version = NoVersion]

\* rememberPendingUpdate
Remembered(update) == update

Remember(f) ==
  LET others == {g \in Flows : At(g, "remembered")} IN
  /\ At(f, "received")
  /\ pending' = Remembered(flow[f].update)
  /\ crossed' = IF others # {} THEN crossed \cup others \cup {f} ELSE crossed
  /\ Goto(f, "remembered")
  /\ UNCHANGED <<store, cache, handed, installed, outdated, apart>>

\* The report of download_complete was accepted and the call returns.
Return(f) ==
  /\ At(f, "remembered")
  /\ handed' = [update |-> flow[f].update, bytes |-> flow[f].bytes]
  /\ apart' = (f \in crossed)
  /\ crossed' = crossed \ {f}
  /\ Become(f, Idle)
  /\ UNCHANGED <<store, cache, pending, installed, outdated>>

\* A request gets no answer, or one that is not ok, and the call throws.
Fail(f) ==
  /\ ~At(f, "idle")
  /\ ~At(f, "received")
  /\ apart' = (apart \/ At(f, "remembered"))
  /\ crossed' = crossed \ {f}
  /\ Become(f, Idle)
  /\ UNCHANGED <<store, device, outdated>>

\* The application restarts, with the last bundle it was handed if there is
\* one; it then clears the pending update (clearPendingUpdate).
Restart ==
  /\ flow' = [f \in Flows |-> Idle]
  /\ outdated' = {} /\ crossed' = {}
  /\ IF handed # None
     THEN /\ installed' = handed.update.version
          /\ pending' = None
          /\ apart' = FALSE
     ELSE /\ apart' = (apart \/ \E f \in Flows : At(f, "remembered"))
          /\ UNCHANGED <<installed, pending>>
  /\ handed' = None
  /\ UNCHANGED <<store, cache>>

AdminStep(a) ==
  \/ StartUpload(a) \/ PutBundle(a) \/ InsertRelease(a)
  \/ StartDelete(a) \/ DropBundle(a) \/ DropRelease(a)
  \/ Interrupt(a)

Progress(f) ==
  \/ Ask(f) \/ Answer(f) \/ ReportStart(f) \/ FetchCached(f)
  \/ Locate(f) \/ Deliver(f) \/ Remember(f) \/ Return(f)

Next ==
  \/ \E a \in Admins : AdminStep(a)
  \/ \E f \in Flows : Progress(f) \/ Fail(f)
  \/ Restart

Spec == Init /\ [][Next]_vars

\* The application calls startCodePushGo whenever it runs and is restarted
\* now and then; of the requests a device keeps sending some are answered,
\* and not every response it keeps is there when it is wanted.
DeviceFairness ==
  /\ \A f \in Flows :
       /\ WF_vars(Ask(f)) /\ SF_vars(Answer(f)) /\ SF_vars(ReportStart(f))
       /\ SF_vars(Locate(f)) /\ SF_vars(Deliver(f))
       /\ SF_vars(Remember(f)) /\ SF_vars(Return(f))
  /\ SF_vars(Restart /\ handed # None)

FairSpec == Spec /\ DeviceFairness

-----------------------------------------------------------------------------
(* Properties *)

TypeOK ==
  /\ releases \in [Versions -> Uploads \cup {None}]
  /\ bundles \in [Versions -> Contents \cup {None}]
  /\ admin \in [Admins -> AdminStates]
  /\ flow \in [Flows -> FlowStates]
  /\ cache \in [Versions -> Contents \cup {None}]
  /\ pending \in Updates \cup {None}
  /\ handed \in Downloads \cup {None}
  /\ installed \in Versions \cup {NoVersion}
  /\ reused \subseteq used /\ used \subseteq Versions /\ withdrawn \subseteq Versions
  /\ outdated \subseteq Flows /\ crossed \subseteq Flows
  /\ apart \in BOOLEAN

\* The client never compares what it downloads with the checksum of the offer.
\* The two agree all the same for a version that is uploaded once, whatever
\* uploads, deletions, caches and other flows do between the offer and the
\* download (createRelease, updates, the download route, downloadUpdate).
BytesMatchOffer ==
  handed # None /\ handed.update.version \notin reused =>
    handed.bytes = handed.update.sum

\* The pending update is the one whose bundle the application was handed,
\* unless two downloads crossed, or one ended between remembering the update
\* and returning it (downloadUpdate).
PendingWasHanded ==
  /\ pending # None
  /\ ~apart
  /\ \A f \in Flows : ~At(f, "remembered")
  => handed # None /\ handed.update = pending

\* A pending update gives way to an older version only when its release was
\* deleted or a flow was overtaken by another one of the same run.
PendingRegressesOnlyWhenWithdrawn ==
  [][pending # None /\ pending' # None /\ pending'.version < pending.version =>
       \/ pending.version \in withdrawn
       \/ \E f \in outdated : At(f, "received") /\ ~(At(f, "received"))']_vars

\* v is the newest release, is complete and does not ask for a newer bundle
\* than the device runs.
Deliverable(v) ==
  /\ releases[v] # None /\ bundles[v] # None
  /\ releases[v].min <= installed
  /\ \A w \in Versions : w > v => releases[w] = None

\* A release that stays the newest, complete and open to the device is in the
\* end installed on it, whatever requests fail in between.
NewestReleaseInstalled ==
  \A v \in Versions : <>[]Deliverable(v) => <>(installed >= v)
=============================================================================
