# CodePushGo in TLA+

CodePushGo serves over-the-air updates to React Native applications: an
administrator uploads bundles to channels, devices ask a Cloudflare Worker for
an update, download it and report back. The repository also holds the dashboard
and, below it, a backend on Supabase with queues, webhooks and native builds.
This directory holds TLA+ modules for the parts of the Worker
(`packages/worker/src`), of the updater client
(`packages/react-native-updater/src`) and of the backend
(`apps/dashboard/supabase`) whose behaviour depends on the order in which things
happen, the TLC runs that check them on small instances, and the TLAPS proofs of
the theorems that hold for every instance.

## 1. The system

The Worker is one Hono application (`index.ts`) over a `StorageDriver`. In the
default deployment the driver is `D1R2Storage` (`storage.ts`): metadata in D1
tables, bundles in an R2 bucket, and, for old updater plugins, channel
overrides in a KV namespace. Three facts shape every model here.

* **No transactions.** Apart from one batch in `consumeUsageCredits`, each SQL
  statement, bucket call and KV call of `D1R2Storage` is awaited on its own, so
  the handlers of concurrent requests interleave between any two of them.
* **No retries or recovery.** A Worker invocation that is evicted, or whose
  next call throws, stops where it is. There is no background job that
  compares tables with the bucket.
* **No locks.** What a handler checks (an application exists, a version is
  new, a channel can be self-assigned) it checks with a read of its own, some
  awaits before the write that relies on it.

A *request* in the models is therefore a small state machine whose steps are
the awaited calls of its handler, and every model has an `Interrupt` action
that abandons a request between two of its steps.

The backend is different. It has Postgres, so a handler may take a lock, run a
transaction (`reserveNativeBuildSlot`) or let an UPDATE compare the row with what
it read before; it has background work, handed over by the `pgmq` queues and
started by cron; and it leans on services outside of the repository: the
customers' webhook endpoints and the builder of native applications. Its models
are about calls that are made twice, answers that are late or lost, and rows that
have to follow a system nobody here controls.

## 2. Inventory

Parts that are modelled:

| Part | State it keeps | Operations | What is hard | What makes it correct |
|---|---|---|---|---|
| Release storage (`storage.ts`; `/app`, `/bundle`, `/channel`, `/v1/apps/:appId/bundles`) | tables `apps`, `channels`, `releases`; bundle bucket | create and delete applications, upload, delete bundles, write and delete channels | row and object are written by separate calls; a promotion demotes other channels one statement at a time; the duplicate check is long before the write | a row and its object come from one upload; readers see whole operations; one public channel per platform |
| Channel overrides (`channel-self-store.ts`; `/channel_self`, `/device`, `/updates`) | tables `device_channels`, `devices`; KV namespace | self-set, self-unset, link, unlink, choosing the channel of an update check | two stores, routed by plugin version; channels deleted under an assignment; settings rewritten by uploads | the last assignment wins; none names a channel that is gone; closed channels stay hidden |
| Device update loop (`react-native-updater/src/index.ts`; `/updates`, download route) | pending update in the device's storage, responses the device caches | check, download, remember, restart | overlapping calls, failing requests, releases replaced between offer and download | the bytes are those of the offer; the pending update is the bundle the application has; the newest release arrives in the end |
| Build time (`recordBuildTime`, `POST /build/time`) | tables `build_logs`, `daily_build_time` | report, recompute the days a report affects | read and upsert of a total are two statements; reports repeated on a later day | a day's total sums exactly its builds |
| API keys (`/apikey`, `POST /organization`) | tables `apikeys`, `apikey_bindings`, `apikey_global_permissions` | create, update, regenerate, delete; grant a new organization to the calling key | rows rewritten column by column and one by one from earlier reads; permission and bindings in two tables | a key has the bindings last granted; `org.create` only with an `org_admin` binding; a replaced token stays rejected |
| Work queue consumer (`triggers/queue_consumer.ts`, `cleanup_queue_messages`) | the rows of a `pgmq` queue: visibility, read count | read a batch, archive, call handlers, delete; sweep | runs overlap when a batch outlives the visibility timeout; a handler may finish after its caller gave up; a run may die anywhere | a message is worked on before it is deleted, its handler is called a bounded number of times, and it leaves in the end |
| Webhook deliveries (`triggers/webhook_*.ts`, `utils/webhook.ts`, `public/webhooks`) | `webhooks`, `webhook_deliveries`, the copies of a delivery in the queue | create, test, post, retry with delay, fail and disable, retry by an administrator, clean up | status, count and queue are changed by separate calls, most of whose failures are only logged; the endpoint may take longer than the queue waits | a pending delivery is in somebody's hand, its row tells the outcome, retries are bounded and end |
| Native builds (`public/build`, `triggers/cron_reconcile_build_status.ts`) | `build_requests`, `build_logs`, the jobs at the builder | request, start in a slot of the plan, poll, time out, cancel, reconcile, bill | three kinds of writers read the row, ask the builder, and write if the status is still the one they read | no more builds than the plan allows; an end is final, announced once and billed; slots come back |

Parts that are not modelled yet (section 9 has the plan):

| Part | What is hard | What would make it correct |
|---|---|---|
| The Worker's webhooks (`/webhooks`, `webhook-*.ts`) | `updateWebhook` reads a row and writes every column back; a retry sets a delivery to `pending` and nothing sends it | an update changes the columns it names; a delivery that is queued is delivered |
| Usage credits and overage (`consumeUsageCredits`, `overage-tracking.ts`, `cron_stat_org`) | the look for an earlier charge and the charge are apart; a caller may name no billing cycle | one charge per overage and cycle |
| Role bindings (`/private/role_bindings`) | the last `org_super_admin` is protected by a count before the write | an organization keeps a super admin; legacy rights follow the bindings |
| The Worker's native build jobs (`/build/request`, `start`, `cancel`) | an external builder is called between read and write | a cancelled job stays cancelled |
| Resumable uploads (`/files/upload/attachments`) | offset checked before the body is awaited; a map per isolate | the offset a client is told is what has been stored once |
| Application ownership (`transferApp`) | a history kept as JSON is read, appended to and written | a transfer is never lost; applications and releases have one owner |
| Organizations and members, compatibility events | single statements | - |
| Statistics, devices and audit tables | appended rows and sums over them | - |
| Rate limits and the update guard | counters in a cache that are allowed to lose counts | - |
| Triggers, crons, queue and retry helpers | exported and tested, but imported by no Worker | - |
| Sign-up, invitations, SSO; Stripe | calls to external services | - |
| `SupabaseStorage` | the same operations over PostgREST | as `D1R2Storage` |
| `MemoryStorage`, `packages/shared`, `packages/cli`, deployment | synchronous or pure, with unit tests | - |
| Backend: plans, usage and billing (`apply_usage_overage`, Stripe events) | an overage is charged by every run of the organization's cron | one charge per credit used |
| Backend: handlers of row triggers (`triggers/on_*.ts`) | the queue calls them at least once | a second call changes nothing |
| Backend: updates, channel and statistics plugins; administration | the Worker's protocol over Postgres; single statements under row policies | - |
| The dashboard itself and its CLI | clients of the backend | - |

How the parts meet: an administrator's requests change the release storage;
`/updates` chooses a channel from the overrides and the channel settings, then a
release of that channel; the client downloads it from the bucket. Overrides read
the channels table that the release storage writes, and a deleted channel takes
its assignments along. API keys decide who may call the administrative routes.
Build time feeds the plan limits. In the backend, rows that change send messages
to the work queue, whose consumer calls the webhook dispatcher and the delivery
handler; the delivery handler sends the next copy of a delivery to the queue
itself. `WebhookDeliveries` takes the queue as what `AtLeastOnce` promises (a copy
is handed to a handler, again if the handler is not heard of, and given up after
too many reads), which `QueueConsumer` is shown to implement. `ChannelOverrides` therefore contains the
channel side of the release storage (rows, uploads, deletions) itself, and
`DeviceUpdates` the storing and deleting of releases in the order
`ReleaseStore` gives them, each with only the state it needs: a composition of
all three would multiply interleavings that do not touch each other's state.

## 3. Modules

| Module | Models | Extended by |
|---|---|---|
| `ReleaseStore` | the release storage, one statement or bucket call per step | `MCReleaseStore`, `ReleaseStore_proofs` |
| `Catalog` | what the release storage promises its readers: releases change by whole operations | instantiated in `ReleaseStore` (`Published`) |
| `ChannelOverrides` | both override stores and everything that reads or changes them | `MCChannelOverrides`, `ChannelOverrides_proofs` |
| `DeviceUpdates` | the client's update loop against releases, bucket and cache | `MCDeviceUpdates`, `DeviceUpdates_proofs` |
| `BuildTime` | build logs and daily totals | `MCBuildTime`, `BuildTime_proofs` |
| `ApiKeys` | keys, bindings and permissions | `MCApiKeys`, `ApiKeys_proofs` |
| `QueueConsumer` | overlapping runs of the consumer over one queue | `MCQueueConsumer`, `QueueConsumer_proofs` |
| `AtLeastOnce` | what a queue promises to senders and handlers | instantiated in `QueueConsumer` (`Queue`) |
| `WebhookDeliveries` | deliveries of one webhook, from the event to the last retry | `MCWebhookDeliveries`, `WebhookDeliveries_proofs` |
| `NativeBuilds` | the builds of one organization, row against job | `MCNativeBuilds`, `NativeBuilds_proofs` |

### Conventions

A request is a record `req[r]` (`flow[f]`, `admin[a]` in `DeviceUpdates`) whose
`step` names the statement the handler sends next; the other fields are the
local variables of the handler that are still used. An action is named after
the statement or, for the first one, after the route. Guards are the handler's
conditions, a refusal returns the request to `idle`. What an action leaves alone
is in its `UNCHANGED`.

Variables marked *history* are read by no guard. They record, at the moment it
happens, that a request was overtaken or stopped: the named exceptions of the
properties. Each of them is necessary: without it TLC finds the interleaving
that needs it.

"As if ..." operators are variants of the operator that follows them. They are
what a plausible mistake would make of it, and each property is known to fail
with one of them.

### State and code

`ReleaseStore`. `app`, `channels` and `releases` are the tables, restricted to
one application: every statement carries `app_id`. `bundles` is the bucket.
`releases[k]` is the upload whose checksum row `k` holds, `bundles[k]` the
upload whose bytes are at the row's path, so that "row and object agree" is an
equality. `createRelease` is `BeginRelease`, `UpsertUploadChannel`, `PutBundle`,
`InsertRelease`, `ConfirmRelease`; `createApp` is `CreateAppRow` (`POST /app` looks
whether the application exists, `POST /v1/apps` does not), `CreateAppChannel` and
`ConfirmApp`, which reads the row back and throws if it is gone; `deleteReleases` is
`DeleteObject` once per object and `DeleteRows`; `upsertChannel` is `SelectPublic`,
`DemoteChannel` once per channel and `UpsertChannel`; `deleteChannel` is
`DropChannel` and `DropReleases`. `DeleteApp` is one step in the code too.

`ChannelOverrides`. `assigned` is `device_channels`, `kv` the KV namespace,
`recorded` the plugin version in `devices`, `plugin` the version inside the
application. `Override` is the order in which the two stores are asked.
`Servable` is `validateUpdateChannel`. `answer` is the last channel a device was
served, and whether it was forced by an assignment. `listChannels` is two queries,
and so are the requests that use it: one step (`BeginListing`, `ListRows`) keeps in
`found` the settings of the channel, the next one (`SetCheck`, `LinkCheck`,
`UpdateCheck`, `DeleteCheck`) reads whether it has releases and decides (`Listed`).
Two statements rewrite settings without being asked to: `UploadChannel` those of
the upload's channel, `CreateAppAgain` (a repeated `POST /v1/apps`) those of the
production channel.

`DeviceUpdates`. A flow is one call of `startCodePushGo`: `Ask`, `Answer` (the
whole of `/updates`), `ReportStart`, `Locate` and `Deliver` (the two reads of
the download route), or `FetchCached`, then `Remember` (the pending update is
stored), `Return`. `Fail` is a request or report that throws. `Restart` is what
the application does with what it was handed.

`BuildTime`. A total is kept as the set of log entries it was summed over;
`Sum` is the aggregate, `Upsert` the write.

`ApiKeys`. `rows[k]` is the token whose hash the row holds. `getApiKey` is
`ReadRow`, `ReadBindings`, `ReadPermissions`; `storage.updateApiKey` is
`ReadHash`, `UpdateRow`; `replaceApiKeyBindings` is `Clear` and one `Grant` per
binding; `replaceApiKeyGlobalPermissions` is `ClearPermissions` and
`GrantPermission`; `deleteApiKey` is the three `Drop...` actions. `Outliving(k)` are
the requests that a deletion of `k` overtakes with its last statement: they have
read a row that is gone, and are `raced` from then on.

`QueueConsumer`. `place`, `hidden` and `reads` are the rows of `pgmq.q_<queue>`:
where a message is, whether its `vt` has passed, and `read_ct`. A run is one call
of `processQueue`: `Read`, `Archive` (if some were read too often), `Dispatch` and
`Answer` once per message, at most `Concurrency` at a time, and `Finish`. `Expire`
comes at any time, because a batch of 950 messages can take far longer than the
120 s for which it is hidden. `Abort` is a run that throws or is stopped.

`WebhookDeliveries`. `rows[d]` is the status and the attempt count of a delivery,
`copies[d]` how many of its messages wait in the queue. A handler (`job[j]`) steps
through `webhook_delivery.ts` one await at a time; `held` says that the consumer
still waits for its answer: if it does and the handler dies, the copy comes back,
if it does not (`TimeOut`, or `AnswerFirst`, since the retry is sent behind the
answer) the copy is gone. `posts[d]` counts the calls of the endpoint. `author[d]` is the dispatcher or the test route that
creates the delivery, `retry` an administrator's `retryDelivery`.

`NativeBuilds`. `row[b]` is the status in `build_requests`, `job[b]` the builder's
job. `work[w]` is a client's request or a cron task: `seen` is the status it read
before it asked the builder, `got` the one it is about to write, and `Store` the
UPDATE that compares. `others` counts slots held by builds nobody looks at. What a
request concludes of a job's runtime is `TimedOut`: nothing for one that has not
run, either for one that ran (timeouts differ between applications and may be
changed while the job runs or after it ended), and that it is late when it still
runs and is `overdue`, past every timeout there is. `givenUp` are the builds a start marked as
failed (a refused or unheard call of the builder), `unpaid` those whose
cancellation a poll stored first.

## 4. Runs

Passing runs:

| Run (cfg) | Bounds | Shows |
|---|---|---|
| `release_rows` (`ReleaseRows`) | 2 requests, 2 platforms, 1 channel, 1 version, 2 uploads | `RowsMatchBundles`, `IntactUploads`; `ImplementsCatalog`: the refinement of `Catalog` |
| `channel_rows` (`ChannelRows`) | 3 requests, 2 channels, 4 kinds of channel body, no uploads | `TypeOK`, `PublicOverlapOnlyByRace`, `FreshPromotions` |
| `override_choices` (`OverrideChoices`) | 2 requests, 1 device, 2 channels, a plugin version on each side of the limit and none | `LastChoiceResolved` |
| `override_requests` (`OverrideRequests`) | 2 requests, 1 device, 1 channel that can be open or closed, one plugin version below the limit and none | `TypeOK`, `AssignedChannelsListed`, `ClosedUntilRewritten` |
| `pending_updates` (`PendingUpdates`) | 1 administrator, 2 flows, 2 versions with different bytes | `TypeOK`, `BytesMatchOffer`, `PendingWasHanded`, `PendingRegressesOnlyWhenWithdrawn` |
| `update_delivery` (`UpdateDelivery`) | 1 administrator, 1 flow, 2 versions, the second asks for the first | `NewestReleaseInstalled` under `FairSpec` |
| `build_totals` (`BuildTotals`) | 2 requests, 2 applications, 2 builds, 2 days | `TypeOK`, `DailyTotalsMatch` |
| `key_bindings` (`KeyBindings`) | 2 requests, 1 key, 1 token, 2 grantable bindings, 1 organization | `TypeOK`, `KeyHoldsLastGrant`, `OrgCreateNeedsAdmin` |
| `work_queue` (`WorkQueue`) | 2 messages, 2 runs, batches of 2 called one after the other, 2 reads | `TypeOK`, `CallsWithinBudget`, `GivenUpAfterBudget`, `DeletedAfterWork`; `ImplementsQueue`: the refinement of `AtLeastOnce` with its liveness, under `FairSpec` |
| `webhook_rows` (`WebhookRows`) | 1 delivery, 2 handlers, 2 attempts, 1 administrator's retry, 1 fault | `TypeOK`, `PendingIsInHand`, `OutcomeTold`, `AttemptsBounded`; `Settles` under `FairSpec` |
| `native_builds` (`BuildRows`) | 1 build and rivals for 1 slot, 2 requests and the cron of which 2 are at work at a time, 2 starts, 1 fault | `TypeOK`, `WithinPlan`, `OverMeansOver`, `AnnouncedOnce`, `EndIsBilled`, `EndsStand`; `SlotGivenBack` under `FairSpec` |

One run checks what the repository states and the code breaks:

| Run | Property | What TLC finds |
|---|---|---|
| `regenerated_token` | `OldTokenRejected` (`apikeys.test.ts`) | a rename that read the row before a regeneration writes the old hash back |

Other observations made while modelling, which no run is kept for:

* The races that the exceptions of `PublicOverlapOnlyByRace` and
  `RowsMatchBundles` name do happen: two promotions that overlap leave two public
  channels, and two `POST /bundle` of one version both pass the check for it.
* An upload writes the default settings over those of its channel, and so opens
  a channel that was closed. `POST /v1/apps` does the same to the production
  channel of an application that exists (`storage.ts:1408`), with no upload at all.
  `ClosedUntilRewritten` takes both for what the code means to do, and says that
  nothing else opens a closed channel.
* A start that does not hear the builder's answer, or is refused because the
  builder has started the job before, marks a running build as failed
  (`start.ts:394`). The next poll turns it back to running, and its end is announced
  a second time; without another poll it stays failed and is never billed, as the
  cron leaves rows that are over alone. The four properties about the end of a
  build name such builds as their exception.
* A key that is updated while it is deleted can leave bindings in the table for a
  key that no longer exists (`replaceApiKeyBindings` after `deleteApiKey`).
* Two handlers at work on one delivery both write the same attempt count, and both
  send a copy on: with two attempts the endpoint is called four times.
  `AttemptsBounded` excludes this, `Settles` includes it: even so retries end.
* The rollout percentage of a release is stored and sent to the client, and
  neither server nor client compares it with anything.
* After 410 Gone the webhook is disabled, but no handler looks at that: deliveries
  that wait in the queue are still posted.
* A cancelled build is billed when the cron is the first to see that it ended
  (`cron_reconcile_build_status.ts:242`) and is not when a poll is
  (`status.ts:262`), although both comments want the time recorded in any case.
* The start of a build compares with the status before its own reservation
  (`start.ts:306`), so that its last update never matches after `pending` became
  `starting`; the next poll or the cron writes the row instead.

### Why these bounds are enough

* *Two requests.* Every exception and every violation is a race of two requests
  or one request that stops. `channel_rows` has a third because a promotion can
  be overtaken by one that was itself overtaken. For what these runs check
  and is no liveness, the theorems of section 6 remove the bound.
* *One version, key or device* where the statements of different ones touch
  different rows. `release_rows` has two platforms because one deletion spans
  them, and object and row deletions only differ when there is more than one
  object. `build_totals` has two applications and two days because a report can
  move a build and affect two days. Two contents tell "the other upload's
  bytes" from "mine".
* *Two versions* on the device side: an update, and one that overtakes it or
  that has to wait for it (`min_update_version`).
* *Two channels* where a choice between them matters.
* *Tokens.* `MaxToken` bounds how often keys are created and regenerated. Bindings
  do not depend on tokens, so `key_bindings` has one; `regenerated_token` needs two.
* *The queue.* Two runs can hold the same message and two messages make a batch
  that is answered in part; two reads are the least with a retry. Calls one after
  the other leave a message that was read and is not called yet, for the second
  run to read again.
* *Webhooks.* Deliveries only meet in the webhook's switch, which each of them
  reads by itself. Two handlers are two copies of one delivery at work; two
  attempts are a first and a last one. One fault is enough for each named loss;
  `Settles` and the safety properties hold whichever of them happens.
* *Builds.* What other builds do to one build is to hold slots (`others`). One slot,
  two requests and the cron give three writers of the row, of which two are at work
  at a time (`MaxAtOnce`): a stale writer needs one other that overtakes it. Two
  starts are the least with which a build can be given up, come back and be given
  up or end once more, which the count of announcements is about.
  For the safety of all three, any number of messages, runs, deliveries, handlers,
  builds, requests and faults is covered by the theorems of section 6.

Deadlock is checked in the Worker's runs: an idle request can always start, so
none stops. It is not in the three of the backend, which really stop: every
message has left its queue, a deleted webhook has no deliveries, and a build ends.
Requests are interchangeable and declared a symmetry set, except where a run has
a liveness property. `override_requests` has a view (`ListedAndServed`) that leaves out
what neither its guards nor its properties read.

## 5. Fairness

`DeviceUpdates`: `FairSpec` is weak fairness of `Ask`, because
an application runs `startCodePushGo` (with `autoUpdate`) whenever it starts, and
strong fairness of every answer: `Answer`, `ReportStart`, `Locate`, `Deliver`,
`Remember`, `Return`. A device retries for ever and its requests fail now and
then, not for ever: that is strong, not weak, fairness, since failing disables
the step. `Restart` is strongly fair when there is something to install, because
people close applications. Administrators have no fairness: the property only
speaks of releases that stay the newest, complete and open to the device. Server
requests have none either: a Worker invocation that is evicted is not resumed,
which is what `Interrupt` is for.

`QueueConsumer`: weak fairness of the sweep and of `Read` (cron calls both again
and again, as long as there is something in the queue), of `Expire` (time passes)
and of the steps of a run, each of which waits for a call with a timeout. Sending
and `Abort` have none. A run may abort every time: the reads it has made are
counted all the same, which is why every message still leaves.

`WebhookDeliveries`: weak fairness of what takes copies from the queue and of the
steps of a handler, an author and a retry, which await calls that end. Faults are
bounded by `MaxFaults` and have no fairness; a delivery that lost its copy by one
is named by `lost`.

`NativeBuilds`: weak fairness of some request's or cron task's next step (not of
each one: a request may wait behind the others), and for every build of the cron
(every few minutes), of `Age` and of `RunOn` (time passes). The builder has none: a runner may never be found and a job may never end by itself, so that slots
come back by the timeout and the cron alone.

## 6. Proofs

Each component has a module of proofs, named after it. Its theorems hold for every
value of the constants, from the assumptions named in the modules
(`StoreAssumption`, `NoKeyAssumption`, `OverrideAssumption`, `UpdateAssumption`,
`BuildTimeAssumption`, `ApiKeysAssumption`, `QueueAssumption`, `WebhookAssumption`,
`BuildsAssumption`), all of which TLC evaluates: that constants which stand for
"nothing" are outside of the sets they are compared with, that bounds are natural
numbers, and that what the runs enumerate is among what the code accepts. Every
invariant and every action property the passing runs check is the statement of a
theorem.

| Theorem | Property | Inductive invariant |
|---|---|---|
| `ReleaseStore_proofs!TypeCorrect` | `TypeOK` | `TypeInv`: `TypeOK` and what a request knows at each step |
| `RowsMatch` | `RowsMatchBundles` | `RowsInv`: rows and objects agree outside of windows and disturbed keys, an undisturbed upload finds its object, and a deletion only holds keys in its scope (`DeletionsInScope`) |
| `UploadsIntact` | `IntactUploads` | the same |
| `PublicOverlap`, `PromotionsFresh` | `PublicOverlapOnlyByRace`, `FreshPromotions` | `PublicInv`: the two together; a fresh list of demotions is what makes the final UPSERT safe |
| `StoreImplementsCatalog` | `ImplementsCatalog` | `CatalogInv`: the scope of a deletion is a version, a channel or everything (`ScopesNamed`), so every step that changes the table is a `Publish` or a `Retract` |
| `ChannelOverrides_proofs!TypeCorrect` | `TypeOK` | `Typed`: `TypeOK` and what a request knows at each step (`Formed`) |
| `AssignmentsListed` | `AssignedChannelsListed` | `ListedInv`: what a request checked still holds or the request is known to be out of date, and a row names a channel that is listed or leaving |
| `ClosedServed` | `ClosedUntilRewritten` | `ClosedInv`: a channel that counts as closed has the settings that close it (`Shut`), and an update check that has read its row has read these or is known to be out of date (`ReadHolds`) |
| `LastChoiceWins` | `LastChoiceResolved` | `ChoiceInv`, below |
| `DeviceUpdates_proofs!TypeCorrect` | `TypeOK` | `Typed`: `TypeOK` and what a request or a flow knows at each step |
| `BytesMatch` | `BytesMatchOffer` | `BundleInv`, below |
| `PendingHanded` | `PendingWasHanded` | `HandedInv`, below |
| `PendingRegresses` | `PendingRegressesOnlyWhenWithdrawn` | `OrderInv`, below |
| `BuildTime_proofs!TypeCorrect` | `TypeOK` | `StepInv` |
| `TotalsMatch` | `DailyTotalsMatch` | `SumInv`: what an undisturbed report has summed is still what the log says when it writes it |
| `ApiKeys_proofs!TypeCorrect` | `TypeOK` | `TypeInv`: `TypeOK` and `Formed`, what a request knows at each step |
| `KeysHoldLastGrant` | `KeyHoldsLastGrant` | `GrantInv` and `DeadInv`, below |
| `CreatorsAreAdmins` | `OrgCreateNeedsAdmin` | `PermInv` with `GrantInv`, below |
| `QueueConsumer_proofs!TypeCorrect` | `TypeOK` | itself |
| `CallsBounded`, `GiveUpsEarned`, `DeletionsAfterWork` | `CallsWithinBudget`, `GivenUpAfterBudget`, `DeletedAfterWork` | `QueueInv`, below |
| `ConsumerIsQueue` | the safety of `ImplementsQueue` | `QueueInv` |
| `WebhookDeliveries_proofs!TypeCorrect` | `TypeOK` | `Typed`: `TypeOK` and the shape of a handler and a retry |
| `PendingHeld`, `OutcomesTold` | `PendingIsInHand`, `OutcomeTold` | `Inv`, below |
| `CallsBounded` | `AttemptsBounded` | `BudgetInv`, below |
| `NativeBuilds_proofs!TypeCorrect` | `TypeOK` | `Typed`: `TypeOK` and the shape of every step (`Shape`) |
| `PlanKept` | `WithinPlan` | `Inv`, below |
| `OversOver`, `EndsOnce`, `EndsBilled`, `NoEndTakenBack` | `OverMeansOver`, `AnnouncedOnce`, `EndIsBilled`, `EndsStand` | `Inv` |

`ChoiceInv` is about assignments that take two writes. `Resolves` is
`LastChoiceResolved`; it says nothing of a device while a request is between its
two writes, so `FirstHolds` has to: what such a request wrote first is still there
unless the request is `torn`. The second write then leaves both stores agreeing,
or the store that is asked first with the right answer. Five writes can do that
(`Writes`); the other steps leave stores and choices alone, or they are an upgrade,
an interrupt or the end of a deletion, which unsettle the devices they disturb.

`BundleInv` collects the places where a checksum or the bytes of a version can be:
the row, the bucket, the cache, an upload under way, a flow, the application
(`Seen`). `OneBundle`: of a version uploaded once they all are of that upload. The
client compares nothing, so the agreement of the last two is the agreement of all
of them. In `HandedInv` a flow that has remembered its update and has not crossed
another one is alone in doing so and has left its update pending (`Uncrossed`). In
`OrderInv` a flow that no other one was answered after has an update that is no
older than the pending one and than those of all other flows, or theirs were
withdrawn. That `/updates` answers with the newest release is used
here, and needs that a set of versions has a greatest element: `Greatest` takes it
from the well-foundedness of `<` on the naturals.

`GrantInv` has two parts. `OwnInv`: a request nobody interfered with is the only
one to insert bindings of its key, finds there exactly what it has inserted, and
afterwards finds what it granted. `WholeInv`: a key no overtaken request is
halfway through, and whose bindings nobody is inserting, has those last granted.
`KeyHoldsLastGrant` is not inductive, because it says nothing of a key while it
is written: `WholeInv` has to hold on to the writer that is halfway through
(`Mixed`) until it ends and leaves the key unsettled, and the last insertion
needs `OwnInv` to know that nothing else is there. That a deleted key has none is
`DeadInv`: a request nobody interfered with still has a row to rewrite (`AliveInv`), does
not insert bindings beside a deletion that has dropped them (`ApartInv`), and so what
was last granted to a key that is gone or about to go is nothing (`GoneInv`). The step
lemma of `GrantInv` has one case
per action; most of them are instances of `Quiet` (bindings untouched), `Ended`
(a writer's last step), or `Replacing` (bindings replaced under others).

`PermInv` adds the permission. `Asked`: a request that may write the permission of
a key, together with bindings, was refused unless those include an `org_admin`.
`NewInv`: a key nobody has inserted has no rows and nobody who acts on it.
`Knows`: a request nobody interfered with still finds the bindings it read or
replaced, and what it is about to write keeps them or has an `org_admin` where
they had one. `Held` states the property for a key while it is written: it has its
`org_admin`, or an undisturbed request is at a step from which it will write the
permission, keep such a binding or drop the row (`Settles`). It borrows
`Mixed` and `OwnInv` from `GrantInv`, since the last insertion has to complete the
bindings it answers for.

`QueueInv` is an account of every message: the calls made for it, the reads that
runs burnt by ending early, and the runs that hold it and have not called yet
add up to its reads, as far as they are within the budget. The two properties of
the budget only speak of sums at the end; a read that is not yet a call is what
makes them inductive. Counting the runs that hold a message takes the theorems
about finite sets: a step of a run adds it to the holders, removes it, or leaves
them alone (`HolderNew`, `HolderGone`, `HoldersSame`). With `Known` (what a run
knows of its messages) the account also gives the refinement: a call is within
the abstract budget, and what leaves has been worked on or was read too often.

`Inv` of `WebhookDeliveries` follows a delivery from hand to hand. `Fresh`: until
its author has queued or posted it, nobody else has it. `Answerable` is
`PendingIsInHand` with fewer hands: a handler that marks the delivery failed or
disables the webhook has written its result and no longer answers for a pending
row, so `PendingIsInHand` alone is not inductive. `Alone`: an undisturbed
delivery has one handler. `Kept` then carries an acceptance: the handler that got
it has yet to store it (`Bearer`), or the row shows it and whoever comes later has
not read the row yet. `Gone`, a deleted webhook has no rows, is why a handler that
finds no webhook may drop its copy.

`BudgetInv` bounds the calls made (`posts`) by bounding those still to come. `Ahead`
is what the count in the row, the handler at work and the copies that wait still
allow: a copy that arrives when the count has reached `MaxAttempts` is posted once
more, and more copies than one add a call each. `Within`: the calls made and those
ahead are within the bound, less the attempts a retry was granted and whose reset
of the row is still to come (`Unused`). `NextCount` is why two separate statements
are enough to count for an undisturbed delivery, and `Uncalled` why the first
count of a test, which the author writes, is not lost. A fault may lose a count or
return a copy; it raises the bound by the call that this allows.

`Inv` of `NativeBuilds` says why a stale answer of the builder does no harm.
`Answered`: an answer stays true for as long as somebody may store it, because a
job that is over stays so and a job that runs has a slot. `SawTheEnd`: whoever
read an ended row writes an end or nothing. `Planned` counts the slots that rows
hold, and `Held` lays every running job to one of them, which gives `WithinPlan`;
the exceptions are exactly the builds whose slot was given back. The row of a
build that a start gave up says nothing of its job, so the invariant leaves these
builds out where it speaks of ends (`GivenUp`), and the count of announcements is
kept against the times an end was taken back. `Due` names who is about to record a
build's time. Nearly every step leaves most of this alone,
so the proof first shows what no step undoes (`Forward`), from which the workers
that take no step keep what they know (`OthersKnow`); `NoEndTakenBack` is one of
its conjuncts.

What stays with TLC: liveness (`NewestReleaseInstalled`, `Settles`,
`SlotGivenBack`, and the fairness of `ImplementsQueue`, whose safety is
`ConsumerIsQueue`) and anything with `ENABLED`, which this prover does not reach;
and `OldTokenRejected`, which the code violates. Induction over data is out of
reach as well and is not needed: no module has a `RECURSIVE` operator, and sums are
kept as sets or counted by cardinality.

## 7. Abstractions

* `DeviceUpdates` takes `/updates` as one step: it reads the releases in one
  statement, and the statistics and device rows it writes are read by nothing in
  the model. The HTTP cache and the native side that swaps bundles are external.
* `ChannelOverrides` keeps of the two queries of `listChannels` what they say of the
  one channel a request is about. KV is read after write: its eventual consistency is not modelled, and would
  only add to the exceptions. The device id is the same in both stores, although
  the KV key is case-folded and the D1 key is not.
* In `ApiKeys` an id is never used again, a caller of the `/apikey` routes is an
  administrator, bindings are inserted in any order, and a refused body (unknown
  role, missing name) is no request.
* SQL errors, evictions and thrown exceptions are one action, `Interrupt`.
* In the backend a failed call is a *fault*, bounded by `MaxFaults` where it is not
  free. `QueueConsumer` needs no bound: dying costs reads, and those are bounded.
  `reads` stops at `MaxReads + 1`, since nothing tells more reads apart.
* `WebhookDeliveries` leaves out the delay of a retry (the copy is simply in the
  queue) and takes posting and storing of the test route as one step; nothing
  else handles that delivery meanwhile. `posts` stops one above the bound that
  `AttemptsBounded` sets, since nothing tells more calls apart (`MostCalls`).
* `NativeBuilds` reduces runtimes to none, some and overdue, and timeouts, with their
  changes, to a choice of whether a runtime counts as late. Every terminal status
  but `succeeded` and `failed` is `cancelled`. `billed` holds the builds whose time
  was recorded and those whose recording failed, which is only logged. The cron's
  batch limit is left out: it takes the oldest stale rows first, so that every one
  has its turn. `MaxAtOnce` and `MaxStarts` bound what is at work and how often a build is
  started. The builder is taken from how its
  callers treat it; a start request reads and reserves within the five minutes
  after which the cron looks at a row.
* Validation of bodies, authentication and wording of answers are left out,
  except for the checks whose outcome later statements rely on.

## 8. Not modelled, and why

`PUT /bundle`, `POST /bundle/metadata`, `PUT /app` and application transfers: one
row each, planned. `POST /device` without a channel, `PUT` and `GET
/channel_self`: they read, or write a row nothing here reads. Two first calls of
the client that each generate a device id: the id only matters to statistics and
overrides. `SupabaseStorage`: its operations are the same, statement by
statement; the models follow the default driver. The rest is in section 2.

In the backend: what section 2 lists, and the parts of the modelled components
named in `PROJECT.json`. The queue's extension `pgmq`, the builder and the webhook
endpoints are external and modelled by what their callers rely on. `types` files
generated from the database make up a large part of the source lines and have no
behaviour.

## 9. Plan

Done: `ReleaseStore` with `Catalog`, `ChannelOverrides`, `DeviceUpdates`,
`BuildTime`, `ApiKeys`, `QueueConsumer` with `AtLeastOnce`, `WebhookDeliveries`,
`NativeBuilds`. In this order, next:

1. Proofs, without a new property: that the exceptions are the only obstacle, as
   theorems about the models without interference (with one request at a time no
   key is unsettled, no device torn, no version disturbed), and abstract
   specifications of the overrides and of the device's pending update that
   `ChannelOverrides` and `DeviceUpdates` implement, in the way `ReleaseStore`
   implements `Catalog`.
2. `UsageCredits`: `consumeUsageCredits` of the Worker with its batch against
   `apply_usage_overage` of the backend. Abstract specification: at most one charge
   per organization, metric and cycle, raised only when the overage grew.
3. `RoleBindings`: create, demote, delete; the count of super admins; the legacy
   right in `org_users`. A theorem: without concurrent demotions an organization
   keeps a super admin.
4. `ResumableUploads`: the offset protocol with overlapping chunks and an isolate
   that goes away; abstractly, a file that grows by the chunks that were accepted.
5. The handlers of row triggers under `AtLeastOnce`: `on_version_update` and
   `on_manifest_create`, called twice and out of order.
6. The remaining routes of `ReleaseStore` and the ownership of applications.
