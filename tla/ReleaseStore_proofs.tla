------------------------ MODULE ReleaseStore_proofs -------------------------
(* Proofs about ReleaseStore, for any requests, keys, uploads and routes. *)
EXTENDS ReleaseStore, TLAPS

-----------------------------------------------------------------------------
(* Type correctness *)

LEMMA RowType ==
  ASSUME NEW c \in Channels, NEW input \in ChannelBodies
  PROVE  ChannelRow(c, input) \in ChannelRows
  BY StoreAssumption DEF ChannelRow, ChannelRows, ChannelBodies, StoredFlag, IsSet, Flag

LEMMA UploadInputType == \A c \in Channels : UploadInput(c) \in ChannelBodies
  BY DEF UploadInput, ChannelBodies, Flag

LEMMA IdleType == Idle \in RequestStates
  BY StoreAssumption DEF Idle, RequestStates, Steps

\* The typing of the request that takes a step.
LEMMA UploadingType ==
  ASSUME NEW k \in Keys, NEW x \in Contents \cup {NoContent}, NEW later \in SUBSET Channels
  PROVE  Uploading(k, x, later) \in RequestStates
  BY StoreAssumption DEF Uploading, Idle, RequestStates, Steps

LEMMA OtherChannelKey ==
  ASSUME NEW k \in Keys, NEW c \in Channels
  PROVE  [k EXCEPT !.channel = c] \in Keys
  BY DEF Keys

\* The steps of an upload, and those of a channel's publication.
UploadSteps == {"release", "uploadChannel", "put", "insert", "confirm"}
ChannelSteps == {"selectPublic", "upsert"}

\* What a request carries at each step: an upload has its key and its content,
\* a channel's publication its row; a request that creates the application
\* has a key whenever it has something to upload.
Equipped(state) ==
  /\ state.step \in UploadSteps => state.key \in Keys /\ state.content \in Contents
  /\ state.content # NoContent => state.key \in Keys
  /\ state.step \in ChannelSteps => state.row \in ChannelRows

EquippedStates == {state \in RequestStates : Equipped(state)}

TypeInv == TypeOK /\ req \in [Requests -> EquippedStates]

LEMMA IdleEquipped == Idle \in EquippedStates
  BY IdleType DEF EquippedStates, Equipped, Idle, UploadSteps, ChannelSteps

LEMMA InitType == Init => TypeInv
  <1> SUFFICES ASSUME Init PROVE TypeInv
    OBVIOUS
  <1>1. TypeOK
    BY IdleType DEF Init, TypeOK
  <1>2. req \in [Requests -> EquippedStates]
    BY IdleEquipped DEF Init
  <1> QED
    BY <1>1, <1>2 DEF TypeInv

LEMMA BecomeType ==
  ASSUME req \in [Requests -> EquippedStates], NEW r \in Requests,
         NEW state \in EquippedStates, Become(r, state)
  PROVE  req' \in [Requests -> EquippedStates]
  BY DEF Become

LEMMA FinishType ==
  ASSUME req \in [Requests -> EquippedStates], NEW r \in Requests, Finish(r)
  PROVE  req' \in [Requests -> EquippedStates]
  BY BecomeType, IdleEquipped DEF Finish

\* Changing the step alone: the request must be equipped for its new step.
LEMMA GotoType ==
  ASSUME req \in [Requests -> EquippedStates], NEW r \in Requests,
         NEW step \in Steps, Goto(r, step),
         step \in UploadSteps => req[r].key \in Keys /\ req[r].content \in Contents,
         step \in ChannelSteps => req[r].row \in ChannelRows
  PROVE  req' \in [Requests -> EquippedStates]
  <1> DEFINE state == [req[r] EXCEPT !.step = step]
  <1>1. req[r] \in RequestStates /\ Equipped(req[r])
    BY DEF EquippedStates
  <1>2. state \in RequestStates
    BY <1>1 DEF RequestStates
  <1>3. Equipped(state)
    BY <1>1 DEF Equipped, RequestStates
  <1>4. state \in EquippedStates
    BY <1>2, <1>3 DEF EquippedStates
  <1> QED
    BY <1>4, BecomeType DEF Goto

LEMMA UploadingEquipped ==
  ASSUME NEW k \in Keys, NEW x \in Contents, NEW later \in SUBSET Channels
  PROVE  Uploading(k, x, later) \in EquippedStates
  <1>1. Uploading(k, x, later) \in RequestStates
    BY UploadingType
  <1>2. Equipped(Uploading(k, x, later))
    BY DEF Equipped, Uploading, Idle, UploadSteps, ChannelSteps
  <1> QED
    BY <1>1, <1>2 DEF EquippedStates

LEMMA UpsertUnflaggedType ==
  ASSUME TypeInv, NEW c \in Channels, UpsertUnflagged(c)
  PROVE  /\ channels' \in [Channels -> ChannelRows \cup {NoRow}]
         /\ contested' \subseteq Channels
  <1>1. ChannelRow(c, UploadInput(c)) \in ChannelRows
    BY RowType, UploadInputType
  <1> QED
    BY <1>1 DEF UpsertUnflagged, TypeInv, TypeOK

LEMMA NextType == TypeInv /\ [Next]_vars => TypeInv'
  <1> SUFFICES ASSUME TypeInv, [Next]_vars PROVE TypeInv'
    OBVIOUS
  <1> USE DEF TypeInv
  <1>0. req \in [Requests -> EquippedStates] /\ EquippedStates \subseteq RequestStates
    BY DEF EquippedStates
  <1>1. CASE DeleteApp
    BY <1>1, <1>0 DEF DeleteApp, TypeOK
  <1>2. ASSUME NEW r \in Requests, Step(r) PROVE TypeInv'
    <2>0. req[r] \in EquippedStates /\ req[r] \in RequestStates /\ Equipped(req[r])
      BY <1>0 DEF EquippedStates
    <2>0a. req' \in [Requests -> EquippedStates] => req' \in [Requests -> RequestStates]
      BY <1>0
    <2>1. CASE StartCreateApp(r)
      <3>1. req' \in [Requests -> EquippedStates]
        BY <2>1, <1>0, GotoType DEF StartCreateApp, Steps, UploadSteps, ChannelSteps
      <3> QED
        BY <3>1, <2>1, <2>0a DEF StartCreateApp, TypeOK
    <2>2. CASE CreateAppRow(r)
      <3>1. req' \in [Requests -> EquippedStates]
        BY <2>2, <1>0, GotoType DEF CreateAppRow, Steps, UploadSteps, ChannelSteps
      <3> QED
        BY <3>1, <2>2, <2>0a DEF CreateAppRow, TypeOK
    <2>3. CASE CreateAppChannel(r)
      <3>1. req' \in [Requests -> EquippedStates]
        BY <2>3, <1>0, GotoType DEF CreateAppChannel, Steps, UploadSteps, ChannelSteps
      <3> QED
        BY <3>1, <2>3, <2>0a, UpsertUnflaggedType, StoreAssumption DEF CreateAppChannel, TypeOK
    <2>c. CASE ConfirmApp(r)
      <3>1. CASE Finish(r)
        BY <3>1, <2>c, <1>0, FinishType, <2>0a DEF ConfirmApp, TypeOK
      <3>2. CASE req[r].content # NoContent /\ Goto(r, "uploadChannel")
        <4>1. req[r].key \in Keys /\ req[r].content \in Contents
          BY <3>2, <2>0 DEF Equipped, RequestStates
        <4>2. req' \in [Requests -> EquippedStates]
          BY <4>1, <3>2, <1>0, GotoType DEF Steps, UploadSteps, ChannelSteps
        <4> QED
          BY <4>2, <2>c, <2>0a DEF ConfirmApp, TypeOK
      <3> QED
        BY <3>1, <3>2, <2>c DEF ConfirmApp
    <2>4. CASE StartV1Upload(r)
      <3>1. PICK k \in Keys, x \in Contents : Become(r, Uploading(k, x, {}))
        BY <2>4 DEF StartV1Upload
      <3>2. req' \in [Requests -> EquippedStates]
        BY <3>1, <1>0, BecomeType, UploadingEquipped
      <3> QED
        BY <3>2, <2>4, <2>0a DEF StartV1Upload, TypeOK
    <2>5. CASE StartPostBundle(r)
      <3>1. PICK k \in Keys, x \in Contents, later \in SUBSET Channels :
              Become(r, Uploading(k, x, later))
        BY <2>5 DEF StartPostBundle
      <3>2. req' \in [Requests -> EquippedStates]
        BY <3>1, <1>0, BecomeType, UploadingEquipped
      <3> QED
        BY <3>2, <2>5, <2>0a DEF StartPostBundle, TypeOK
    <2>6. CASE BeginRelease(r)
      <3>1. req[r].key \in Keys /\ req[r].content \in Contents
        BY <2>0, <2>6 DEF BeginRelease, At, Equipped, UploadSteps
      <3>2. req' \in [Requests -> EquippedStates]
        BY <3>1, <2>6, <1>0, GotoType
        DEF BeginRelease, Steps, UploadSteps, ChannelSteps
      <3> QED
        BY <3>2, <2>6, <2>0a DEF BeginRelease, TypeOK
    <2>7. CASE UpsertUploadChannel(r)
      <3>1. req[r].key \in Keys /\ req[r].content \in Contents
        BY <2>0, <2>7 DEF UpsertUploadChannel, At, Equipped, UploadSteps
      <3>2. req' \in [Requests -> EquippedStates]
        BY <3>1, <2>7, <1>0, GotoType
        DEF UpsertUploadChannel, Steps, UploadSteps, ChannelSteps
      <3>3. req[r].key.channel \in Channels
        BY <3>1 DEF Keys
      <3> QED
        BY <3>2, <3>3, <2>7, <2>0a, UpsertUnflaggedType DEF UpsertUploadChannel, TypeOK
    <2>8. CASE PutBundle(r)
      <3>1. req[r].key \in Keys /\ req[r].content \in Contents
        BY <2>0, <2>8 DEF PutBundle, At, Equipped, UploadSteps
      <3>2. req' \in [Requests -> EquippedStates]
        BY <3>1, <2>8, <1>0, GotoType DEF PutBundle, Steps, UploadSteps, ChannelSteps
      <3> QED
        BY <3>1, <3>2, <2>8, <2>0a DEF PutBundle, PutObject, Storing, TypeOK
    <2>9. CASE InsertRelease(r)
      <3>1. req[r].key \in Keys /\ req[r].content \in Contents
        BY <2>0, <2>9 DEF InsertRelease, At, Equipped, UploadSteps
      <3>2. req' \in [Requests -> EquippedStates]
        BY <3>1, <2>9, <1>0, GotoType DEF InsertRelease, Steps, UploadSteps, ChannelSteps
      <3> QED
        BY <3>1, <3>2, <2>9, <2>0a DEF InsertRelease, UpsertRow, TypeOK
    <2>10. CASE ConfirmRelease(r)
      <3>1. req[r].key \in Keys /\ req[r].content \in Contents
        BY <2>0, <2>10 DEF ConfirmRelease, At, Equipped, UploadSteps
      <3>2. req' \in [Requests -> EquippedStates]
        <4>1. CASE releases[req[r].key] = NoContent \/ req[r].later = {}
          BY <4>1, <2>10, <1>0, FinishType DEF ConfirmRelease
        <4>2. CASE ~ (releases[req[r].key] = NoContent \/ req[r].later = {})
          <5>1. PICK c \in req[r].later :
                  Become(r, Uploading([req[r].key EXCEPT !.channel = c],
                                      req[r].content, req[r].later \ {c}))
            BY <4>2, <2>10 DEF ConfirmRelease
          <5>2. req[r].later \in SUBSET Channels
            BY <2>0 DEF RequestStates
          <5>3. [req[r].key EXCEPT !.channel = c] \in Keys
            BY <5>2, <3>1, OtherChannelKey
          <5>4. Uploading([req[r].key EXCEPT !.channel = c],
                          req[r].content, req[r].later \ {c}) \in EquippedStates
            BY <5>2, <5>3, <3>1, UploadingEquipped
          <5> QED
            BY <5>1, <5>4, <1>0, BecomeType
        <4> QED
          BY <4>1, <4>2
      <3> QED
        BY <3>2, <2>10, <2>0a DEF ConfirmRelease, TypeOK
    <2>11. CASE StartDeleteReleases(r)
      <3>1. PICK scope \in {{k \in Keys : k.version = v} : v \in Versions} \cup {Keys} :
              Become(r, [Idle EXCEPT !.step = "delete", !.scope = scope,
                                     !.pending = {k \in scope : releases[k] # NoContent}])
        BY <2>11 DEF StartDeleteReleases
      <3>2. scope \in SUBSET Keys
        OBVIOUS
      <3>3. [Idle EXCEPT !.step = "delete", !.scope = scope,
                         !.pending = {k \in scope : releases[k] # NoContent}] \in EquippedStates
        BY <3>2, StoreAssumption
        DEF Idle, EquippedStates, Equipped, RequestStates, Steps, UploadSteps, ChannelSteps
      <3>4. req' \in [Requests -> EquippedStates]
        BY <3>1, <3>3, <1>0, BecomeType
      <3> QED
        BY <3>4, <2>11, <2>0a DEF StartDeleteReleases, TypeOK
    <2>12. CASE DeleteObject(r)
      <3>1. PICK k \in req[r].pending :
              /\ bundles' = [bundles EXCEPT ![k] = NoContent]
              /\ Become(r, [req[r] EXCEPT !.pending = @ \ {k}, !.held = @ \cup {k}])
              /\ overrun' = overrun \cup Storing(k)
        BY <2>12 DEF DeleteObject
      <3>2. k \in Keys
        BY <2>0 DEF RequestStates
      <3>3. [req[r] EXCEPT !.pending = @ \ {k}, !.held = @ \cup {k}] \in EquippedStates
        BY <2>0, <3>2 DEF EquippedStates, Equipped, RequestStates
      <3>4. req' \in [Requests -> EquippedStates]
        BY <3>1, <3>3, <1>0, BecomeType
      <3> QED
        BY <3>1, <3>4, <2>12, <2>0a DEF DeleteObject, Storing, TypeOK
    <2>13. CASE DeleteRows(r)
      <3>1. req' \in [Requests -> EquippedStates]
        BY <2>13, <1>0, FinishType DEF DeleteRows
      <3> QED
        BY <3>1, <2>13, <2>0a DEF DeleteRows, DropRows, TypeOK
    <2>14. CASE StartPostChannel(r)
      <3>1. PICK c \in Channels, input \in ChannelInputs :
              Become(r, [Idle EXCEPT !.step = IF ChannelRow(c, input).public
                                              THEN "selectPublic" ELSE "upsert",
                                     !.name = c, !.row = ChannelRow(c, input)])
        BY <2>14 DEF StartPostChannel
      <3>2. ChannelRow(c, input) \in ChannelRows
        BY RowType, StoreAssumption
      <3>3. [Idle EXCEPT !.step = IF ChannelRow(c, input).public
                                  THEN "selectPublic" ELSE "upsert",
                         !.name = c, !.row = ChannelRow(c, input)] \in EquippedStates
        BY <3>2 DEF Idle, EquippedStates, Equipped, RequestStates, Steps, UploadSteps
      <3>4. req' \in [Requests -> EquippedStates]
        BY <3>1, <3>3, <1>0, BecomeType
      <3> QED
        BY <3>4, <2>14, <2>0a DEF StartPostChannel, TypeOK
    <2>15. CASE SelectPublic(r)
      <3>1. DemotionList(req[r].name, req[r].row) \in SUBSET Channels
        BY DEF DemotionList, OverlappingPublic
      <3>2. req[r].row \in ChannelRows
        BY <2>0, <2>15 DEF SelectPublic, At, Equipped, ChannelSteps
      <3>3. [req[r] EXCEPT !.step = "upsert",
                           !.demote = DemotionList(req[r].name, req[r].row)] \in EquippedStates
        BY <3>1, <3>2, <2>0 DEF EquippedStates, Equipped, RequestStates, Steps, UploadSteps
      <3>4. req' \in [Requests -> EquippedStates]
        BY <2>15, <3>3, <1>0, BecomeType DEF SelectPublic
      <3> QED
        BY <3>4, <2>15, <2>0a DEF SelectPublic, TypeOK
    <2>16. CASE DemoteChannel(r)
      <3>1. PICK c \in req[r].demote :
              /\ channels' = IF channels[c] = NoRow THEN channels
                             ELSE [channels EXCEPT ![c].public = FALSE]
              /\ contested' = contested \ {c}
              /\ Become(r, [req[r] EXCEPT !.demote = @ \ {c}])
        BY <2>16 DEF DemoteChannel
      <3>2. c \in Channels
        BY <2>0 DEF RequestStates
      <3>3. [req[r] EXCEPT !.demote = @ \ {c}] \in EquippedStates
        BY <2>0 DEF EquippedStates, Equipped, RequestStates
      <3>4. req' \in [Requests -> EquippedStates]
        BY <3>1, <3>3, <1>0, BecomeType
      <3>5. channels' \in [Channels -> ChannelRows \cup {NoRow}]
        BY <3>1, <3>2 DEF TypeOK, ChannelRows
      <3> QED
        BY <3>1, <3>4, <3>5, <2>16, <2>0a DEF DemoteChannel, TypeOK
    <2>17. CASE UpsertChannel(r)
      <3>1. req[r].row \in ChannelRows /\ req[r].name \in Channels
        BY <2>0, <2>17 DEF UpsertChannel, At, Equipped, RequestStates, ChannelSteps
      <3>2. req' \in [Requests -> EquippedStates]
        BY <2>17, <1>0, FinishType DEF UpsertChannel
      <3> QED
        BY <3>1, <3>2, <2>17, <2>0a DEF UpsertChannel, Outrunning, TypeOK
    <2>18. CASE StartDeleteChannel(r)
      <3>1. PICK c \in ListedChannels :
              Become(r, [Idle EXCEPT !.step = "dropChannel", !.name = c])
        BY <2>18 DEF StartDeleteChannel
      <3>2. [Idle EXCEPT !.step = "dropChannel", !.name = c] \in EquippedStates
        BY DEF Idle, EquippedStates, Equipped, RequestStates, Steps, UploadSteps,
               ChannelSteps, ListedChannels
      <3>3. req' \in [Requests -> EquippedStates]
        BY <3>1, <3>2, <1>0, BecomeType
      <3> QED
        BY <3>3, <2>18, <2>0a DEF StartDeleteChannel, TypeOK
    <2>19. CASE DropChannel(r)
      <3>1. req[r].name \in Channels
        BY <2>0 DEF RequestStates
      <3>2. req' \in [Requests -> EquippedStates]
        BY <2>19, <1>0, GotoType DEF DropChannel, Steps, UploadSteps, ChannelSteps
      <3> QED
        BY <3>1, <3>2, <2>19, <2>0a DEF DropChannel, TypeOK
    <2>20. CASE DropReleases(r)
      <3>1. req' \in [Requests -> EquippedStates]
        BY <2>20, <1>0, FinishType DEF DropReleases
      <3> QED
        BY <3>1, <2>20, <2>0a DEF DropReleases, DropRows, TypeOK
    <2>21. CASE Interrupt(r)
      <3>1. Window(r) \subseteq Keys
        BY <2>0 DEF Window, At, Equipped, RequestStates, UploadSteps
      <3>2. req' \in [Requests -> EquippedStates]
        BY <2>21, <1>0, FinishType DEF Interrupt
      <3> QED
        BY <3>1, <3>2, <2>21, <2>0a DEF Interrupt, TypeOK
    <2> QED
      BY <1>2, <2>1, <2>2, <2>3, <2>c, <2>4, <2>5, <2>6, <2>7, <2>8, <2>9, <2>10, <2>11,
         <2>12, <2>13, <2>14, <2>15, <2>16, <2>17, <2>18, <2>19, <2>20, <2>21
      DEF Step
  <1>3. CASE UNCHANGED vars
    BY <1>3 DEF vars, TypeOK
  <1> QED
    BY <1>1, <1>2, <1>3 DEF Next

\* Every table, object and request keeps its type (storage.ts, D1R2Storage).
THEOREM TypeCorrect == Spec => []TypeOK
  <1>1. Spec => []TypeInv
    BY InitType, NextType, PTL DEF Spec
  <1> QED
    BY <1>1, PTL DEF TypeInv

-----------------------------------------------------------------------------
(* Rows and bundles *)

\* A deletion has only touched objects whose rows it is going to drop.
DeletionsInScope ==
  \A r \in Requests :
    At(r, "delete") => req[r].pending \subseteq req[r].scope /\ req[r].held \subseteq req[r].scope

RowsInv == TypeInv /\ RowsMatchBundles /\ IntactUploads /\ DeletionsInScope

LEMMA InitRows == Init => RowsInv
  <1> SUFFICES ASSUME Init PROVE RowsInv
    OBVIOUS
  <1>1. TypeInv
    BY InitType
  <1>2. \A r \in Requests : req[r].step = "idle"
    BY DEF Init, Idle
  <1>3. RowsMatchBundles
    BY DEF Init, RowsMatchBundles
  <1>4. IntactUploads /\ DeletionsInScope
    BY <1>2 DEF IntactUploads, DeletionsInScope, At
  <1> QED
    BY <1>1, <1>3, <1>4 DEF RowsInv

\* Only the request that takes the step changes.
LEMMA OthersKept ==
  ASSUME TypeInv, NEW r \in Requests, NEW state, Become(r, state)
  PROVE  /\ req'[r] = state
         /\ \A q \in Requests \ {r} : req'[q] = req[q]
         /\ \A q \in Requests \ {r} : Window(q)' = Window(q)
  <1>1. req \in [Requests -> EquippedStates]
    BY DEF TypeInv
  <1>2. req'[r] = state /\ \A q \in Requests \ {r} : req'[q] = req[q]
    BY <1>1 DEF Become
  <1> QED
    BY <1>2 DEF Window, At

LEMMA RequestState ==
  ASSUME TypeInv, NEW r \in Requests
  PROVE  req[r] \in EquippedStates /\ req[r] \in RequestStates /\ Equipped(req[r])
  BY DEF TypeInv, EquippedStates

LEMMA GotoState ==
  ASSUME TypeInv, NEW r \in Requests, NEW step \in Steps, Goto(r, step)
  PROVE  /\ req'[r].step = step
         /\ req'[r].key = req[r].key /\ req'[r].content = req[r].content
         /\ \A q \in Requests \ {r} : req'[q] = req[q]
         /\ \A q \in Requests \ {r} : Window(q)' = Window(q)
  <1>1. req \in [Requests -> EquippedStates] /\ req[r] \in RequestStates
    BY RequestState DEF TypeInv
  <1>2. req'[r] = [req[r] EXCEPT !.step = step] /\ \A q \in Requests \ {r} : req'[q] = req[q]
    BY <1>1 DEF Goto, Become
  <1> QED
    BY <1>1, <1>2 DEF Window, At, RequestStates

\* A step of a request that is in no window and opens none.
LEMMA QuietStep ==
  ASSUME RowsInv, NEW r \in Requests,
         UNCHANGED <<releases, bundles, disturbed, overrun>>,
         \A q \in Requests \ {r} : req'[q] = req[q],
         req[r].step \notin {"insert", "delete"},
         req'[r].step # "insert",
         req'[r].step = "delete" =>
           req'[r].held = {} /\ req'[r].pending \subseteq req'[r].scope
  PROVE  (RowsMatchBundles /\ IntactUploads /\ DeletionsInScope)'
  <1>1. \A q \in Requests : Window(q)' = Window(q)
    BY DEF Window, At
  <1>2. RowsMatchBundles'
    BY <1>1 DEF RowsInv, RowsMatchBundles
  <1>3. IntactUploads'
    BY DEF RowsInv, IntactUploads, At
  <1>4. DeletionsInScope'
    BY DEF RowsInv, DeletionsInScope, At
  <1> QED
    BY <1>2, <1>3, <1>4

LEMMA NextRows == RowsInv /\ [Next]_vars => (RowsMatchBundles /\ IntactUploads /\ DeletionsInScope)'
  <1> SUFFICES ASSUME RowsInv, [Next]_vars
               PROVE  (RowsMatchBundles /\ IntactUploads /\ DeletionsInScope)'
    OBVIOUS
  <1>0. TypeInv
    BY DEF RowsInv
  <1>1. CASE DeleteApp
    BY <1>1 DEF DeleteApp, RowsInv, RowsMatchBundles, IntactUploads, DeletionsInScope, Window, At
  <1>2. ASSUME NEW r \in Requests, Step(r)
        PROVE  (RowsMatchBundles /\ IntactUploads /\ DeletionsInScope)'
    <2>0. req[r] \in RequestStates /\ Equipped(req[r])
      BY <1>0, RequestState
    <2>1. CASE StartCreateApp(r)
      <3>1. req'[r].step = "createApp" /\ \A q \in Requests \ {r} : req'[q] = req[q]
        BY <2>1, <1>0, GotoState DEF StartCreateApp, Steps
      <3> QED
        BY <3>1, <2>1, QuietStep DEF StartCreateApp, At
    <2>2. CASE CreateAppRow(r)
      <3>1. req'[r].step = "createAppChannel" /\ \A q \in Requests \ {r} : req'[q] = req[q]
        BY <2>2, <1>0, GotoState DEF CreateAppRow, Steps
      <3> QED
        BY <3>1, <2>2, QuietStep DEF CreateAppRow, At
    <2>3. CASE CreateAppChannel(r)
      <3>1. req'[r].step = "confirmApp" /\ \A q \in Requests \ {r} : req'[q] = req[q]
        BY <2>3, <1>0, GotoState DEF CreateAppChannel, Steps
      <3> QED
        BY <3>1, <2>3, QuietStep DEF CreateAppChannel, At
    <2>c. CASE ConfirmApp(r)
      <3>1. /\ req'[r].step \in {"idle", "uploadChannel"}
            /\ \A q \in Requests \ {r} : req'[q] = req[q]
        <4>1. CASE Finish(r)
          BY <4>1, <1>0, OthersKept DEF Finish, Idle
        <4>2. CASE Goto(r, "uploadChannel")
          BY <4>2, <1>0, GotoState DEF Steps
        <4> QED
          BY <4>1, <4>2, <2>c DEF ConfirmApp
      <3> QED
        BY <3>1, <2>c, QuietStep DEF ConfirmApp, At
    <2>4. CASE StartV1Upload(r)
      <3>1. PICK k \in Keys, x \in Contents :
              Become(r, Uploading(k, x, {}))
        BY <2>4 DEF StartV1Upload
      <3>2. /\ req'[r] = Uploading(k, x, {})
            /\ \A q \in Requests \ {r} : req'[q] = req[q]
        BY <3>1, <1>0, OthersKept
      <3> QED
        BY <3>2, <2>4, <2>0, QuietStep DEF StartV1Upload, At, Uploading, Idle
    <2>5. CASE StartPostBundle(r)
      <3>1. PICK k \in Keys, x \in Contents, later \in SUBSET Channels :
              Become(r, Uploading(k, x, later))
        BY <2>5 DEF StartPostBundle
      <3>2. /\ req'[r] = Uploading(k, x, later)
            /\ \A q \in Requests \ {r} : req'[q] = req[q]
        BY <3>1, <1>0, OthersKept
      <3> QED
        BY <3>2, <2>5, <2>0, QuietStep DEF StartPostBundle, At, Uploading, Idle
    <2>6. CASE BeginRelease(r)
      <3>1. /\ req'[r].step \in {"createApp", "uploadChannel"}
            /\ \A q \in Requests \ {r} : req'[q] = req[q]
        BY <2>6, <1>0, GotoState DEF BeginRelease, Steps
      <3> QED
        BY <3>1, <2>6, QuietStep DEF BeginRelease, At
    <2>7. CASE UpsertUploadChannel(r)
      <3>1. req'[r].step = "put" /\ \A q \in Requests \ {r} : req'[q] = req[q]
        BY <2>7, <1>0, GotoState DEF UpsertUploadChannel, Steps
      <3> QED
        BY <3>1, <2>7, QuietStep DEF UpsertUploadChannel, At
    <2>8. CASE PutBundle(r)
      <3> DEFINE k == req[r].key
      <3>1. /\ req'[r].step = "insert" /\ req'[r].key = k /\ req'[r].content = req[r].content
            /\ \A q \in Requests \ {r} : req'[q] = req[q] /\ Window(q)' = Window(q)
        BY <2>8, <1>0, GotoState DEF PutBundle, Steps
      <3>2. k \in Keys /\ Window(r)' = {k} /\ Window(r) = {}
        BY <3>1, <2>0, <2>8 DEF PutBundle, At, Equipped, UploadSteps, Window
      <3>3. /\ bundles'[k] = req[r].content
            /\ \A j \in Keys \ {k} : bundles'[j] = bundles[j]
        BY <3>2, <2>8, <1>0 DEF PutBundle, PutObject, TypeInv, TypeOK
      <3>4. RowsMatchBundles'
        BY <3>1, <3>2, <3>3, <2>8 DEF PutBundle, RowsInv, RowsMatchBundles
      <3>5. IntactUploads'
        <4> SUFFICES ASSUME NEW q \in Requests, q \notin overrun', At(q, "insert")'
                     PROVE  bundles'[req'[q].key] = req'[q].content
          BY DEF IntactUploads
        <4>1. CASE q = r
          BY <4>1, <3>1, <3>3
        <4>2. CASE q # r
          <5>1. req'[q] = req[q] /\ At(q, "insert") /\ q \notin overrun /\ q \notin Storing(k)
            BY <4>2, <3>1, <2>8 DEF PutBundle, At
          <5>2. req[q].key # k /\ bundles[req[q].key] = req[q].content
            BY <5>1 DEF Storing, RowsInv, IntactUploads
          <5>3. req[q].key \in Keys
            BY <5>1, <1>0, RequestState DEF At, Equipped, UploadSteps
          <5> QED
            BY <5>1, <5>2, <5>3, <3>3
        <4> QED
          BY <4>1, <4>2
      <3>6. DeletionsInScope'
        BY <3>1, <2>8 DEF RowsInv, DeletionsInScope, At
      <3> QED
        BY <3>4, <3>5, <3>6
    <2>9. CASE InsertRelease(r)
      <3> DEFINE k == req[r].key
      <3>1. /\ req'[r].step = "confirm"
            /\ \A q \in Requests \ {r} : req'[q] = req[q] /\ Window(q)' = Window(q)
        BY <2>9, <1>0, GotoState DEF InsertRelease, Steps
      <3>2. k \in Keys /\ Window(r) = {k}
        BY <2>0, <2>9 DEF InsertRelease, At, Equipped, UploadSteps, Window
      <3>3. /\ releases'[k] = req[r].content
            /\ \A j \in Keys \ {k} : releases'[j] = releases[j]
            /\ bundles' = bundles
        BY <3>2, <2>9, <1>0 DEF InsertRelease, UpsertRow, TypeInv, TypeOK
      <3>4. r \notin overrun => bundles[k] = req[r].content
        BY <2>9 DEF InsertRelease, RowsInv, IntactUploads
      <3>5. RowsMatchBundles'
        <4> SUFFICES ASSUME NEW j \in Keys, releases'[j] # NoContent, bundles'[j] # releases'[j]
                     PROVE  j \in disturbed' \cup UNION {Window(q)' : q \in Requests}
          BY DEF RowsMatchBundles
        <4>1. CASE j = k
          BY <4>1, <3>3, <3>4, <2>9 DEF InsertRelease
        <4>2. CASE j # k
          <5>1. j \in disturbed \cup UNION {Window(q) : q \in Requests}
            BY <4>2, <3>3 DEF RowsInv, RowsMatchBundles
          <5>2. j \notin Window(r)
            BY <4>2, <3>2
          <5>3. disturbed \ {k} \subseteq disturbed'
            BY <2>9 DEF InsertRelease
          <5> QED
            BY <5>1, <5>2, <5>3, <4>2, <3>1
        <4> QED
          BY <4>1, <4>2
      <3>6. IntactUploads'
        BY <3>1, <3>3, <2>9 DEF InsertRelease, RowsInv, IntactUploads, At
      <3>7. DeletionsInScope'
        BY <3>1 DEF RowsInv, DeletionsInScope, At
      <3> QED
        BY <3>5, <3>6, <3>7
    <2>10. CASE ConfirmRelease(r)
      <3>1. /\ req'[r].step \in {"idle", "release"}
            /\ \A q \in Requests \ {r} : req'[q] = req[q]
        <4>1. CASE Finish(r)
          BY <4>1, <1>0, OthersKept DEF Finish, Idle
        <4>2. CASE \E c \in req[r].later :
                     Become(r, Uploading([req[r].key EXCEPT !.channel = c],
                                         req[r].content, req[r].later \ {c}))
          <5>1. PICK c \in req[r].later :
                  Become(r, Uploading([req[r].key EXCEPT !.channel = c],
                                      req[r].content, req[r].later \ {c}))
            BY <4>2
          <5>2. /\ req'[r] = Uploading([req[r].key EXCEPT !.channel = c],
                                       req[r].content, req[r].later \ {c})
                /\ \A q \in Requests \ {r} : req'[q] = req[q]
            BY <5>1, <1>0, OthersKept
          <5> QED
            BY <5>2 DEF Uploading, Idle
        <4> QED
          BY <4>1, <4>2, <2>10 DEF ConfirmRelease
      <3> QED
        BY <3>1, <2>10, QuietStep DEF ConfirmRelease, At
    <2>11. CASE StartDeleteReleases(r)
      <3>1. PICK scope \in {{k \in Keys : k.version = v} : v \in Versions} \cup {Keys} :
              Become(r, [Idle EXCEPT !.step = "delete", !.scope = scope,
                                     !.pending = {k \in scope : releases[k] # NoContent}])
        BY <2>11 DEF StartDeleteReleases
      <3>2. /\ req'[r] = [Idle EXCEPT !.step = "delete", !.scope = scope,
                                      !.pending = {k \in scope : releases[k] # NoContent}]
            /\ \A q \in Requests \ {r} : req'[q] = req[q]
        BY <3>1, <1>0, OthersKept
      <3>3. req'[r].step = "delete" /\ req'[r].held = {} /\ req'[r].pending \subseteq req'[r].scope
        BY <3>2 DEF Idle
      <3> QED
        BY <3>2, <3>3, <2>11, QuietStep DEF StartDeleteReleases, At
    <2>12. CASE DeleteObject(r)
      <3>1. PICK k \in req[r].pending :
              /\ bundles' = [bundles EXCEPT ![k] = NoContent]
              /\ Become(r, [req[r] EXCEPT !.pending = @ \ {k}, !.held = @ \cup {k}])
              /\ overrun' = overrun \cup Storing(k)
        BY <2>12 DEF DeleteObject
      <3>2. k \in Keys
        BY <2>0 DEF RequestStates
      <3>3. /\ req'[r] = [req[r] EXCEPT !.pending = @ \ {k}, !.held = @ \cup {k}]
            /\ \A q \in Requests \ {r} : req'[q] = req[q] /\ Window(q)' = Window(q)
        BY <3>1, <1>0, OthersKept
      <3>4. /\ req'[r].step = "delete" /\ req'[r].scope = req[r].scope
            /\ req'[r].pending = req[r].pending \ {k} /\ req'[r].held = req[r].held \cup {k}
        BY <3>3, <2>0, <2>12 DEF RequestStates, DeleteObject, At
      <3>5. Window(r)' = Window(r) \cup {k}
        BY <3>4, <2>12 DEF Window, At, DeleteObject
      <3>6. \A j \in Keys \ {k} : bundles'[j] = bundles[j]
        BY <3>1, <3>2, <1>0 DEF TypeInv, TypeOK
      <3>7. RowsMatchBundles'
        BY <3>3, <3>5, <3>6, <2>12 DEF DeleteObject, RowsInv, RowsMatchBundles
      <3>8. IntactUploads'
        <4> SUFFICES ASSUME NEW q \in Requests, q \notin overrun', At(q, "insert")'
                     PROVE  bundles'[req'[q].key] = req'[q].content
          BY DEF IntactUploads
        <4>1. q # r
          BY <3>4 DEF At
        <4>2. req'[q] = req[q] /\ At(q, "insert") /\ q \notin overrun /\ q \notin Storing(k)
          BY <4>1, <3>3, <3>1 DEF At
        <4>3. req[q].key # k /\ bundles[req[q].key] = req[q].content
          BY <4>2 DEF Storing, RowsInv, IntactUploads
        <4>4. req[q].key \in Keys
          BY <4>2, <1>0, RequestState DEF At, Equipped, UploadSteps
        <4> QED
          BY <4>2, <4>3, <4>4, <3>6
      <3>9. DeletionsInScope'
        BY <3>3, <3>4, <2>12 DEF RowsInv, DeletionsInScope, DeleteObject, At
      <3> QED
        BY <3>7, <3>8, <3>9
    <2>13. CASE DeleteRows(r)
      <3>1. req'[r].step = "idle" /\ \A q \in Requests \ {r} : req'[q] = req[q] /\ Window(q)' = Window(q)
        BY <2>13, <1>0, OthersKept DEF DeleteRows, Finish, Idle
      <3>2. Window(r) \subseteq req[r].scope
        BY <2>13 DEF DeleteRows, Window, At, RowsInv, DeletionsInScope
      <3>3. RowsMatchBundles'
        BY <3>1, <3>2, <2>13 DEF DeleteRows, DeletedRows, DropRows, RowsInv, RowsMatchBundles
      <3>4. IntactUploads' /\ DeletionsInScope'
        BY <3>1, <2>13 DEF DeleteRows, RowsInv, IntactUploads, DeletionsInScope, At
      <3> QED
        BY <3>3, <3>4
    <2>14. CASE StartPostChannel(r)
      <3>1. PICK c \in Channels, input \in ChannelInputs :
              Become(r, [Idle EXCEPT !.step = IF ChannelRow(c, input).public
                                              THEN "selectPublic" ELSE "upsert",
                                     !.name = c, !.row = ChannelRow(c, input)])
        BY <2>14 DEF StartPostChannel
      <3>2. /\ req'[r] = [Idle EXCEPT !.step = IF ChannelRow(c, input).public
                                               THEN "selectPublic" ELSE "upsert",
                                      !.name = c, !.row = ChannelRow(c, input)]
            /\ \A q \in Requests \ {r} : req'[q] = req[q]
        BY <3>1, <1>0, OthersKept
      <3>3. req'[r].step \in {"selectPublic", "upsert"}
        BY <3>2 DEF Idle
      <3> QED
        BY <3>2, <3>3, <2>14, QuietStep DEF StartPostChannel, At
    <2>15. CASE SelectPublic(r)
      <3>1. /\ req'[r] = [req[r] EXCEPT !.step = "upsert",
                                        !.demote = DemotionList(req[r].name, req[r].row)]
            /\ \A q \in Requests \ {r} : req'[q] = req[q]
        BY <2>15, <1>0, OthersKept DEF SelectPublic
      <3>2. req'[r].step = "upsert"
        BY <3>1, <2>0 DEF RequestStates
      <3> QED
        BY <3>1, <3>2, <2>15, QuietStep DEF SelectPublic, At
    <2>16. CASE DemoteChannel(r)
      <3>1. PICK c \in req[r].demote : Become(r, [req[r] EXCEPT !.demote = @ \ {c}])
        BY <2>16 DEF DemoteChannel
      <3>2. /\ req'[r] = [req[r] EXCEPT !.demote = @ \ {c}]
            /\ \A q \in Requests \ {r} : req'[q] = req[q]
        BY <3>1, <1>0, OthersKept
      <3>3. req'[r].step = "upsert"
        BY <3>2, <2>0, <2>16 DEF RequestStates, DemoteChannel, At
      <3> QED
        BY <3>2, <3>3, <2>16, QuietStep DEF DemoteChannel, At
    <2>17. CASE UpsertChannel(r)
      <3>1. req'[r].step = "idle" /\ \A q \in Requests \ {r} : req'[q] = req[q]
        BY <2>17, <1>0, OthersKept DEF UpsertChannel, Finish, Idle
      <3> QED
        BY <3>1, <2>17, QuietStep DEF UpsertChannel, At
    <2>18. CASE StartDeleteChannel(r)
      <3>1. PICK c \in ListedChannels : Become(r, [Idle EXCEPT !.step = "dropChannel", !.name = c])
        BY <2>18 DEF StartDeleteChannel
      <3>2. /\ req'[r] = [Idle EXCEPT !.step = "dropChannel", !.name = c]
            /\ \A q \in Requests \ {r} : req'[q] = req[q]
        BY <3>1, <1>0, OthersKept
      <3>3. req'[r].step = "dropChannel"
        BY <3>2 DEF Idle
      <3> QED
        BY <3>2, <3>3, <2>18, QuietStep DEF StartDeleteChannel, At
    <2>19. CASE DropChannel(r)
      <3>1. req'[r].step = "dropReleases" /\ \A q \in Requests \ {r} : req'[q] = req[q]
        BY <2>19, <1>0, GotoState DEF DropChannel, Steps
      <3> QED
        BY <3>1, <2>19, QuietStep DEF DropChannel, At
    <2>20. CASE DropReleases(r)
      <3>1. req'[r].step = "idle" /\ \A q \in Requests \ {r} : req'[q] = req[q] /\ Window(q)' = Window(q)
        BY <2>20, <1>0, OthersKept DEF DropReleases, Finish, Idle
      <3>2. Window(r) = {} /\ Window(r)' = {}
        BY <3>1, <2>20 DEF DropReleases, Window, At
      <3>3. RowsMatchBundles'
        BY <3>1, <3>2, <2>20 DEF DropReleases, DropRows, RowsInv, RowsMatchBundles
      <3>4. IntactUploads' /\ DeletionsInScope'
        BY <3>1, <2>20 DEF DropReleases, RowsInv, IntactUploads, DeletionsInScope, At
      <3> QED
        BY <3>3, <3>4
    <2>21. CASE Interrupt(r)
      <3>1. req'[r].step = "idle" /\ \A q \in Requests \ {r} : req'[q] = req[q] /\ Window(q)' = Window(q)
        BY <2>21, <1>0, OthersKept DEF Interrupt, Finish, Idle
      <3>2. RowsMatchBundles'
        BY <3>1, <2>21 DEF Interrupt, RowsInv, RowsMatchBundles
      <3>3. IntactUploads' /\ DeletionsInScope'
        BY <3>1, <2>21 DEF Interrupt, RowsInv, IntactUploads, DeletionsInScope, At
      <3> QED
        BY <3>2, <3>3
    <2> QED
      BY <1>2, <2>1, <2>2, <2>3, <2>c, <2>4, <2>5, <2>6, <2>7, <2>8, <2>9, <2>10, <2>11,
         <2>12, <2>13, <2>14, <2>15, <2>16, <2>17, <2>18, <2>19, <2>20, <2>21
      DEF Step
  <1>3. CASE UNCHANGED vars
    BY <1>3 DEF vars, RowsInv, RowsMatchBundles, IntactUploads, DeletionsInScope, Window, At
  <1> QED
    BY <1>1, <1>2, <1>3 DEF Next

LEMMA RowsInvariant == Spec => []RowsInv
  <1>1. RowsInv /\ [Next]_vars => RowsInv'
    BY NextRows, NextType DEF RowsInv
  <1> QED
    BY InitRows, <1>1, PTL DEF Spec

\* A release row and the object at its path come from the same upload, except
\* where requests overlapped, stopped half way or are half way now
\* (createRelease and deleteReleases, storage.ts).
THEOREM RowsMatch == Spec => []RowsMatchBundles
  BY RowsInvariant, PTL DEF RowsInv

\* An upload no other request touched the object of still finds it in the
\* bucket when it inserts its row (createRelease, storage.ts).
THEOREM UploadsIntact == Spec => []IntactUploads
  BY RowsInvariant, PTL DEF RowsInv

-----------------------------------------------------------------------------
(* Public channels *)

PublicInv == TypeInv /\ PublicOverlapOnlyByRace /\ FreshPromotions

PublicParts == PublicOverlapOnlyByRace /\ FreshPromotions

LEMMA OverlapSymmetric == \A a, b : Overlap(a, b) <=> Overlap(b, a)
  BY DEF Overlap

\* A row written by an upload has no platform flag on, so it overlaps nothing.
LEMMA UnflaggedOverlapsNothing ==
  ASSUME NEW c \in Channels, NEW a
  PROVE  /\ ~ Overlap(ChannelRow(c, UploadInput(c)), a)
         /\ ~ Overlap(a, ChannelRow(c, UploadInput(c)))
  BY DEF Overlap, ChannelRow, UploadInput, StoredFlag

LEMMA InitPublic == Init => PublicInv
  <1> SUFFICES ASSUME Init PROVE PublicInv
    OBVIOUS
  <1>1. PublicOverlapOnlyByRace
    BY DEF Init, PublicOverlapOnlyByRace, IsPublic
  <1>2. FreshPromotions
    BY DEF Init, FreshPromotions, At, Idle
  <1> QED
    BY <1>1, <1>2, InitType DEF PublicInv

\* A step that writes no channel and starts no promotion.
LEMMA QuietChannels ==
  ASSUME PublicInv, NEW r \in Requests,
         UNCHANGED <<channels, outrun, contested>>,
         \A q \in Requests \ {r} : req'[q] = req[q],
         req'[r].step # "upsert" \/ ~ req'[r].row.public
  PROVE  PublicParts'
  BY DEF PublicInv, PublicParts, PublicOverlapOnlyByRace, FreshPromotions, IsPublic, At,
         OverlappingPublic

\* Writing a row that overlaps no other public channel keeps the channels apart.
LEMMA ChannelWrite ==
  ASSUME PublicInv, NEW c \in Channels, NEW new \in ChannelRows \cup {NoRow},
         channels' = [channels EXCEPT ![c] = new],
         contested' = contested \ {c},
         new # NoRow /\ new.public =>
           \A d \in Channels \ {c} : IsPublic(d) => ~ Overlap(new, channels[d])
  PROVE  PublicOverlapOnlyByRace'
  <1> SUFFICES ASSUME NEW a \in Channels, NEW b \in Channels, a # b,
                      IsPublic(a)', IsPublic(b)', Overlap(channels'[a], channels'[b])
               PROVE  a \in contested' \/ b \in contested'
    BY DEF PublicOverlapOnlyByRace
  <1>1. channels'[c] = new /\ \A d \in Channels \ {c} : channels'[d] = channels[d]
    BY DEF PublicInv, TypeInv, TypeOK
  <1>2. a # c
    BY <1>1 DEF IsPublic
  <1>3. b # c
    BY <1>1, OverlapSymmetric DEF IsPublic
  <1>4. a \in contested \/ b \in contested
    BY <1>1, <1>2, <1>3 DEF PublicInv, PublicOverlapOnlyByRace, IsPublic
  <1> QED
    BY <1>2, <1>3, <1>4

\* A promotion under way stays fresh when the one channel that changed is not
\* public now, does not overlap it, or is the one it is about to publish.
LEMMA PromotionKept ==
  ASSUME PublicInv, NEW c \in Channels, NEW new \in ChannelRows \cup {NoRow},
         channels' = [channels EXCEPT ![c] = new],
         NEW q \in Requests \ outrun, At(q, "upsert"), req[q].row.public,
         req'[q].name = req[q].name, req'[q].row = req[q].row,
         req[q].demote \subseteq req'[q].demote \cup {c},
         \/ new = NoRow \/ ~ new.public
         \/ req[q].name = c \/ ~ Overlap(req[q].row, new)
  PROVE  OverlappingPublic(req[q].name, req[q].row)' \subseteq req'[q].demote
  <1> SUFFICES ASSUME NEW d \in Channels \ {req[q].name},
                      IsPublic(d)', Overlap(req[q].row, channels'[d])
               PROVE  d \in req'[q].demote
    BY DEF OverlappingPublic
  <1>1. channels'[c] = new /\ \A e \in Channels \ {c} : channels'[e] = channels[e]
    BY DEF PublicInv, TypeInv, TypeOK
  <1>2. d # c
    BY <1>1 DEF IsPublic
  <1>3. d \in OverlappingPublic(req[q].name, req[q].row)
    BY <1>1, <1>2 DEF OverlappingPublic, IsPublic
  <1>4. d \in req[q].demote
    BY <1>3 DEF PublicInv, FreshPromotions
  <1> QED
    BY <1>2, <1>4

\* The upsert of an upload's channel disturbs no promotion.
LEMMA UnflaggedStep ==
  ASSUME PublicInv, NEW r \in Requests, NEW c \in Channels, UpsertUnflagged(c),
         outrun' = outrun,
         \A q \in Requests \ {r} : req'[q] = req[q],
         req'[r].step # "upsert"
  PROVE  PublicParts'
  <1> DEFINE new == ChannelRow(c, UploadInput(c))
  <1>1. new \in ChannelRows
    BY RowType, UploadInputType
  <1>2. channels' = [channels EXCEPT ![c] = new] /\ contested' = contested \ {c}
    BY DEF UpsertUnflagged
  <1>3. PublicOverlapOnlyByRace'
    <2>1. \A d \in Channels \ {c} : ~ Overlap(new, channels[d])
      BY UnflaggedOverlapsNothing
    <2> HIDE DEF new
    <2> QED
      BY <1>1, <1>2, <2>1, ChannelWrite
  <1>4. FreshPromotions'
    <2> SUFFICES ASSUME NEW q \in Requests, q \notin outrun', At(q, "upsert")', req'[q].row.public
                 PROVE  OverlappingPublic(req[q].name, req[q].row)' \subseteq req'[q].demote
      BY DEF FreshPromotions
    <2>1. q # r
      BY DEF At
    <2>2. req'[q] = req[q] /\ At(q, "upsert") /\ req[q].row.public /\ q \in Requests \ outrun
      BY <2>1 DEF At
    <2>3. ~ Overlap(req[q].row, new)
      BY UnflaggedOverlapsNothing
    <2> HIDE DEF new
    <2> QED
      BY <1>1, <1>2, <2>2, <2>3, PromotionKept
  <1> QED
    BY <1>3, <1>4 DEF PublicParts

LEMMA NextPublic == PublicInv /\ [Next]_vars => PublicParts'
  <1> SUFFICES ASSUME PublicInv, [Next]_vars PROVE PublicParts'
    OBVIOUS
  <1>0. TypeInv
    BY DEF PublicInv
  <1>1. CASE DeleteApp
    BY <1>1 DEF DeleteApp, PublicInv, PublicParts, PublicOverlapOnlyByRace, FreshPromotions,
                IsPublic, At, OverlappingPublic
  <1>2. ASSUME NEW r \in Requests, Step(r) PROVE PublicParts'
    <2>0. req[r] \in RequestStates /\ Equipped(req[r])
      BY <1>0, RequestState
    <2>1. CASE StartCreateApp(r)
      <3>1. req'[r].step = "createApp" /\ \A q \in Requests \ {r} : req'[q] = req[q]
        BY <2>1, <1>0, GotoState DEF StartCreateApp, Steps
      <3> QED
        BY <3>1, <2>1, QuietChannels DEF StartCreateApp
    <2>2. CASE CreateAppRow(r)
      <3>1. req'[r].step = "createAppChannel" /\ \A q \in Requests \ {r} : req'[q] = req[q]
        BY <2>2, <1>0, GotoState DEF CreateAppRow, Steps
      <3> QED
        BY <3>1, <2>2, QuietChannels DEF CreateAppRow
    <2>3. CASE CreateAppChannel(r)
      <3>1. req'[r].step = "confirmApp" /\ \A q \in Requests \ {r} : req'[q] = req[q]
        BY <2>3, <1>0, GotoState DEF CreateAppChannel, Steps
      <3> QED
        BY <3>1, <2>3, UnflaggedStep, StoreAssumption DEF CreateAppChannel
    <2>c. CASE ConfirmApp(r)
      <3>1. /\ req'[r].step \in {"idle", "uploadChannel"}
            /\ \A q \in Requests \ {r} : req'[q] = req[q]
        <4>1. CASE Finish(r)
          BY <4>1, <1>0, OthersKept DEF Finish, Idle
        <4>2. CASE Goto(r, "uploadChannel")
          BY <4>2, <1>0, GotoState DEF Steps
        <4> QED
          BY <4>1, <4>2, <2>c DEF ConfirmApp
      <3> QED
        BY <3>1, <2>c, QuietChannels DEF ConfirmApp
    <2>4. CASE StartV1Upload(r)
      <3>1. PICK k \in Keys, x \in Contents :
              Become(r, Uploading(k, x, {}))
        BY <2>4 DEF StartV1Upload
      <3>2. /\ req'[r] = Uploading(k, x, {})
            /\ \A q \in Requests \ {r} : req'[q] = req[q]
        BY <3>1, <1>0, OthersKept
      <3>3. req'[r].step # "upsert"
        BY <3>2 DEF Uploading, Idle
      <3> QED
        BY <3>2, <3>3, <2>4, QuietChannels DEF StartV1Upload
    <2>5. CASE StartPostBundle(r)
      <3>1. PICK k \in Keys, x \in Contents, later \in SUBSET Channels :
              Become(r, Uploading(k, x, later))
        BY <2>5 DEF StartPostBundle
      <3>2. /\ req'[r] = Uploading(k, x, later)
            /\ \A q \in Requests \ {r} : req'[q] = req[q]
        BY <3>1, <1>0, OthersKept
      <3>3. req'[r].step # "upsert"
        BY <3>2 DEF Uploading, Idle
      <3> QED
        BY <3>2, <3>3, <2>5, QuietChannels DEF StartPostBundle
    <2>6. CASE BeginRelease(r)
      <3>1. /\ req'[r].step \in {"createApp", "uploadChannel"}
            /\ \A q \in Requests \ {r} : req'[q] = req[q]
        BY <2>6, <1>0, GotoState DEF BeginRelease, Steps
      <3> QED
        BY <3>1, <2>6, QuietChannels DEF BeginRelease
    <2>7. CASE UpsertUploadChannel(r)
      <3>1. req'[r].step = "put" /\ \A q \in Requests \ {r} : req'[q] = req[q]
        BY <2>7, <1>0, GotoState DEF UpsertUploadChannel, Steps
      <3>2. req[r].key.channel \in Channels
        BY <2>0, <2>7 DEF UpsertUploadChannel, At, Equipped, UploadSteps, Keys
      <3> QED
        BY <3>1, <3>2, <2>7, UnflaggedStep DEF UpsertUploadChannel
    <2>8. CASE PutBundle(r)
      <3>1. req'[r].step = "insert" /\ \A q \in Requests \ {r} : req'[q] = req[q]
        BY <2>8, <1>0, GotoState DEF PutBundle, Steps
      <3> QED
        BY <3>1, <2>8, QuietChannels DEF PutBundle
    <2>9. CASE InsertRelease(r)
      <3>1. req'[r].step = "confirm" /\ \A q \in Requests \ {r} : req'[q] = req[q]
        BY <2>9, <1>0, GotoState DEF InsertRelease, Steps
      <3> QED
        BY <3>1, <2>9, QuietChannels DEF InsertRelease
    <2>10. CASE ConfirmRelease(r)
      <3>1. /\ req'[r].step \in {"idle", "release"}
            /\ \A q \in Requests \ {r} : req'[q] = req[q]
        <4>1. CASE Finish(r)
          BY <4>1, <1>0, OthersKept DEF Finish, Idle
        <4>2. CASE \E c \in req[r].later :
                     Become(r, Uploading([req[r].key EXCEPT !.channel = c],
                                         req[r].content, req[r].later \ {c}))
          <5>1. PICK c \in req[r].later :
                  Become(r, Uploading([req[r].key EXCEPT !.channel = c],
                                      req[r].content, req[r].later \ {c}))
            BY <4>2
          <5>2. /\ req'[r] = Uploading([req[r].key EXCEPT !.channel = c],
                                       req[r].content, req[r].later \ {c})
                /\ \A q \in Requests \ {r} : req'[q] = req[q]
            BY <5>1, <1>0, OthersKept
          <5> QED
            BY <5>2 DEF Uploading, Idle
        <4> QED
          BY <4>1, <4>2, <2>10 DEF ConfirmRelease
      <3> QED
        BY <3>1, <2>10, QuietChannels DEF ConfirmRelease
    <2>11. CASE StartDeleteReleases(r)
      <3>1. PICK scope \in {{k \in Keys : k.version = v} : v \in Versions} \cup {Keys} :
              Become(r, [Idle EXCEPT !.step = "delete", !.scope = scope,
                                     !.pending = {k \in scope : releases[k] # NoContent}])
        BY <2>11 DEF StartDeleteReleases
      <3>2. /\ req'[r] = [Idle EXCEPT !.step = "delete", !.scope = scope,
                                      !.pending = {k \in scope : releases[k] # NoContent}]
            /\ \A q \in Requests \ {r} : req'[q] = req[q]
        BY <3>1, <1>0, OthersKept
      <3>3. req'[r].step # "upsert"
        BY <3>2 DEF Uploading, Idle
      <3> QED
        BY <3>2, <3>3, <2>11, QuietChannels DEF StartDeleteReleases
    <2>12. CASE DeleteObject(r)
      <3>1. PICK k \in req[r].pending :
              Become(r, [req[r] EXCEPT !.pending = @ \ {k}, !.held = @ \cup {k}])
        BY <2>12 DEF DeleteObject
      <3>2. /\ req'[r] = [req[r] EXCEPT !.pending = @ \ {k}, !.held = @ \cup {k}]
            /\ \A q \in Requests \ {r} : req'[q] = req[q]
        BY <3>1, <1>0, OthersKept
      <3>3. req'[r].step = "delete"
        BY <3>2, <2>0, <2>12 DEF RequestStates, DeleteObject, At
      <3> QED
        BY <3>2, <3>3, <2>12, QuietChannels DEF DeleteObject
    <2>13. CASE DeleteRows(r)
      <3>1. req'[r].step = "idle" /\ \A q \in Requests \ {r} : req'[q] = req[q]
        BY <2>13, <1>0, OthersKept DEF DeleteRows, Finish, Idle
      <3> QED
        BY <3>1, <2>13, QuietChannels DEF DeleteRows
    <2>14. CASE StartPostChannel(r)
      <3>1. PICK c \in Channels, input \in ChannelInputs :
              Become(r, [Idle EXCEPT !.step = IF ChannelRow(c, input).public
                                              THEN "selectPublic" ELSE "upsert",
                                     !.name = c, !.row = ChannelRow(c, input)])
        BY <2>14 DEF StartPostChannel
      <3>2. /\ req'[r] = [Idle EXCEPT !.step = IF ChannelRow(c, input).public
                                               THEN "selectPublic" ELSE "upsert",
                                      !.name = c, !.row = ChannelRow(c, input)]
            /\ \A q \in Requests \ {r} : req'[q] = req[q]
        BY <3>1, <1>0, OthersKept
      <3>3. req'[r].step # "upsert" \/ ~ req'[r].row.public
        BY <3>2 DEF Idle
      <3> QED
        BY <3>2, <3>3, <2>14, QuietChannels DEF StartPostChannel
    <2>15. CASE SelectPublic(r)
      <3>1. /\ req'[r] = [req[r] EXCEPT !.step = "upsert",
                                        !.demote = DemotionList(req[r].name, req[r].row)]
            /\ \A q \in Requests \ {r} : req'[q] = req[q]
        BY <2>15, <1>0, OthersKept DEF SelectPublic
      <3>2. /\ req'[r].name = req[r].name /\ req'[r].row = req[r].row
            /\ req'[r].demote = OverlappingPublic(req[r].name, req[r].row)
        BY <3>1, <2>0 DEF RequestStates, DemotionList
      <3>3. UNCHANGED <<channels, outrun, contested>>
        BY <2>15 DEF SelectPublic
      <3>4. PublicOverlapOnlyByRace'
        BY <3>3 DEF PublicInv, PublicOverlapOnlyByRace, IsPublic
      <3>5. FreshPromotions'
        BY <3>1, <3>2, <3>3 DEF PublicInv, FreshPromotions, IsPublic, At, OverlappingPublic
      <3> QED
        BY <3>4, <3>5 DEF PublicParts
    <2>16. CASE DemoteChannel(r)
      <3>1. PICK c \in req[r].demote :
              /\ channels' = IF channels[c] = NoRow THEN channels
                             ELSE [channels EXCEPT ![c].public = FALSE]
              /\ contested' = contested \ {c}
              /\ Become(r, [req[r] EXCEPT !.demote = @ \ {c}])
        BY <2>16 DEF DemoteChannel
      <3>2. c \in Channels /\ channels \in [Channels -> ChannelRows \cup {NoRow}]
        BY <2>0, <1>0 DEF RequestStates, TypeInv, TypeOK
      <3> DEFINE new == IF channels[c] = NoRow THEN NoRow
                        ELSE [channels[c] EXCEPT !.public = FALSE]
      <3>3. /\ new \in ChannelRows \cup {NoRow}
            /\ new = NoRow \/ ~ new.public
            /\ channels' = [channels EXCEPT ![c] = new]
        BY <3>1, <3>2 DEF ChannelRows
      <3>4. /\ req'[r] = [req[r] EXCEPT !.demote = @ \ {c}]
            /\ \A q \in Requests \ {r} : req'[q] = req[q]
        BY <3>1, <1>0, OthersKept
      <3>5. /\ req'[r].step = "upsert" /\ req'[r].name = req[r].name
            /\ req'[r].row = req[r].row /\ req'[r].demote = req[r].demote \ {c}
        BY <3>4, <2>0, <2>16 DEF RequestStates, DemoteChannel, At
      <3> HIDE DEF new
      <3>6. PublicOverlapOnlyByRace'
        BY <3>1, <3>2, <3>3, ChannelWrite
      <3>7. FreshPromotions'
        <4> SUFFICES ASSUME NEW q \in Requests, q \notin outrun', At(q, "upsert")', req'[q].row.public
                     PROVE  OverlappingPublic(req[q].name, req[q].row)' \subseteq req'[q].demote
          BY DEF FreshPromotions
        <4>1. q \in Requests \ outrun /\ At(q, "upsert") /\ req[q].row.public
          BY <3>4, <3>5, <2>16 DEF DemoteChannel, At
        <4>2. /\ req'[q].name = req[q].name /\ req'[q].row = req[q].row
              /\ req[q].demote \subseteq req'[q].demote \cup {c}
          BY <3>4, <3>5
        <4> QED
          BY <4>1, <4>2, <3>2, <3>3, PromotionKept
      <3> QED
        BY <3>6, <3>7 DEF PublicParts
    <2>17. CASE UpsertChannel(r)
      <3> DEFINE name == req[r].name
                 row  == req[r].row
      <3>1. name \in Channels /\ row \in ChannelRows /\ row # NoRow
        BY <2>0, <2>17, StoreAssumption DEF UpsertChannel, At, Equipped, RequestStates, ChannelSteps
      <3>2. /\ channels' = [channels EXCEPT ![name] = row]
            /\ outrun' = (outrun \cup Outrunning(name, row)) \ {r}
            /\ contested' = IF r \in outrun THEN contested \cup {name} ELSE contested \ {name}
            /\ At(r, "upsert") /\ req[r].demote = {}
        BY <2>17 DEF UpsertChannel
      <3>3. req'[r].step = "idle" /\ \A q \in Requests \ {r} : req'[q] = req[q]
        BY <2>17, <1>0, OthersKept DEF UpsertChannel, Finish, Idle
      <3>4. PublicOverlapOnlyByRace'
        <4>1. CASE r \in outrun
          <5> SUFFICES ASSUME NEW a \in Channels, NEW b \in Channels, a # b,
                              IsPublic(a)', IsPublic(b)', Overlap(channels'[a], channels'[b])
                       PROVE  a \in contested' \/ b \in contested'
            BY DEF PublicOverlapOnlyByRace
          <5>1. CASE a = name \/ b = name
            BY <5>1, <4>1, <3>2
          <5>2. CASE a # name /\ b # name
            <6>1. channels'[a] = channels[a] /\ channels'[b] = channels[b]
              BY <5>2, <3>2, <1>0 DEF TypeInv, TypeOK
            <6>2. a \in contested \/ b \in contested
              BY <6>1 DEF PublicInv, PublicOverlapOnlyByRace, IsPublic
            <6> QED
              BY <6>2, <4>1, <3>2
          <5> QED
            BY <5>1, <5>2
        <4>2. CASE r \notin outrun
          <5>1. row.public => OverlappingPublic(name, row) = {}
            BY <4>2, <3>2 DEF PublicInv, FreshPromotions
          <5>2. row.public => \A d \in Channels \ {name} : IsPublic(d) => ~ Overlap(row, channels[d])
            BY <5>1 DEF OverlappingPublic
          <5>3. contested' = contested \ {name}
            BY <4>2, <3>2
          <5> HIDE DEF name, row
          <5> QED
            BY <5>2, <5>3, <3>1, <3>2, ChannelWrite
        <4> QED
          BY <4>1, <4>2
      <3>5. FreshPromotions'
        <4> SUFFICES ASSUME NEW q \in Requests, q \notin outrun', At(q, "upsert")', req'[q].row.public
                     PROVE  OverlappingPublic(req[q].name, req[q].row)' \subseteq req'[q].demote
          BY DEF FreshPromotions
        <4>1. q # r
          BY <3>3 DEF At
        <4>2. /\ q \in Requests \ outrun /\ At(q, "upsert") /\ req[q].row.public
              /\ req'[q] = req[q] /\ q \notin Outrunning(name, row)
          BY <4>1, <3>2, <3>3 DEF At
        <4>3. ~ row.public \/ req[q].name = name \/ ~ Overlap(req[q].row, row)
          BY <4>2 DEF Outrunning
        <4> HIDE DEF name, row
        <4> QED
          BY <4>2, <4>3, <3>1, <3>2, PromotionKept
      <3> QED
        BY <3>4, <3>5 DEF PublicParts
    <2>18. CASE StartDeleteChannel(r)
      <3>1. PICK c \in ListedChannels : Become(r, [Idle EXCEPT !.step = "dropChannel", !.name = c])
        BY <2>18 DEF StartDeleteChannel
      <3>2. /\ req'[r] = [Idle EXCEPT !.step = "dropChannel", !.name = c]
            /\ \A q \in Requests \ {r} : req'[q] = req[q]
        BY <3>1, <1>0, OthersKept
      <3>3. req'[r].step # "upsert"
        BY <3>2 DEF Idle
      <3> QED
        BY <3>2, <3>3, <2>18, QuietChannels DEF StartDeleteChannel
    <2>19. CASE DropChannel(r)
      <3> DEFINE c == req[r].name
      <3>1. /\ c \in Channels
            /\ channels' = [channels EXCEPT ![c] = NoRow]
            /\ contested' = contested \ {c} /\ outrun' = outrun
        BY <2>0, <2>19 DEF DropChannel, RequestStates
      <3>2. req'[r].step = "dropReleases" /\ \A q \in Requests \ {r} : req'[q] = req[q]
        BY <2>19, <1>0, GotoState DEF DropChannel, Steps
      <3> HIDE DEF c
      <3>3. PublicOverlapOnlyByRace'
        BY <3>1, ChannelWrite
      <3>4. FreshPromotions'
        <4> SUFFICES ASSUME NEW q \in Requests, q \notin outrun', At(q, "upsert")', req'[q].row.public
                     PROVE  OverlappingPublic(req[q].name, req[q].row)' \subseteq req'[q].demote
          BY DEF FreshPromotions
        <4>1. q # r
          BY <3>2 DEF At
        <4>2. q \in Requests \ outrun /\ At(q, "upsert") /\ req[q].row.public /\ req'[q] = req[q]
          BY <4>1, <3>1, <3>2 DEF At
        <4> QED
          BY <4>2, <3>1, PromotionKept
      <3> QED
        BY <3>3, <3>4 DEF PublicParts
    <2>20. CASE DropReleases(r)
      <3>1. req'[r].step = "idle" /\ \A q \in Requests \ {r} : req'[q] = req[q]
        BY <2>20, <1>0, OthersKept DEF DropReleases, Finish, Idle
      <3> QED
        BY <3>1, <2>20, QuietChannels DEF DropReleases
    <2>21. CASE Interrupt(r)
      <3>1. req'[r].step = "idle" /\ \A q \in Requests \ {r} : req'[q] = req[q]
        BY <2>21, <1>0, OthersKept DEF Interrupt, Finish, Idle
      <3>2. UNCHANGED <<channels, contested>> /\ outrun' = outrun \ {r}
        BY <2>21 DEF Interrupt
      <3>3. PublicOverlapOnlyByRace'
        BY <3>2 DEF PublicInv, PublicOverlapOnlyByRace, IsPublic
      <3>4. FreshPromotions'
        BY <3>1, <3>2 DEF PublicInv, FreshPromotions, IsPublic, At, OverlappingPublic
      <3> QED
        BY <3>3, <3>4 DEF PublicParts
    <2> QED
      BY <1>2, <2>1, <2>2, <2>3, <2>c, <2>4, <2>5, <2>6, <2>7, <2>8, <2>9, <2>10, <2>11,
         <2>12, <2>13, <2>14, <2>15, <2>16, <2>17, <2>18, <2>19, <2>20, <2>21
      DEF Step
  <1>3. CASE UNCHANGED vars
    BY <1>3 DEF vars, PublicInv, PublicParts, PublicOverlapOnlyByRace, FreshPromotions,
                IsPublic, At, OverlappingPublic
  <1> QED
    BY <1>1, <1>2, <1>3 DEF Next

LEMMA PublicInvariant == Spec => []PublicInv
  <1>1. PublicInv /\ [Next]_vars => PublicInv'
    BY NextPublic, NextType DEF PublicInv, PublicParts
  <1> QED
    BY InitPublic, <1>1, PTL DEF Spec

\* Two public channels share a platform only when one of them was published
\* while another promotion was under way (upsertChannel, storage.ts).
THEOREM PublicOverlap == Spec => []PublicOverlapOnlyByRace
  BY PublicInvariant, PTL DEF PublicInv

\* A promotion no other one outran will demote every public channel that
\* shares a platform with it before it publishes (upsertChannel, storage.ts).
THEOREM PromotionsFresh == Spec => []FreshPromotions
  BY PublicInvariant, PTL DEF PublicInv
-----------------------------------------------------------------------------
(* ReleaseStore implements Catalog *)

\* What one deletion can name: a version on every platform, or everything.
Scopes == {{k \in Keys : k.version = v} : v \in Versions} \cup {Keys}

\* The rows a deletion drops are the ones of an operation of Catalog.
ScopesNamed == \A r \in Requests : At(r, "delete") => req[r].scope \in Scopes

CatalogInv == TypeInv /\ ScopesNamed

LEMMA InitCatalog == Init => CatalogInv /\ Published!Init
  BY InitType DEF Init, CatalogInv, ScopesNamed, At, Idle,
                  Published!Init, Published!Keys, Keys

\* A step of r that leaves it named leaves every request named.
LEMMA NamedStep ==
  ASSUME ScopesNamed, NEW r \in Requests,
         \A q \in Requests \ {r} : req'[q] = req[q],
         req'[r].step = "delete" => req'[r].scope \in Scopes
  PROVE  ScopesNamed'
  BY DEF ScopesNamed, At

LEMMA GotoNamed ==
  ASSUME TypeInv, ScopesNamed, NEW r \in Requests, NEW step \in Steps \ {"delete"},
         Goto(r, step)
  PROVE  ScopesNamed'
  <1>1. req'[r].step = step /\ \A q \in Requests \ {r} : req'[q] = req[q]
    BY GotoState
  <1> QED
    BY <1>1, NamedStep

LEMMA BecomeNamed ==
  ASSUME TypeInv, ScopesNamed, NEW r \in Requests, NEW state, Become(r, state),
         state.step = "delete" => state.scope \in Scopes
  PROVE  ScopesNamed'
  <1>1. req'[r] = state /\ \A q \in Requests \ {r} : req'[q] = req[q]
    BY OthersKept
  <1> QED
    BY <1>1, NamedStep

LEMMA FinishNamed ==
  ASSUME TypeInv, ScopesNamed, NEW r \in Requests, Finish(r)
  PROVE  ScopesNamed'
  BY BecomeNamed DEF Finish, Idle

LEMMA NextNamed == CatalogInv /\ [Next]_vars => ScopesNamed'
  <1> SUFFICES ASSUME CatalogInv, [Next]_vars PROVE ScopesNamed'
    OBVIOUS
  <1>0. TypeInv /\ ScopesNamed
    BY DEF CatalogInv
  <1>1. CASE DeleteApp
    BY <1>1, <1>0 DEF DeleteApp, ScopesNamed, At
  <1>2. ASSUME NEW r \in Requests, Step(r) PROVE ScopesNamed'
    <2>0. req[r] \in RequestStates /\ (req[r].step = "delete" => req[r].scope \in Scopes)
      BY <1>0, RequestState DEF ScopesNamed, At
    <2>1. CASE StartCreateApp(r)
      BY <2>1, <1>0, GotoNamed DEF StartCreateApp, Steps
    <2>2. CASE CreateAppRow(r)
      BY <2>2, <1>0, GotoNamed DEF CreateAppRow, Steps
    <2>3. CASE CreateAppChannel(r)
      BY <2>3, <1>0, GotoNamed DEF CreateAppChannel, Steps
    <2>c. CASE ConfirmApp(r)
      BY <2>c, <1>0, GotoNamed, FinishNamed DEF ConfirmApp, Steps
    <2>4. CASE StartV1Upload(r)
      <3>1. PICK k \in Keys, x \in Contents : Become(r, Uploading(k, x, {}))
        BY <2>4 DEF StartV1Upload
      <3>2. Uploading(k, x, {}).step # "delete"
        BY DEF Uploading, Idle
      <3> QED
        BY <3>1, <3>2, <1>0, BecomeNamed
    <2>5. CASE StartPostBundle(r)
      <3>1. PICK k \in Keys, x \in Contents, later \in SUBSET Channels :
              Become(r, Uploading(k, x, later))
        BY <2>5 DEF StartPostBundle
      <3>2. Uploading(k, x, later).step # "delete"
        BY DEF Uploading, Idle
      <3> QED
        BY <3>1, <3>2, <1>0, BecomeNamed
    <2>6. CASE BeginRelease(r)
      BY <2>6, <1>0, GotoNamed DEF BeginRelease, Steps
    <2>7. CASE UpsertUploadChannel(r)
      BY <2>7, <1>0, GotoNamed DEF UpsertUploadChannel, Steps
    <2>8. CASE PutBundle(r)
      BY <2>8, <1>0, GotoNamed DEF PutBundle, Steps
    <2>9. CASE InsertRelease(r)
      BY <2>9, <1>0, GotoNamed DEF InsertRelease, Steps
    <2>10. CASE ConfirmRelease(r)
      <3>1. CASE Finish(r)
        BY <3>1, <1>0, FinishNamed
      <3>2. ASSUME NEW c \in req[r].later,
                   Become(r, Uploading([req[r].key EXCEPT !.channel = c],
                                       req[r].content, req[r].later \ {c}))
            PROVE  ScopesNamed'
        <4>1. Uploading([req[r].key EXCEPT !.channel = c],
                        req[r].content, req[r].later \ {c}).step # "delete"
          BY DEF Uploading, Idle
        <4> QED
          BY <3>2, <4>1, <1>0, BecomeNamed
      <3> QED
        BY <3>1, <3>2, <2>10 DEF ConfirmRelease
    <2>11. CASE StartDeleteReleases(r)
      <3>1. PICK scope \in Scopes :
              Become(r, [Idle EXCEPT !.step = "delete", !.scope = scope,
                                     !.pending = {k \in scope : releases[k] # NoContent}])
        BY <2>11 DEF StartDeleteReleases, Scopes
      <3>2. [Idle EXCEPT !.step = "delete", !.scope = scope,
                         !.pending = {k \in scope : releases[k] # NoContent}].scope = scope
        BY DEF Idle
      <3> QED
        BY <3>1, <3>2, <1>0, BecomeNamed
    <2>12. CASE DeleteObject(r)
      <3>1. PICK k \in req[r].pending :
              Become(r, [req[r] EXCEPT !.pending = @ \ {k}, !.held = @ \cup {k}])
        BY <2>12 DEF DeleteObject
      <3> DEFINE state == [req[r] EXCEPT !.pending = @ \ {k}, !.held = @ \cup {k}]
      <3>2. state.step = req[r].step /\ state.scope = req[r].scope
        BY <2>0 DEF RequestStates
      <3> QED
        BY <3>1, <3>2, <2>0, <1>0, BecomeNamed
    <2>13. CASE DeleteRows(r)
      BY <2>13, <1>0, FinishNamed DEF DeleteRows
    <2>14. CASE StartPostChannel(r)
      <3>1. PICK c \in Channels, input \in ChannelInputs :
              Become(r, [Idle EXCEPT !.step = IF ChannelRow(c, input).public
                                              THEN "selectPublic" ELSE "upsert",
                                     !.name = c, !.row = ChannelRow(c, input)])
        BY <2>14 DEF StartPostChannel
      <3>2. [Idle EXCEPT !.step = IF ChannelRow(c, input).public
                                  THEN "selectPublic" ELSE "upsert",
                         !.name = c, !.row = ChannelRow(c, input)].step # "delete"
        BY DEF Idle
      <3> QED
        BY <3>1, <3>2, <1>0, BecomeNamed
    <2>15. CASE SelectPublic(r)
      <3> DEFINE state == [req[r] EXCEPT !.step = "upsert",
                                         !.demote = DemotionList(req[r].name, req[r].row)]
      <3>1. Become(r, state)
        BY <2>15 DEF SelectPublic
      <3>2. state.step # "delete"
        BY <2>0 DEF RequestStates
      <3> QED
        BY <3>1, <3>2, <1>0, BecomeNamed
    <2>16. CASE DemoteChannel(r)
      <3>1. PICK c \in req[r].demote : Become(r, [req[r] EXCEPT !.demote = @ \ {c}])
        BY <2>16 DEF DemoteChannel
      <3> DEFINE state == [req[r] EXCEPT !.demote = @ \ {c}]
      <3>2. state.step = req[r].step /\ state.scope = req[r].scope
        BY <2>0 DEF RequestStates
      <3> QED
        BY <3>1, <3>2, <2>0, <1>0, BecomeNamed
    <2>17. CASE UpsertChannel(r)
      BY <2>17, <1>0, FinishNamed DEF UpsertChannel
    <2>18. CASE StartDeleteChannel(r)
      <3>1. PICK c \in ListedChannels :
              Become(r, [Idle EXCEPT !.step = "dropChannel", !.name = c])
        BY <2>18 DEF StartDeleteChannel
      <3>2. [Idle EXCEPT !.step = "dropChannel", !.name = c].step # "delete"
        BY DEF Idle
      <3> QED
        BY <3>1, <3>2, <1>0, BecomeNamed
    <2>19. CASE DropChannel(r)
      BY <2>19, <1>0, GotoNamed DEF DropChannel, Steps
    <2>20. CASE DropReleases(r)
      BY <2>20, <1>0, FinishNamed DEF DropReleases
    <2>21. CASE Interrupt(r)
      BY <2>21, <1>0, FinishNamed DEF Interrupt
    <2> QED
      BY <1>2, <2>1, <2>2, <2>3, <2>c, <2>4, <2>5, <2>6, <2>7, <2>8, <2>9, <2>10, <2>11,
         <2>12, <2>13, <2>14, <2>15, <2>16, <2>17, <2>18, <2>19, <2>20, <2>21
      DEF Step
  <1>3. CASE UNCHANGED vars
    BY <1>3, <1>0 DEF vars, ScopesNamed, At
  <1> QED
    BY <1>1, <1>2, <1>3 DEF Next

\* Every step is an operation of Catalog or leaves the releases alone.
LEMMA NextCatalog == CatalogInv /\ [Next]_vars => [Published!Next]_releases
  <1> SUFFICES ASSUME CatalogInv, [Next]_vars
               PROVE  Published!Next \/ UNCHANGED releases
    OBVIOUS
  <1>0. TypeInv /\ ScopesNamed /\ Published!Keys = Keys
    BY DEF CatalogInv, Published!Keys, Keys
  <1>1. CASE DeleteApp
    BY <1>1 DEF DeleteApp
  <1>2. ASSUME NEW r \in Requests, Step(r) PROVE Published!Next \/ UNCHANGED releases
    <2>0. req[r] \in RequestStates /\ Equipped(req[r])
      BY <1>0, RequestState
    <2>1. CASE InsertRelease(r)
      <3>1. req[r].key \in Keys /\ req[r].content \in Contents
        BY <2>0, <2>1 DEF InsertRelease, At, Equipped, UploadSteps
      <3>2. Published!Publish(req[r].key, req[r].content)
        BY <2>1 DEF InsertRelease, UpsertRow, Published!Publish
      <3> QED
        BY <3>1, <3>2, <1>0 DEF Published!Next
    <2>2. CASE DeleteRows(r)
      <3>1. req[r].scope \in Scopes
        BY <2>2, <1>0 DEF DeleteRows, ScopesNamed
      <3>2. Published!Retract(req[r].scope)
        BY <2>2, <1>0 DEF DeleteRows, DropRows, DeletedRows, Published!Retract
      <3>3. CASE req[r].scope = Keys
        BY <3>2, <3>3, <1>0 DEF Published!Next
      <3>4. CASE req[r].scope \in {{k \in Keys : k.version = v} : v \in Versions}
        <4>1. PICK v \in Versions : req[r].scope = Published!VersionKeys(v)
          BY <3>4, <1>0 DEF Published!VersionKeys
        <4> QED
          BY <3>2, <4>1 DEF Published!Next
      <3> QED
        BY <3>1, <3>3, <3>4 DEF Scopes
    <2>3. CASE DropReleases(r)
      <3>1. req[r].name \in Channels
        BY <2>0 DEF RequestStates
      <3>2. Published!Retract(Published!ChannelKeys(req[r].name))
        BY <2>3, <1>0 DEF DropReleases, DropRows, Published!Retract, Published!ChannelKeys
      <3> QED
        BY <3>1, <3>2 DEF Published!Next
    <2>4. CASE ~ (InsertRelease(r) \/ DeleteRows(r) \/ DropReleases(r))
      BY <2>4, <1>2
      DEF Step, StartCreateApp, CreateAppRow, CreateAppChannel, ConfirmApp, StartV1Upload,
          StartPostBundle, BeginRelease, UpsertUploadChannel, PutBundle, ConfirmRelease,
          StartDeleteReleases, DeleteObject, StartPostChannel, SelectPublic,
          DemoteChannel, UpsertChannel, StartDeleteChannel, DropChannel, Interrupt
    <2> QED
      BY <2>1, <2>2, <2>3, <2>4
  <1>3. CASE UNCHANGED vars
    BY <1>3 DEF vars
  <1> QED
    BY <1>1, <1>2, <1>3 DEF Next

\* The releases table changes by whole operations only, for any number of
\* concurrent requests, platforms, channels and versions (deleteReleases,
\* deleteChannel and createRelease, storage.ts).
THEOREM StoreImplementsCatalog == Spec => ImplementsCatalog
  <1>1. CatalogInv /\ [Next]_vars => CatalogInv'
    BY NextNamed, NextType DEF CatalogInv
  <1> QED
    BY InitCatalog, <1>1, NextCatalog, PTL DEF Spec, ImplementsCatalog, Published!Spec
=============================================================================
