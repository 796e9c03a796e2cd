------------------------ MODULE DeviceUpdates_proofs ------------------------
(***************************************************************************)
(* For every number of administrators, flows, versions and bundles: the    *)
(* types of DeviceUpdates, that the bytes handed to the application are    *)
(* those of the offer, that the pending update is the one that was handed, *)
(* and that it never regresses but to an update whose offer was overtaken  *)
(* or in place of a release that was withdrawn.                            *)
(***************************************************************************)
EXTENDS DeviceUpdates, WellFoundedInduction, TLAPS

\* What an administrator's request knows at each step.
Instructed(a) ==
  \/ a = Resting
  \/ /\ a.step \in {"putBundle", "insertRelease"}
     /\ a.upload \in Uploads /\ a.version = a.upload.version
  \/ /\ a.step \in {"dropBundle", "dropRelease"}
     /\ a.upload = None /\ a.version \in Versions

\* What a flow knows at each step.
Informed(f) ==
  \/ f.step \in {"idle", "asked"} /\ f.update = None /\ f.bytes = None
  \/ f.step \in {"offered", "fetching", "located"} /\ f.update \in Updates /\ f.bytes = None
  \/ f.step \in {"received", "remembered"} /\ f.update \in Updates /\ f.bytes \in Contents

Typed ==
  /\ TypeOK
  /\ \A a \in Admins : Instructed(admin[a])
  /\ \A f \in Flows : Informed(flow[f])

\* Somebody knows s as the checksum, or holds the bundle s, of version v.
Seen(v, s) ==
  \/ releases[v] # None /\ releases[v].sum = s
  \/ s \in {bundles[v], cache[v]}
  \/ \E a \in Admins :
       admin[a].upload # None /\ admin[a].version = v /\ admin[a].upload.sum = s
  \/ \E f \in Flows :
       /\ flow[f].update # None /\ flow[f].update.version = v
       /\ s \in {flow[f].update.sum, flow[f].bytes}
  \/ /\ handed # None /\ handed.update.version = v
     /\ s \in {handed.update.sum, handed.bytes}

\* A version that is uploaded once is known by one checksum, one that is not
\* uploaded by none.
OneBundle(v) ==
  /\ \A s \in Contents : Seen(v, s) => v \in used
  /\ v \notin reused => \A s, t \in Contents : Seen(v, s) /\ Seen(v, t) => s = t

BundleInv == Typed /\ \A v \in Versions : OneBundle(v)

\* Of two flows that have remembered their updates both have crossed, and one
\* that has not crossed has left its update pending.
Uncrossed(f) ==
  At(f, "remembered") /\ f \notin crossed =>
    /\ pending = flow[f].update
    /\ \A g \in Flows : At(g, "remembered") => g = f

HandedInv == Typed /\ PendingWasHanded /\ \A f \in Flows : Uncrossed(f)

\* An update somebody still knows of is a release, or one that was withdrawn.
Offered(update) == releases[update.version] # None \/ update.version \in withdrawn

\* An update is no newer than another one, or was withdrawn.
NotAfter(update, other) ==
  update.version <= other.version \/ update.version \in withdrawn

\* The flow that was answered last has the newest update.
OrderInv ==
  /\ Typed
  /\ pending # None => Offered(pending)
  /\ \A f \in Flows : flow[f].update # None => Offered(flow[f].update)
  /\ \A f \in Flows \ outdated : flow[f].update # None =>
       /\ pending # None => NotAfter(pending, flow[f].update)
       /\ \A g \in Flows : flow[g].update # None => NotAfter(flow[g].update, flow[f].update)

-----------------------------------------------------------------------------
(* The newest release *)

\* Every nonempty set of versions has a greatest.
LEMMA Greatest ==
  ASSUME NEW S, S \subseteq Versions, S # {}
  PROVE  \E v \in S : \A w \in S : v >= w
<1> DEFINE Below == {MaxVersion - v : v \in S}
           R == {p \in Nat \X Nat : p[1] < p[2]}
<1>1. MaxVersion \in Nat /\ S \subseteq 1 .. MaxVersion
  BY UpdateAssumption DEF Versions
<1>2. Below \subseteq Nat /\ Below # {}
  <2>1. \A v \in S : v \in 1 .. MaxVersion /\ MaxVersion - v \in Nat
    BY <1>1
  <2> QED BY <2>1
<1>3. PICK x \in Below : \A y \in Below : ~(<<y, x>> \in R)
  <2> HIDE DEF Below, R
  <2>1. IsWellFoundedOn(R, Nat)
    BY NatLessThanWellFounded DEF R, OpToRel
  <2> QED BY <1>2, <2>1, WFMin
<1>4. \A y \in Below : ~(y < x)
  <2> SUFFICES ASSUME NEW y \in Below, y < x PROVE FALSE
      OBVIOUS
  <2>1. <<y, x>> \in Nat \X Nat /\ <<y, x>>[1] < <<y, x>>[2]
    BY <1>2
  <2>2. <<y, x>> \in R
    BY <2>1
  <2> QED BY <1>3, <2>2
<1>5. PICK v \in S : x = MaxVersion - v
  BY <1>3
<1>6. \A w \in S : MaxVersion - w \in Below /\ w \in Int
  BY <1>1
<1>7. \A w \in S : ~(MaxVersion - w < MaxVersion - v)
  BY <1>4, <1>5, <1>6
<1>8. \A w \in S : v >= w
  <2> HIDE DEF Below
  <2> QED BY <1>1, <1>6, <1>7
<1> QED BY <1>8

LEMMA LatestIsNewest ==
  ASSUME Stored # {}
  PROVE  Latest \in Stored /\ \A w \in Stored : Latest >= w
<1>1. \E v \in Stored : \A w \in Stored : v >= w
  BY Greatest DEF Stored
<1> QED BY <1>1 DEF Latest

\* What is offered is the newest release and a proper update.
LEMMA OfferTyped ==
  ASSUME TypeOK, Available
  PROVE  /\ Latest \in Versions /\ releases[Latest] # None
         /\ \A w \in Versions : releases[w] # None => w <= Latest
         /\ Offer \in Updates /\ Offer.version = Latest /\ Offer.sum = releases[Latest].sum
<1>1. Stored # {}
  BY DEF Available, Latest
<1>2. Latest \in Versions /\ releases[Latest] # None
      /\ \A w \in Versions : releases[w] # None => w <= Latest
  BY <1>1, LatestIsNewest, UpdateAssumption DEF Stored, Versions
<1>3. releases[Latest] \in Releases
  BY <1>2, UpdateAssumption DEF TypeOK
<1> QED BY <1>2, <1>3 DEF Offer, Updates, Releases

-----------------------------------------------------------------------------
(* Types *)

LEMMA Uploaded ==
  \A u \in Uploads : u \in Releases /\ u # None /\ u.version \in Versions /\ u.sum \in Contents
BY UpdateAssumption DEF Releases

\* An administrator's new state types admin and leaves the others alone.
LEMMA BecomingAdmin ==
  ASSUME Typed, NEW a \in Admins, NEW s \in AdminStates, Instructed(s), BecomeAdmin(a, s)
  PROVE  /\ admin' \in [Admins -> AdminStates]
         /\ \A b \in Admins : Instructed(admin'[b])
         /\ \A b \in Admins \ {a} : admin'[b] = admin[b]
         /\ admin'[a] = s
<1>1. /\ admin' \in [Admins -> AdminStates] /\ admin'[a] = s
      /\ \A b \in Admins \ {a} : admin'[b] = admin[b]
  BY DEF BecomeAdmin, Typed, TypeOK
<1>2. \A b \in Admins : Instructed(admin'[b])
  BY <1>1 DEF Typed
<1> QED BY <1>1, <1>2

\* What an administrator's request may become.
LEMMA Instructing ==
  ASSUME Typed, NEW a \in Admins, NEW step, NEW v, NEW u,
         BecomeAdmin(a, [step |-> step, version |-> v, upload |-> u]),
         \/ step = "idle" /\ v = NoVersion /\ u = None
         \/ step \in {"putBundle", "insertRelease"} /\ u \in Uploads /\ v = u.version
         \/ step \in {"dropBundle", "dropRelease"} /\ u = None /\ v \in Versions
  PROVE  /\ admin' \in [Admins -> AdminStates]
         /\ \A b \in Admins : Instructed(admin'[b])
         /\ \A b \in Admins \ {a} : admin'[b] = admin[b]
         /\ admin'[a] = [step |-> step, version |-> v, upload |-> u]
<1> DEFINE s == [step |-> step, version |-> v, upload |-> u]
<1>1. s \in AdminStates
  BY Uploaded DEF AdminStates
<1>2. Instructed(s)
  BY DEF Instructed, Resting
<1>3. BecomeAdmin(a, s)
  OBVIOUS
<1> HIDE DEF s
<1>4. /\ admin' \in [Admins -> AdminStates]
      /\ \A b \in Admins : Instructed(admin'[b])
      /\ \A b \in Admins \ {a} : admin'[b] = admin[b]
      /\ admin'[a] = s
  BY <1>1, <1>2, <1>3, BecomingAdmin
<1> QED BY <1>4 DEF s

\* A flow's new state types flow and leaves the others alone.
LEMMA Becoming ==
  ASSUME Typed, NEW f \in Flows, NEW s \in FlowStates, Informed(s), Become(f, s)
  PROVE  /\ flow' \in [Flows -> FlowStates]
         /\ \A g \in Flows : Informed(flow'[g])
         /\ \A g \in Flows \ {f} : flow'[g] = flow[g]
         /\ flow'[f] = s
<1>1. /\ flow' \in [Flows -> FlowStates] /\ flow'[f] = s
      /\ \A g \in Flows \ {f} : flow'[g] = flow[g]
  BY DEF Become, Typed, TypeOK
<1>2. \A g \in Flows : Informed(flow'[g])
  BY <1>1 DEF Typed
<1> QED BY <1>1, <1>2

\* What a flow may become.
LEMMA Informing ==
  ASSUME Typed, NEW f \in Flows, NEW step, NEW u, NEW b,
         Become(f, [step |-> step, update |-> u, bytes |-> b]),
         \/ step \in {"idle", "asked"} /\ u = None /\ b = None
         \/ step \in {"offered", "fetching", "located"} /\ u \in Updates /\ b = None
         \/ step \in {"received", "remembered"} /\ u \in Updates /\ b \in Contents
  PROVE  /\ flow' \in [Flows -> FlowStates]
         /\ \A g \in Flows : Informed(flow'[g])
         /\ \A g \in Flows \ {f} : flow'[g] = flow[g]
         /\ flow'[f].step = step /\ flow'[f].update = u /\ flow'[f].bytes = b
<1> DEFINE s == [step |-> step, update |-> u, bytes |-> b]
<1>1. s \in FlowStates
  BY DEF FlowStates
<1>2. Informed(s)
  BY DEF Informed
<1>3. s.step = step /\ s.update = u /\ s.bytes = b
  OBVIOUS
<1>4. Become(f, s)
  OBVIOUS
<1> HIDE DEF s
<1> QED BY <1>1, <1>2, <1>3, <1>4, Becoming

LEMMA Pausing ==
  /\ Idle \in FlowStates /\ Informed(Idle) /\ Idle.update = None /\ Idle.bytes = None
  /\ Resting \in AdminStates /\ Instructed(Resting) /\ Resting.upload = None
BY DEF Idle, Resting, FlowStates, AdminStates, Informed, Instructed

LEMMA TypeInit == Init => Typed
<1> SUFFICES ASSUME Init PROVE Typed
    OBVIOUS
<1>2. /\ admin \in [Admins -> AdminStates] /\ \A a \in Admins : Instructed(admin[a])
      /\ flow \in [Flows -> FlowStates] /\ \A f \in Flows : Informed(flow[f])
  BY Pausing DEF Init
<1> QED BY <1>2 DEF Init, Typed, TypeOK

\* What a flow does by itself: its next state, as far as it knows.
LEMMA FlowStep ==
  ASSUME Typed, NEW f \in Flows, Progress(f) \/ Fail(f)
  PROVE  /\ flow' \in [Flows -> FlowStates]
         /\ \A g \in Flows : Informed(flow'[g])
         /\ \A g \in Flows \ {f} : flow'[g] = flow[g]
         /\ \/ flow'[f].update \in {None, flow[f].update}
            \/ Answer(f) /\ Available /\ flow'[f].update = Offer
         /\ \/ flow'[f].bytes \in {None, flow[f].bytes}
            \/ /\ flow'[f].update = flow[f].update /\ flow[f].update \in Updates
               /\ flow'[f].bytes \in {cache[flow[f].update.version], bundles[flow[f].update.version]}
<1> DEFINE u == flow[f].update
           b == flow[f].bytes
<1>0. Informed(flow[f]) /\ flow[f] = [step |-> flow[f].step, update |-> u, bytes |-> b]
  BY DEF Typed, TypeOK, FlowStates
<1>1. CASE Become(f, Idle)
  BY <1>1, Informing DEF Idle
<1>2. CASE Ask(f)
  <2>1. u = None /\ b = None
    BY <1>0, <1>2 DEF Ask, At, Informed
  <2>2. Become(f, [step |-> "asked", update |-> None, bytes |-> None])
    BY <1>0, <1>2, <2>1 DEF Ask, Goto
  <2> QED BY <2>1, <2>2, Informing
<1>3. CASE Answer(f) /\ Available
  <2>1. Offer \in Updates
    BY <1>3, OfferTyped DEF Typed
  <2>2. Become(f, [step |-> "offered", update |-> Offer, bytes |-> None])
    BY <1>3 DEF Answer
  <2> QED BY <1>3, <2>1, <2>2, Informing
<1>4. CASE ReportStart(f) \/ (Locate(f) /\ releases[Requested(f)] # None)
  <2>1. PICK step \in {"fetching", "located"} :
          Goto(f, step) /\ flow[f].step \in {"offered", "fetching"}
    BY <1>4 DEF ReportStart, Locate, At
  <2>2. u \in Updates /\ b = None
    BY <1>0, <2>1 DEF Informed
  <2>3. Become(f, [step |-> step, update |-> u, bytes |-> None])
    BY <1>0, <2>1, <2>2 DEF Goto
  <2> QED BY <2>2, <2>3, Informing
<1>5. ASSUME NEW bytes \in Contents, Receive(f, bytes),
             flow[f].step \in {"fetching", "located"},
             bytes \in {cache[u.version], bundles[u.version]}
      PROVE  /\ flow' \in [Flows -> FlowStates]
             /\ \A g \in Flows : Informed(flow'[g])
             /\ \A g \in Flows \ {f} : flow'[g] = flow[g]
             /\ flow'[f].update = u /\ u \in Updates /\ flow'[f].bytes = bytes
  <2>1. u \in Updates
    BY <1>0, <1>5 DEF Informed
  <2> DEFINE s == [flow[f] EXCEPT !.step = "received", !.bytes = bytes]
  <2>2. s \in FlowStates /\ s.step = "received" /\ s.update = u /\ s.bytes = bytes
    BY DEF Typed, TypeOK, FlowStates
  <2>3. Informed(s) /\ Become(f, s)
    BY <1>5, <2>1, <2>2 DEF Informed, Receive
  <2> HIDE DEF s
  <2> QED BY <1>5, <2>1, <2>2, <2>3, Becoming
<1>6. CASE FetchCached(f)
  <2>1. flow[f].step = "fetching" /\ u.version \in Versions
    BY <1>0, <1>6 DEF FetchCached, At, Informed, Updates
  <2>2. cache[u.version] \in Contents /\ Receive(f, cache[u.version])
    BY <1>6, <2>1 DEF FetchCached, Requested, Typed, TypeOK
  <2> QED BY <1>5, <2>1, <2>2
<1>7. CASE Deliver(f) /\ bundles[Path(Requested(f))] # None
  <2>1. flow[f].step = "located" /\ u.version \in Versions
    BY <1>0, <1>7 DEF Deliver, At, Informed, Updates
  <2>2. bundles[u.version] \in Contents /\ Receive(f, bundles[u.version])
    BY <1>7, <2>1 DEF Deliver, Requested, Path, Typed, TypeOK
  <2> QED BY <1>5, <2>1, <2>2
<1>8. CASE Remember(f)
  <2>1. u \in Updates /\ b \in Contents
    BY <1>0, <1>8 DEF Remember, At, Informed
  <2>2. Become(f, [step |-> "remembered", update |-> u, bytes |-> b])
    BY <1>0, <1>8 DEF Remember, Goto
  <2> QED BY <2>1, <2>2, Informing
<1> QED BY <1>1, <1>2, <1>3, <1>4, <1>6, <1>7, <1>8
        DEF Progress, Answer, Locate, Deliver, Return, Fail

\* What an administrator's request does by itself.
LEMMA AdminTypes ==
  ASSUME Typed, NEW a \in Admins, AdminStep(a)
  PROVE  /\ admin' \in [Admins -> AdminStates]
         /\ \A b \in Admins : Instructed(admin'[b])
         /\ \A b \in Admins \ {a} : admin'[b] = admin[b]
         /\ \/ /\ admin'[a].upload \in {None, admin[a].upload}
               /\ admin'[a].upload # None => admin'[a].version = admin[a].version
            \/ StartUpload(a)
<1>0. Instructed(admin[a])
      /\ admin[a] = [step |-> admin[a].step, version |-> admin[a].version, upload |-> admin[a].upload]
  BY DEF Typed, TypeOK, AdminStates
<1>1. CASE BecomeAdmin(a, Resting)
  BY <1>1, Instructing DEF Resting
<1>2. CASE StartUpload(a)
  <2>1. PICK u \in Uploads :
          BecomeAdmin(a, [step |-> "putBundle", version |-> u.version, upload |-> u])
    BY <1>2 DEF StartUpload
  <2> QED BY <1>2, <2>1, Instructing
<1>3. CASE PutBundle(a)
  <2>1. admin[a].upload \in Uploads /\ admin[a].version = admin[a].upload.version
    BY <1>0, <1>3 DEF PutBundle, Instructed, Resting
  <2>2. BecomeAdmin(a, [step |-> "insertRelease", version |-> admin[a].version,
                        upload |-> admin[a].upload])
    BY <1>0, <1>3 DEF PutBundle
  <2> QED BY <2>1, <2>2, Instructing
<1>4. CASE StartDelete(a)
  <2>1. PICK v \in Stored : BecomeAdmin(a, [Resting EXCEPT !.step = "dropBundle", !.version = v])
    BY <1>4 DEF StartDelete
  <2> DEFINE s == [Resting EXCEPT !.step = "dropBundle", !.version = v]
  <2>2. s \in AdminStates /\ s.upload = None /\ Instructed(s)
    BY DEF Resting, AdminStates, Instructed, Stored
  <2> HIDE DEF s
  <2> QED BY <2>1, <2>2, BecomingAdmin DEF s
<1>5. CASE DropBundle(a)
  <2>1. admin[a].upload = None /\ admin[a].version \in Versions
    BY <1>0, <1>5 DEF DropBundle, Instructed, Resting
  <2>2. BecomeAdmin(a, [step |-> "dropRelease", version |-> admin[a].version, upload |-> None])
    BY <1>0, <1>5, <2>1 DEF DropBundle
  <2> QED BY <2>1, <2>2, Instructing
<1> QED BY <1>1, <1>2, <1>3, <1>4, <1>5 DEF AdminStep, InsertRelease, DropRelease, Interrupt

LEMMA TypeStep == Typed /\ [Next]_vars => Typed'
<1> SUFFICES ASSUME Typed, [Next]_vars PROVE Typed'
    OBVIOUS
<1>1. ASSUME NEW a \in Admins, AdminStep(a) PROVE Typed'
  <2>1. admin' \in [Admins -> AdminStates] /\ \A b \in Admins : Instructed(admin'[b])
    BY <1>1, AdminTypes
  <2>2. UNCHANGED <<device, flow, history>>
    BY <1>1 DEF AdminStep, StartUpload, PutBundle, InsertRelease, StartDelete, DropBundle,
                DropRelease, Interrupt
  <2>3. /\ releases' \in [Versions -> Uploads \cup {None}]
        /\ bundles' \in [Versions -> Contents \cup {None}]
        /\ reused' \subseteq used' /\ used' \subseteq Versions /\ withdrawn' \subseteq Versions
    <3>1. Instructed(admin[a]) /\ None \notin Uploads
      BY UpdateAssumption DEF Typed
    <3>2. CASE StartUpload(a)
      BY <3>2, Uploaded DEF StartUpload, Typed, TypeOK
    <3>3. CASE PutBundle(a) \/ InsertRelease(a)
      <4>1. admin[a].upload \in Uploads /\ admin[a].upload.sum \in Contents
        BY <3>1, <3>3, Uploaded DEF PutBundle, InsertRelease, Instructed, Resting
      <4> QED BY <3>3, <4>1 DEF PutBundle, InsertRelease, Typed, TypeOK
    <3>4. CASE StartDelete(a) \/ DropBundle(a) \/ DropRelease(a) \/ Interrupt(a)
      <4>1. DropRelease(a) => admin[a].version \in Versions
        BY <3>1 DEF DropRelease, Instructed, Resting
      <4> QED BY <3>4, <4>1 DEF StartDelete, DropBundle, DropRelease, Interrupt, Typed, TypeOK
    <3> QED BY <1>1, <3>2, <3>3, <3>4 DEF AdminStep
  <2> QED BY <2>1, <2>2, <2>3 DEF device, history, Typed, TypeOK
<1>2. ASSUME NEW f \in Flows, Progress(f) \/ Fail(f) PROVE Typed'
  <2>1. flow' \in [Flows -> FlowStates] /\ \A g \in Flows : Informed(flow'[g])
    BY <1>2, FlowStep
  <2>2. UNCHANGED store /\ installed' = installed
    BY <1>2 DEF Progress, Fail, Ask, Answer, ReportStart, FetchCached, Locate, Deliver,
                Remember, Return, device
  <2>3. Informed(flow[f])
    BY DEF Typed
  <2>4. cache' \in [Versions -> Contents \cup {None}]
    <3>1. CASE Deliver(f)
      BY <3>1 DEF Deliver, Typed, TypeOK, Path
    <3> QED BY <1>2, <3>1 DEF Progress, Fail, Ask, Answer, ReportStart, FetchCached, Locate,
                Remember, Return, device, Typed, TypeOK
  <2>5. pending' \in Updates \cup {None} /\ handed' \in Downloads \cup {None}
    <3>1. CASE Remember(f) \/ Return(f)
      <4>1. flow[f].update \in Updates /\ flow[f].bytes \in Contents
        BY <2>3, <3>1 DEF Remember, Return, At, Informed
      <4> QED BY <3>1, <4>1 DEF Remember, Return, Remembered, Downloads, Typed, TypeOK
    <3> QED BY <1>2, <3>1 DEF Progress, Fail, Ask, Answer, ReportStart, FetchCached, Locate,
                Deliver, device, Typed, TypeOK
  <2>6. outdated' \subseteq Flows /\ crossed' \subseteq Flows
    BY <1>2 DEF Progress, Fail, Ask, Answer, ReportStart, FetchCached, Locate, Deliver,
                Remember, Return, history, Typed, TypeOK
  <2>7. apart' \in BOOLEAN
    <3>1. apart \in BOOLEAN
      BY DEF Typed, TypeOK
    <3>2. CASE UNCHANGED apart
      BY <3>1, <3>2
    <3>3. CASE Return(f) \/ Fail(f)
      <4>1. (f \in crossed) \in BOOLEAN /\ (apart \/ At(f, "remembered")) \in BOOLEAN
        OBVIOUS
      <4>2. apart' = (f \in crossed) \/ apart' = (apart \/ At(f, "remembered"))
        BY <3>3 DEF Return, Fail
      <4> QED BY <4>1, <4>2, Zenon
    <3> QED BY <1>2, <3>2, <3>3, Zenon DEF Progress, Ask, Answer, ReportStart, FetchCached,
                Locate, Deliver, Remember, history
  <2> QED BY <2>1, <2>2, <2>4, <2>5, <2>6, <2>7 DEF store, Typed, TypeOK
<1>3. CASE Restart
  <2>1. flow' \in [Flows -> FlowStates] /\ \A g \in Flows : Informed(flow'[g])
    BY <1>3, Pausing DEF Restart
  <2>2. handed # None => handed.update.version \in Versions
    BY DEF Typed, TypeOK, Downloads, Updates
  <2> QED BY <1>3, <2>1, <2>2 DEF Restart, store, Typed, TypeOK
<1>4. CASE UNCHANGED vars
  BY <1>4 DEF vars, store, device, history, Typed, TypeOK
<1> QED BY <1>1, <1>2, <1>3, <1>4 DEF Next

\* Every variable has its type, in every reachable state.
THEOREM TypeCorrect == Spec => []TypeOK
<1>1. Spec => []Typed
  BY TypeInit, TypeStep, PTL DEF Spec
<1>2. Typed => TypeOK
  BY DEF Typed
<1> QED BY <1>1, <1>2, PTL

-----------------------------------------------------------------------------
(* One bundle for a version that is uploaded once *)

\* No step but the start of an upload makes up a checksum.
LEMMA SeenBefore ==
  ASSUME Typed, [Next]_vars, \A a \in Admins : ~StartUpload(a),
         NEW v \in Versions, NEW s \in Contents, Seen(v, s)'
  PROVE  Seen(v, s)
<1>0. None \notin Contents /\ None \notin Uploads /\ None \notin Updates
  BY UpdateAssumption
<1>1. ASSUME NEW a \in Admins, AdminStep(a) PROVE Seen(v, s)
  <2>1. /\ \A b \in Admins \ {a} : admin'[b] = admin[b]
        /\ admin'[a].upload \in {None, admin[a].upload}
        /\ admin'[a].upload # None => admin'[a].version = admin[a].version
    BY <1>1, AdminTypes DEF AdminStep
  <2>2. UNCHANGED <<device, flow>>
    BY <1>1 DEF AdminStep, PutBundle, InsertRelease, StartDelete, DropBundle, DropRelease, Interrupt
  <2>3. Instructed(admin[a])
    BY DEF Typed
  <2>4. \/ releases'[v] \in {None, releases[v]}
        \/ /\ admin[a].upload # None /\ admin[a].version = v
           /\ releases'[v] = admin[a].upload
    <3>1. CASE InsertRelease(a)
      BY <1>0, <2>3, <3>1 DEF InsertRelease, Instructed, Resting, Typed, TypeOK
    <3>2. CASE DropRelease(a)
      BY <3>2 DEF DropRelease, Typed, TypeOK
    <3> QED BY <1>1, <3>1, <3>2 DEF AdminStep, PutBundle, StartDelete, DropBundle, Interrupt
  <2>5. \/ bundles'[v] \in {None, bundles[v]}
        \/ /\ admin[a].upload # None /\ admin[a].version = v
           /\ bundles'[v] = admin[a].upload.sum
    <3>1. CASE PutBundle(a)
      BY <1>0, <2>3, <3>1 DEF PutBundle, Path, Instructed, Resting, Typed, TypeOK
    <3>2. CASE DropBundle(a)
      BY <3>2 DEF DropBundle, Path, Typed, TypeOK
    <3> QED BY <1>1, <3>1, <3>2 DEF AdminStep, InsertRelease, StartDelete, DropRelease, Interrupt
  <2> QED BY <1>0, <2>1, <2>2, <2>4, <2>5 DEF Seen, device
<1>2. ASSUME NEW f \in Flows, Progress(f) \/ Fail(f) PROVE Seen(v, s)
  <2>1. /\ \A g \in Flows \ {f} : flow'[g] = flow[g]
        /\ \/ flow'[f].update \in {None, flow[f].update}
           \/ Answer(f) /\ Available /\ flow'[f].update = Offer
        /\ \/ flow'[f].bytes \in {None, flow[f].bytes}
           \/ /\ flow'[f].update = flow[f].update /\ flow[f].update \in Updates
              /\ flow'[f].bytes \in {cache[flow[f].update.version], bundles[flow[f].update.version]}
    BY <1>2, FlowStep
  <2>2. UNCHANGED <<releases, bundles, admin>>
    BY <1>2 DEF Progress, Fail, Ask, Answer, ReportStart, FetchCached, Locate, Deliver,
                Remember, Return, store
  <2>3. Informed(flow[f]) /\ Informed(flow'[f])
    BY <1>2, FlowStep DEF Typed
  <2>4. \/ cache'[v] = cache[v]
        \/ cache'[v] = bundles[v]
    <3>1. CASE Deliver(f)
      BY <3>1 DEF Deliver, Path, Typed, TypeOK
    <3> QED BY <1>2, <3>1 DEF Progress, Fail, Ask, Answer, ReportStart, FetchCached, Locate,
                Remember, Return, device
  <2>5. \/ handed' = handed
        \/ /\ flow[f].update # None
           /\ handed'.update = flow[f].update /\ handed'.bytes = flow[f].bytes
    <3>1. CASE Return(f)
      BY <1>0, <2>3, <3>1 DEF Return, At, Informed
    <3> QED BY <1>2, <3>1 DEF Progress, Fail, Ask, Answer, ReportStart, FetchCached, Locate,
                Deliver, Remember, device
  <2>6. ASSUME flow'[f].update # None, flow'[f].update.version = v,
               s \in {flow'[f].update.sum, flow'[f].bytes}
        PROVE  Seen(v, s)
    <3>1. CASE flow'[f].update = Offer /\ Answer(f) /\ Available
      <4>1. flow'[f].bytes = None
        BY <1>0, <2>1, <2>3, <3>1 DEF Answer, At, Informed, Typed, TypeOK
      <4>2. releases[v] # None /\ s = releases[v].sum
        BY <1>0, <2>6, <3>1, <4>1, OfferTyped DEF Typed
      <4> QED BY <4>2 DEF Seen
    <3>2. CASE flow'[f].update = flow[f].update
      <4>1. CASE s \in {flow[f].update.sum, flow[f].bytes}
        BY <2>6, <3>2, <4>1 DEF Seen
      <4>2. CASE s \in {cache[v], bundles[v]}
        BY <4>2 DEF Seen
      <4> QED BY <1>0, <2>1, <2>6, <3>2, <4>1, <4>2
    <3> QED BY <2>1, <2>6, <3>1, <3>2
  <2>7. ASSUME handed' # None, handed'.update.version = v,
               s \in {handed'.update.sum, handed'.bytes}
        PROVE  Seen(v, s)
    BY <2>5, <2>7 DEF Seen
  <2> QED BY <2>1, <2>2, <2>4, <2>6, <2>7 DEF Seen
<1>3. CASE Restart
  <2>1. UNCHANGED <<store, cache>> /\ handed' = None /\ \A f \in Flows : flow'[f].update = None
    BY <1>3, Pausing DEF Restart
  <2> QED BY <2>1 DEF store, Seen
<1>4. CASE UNCHANGED vars
  BY <1>4 DEF vars, store, device, Seen
<1> QED BY <1>1, <1>2, <1>3, <1>4 DEF Next

\* The start of an upload makes up its own.
LEMMA SeenUpload ==
  ASSUME Typed, NEW a \in Admins, StartUpload(a)
  PROVE  \E u \in Uploads :
           /\ u.version \in Versions
           /\ used' = used \cup {u.version} /\ reused' = reused \cup (used \cap {u.version})
           /\ \A v \in Versions, s \in Contents :
                Seen(v, s)' => Seen(v, s) \/ (v = u.version /\ s = u.sum)
<1>1. PICK u \in Uploads :
        /\ BecomeAdmin(a, [step |-> "putBundle", version |-> u.version, upload |-> u])
        /\ used' = used \cup {u.version}
        /\ reused' = reused \cup (used \cap {u.version})
  BY DEF StartUpload
<1>2. /\ \A b \in Admins \ {a} : admin'[b] = admin[b]
      /\ admin'[a] = [step |-> "putBundle", version |-> u.version, upload |-> u]
  BY <1>1, Instructing
<1>3. UNCHANGED <<releases, bundles, device, flow>>
  BY DEF StartUpload
<1>4. ASSUME NEW v \in Versions, NEW s \in Contents, Seen(v, s)'
      PROVE  Seen(v, s) \/ (v = u.version /\ s = u.sum)
  BY <1>2, <1>3, <1>4 DEF Seen, device
<1> QED BY <1>1, <1>4, Uploaded

\* Versions stay used and reused.
LEMMA UsedKept ==
  ASSUME [Next]_vars
  PROVE  used \subseteq used' /\ reused \subseteq reused'
BY DEF Next, AdminStep, Progress, StartUpload, PutBundle, InsertRelease, StartDelete, DropBundle,
       DropRelease, Interrupt, Ask, Answer, ReportStart, FetchCached, Locate, Deliver, Remember,
       Return, Fail, Restart, vars, store

LEMMA BundleInit == Init => BundleInv
<1>1. ASSUME Init, NEW v \in Versions, NEW s \in Contents PROVE ~Seen(v, s)
  BY <1>1, UpdateAssumption DEF Init, Seen, Resting, Idle
<1> QED BY <1>1, TypeInit DEF BundleInv, OneBundle

LEMMA BundleStep == BundleInv /\ [Next]_vars => BundleInv'
<1> SUFFICES ASSUME BundleInv, [Next]_vars, NEW v \in Versions PROVE OneBundle(v)'
    BY TypeStep DEF BundleInv
<1>0. Typed /\ OneBundle(v)
  BY DEF BundleInv
<1>1. used \subseteq used' /\ reused \subseteq reused'
  BY UsedKept
<1>2. CASE \A a \in Admins : ~StartUpload(a)
  <2>1. \A s \in Contents : Seen(v, s)' => Seen(v, s)
    BY <1>0, <1>2, SeenBefore
  <2> QED BY <1>0, <1>1, <2>1 DEF OneBundle
<1>3. ASSUME NEW a \in Admins, StartUpload(a) PROVE OneBundle(v)'
  <2>1. PICK u \in Uploads :
          /\ used' = used \cup {u.version} /\ reused' = reused \cup (used \cap {u.version})
          /\ \A s \in Contents : Seen(v, s)' => Seen(v, s) \/ (v = u.version /\ s = u.sum)
    BY <1>0, <1>3, SeenUpload
  <2>2. \A s \in Contents : Seen(v, s)' => v \in used'
    BY <1>0, <1>1, <2>1 DEF OneBundle
  <2>3. ASSUME v \notin reused', NEW s \in Contents, NEW t \in Contents, Seen(v, s)', Seen(v, t)'
        PROVE  s = t
    \* Either the upload is of another version, or it is the first of this one.
    BY <1>0, <1>1, <2>1, <2>3 DEF OneBundle
  <2> QED BY <2>2, <2>3 DEF OneBundle
<1> QED BY <1>2, <1>3

\* The bytes the application was handed are those of the checksum it was
\* offered, unless the version was uploaded again.
THEOREM BytesMatch == Spec => []BytesMatchOffer
<1>1. BundleInv => BytesMatchOffer
  <2> SUFFICES ASSUME BundleInv, handed # None, handed.update.version \notin reused
               PROVE  handed.bytes = handed.update.sum
      BY DEF BytesMatchOffer
  <2> DEFINE v == handed.update.version
  <2>1. v \in Versions /\ handed.bytes \in Contents /\ handed.update.sum \in Contents
    BY DEF BundleInv, Typed, TypeOK, Downloads, Updates
  <2>2. Seen(v, handed.bytes) /\ Seen(v, handed.update.sum)
    BY DEF Seen
  <2> HIDE DEF v
  <2> QED BY <2>1, <2>2 DEF BundleInv, OneBundle, v
<1>2. Spec => []BundleInv
  BY BundleInit, BundleStep, PTL DEF Spec
<1> QED BY <1>1, <1>2, PTL

-----------------------------------------------------------------------------
(* The pending update is the one that was handed *)

LEMMA HandedInit == Init => HandedInv
<1>1. Init => \A f \in Flows : ~At(f, "remembered")
  BY DEF Init, Idle, At
<1> QED BY <1>1, TypeInit DEF Init, HandedInv, PendingWasHanded, Uncrossed

\* A step that leaves what is remembered, pending and handed alone.
LEMMA HandedQuiet ==
  ASSUME HandedInv, Typed', UNCHANGED <<pending, handed, apart>>,
         \A f \in Flows : /\ At(f, "remembered")' <=> At(f, "remembered")
                          /\ At(f, "remembered") =>
                               /\ flow'[f].update = flow[f].update
                               /\ f \in crossed' <=> f \in crossed
  PROVE  HandedInv'
BY DEF HandedInv, PendingWasHanded, Uncrossed

LEMMA HandedStep == HandedInv /\ [Next]_vars => HandedInv'
<1> SUFFICES ASSUME HandedInv, [Next]_vars PROVE HandedInv'
    OBVIOUS
<1>0. Typed /\ Typed' /\ flow \in [Flows -> FlowStates] /\ \A f \in Flows : Informed(flow[f])
  BY TypeStep DEF HandedInv, Typed, TypeOK
<1>1. ASSUME NEW a \in Admins, AdminStep(a) PROVE HandedInv'
  <2>1. UNCHANGED <<device, flow, history>>
    BY <1>1 DEF AdminStep, StartUpload, PutBundle, InsertRelease, StartDelete, DropBundle,
                DropRelease, Interrupt
  <2> QED BY <1>0, <2>1, HandedQuiet DEF device, history, At
<1>2. ASSUME NEW f \in Flows, Progress(f), ~Remember(f), ~Return(f) PROVE HandedInv'
  <2>1. UNCHANGED <<pending, handed, apart, crossed>> /\ ~At(f, "remembered")
    BY <1>2 DEF Progress, Ask, Answer, ReportStart, FetchCached, Locate, Deliver, device, history, At
  <2>2. flow'[f].step # "remembered" /\ \A g \in Flows \ {f} : flow'[g] = flow[g]
    <3>1. CASE \E state \in {Idle, [step |-> "offered", update |-> Offer, bytes |-> None]} :
                 Become(f, state)
      BY <1>0, <3>1 DEF Become, Idle
    <3>2. CASE \E step \in {"asked", "fetching", "located"} : Goto(f, step)
      BY <1>0, <3>2 DEF Goto, Become, FlowStates
    <3>3. CASE \E bytes : Receive(f, bytes)
      BY <1>0, <3>3 DEF Receive, Become, FlowStates
    <3> QED BY <1>2, <3>1, <3>2, <3>3
            DEF Progress, Ask, Answer, ReportStart, FetchCached, Locate, Deliver
  <2> QED BY <1>0, <2>1, <2>2, HandedQuiet DEF At
<1>3. ASSUME NEW f \in Flows, Remember(f) PROVE HandedInv'
  <2>1. /\ flow' = [flow EXCEPT ![f] = [flow[f] EXCEPT !.step = "remembered"]]
        /\ pending' = flow[f].update
        /\ ~At(f, "remembered")
    BY <1>3 DEF Remember, Remembered, Goto, Become, At
  <2>2. /\ flow'[f].step = "remembered" /\ flow'[f].update = flow[f].update
        /\ \A g \in Flows \ {f} : flow'[g] = flow[g]
    BY <1>0, <2>1 DEF FlowStates
  <2>3. \A g \in Flows \ {f} : At(g, "remembered") => f \in crossed' /\ g \in crossed'
    BY <1>3 DEF Remember
  <2>4. \A g \in Flows : Uncrossed(g)'
    BY <2>1, <2>2, <2>3 DEF Uncrossed, At
  <2>5. PendingWasHanded'
    BY <2>2 DEF PendingWasHanded, At
  <2> QED BY <1>0, <2>4, <2>5 DEF HandedInv
<1>4. ASSUME NEW f \in Flows, Return(f) \/ Fail(f) PROVE HandedInv'
  <2>1. /\ flow'[f].step # "remembered" /\ \A g \in Flows \ {f} : flow'[g] = flow[g]
        /\ crossed' = crossed \ {f} /\ pending' = pending
    BY <1>0, <1>4 DEF Return, Fail, Become, Idle, device
  <2>2. \A g \in Flows : Uncrossed(g)'
    BY <2>1 DEF HandedInv, Uncrossed, At
  <2>3. CASE Return(f)
    <3>1. /\ At(f, "remembered") /\ handed'.update = flow[f].update
          /\ apart' = (f \in crossed)
      BY <2>3 DEF Return
    <3>2. flow[f].update \in Updates /\ flow[f].bytes \in Contents /\ handed' # None
      BY <1>0, <2>3, UpdateAssumption DEF Return, At, Informed, Downloads
    <3>3. PendingWasHanded'
      BY <2>1, <3>1, <3>2 DEF PendingWasHanded, HandedInv, Uncrossed
    <3> QED BY <1>0, <2>2, <3>3 DEF HandedInv
  <2>4. CASE Fail(f)
    <3>1. handed' = handed /\ apart' = (apart \/ At(f, "remembered"))
      BY <2>4 DEF Fail, device
    <3>2. PendingWasHanded'
      BY <2>1, <3>1 DEF PendingWasHanded, HandedInv, At
    <3> QED BY <1>0, <2>2, <3>2 DEF HandedInv
  <2> QED BY <1>4, <2>3, <2>4
<1>5. CASE Restart
  <2>1. \A f \in Flows : flow'[f].step # "remembered"
    BY <1>5 DEF Restart, Idle
  <2>2. \/ pending' = None
        \/ pending' = pending /\ handed = None /\ apart' = (apart \/ \E f \in Flows : At(f, "remembered"))
    BY <1>5 DEF Restart
  <2>3. PendingWasHanded'
    BY <2>1, <2>2 DEF HandedInv, PendingWasHanded
  <2> QED BY <1>0, <2>1, <2>3 DEF HandedInv, Uncrossed, At
<1>6. CASE UNCHANGED vars
  BY <1>0, <1>6, HandedQuiet DEF vars, device, history, At
<1> QED BY <1>1, <1>2, <1>3, <1>4, <1>5, <1>6 DEF Next, Progress

\* The pending update is the one whose bundle the application was handed,
\* unless two downloads crossed or one ended half-way.
THEOREM PendingHanded == Spec => []PendingWasHanded
<1>1. Spec => []HandedInv
  BY HandedInit, HandedStep, PTL DEF Spec
<1>2. HandedInv => PendingWasHanded
  BY DEF HandedInv
<1> QED BY <1>1, <1>2, PTL

-----------------------------------------------------------------------------
(* The pending update regresses only when a release is withdrawn or a flow *)
(* was overtaken                                                           *)

\* What was a release stays one, or is withdrawn.
LEMMA OfferedKept ==
  ASSUME Typed, [Next]_vars, NEW update \in Updates, Offered(update)
  PROVE  Offered(update)'
<1> DEFINE v == update.version
<1>0. v \in Versions
  BY DEF Updates
<1>1. \/ UNCHANGED <<releases, withdrawn>>
      \/ \E a \in Admins : InsertRelease(a) \/ DropRelease(a)
  BY DEF Next, AdminStep, StartUpload, PutBundle, StartDelete, DropBundle, Interrupt, Progress,
         Ask, Answer, ReportStart, FetchCached, Locate, Deliver, Remember, Return, Fail, Restart,
         vars, store
<1>2. ASSUME NEW a \in Admins, InsertRelease(a) PROVE Offered(update)'
  <2>1. admin[a].upload # None
    BY <1>2, Uploaded DEF InsertRelease, Typed, Instructed, Resting
  <2> QED BY <1>0, <1>2, <2>1 DEF InsertRelease, Offered, Typed, TypeOK
<1>3. ASSUME NEW a \in Admins, DropRelease(a) PROVE Offered(update)'
  BY <1>0, <1>3 DEF DropRelease, Offered, Typed, TypeOK
<1> QED BY <1>1, <1>2, <1>3 DEF Offered

LEMMA WithdrawnKept == [Next]_vars => withdrawn \subseteq withdrawn'
BY DEF Next, AdminStep, StartUpload, PutBundle, InsertRelease, StartDelete, DropBundle,
       DropRelease, Interrupt, Progress, Ask, Answer, ReportStart, FetchCached, Locate, Deliver,
       Remember, Return, Fail, Restart, vars, store

LEMMA OrderInit == Init => OrderInv
BY TypeInit, Pausing DEF Init, OrderInv

LEMMA OrderStep == OrderInv /\ [Next]_vars => OrderInv'
<1> SUFFICES ASSUME OrderInv, [Next]_vars PROVE OrderInv'
    OBVIOUS
<1>0. /\ Typed /\ Typed' /\ None \notin Updates /\ withdrawn \subseteq withdrawn'
      /\ pending \in Updates \cup {None} /\ \A f \in Flows : flow[f].update \in Updates \cup {None}
  BY TypeStep, WithdrawnKept, UpdateAssumption DEF OrderInv, Typed, TypeOK, FlowStates
<1>k. \A u \in Updates : Offered(u) => Offered(u)'
  BY <1>0, OfferedKept
\* The flows know what they knew and pending is one of their updates.
<1>1. ASSUME pending' \in {None, pending} \cup {flow[g].update : g \in Flows},
             \A g \in Flows : flow'[g].update \in {None, flow[g].update},
             outdated' = outdated \/ \A g \in Flows : flow'[g].update = None
      PROVE  OrderInv'
  <2>1. pending' # None => Offered(pending)'
    BY <1>0, <1>k, <1>1 DEF OrderInv, Offered
  <2>2. \A f \in Flows : flow'[f].update # None => Offered(flow[f].update)'
    BY <1>0, <1>k, <1>1 DEF OrderInv, Offered
  <2>3. ASSUME NEW f \in Flows \ outdated', flow'[f].update # None
        PROVE  /\ pending' # None => NotAfter(pending, flow[f].update)'
               /\ \A g \in Flows : flow'[g].update # None =>
                    NotAfter(flow[g].update, flow[f].update)'
    <3>1. f \in Flows \ outdated /\ flow'[f].update = flow[f].update /\ flow[f].update # None
      BY <1>1, <2>3
    <3>2. \A g \in Flows : flow[g].update # None => NotAfter(flow[g].update, flow[f].update)
      BY <3>1 DEF OrderInv
    <3>3. pending # None => NotAfter(pending, flow[f].update)
      BY <3>1 DEF OrderInv
    <3> QED BY <1>0, <1>1, <3>1, <3>2, <3>3 DEF NotAfter
  <2> QED BY <1>0, <2>1, <2>2, <2>3 DEF OrderInv
<1>2. ASSUME NEW a \in Admins, AdminStep(a) PROVE OrderInv'
  <2>1. UNCHANGED <<device, flow, history>>
    BY <1>2 DEF AdminStep, StartUpload, PutBundle, InsertRelease, StartDelete, DropBundle,
                DropRelease, Interrupt
  <2> QED BY <1>1, <2>1 DEF device, history
<1>3. ASSUME NEW f \in Flows, Answer(f) PROVE OrderInv'
  <2>1. /\ flow[f].update = None /\ pending' = pending /\ UNCHANGED <<releases, withdrawn>>
        /\ outdated' = (outdated \cup {g \in Flows : flow[g].update # None}) \ {f}
    BY <1>0, <1>3 DEF Answer, At, Typed, Informed, store, device
  <2>2. /\ \A g \in Flows \ {f} : flow'[g] = flow[g]
        /\ \/ flow'[f].update = None
           \/ Available /\ flow'[f].update = Offer
    BY <1>0, <1>3, <2>1, FlowStep DEF Progress
  <2>3. \A g \in Flows \ outdated' : flow'[g].update # None => g = f
    BY <2>1, <2>2
  <2>4. CASE flow'[f].update = None
    BY <1>0, <2>1, <2>2, <2>3, <2>4 DEF OrderInv, Offered
  <2>5. CASE Available /\ flow'[f].update = Offer
    <3>1. /\ Latest \in Versions /\ releases[Latest] # None /\ Offer.version = Latest
          /\ \A u \in Updates : Offered(u) => NotAfter(u, Offer)
      BY <1>0, <2>5, OfferTyped DEF Typed, Offered, NotAfter, Updates
    <3> DEFINE o == Offer
    <3>2. /\ flow'[f].update = o /\ releases[o.version] # None /\ o.version \in Int
          /\ \A u \in Updates : Offered(u) => NotAfter(u, o)
      BY <2>5, <3>1, UpdateAssumption DEF Versions
    <3> HIDE DEF o
    <3>3. \A u \in Updates : Offered(u) => u.version <= o.version \/ u.version \in withdrawn'
      BY <2>1, <3>2 DEF NotAfter
    <3>4. /\ pending' # None => Offered(pending)'
          /\ \A g \in Flows : flow'[g].update # None => Offered(flow[g].update)'
      BY <2>1, <2>2, <3>2 DEF OrderInv, Offered
    <3>5. pending' # None => NotAfter(pending, flow[f].update)'
      BY <1>0, <2>1, <3>2, <3>3 DEF OrderInv, NotAfter
    <3>6. \A g \in Flows : flow'[g].update # None => NotAfter(flow[g].update, flow[f].update)'
      BY <1>0, <2>1, <2>2, <3>2, <3>3 DEF OrderInv, NotAfter
    <3> QED BY <1>0, <2>3, <3>4, <3>5, <3>6 DEF OrderInv
  <2> QED BY <2>2, <2>4, <2>5
<1>4. ASSUME NEW f \in Flows, Progress(f) \/ Fail(f), ~Answer(f) PROVE OrderInv'
  <2>1. \A g \in Flows : flow'[g].update \in {None, flow[g].update}
    BY <1>0, <1>4, FlowStep
  <2>2. outdated' = outdated /\ pending' \in {pending, flow[f].update}
    BY <1>4 DEF Progress, Fail, Ask, ReportStart, FetchCached, Locate, Deliver, Remember,
                Remembered, Return, device, history
  <2> QED BY <1>1, <2>1, <2>2
<1>5. CASE Restart
  <2>1. pending' \in {None, pending} /\ \A f \in Flows : flow'[f].update = None
    BY <1>5, Pausing DEF Restart
  <2> QED BY <1>1, <2>1
<1>6. CASE UNCHANGED vars
  BY <1>1, <1>6 DEF vars, device, history
<1> QED BY <1>2, <1>3, <1>4, <1>5, <1>6 DEF Next

\* A pending update gives way to an older version only when its release was
\* withdrawn or a flow was overtaken by another one of the same run.
THEOREM PendingRegresses == Spec => PendingRegressesOnlyWhenWithdrawn
<1>1. Spec => []OrderInv
  BY OrderInit, OrderStep, PTL DEF Spec
<1>2. ASSUME OrderInv, [Next]_vars
      PROVE  [pending # None /\ pending' # None /\ pending'.version < pending.version =>
                \/ pending.version \in withdrawn
                \/ \E f \in outdated : At(f, "received") /\ ~(At(f, "received"))']_vars
  <2> SUFFICES ASSUME pending # None, pending' # None, pending'.version < pending.version,
                      pending.version \notin withdrawn
               PROVE  \E f \in outdated : At(f, "received") /\ ~(At(f, "received"))'
      OBVIOUS
  <2>0. pending \in Updates /\ pending.version \in Int
    BY <1>2, UpdateAssumption DEF OrderInv, Typed, TypeOK, Updates, Versions
  <2>1. pending' # pending
    BY <2>0
  <2>2. PICK f \in Flows : Remember(f)
    BY <1>2, <2>1 DEF Next, AdminStep, StartUpload, PutBundle, InsertRelease, StartDelete, DropBundle,
                DropRelease, Interrupt, Progress, Ask, Answer, ReportStart, FetchCached, Locate,
                Deliver, Return, Fail, Restart, vars, device
  <2>3. /\ pending' = flow[f].update /\ At(f, "received") /\ flow'[f].step = "remembered"
        /\ flow[f].update \in Updates
    BY <1>2, <2>2 DEF Remember, Remembered, At, Goto, Become, OrderInv, Typed, TypeOK, FlowStates, Informed
  <2>4. ~NotAfter(pending, flow[f].update) /\ flow[f].update # None
    BY <2>0, <2>3, UpdateAssumption DEF NotAfter, Updates, Versions
  <2>5. f \in outdated
    BY <1>2, <2>2, <2>4 DEF OrderInv
  <2> QED BY <1>2, <2>3, <2>5 DEF OrderInv, Typed, TypeOK, At
<1> QED BY <1>1, <1>2, PTL DEF Spec, PendingRegressesOnlyWhenWithdrawn
=============================================================================
