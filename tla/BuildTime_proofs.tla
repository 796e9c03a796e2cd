-------------------------- MODULE BuildTime_proofs --------------------------
(***************************************************************************)
(* For every number of concurrent reports, applications, builds and days:  *)
(* the types of BuildTime, and that a day's total is the sum of its builds *)
(* outside of the named exceptions.                                        *)
(***************************************************************************)
EXTENDS BuildTime, TLAPS

\* A report that has arrived knows what it reports.
Known(r) ==
  /\ req[r].app \in Apps /\ req[r].build \in Builds
  /\ req[r].amount \in Amounts /\ req[r].now \in Days

StepInv ==
  \A r \in Requests :
    /\ req[r].step # "idle" => Known(r)
    /\ req[r].step = "upsert" => req[r].day \in req[r].left

\* What a report is about to upsert is still right, or it knows that another
\* one interfered.
SumInv ==
  \A r \in Requests :
    req[r].step = "upsert" =>
      r \in torn \/ req[r].entries = Summed(Key(req[r].app, req[r].day))

TypeInv == TypeOK /\ StepInv

\* A request's new state types req and leaves the other requests alone.
LEMMA Becoming ==
  ASSUME NEW r \in Requests, NEW s \in RequestStates,
         req \in [Requests -> RequestStates], Become(r, s)
  PROVE  /\ req' \in [Requests -> RequestStates]
         /\ req'[r] = s
         /\ \A q \in Requests \ {r} : req'[q] = req[q]
BY DEF Become

LEMMA TypeInit == Init => TypeInv
BY BuildTimeAssumption DEF Init, TypeInv, TypeOK, StepInv, Days, Keys, Idle, RequestStates

\* Every step keeps the types.
LEMMA TypeStep == TypeInv /\ [Next]_vars => TypeInv'
<1> SUFFICES ASSUME TypeInv, [Next]_vars PROVE TypeInv'
    OBVIOUS
<1> USE DEF TypeInv, TypeOK, StepInv, Known
<1>1. ASSUME NEW r \in Requests, Report(r) PROVE TypeInv'
  <2>1. PICK a \in Apps, b \in Builds, x \in Amounts :
          Become(r, [Idle EXCEPT !.step = "read", !.app = a, !.build = b, !.amount = x, !.now = today])
    BY <1>1 DEF Report
  <2> DEFINE s == [Idle EXCEPT !.step = "read", !.app = a, !.build = b, !.amount = x, !.now = today]
  <2>2. s \in RequestStates /\ s.step = "read"
         /\ s.app \in Apps /\ s.build \in Builds /\ s.amount \in Amounts /\ s.now \in Days
    BY DEF Idle, RequestStates
  <2> HIDE DEF s
  <2>3. Become(r, s)
    BY <2>1 DEF s
  <2> QED BY <1>1, <2>2, <2>3, Becoming DEF Report
<1>2. ASSUME NEW r \in Requests, Read(r) PROVE TypeInv'
  <2> DEFINE s == [req[r] EXCEPT !.step = "write",
                     !.day = IF logs[req[r].build] = None THEN None ELSE logs[req[r].build].day]
  <2>1. Known(r)
    BY <1>2 DEF Read, At
  <2>2. logs[req[r].build] = None \/ logs[req[r].build].day \in Days
    BY <2>1 DEF Logs
  <2>3. s \in RequestStates /\ s.step = "write"
         /\ s.app = req[r].app /\ s.build = req[r].build /\ s.amount = req[r].amount /\ s.now = req[r].now
    BY <2>1, <2>2 DEF RequestStates
  <2>4. Become(r, s) /\ UNCHANGED <<today, logs, daily, moved, torn, unsettled>>
    BY <1>2 DEF Read
  <2> HIDE DEF s
  <2> QED BY <2>1, <2>3, <2>4, Becoming
<1>3. ASSUME NEW r \in Requests, Write(r) PROVE TypeInv'
  <2> DEFINE s == [req[r] EXCEPT !.step = "sum", !.left = Affected(Found(r), req[r].now)]
  <2>1. Known(r) /\ Found(r) \in Days
    BY <1>3, BuildTimeAssumption DEF Write, At, Found, RequestStates
  <2>2. Written(r) \in Logs
    BY <2>1 DEF Written, Logged, Logs
  <2>3. s \in RequestStates /\ s.step = "sum"
         /\ s.app = req[r].app /\ s.build = req[r].build /\ s.amount = req[r].amount /\ s.now = req[r].now
    BY <2>1 DEF RequestStates, Affected
  <2>4. Left(r) \subseteq Keys
    BY <2>1 DEF Left, Logs, Keys, Key
  <2>5. Missed(r) \subseteq Keys
    BY <2>1, <2>2 DEF Missed, Logs, Keys, Key
  <2>6. /\ Become(r, s) /\ logs' \in [Builds -> Logs \cup {None}] /\ UNCHANGED <<today, daily>>
        /\ moved' \subseteq Keys /\ unsettled' \subseteq Keys /\ torn' \subseteq Requests
    BY <1>3, <2>2, <2>4, <2>5 DEF Write, Overlapping
  <2> HIDE DEF s
  <2> QED BY <2>1, <2>3, <2>6, Becoming
<1>4. ASSUME NEW r \in Requests, Sum(r) PROVE TypeInv'
  <2>1. PICK d \in req[r].left :
          Become(r, [req[r] EXCEPT !.step = "upsert", !.day = d, !.entries = Summed(Key(req[r].app, d))])
    BY <1>4 DEF Sum
  <2> DEFINE s == [req[r] EXCEPT !.step = "upsert", !.day = d, !.entries = Summed(Key(req[r].app, d))]
  <2>2. Known(r) /\ d \in Days
    BY <1>4 DEF Sum, At, RequestStates
  <2>3. Summed(Key(req[r].app, d)) \subseteq Entries
    BY DEF Summed
  <2>4. s \in RequestStates /\ s.step = "upsert" /\ s.day \in Days /\ s.day \in s.left
         /\ s.app = req[r].app /\ s.build = req[r].build /\ s.amount = req[r].amount /\ s.now = req[r].now
    BY <2>2, <2>3 DEF RequestStates
  <2> HIDE DEF s
  <2>5. Become(r, s)
    BY <2>1 DEF s
  <2> QED BY <1>4, <2>2, <2>4, <2>5, Becoming DEF Sum
<1>5. ASSUME NEW r \in Requests, Upsert(r) PROVE TypeInv'
  <2> DEFINE k == Key(req[r].app, req[r].day)
             left == req[r].left \ {req[r].day}
             s == IF left = {} THEN Idle ELSE [req[r] EXCEPT !.step = "sum", !.left = left, !.entries = {}]
  <2>1. Known(r) /\ req[r].day \in Days
    BY <1>5 DEF Upsert, At, RequestStates
  <2>2. s \in RequestStates /\ s.step \in {"idle", "sum"}
        /\ (s.step = "sum" => s.day = req[r].day /\ s.app = req[r].app /\ s.build = req[r].build
                               /\ s.amount = req[r].amount /\ s.now = req[r].now)
    BY <2>1 DEF RequestStates, Idle
  <2>3. k \in Keys /\ req[r].entries \subseteq Entries
    BY <2>1 DEF Keys, Key, RequestStates
  <2>4. daily' \in [Keys -> SUBSET Entries] /\ unsettled' \subseteq Keys
         /\ moved' \subseteq Keys /\ torn' \subseteq Requests
    BY <1>5, <2>3 DEF Upsert
  <2>5. Become(r, s) /\ UNCHANGED <<today, logs>>
    BY <1>5 DEF Upsert
  <2> HIDE DEF s
  <2> QED BY <2>1, <2>2, <2>4, <2>5, Becoming
<1>6. ASSUME NEW r \in Requests, Interrupt(r) PROVE TypeInv'
  <2>1. Owed(r) \subseteq Keys
    BY <1>6 DEF Owed, Keys, Key, RequestStates, Interrupt, At
  <2>2. Idle \in RequestStates /\ Idle.step = "idle"
    BY DEF Idle, RequestStates
  <2> QED BY <1>6, <2>1, <2>2, Becoming DEF Interrupt
<1>7. CASE Midnight
  BY <1>7, BuildTimeAssumption DEF Midnight, Days
<1>8. CASE UNCHANGED vars
  BY <1>8 DEF vars
<1> QED BY <1>1, <1>2, <1>3, <1>4, <1>5, <1>6, <1>7, <1>8 DEF Next, Step

-----------------------------------------------------------------------------
(* Daily totals *)

\* The reports' steps that change neither a log nor a total.
LEMMA QuietStep ==
  ASSUME DailyTotalsMatch, UNCHANGED <<logs, daily>>,
         unsettled \subseteq unsettled', moved \subseteq moved',
         \A q \in Requests : Owed(q) \subseteq Owed(q)' \cup unsettled'
  PROVE  DailyTotalsMatch'
<1> SUFFICES ASSUME NEW k \in Keys \ (unsettled' \cup moved'), Busy(k)' = {}
             PROVE  daily'[k] = Summed(k)'
    BY DEF DailyTotalsMatch
<1>1. Busy(k) = {}
  BY DEF Busy
<1>2. daily[k] = Summed(k)
  BY <1>1 DEF DailyTotalsMatch
<1> QED BY <1>2 DEF Summed

\* Nor do they touch what another report is about to upsert.
LEMMA SumKept ==
  ASSUME SumInv, UNCHANGED logs, NEW r \in Requests,
         \A q \in Requests \ {r} : req'[q] = req[q] /\ (q \in torn => q \in torn'),
         req'[r].step = "upsert" =>
           r \in torn' \/ req'[r].entries = Summed(Key(req'[r].app, req'[r].day))
  PROVE  SumInv'
BY DEF SumInv, Summed

\* What a request owes depends on its own state only.
LEMMA OwedKept ==
  ASSUME NEW q \in Requests, req'[q] = req[q]
  PROVE  Owed(q)' = Owed(q)
BY DEF Owed, Key

\* A report's write: the keys it changes are owed by it or excepted, and who
\* has summed one of them learns of it.
LEMMA WriteStep ==
  ASSUME TypeInv, SumInv, DailyTotalsMatch, NEW r \in Requests, Write(r)
  PROVE  SumInv' /\ DailyTotalsMatch'
<1> DEFINE b == req[r].build
<1>1. /\ logs' = [logs EXCEPT ![b] = Written(r)]
      /\ moved' = moved \cup Left(r)
      /\ unsettled' = unsettled \cup Missed(r)
      /\ torn' = IF Overlapping(r) = {} THEN torn ELSE torn \cup Overlapping(r) \cup {r}
      /\ daily' = daily
      /\ Become(r, [req[r] EXCEPT !.step = "sum", !.left = Affected(Found(r), req[r].now)])
  BY DEF Write
<1>2. /\ req'[r].step = "sum" /\ req'[r].left = Affected(Found(r), req[r].now)
      /\ req'[r].app = req[r].app
      /\ \A q \in Requests \ {r} : req'[q] = req[q]
  BY <1>1 DEF TypeInv, TypeOK, Become, RequestStates
<1>3. b \in Builds
  BY DEF Write, At, TypeInv, StepInv, Known
<1>4. Owed(r)' = {Key(req[r].app, d) : d \in Affected(Found(r), req[r].now)}
  BY <1>2 DEF Owed, Key
<1>5. Key(req[r].app, Written(r).day) \in Concerned(r)
  BY DEF Concerned, Missed, Affected
<1>6. ASSUME NEW k \in Keys, k \notin Concerned(r) PROVE Summed(k)' = Summed(k)
  <2>1. \A e \in Entries : e.build # b => logs'[e.build] = logs[e.build]
    BY <1>1, <1>3 DEF TypeInv, TypeOK, Entries
  <2>2. \A e \in Entries : logs'[b] # [app |-> k.app, day |-> k.day, amount |-> e.amount]
    <3>1. logs'[b] = Written(r) /\ Written(r).app = req[r].app
      BY <1>1, <1>3 DEF TypeInv, TypeOK, Written, Logged
    <3>2. ASSUME NEW e \in Entries, Written(r) = [app |-> k.app, day |-> k.day, amount |-> e.amount]
          PROVE  FALSE
      <4>1. Key(req[r].app, Written(r).day) = k
        BY <3>1, <3>2 DEF Key, Keys
      <4> QED BY <4>1, <1>5, <1>6
    <3> QED BY <3>1, <3>2
  <2>3. \A e \in Entries : logs[b] # [app |-> k.app, day |-> k.day, amount |-> e.amount]
    <3> SUFFICES ASSUME NEW e \in Entries, logs[b] = [app |-> k.app, day |-> k.day, amount |-> e.amount]
                 PROVE  FALSE
        OBVIOUS
    <3>1. logs[b] # None
      <4>1. logs[b] \in Logs
        BY DEF Keys, Entries, Logs
      <4> QED BY <4>1, BuildTimeAssumption
    <3>2. Key(logs[b].app, logs[b].day) = k
      BY DEF Key, Keys
    <3>3. CASE logs[b].app = req[r].app
      <4>1. Key(req[r].app, Written(r).day) = k
        BY <3>1, <3>2, <3>3 DEF Written, Logged
      <4> QED BY <4>1, <1>5, <1>6
    <3>4. CASE logs[b].app # req[r].app
      <4>1. k \in Left(r)
        BY <3>1, <3>2, <3>4 DEF Left
      <4> QED BY <4>1, <1>6 DEF Concerned
    <3> QED BY <3>3, <3>4
  <2> HIDE DEF b
  <2> QED BY <2>1, <2>2, <2>3 DEF Summed
<1> HIDE DEF b
<1>7. SumInv'
  <2> SUFFICES ASSUME NEW q \in Requests, req'[q].step = "upsert", q \notin torn'
               PROVE  (req[q].entries = Summed(Key(req[q].app, req[q].day)))'
      BY DEF SumInv
  <2>1. q # r /\ req'[q] = req[q] /\ q \notin torn
    BY <1>1, <1>2
  <2> DEFINE k == Key(req[q].app, req[q].day)
  <2>2. k \in Owed(q) /\ k \in Keys
    BY <2>1 DEF Owed, TypeInv, TypeOK, StepInv, Known, RequestStates, Keys, Key
  <2>3. k \notin Concerned(r)
    BY <1>1, <2>1, <2>2 DEF Overlapping
  <2>4. req[q].entries = Summed(k)
    BY <2>1 DEF SumInv
  <2>5. Summed(k)' = Summed(k)
    <3>1. k' = k
      BY <2>1 DEF Key
    <3> HIDE DEF k
    <3> QED BY <1>6, <2>2, <2>3, <3>1 DEF Summed
  <2> QED BY <2>1, <2>4, <2>5
<1>8. DailyTotalsMatch'
  <2> SUFFICES ASSUME NEW k \in Keys, k \notin unsettled', k \notin moved', Busy(k)' = {}
               PROVE  daily'[k] = Summed(k)'
      BY DEF DailyTotalsMatch
  <2>1. k \notin Owed(r)'
    BY DEF Busy
  <2>2. k \notin Concerned(r)
    BY <1>1, <1>4, <2>1 DEF Concerned
  <2>3. Busy(k) = {}
    <3> SUFFICES ASSUME NEW q \in Requests, k \in Owed(q) PROVE FALSE
        BY DEF Busy
    <3>1. q = r \/ Owed(q)' = Owed(q)
      BY <1>2, OwedKept
    <3>2. Owed(r) = {}
      BY DEF Owed, Write, At
    <3> QED BY <3>1, <3>2 DEF Busy
  <2>4. daily[k] = Summed(k)
    BY <1>1, <2>3 DEF DailyTotalsMatch
  <2> QED BY <1>1, <1>6, <2>2, <2>4
<1> QED BY <1>7, <1>8

LEMMA UpsertStep ==
  ASSUME TypeInv, SumInv, DailyTotalsMatch, NEW r \in Requests, Upsert(r)
  PROVE  SumInv' /\ DailyTotalsMatch'
<1> DEFINE k    == Key(req[r].app, req[r].day)
           left == req[r].left \ {req[r].day}
           s    == IF left = {} THEN Idle
                   ELSE [req[r] EXCEPT !.step = "sum", !.left = left, !.entries = {}]
<1>1. /\ daily' = [daily EXCEPT ![k] = req[r].entries]
      /\ unsettled' = IF r \in torn THEN unsettled \cup {k} ELSE unsettled \ {k}
      /\ moved' = IF r \in torn THEN moved ELSE moved \ {k}
      /\ torn' = IF left = {} THEN torn \ {r} ELSE torn
      /\ logs' = logs
      /\ Become(r, s)
  BY DEF Upsert
<1>2. /\ req'[r] = s
      /\ \A q \in Requests \ {r} : req'[q] = req[q]
  BY <1>1 DEF TypeInv, TypeOK, Become
<1>3. s.step \in {"idle", "sum"}
      /\ (s.step = "sum" => s.left = left /\ s.app = req[r].app)
      /\ (left # {} => s.step = "sum")
  BY DEF Idle, TypeInv, TypeOK, RequestStates
<1>4. SumInv'
  BY <1>1, <1>2, <1>3, SumKept
<1>5. Owed(r) \subseteq Owed(r)' \cup {k}
  <2>1. Owed(r) = {Key(req[r].app, d) : d \in req[r].left}
    BY DEF Owed, Upsert, At
  <2>2. left # {} => Owed(r)' = {Key(req[r].app, d) : d \in left}
    BY <1>2, <1>3 DEF Owed, Key
  <2> QED BY <2>1, <2>2
<1>6. k \in Keys /\ (r \in torn \/ req[r].entries = Summed(k))
  BY DEF Upsert, At, TypeInv, TypeOK, StepInv, Known, RequestStates, Keys, Key, SumInv
<1> HIDE DEF k, left, s
<1>7. DailyTotalsMatch'
  <2> SUFFICES ASSUME NEW l \in Keys, l \notin unsettled', l \notin moved', Busy(l)' = {}
               PROVE  daily'[l] = Summed(l)'
      BY DEF DailyTotalsMatch
  <2>1. Summed(l)' = Summed(l)
    BY <1>1 DEF Summed
  <2>2. CASE l = k
    BY <1>1, <1>6, <2>1, <2>2 DEF TypeInv, TypeOK
  <2>3. CASE l # k
    <3>1. Busy(l) = {}
      BY <1>2, <1>5, <2>3, OwedKept DEF Busy
    <3>2. l \notin unsettled /\ l \notin moved
      BY <1>1, <2>3
    <3>3. daily[l] = Summed(l)
      BY <3>1, <3>2 DEF DailyTotalsMatch
    <3> QED BY <1>1, <1>6, <2>1, <2>3, <3>3 DEF TypeInv, TypeOK
  <2> QED BY <2>2, <2>3
<1> QED BY <1>4, <1>7

LEMMA TotalsInit == Init => SumInv /\ DailyTotalsMatch
<1> SUFFICES ASSUME Init PROVE SumInv /\ DailyTotalsMatch
    OBVIOUS
<1>1. \A k \in Keys, e \in Entries : [app |-> k.app, day |-> k.day, amount |-> e.amount] \in Logs
  BY DEF Keys, Entries, Logs
<1>2. \A k \in Keys : Summed(k) = {}
  BY <1>1, BuildTimeAssumption DEF Init, Summed, Entries
<1> QED BY <1>2 DEF Init, SumInv, DailyTotalsMatch, Idle

LEMMA TotalsStep == TypeInv /\ SumInv /\ DailyTotalsMatch /\ [Next]_vars
                      => SumInv' /\ DailyTotalsMatch'
<1> SUFFICES ASSUME TypeInv, SumInv, DailyTotalsMatch, [Next]_vars
             PROVE  SumInv' /\ DailyTotalsMatch'
    OBVIOUS
<1>0. req \in [Requests -> RequestStates]
  BY DEF TypeInv, TypeOK
<1>1. ASSUME NEW r \in Requests, Report(r) \/ Read(r) PROVE SumInv' /\ DailyTotalsMatch'
  <2>1. PICK s : /\ Become(r, s)
                 /\ s.step \in {"read", "write"}
                 /\ UNCHANGED <<logs, daily, moved, torn, unsettled>>
    <3>1. CASE Report(r)
      BY <3>1 DEF Report, Idle
    <3>2. CASE Read(r)
      BY <1>0, <3>2 DEF Read, RequestStates
    <3> QED BY <1>1, <3>1, <3>2
  <2>1a. req'[r].step \in {"read", "write"} /\ \A q \in Requests \ {r} : req'[q] = req[q]
    BY <1>0, <2>1 DEF Become
  <2>2. Owed(r) = {}
    BY <1>1 DEF Owed, Report, Read, At
  <2>3. SumInv'
    BY <2>1, <2>1a, SumKept
  <2>4. DailyTotalsMatch'
    BY <2>1, <2>1a, <2>2, OwedKept, QuietStep
  <2> QED BY <2>3, <2>4
<1>2. ASSUME NEW r \in Requests, Sum(r) PROVE SumInv' /\ DailyTotalsMatch'
  <2>1. PICK d \in req[r].left :
          Become(r, [req[r] EXCEPT !.step = "upsert", !.day = d, !.entries = Summed(Key(req[r].app, d))])
    BY <1>2 DEF Sum
  <2>2. /\ UNCHANGED <<logs, daily, moved, torn, unsettled>>
        /\ \A q \in Requests \ {r} : req'[q] = req[q]
    BY <1>0, <1>2, <2>1 DEF Sum, Become
  <2>3. /\ req'[r].app = req[r].app /\ req'[r].left = req[r].left /\ req'[r].day = d
        /\ req'[r].step = "upsert" /\ req'[r].entries = Summed(Key(req[r].app, d))
    BY <1>0, <2>1 DEF Become, RequestStates
  <2>4. Owed(r)' = Owed(r)
    BY <1>2, <2>3 DEF Owed, Sum, At, Key
  <2>5. SumInv'
    BY <2>2, <2>3, SumKept
  <2>6. DailyTotalsMatch'
    BY <2>2, <2>4, OwedKept, QuietStep
  <2> QED BY <2>5, <2>6
<1>3. ASSUME NEW r \in Requests, Interrupt(r) PROVE SumInv' /\ DailyTotalsMatch'
  <2>1. /\ UNCHANGED <<logs, daily, moved>> /\ torn' = torn \ {r}
        /\ unsettled' = unsettled \cup Owed(r)
        /\ req'[r].step = "idle"
        /\ \A q \in Requests \ {r} : req'[q] = req[q]
    BY <1>0, <1>3 DEF Interrupt, Become, Idle
  <2>2. SumInv'
    BY <2>1, SumKept
  <2>3. DailyTotalsMatch'
    BY <2>1, OwedKept, QuietStep
  <2> QED BY <2>2, <2>3
<1>4. CASE Midnight \/ UNCHANGED vars
  <2>1. UNCHANGED <<logs, daily, req, moved, torn, unsettled>>
    BY <1>4 DEF Midnight, vars
  <2>2. SumInv'
    BY <2>1 DEF SumInv, Summed, Key
  <2>3. DailyTotalsMatch'
    BY <2>1, OwedKept, QuietStep
  <2> QED BY <2>2, <2>3
<1> QED BY <1>1, <1>2, <1>3, <1>4, WriteStep, UpsertStep DEF Next, Step

\* The tables, the reports under way and the histories of recordBuildTime have
\* their types in every reachable state.
THEOREM TypeCorrect == Spec => []TypeOK
<1>1. Spec => []TypeInv
  BY TypeInit, TypeStep, PTL DEF Spec
<1> QED BY <1>1, PTL DEF TypeInv

\* A day's total is the sum of the builds logged on it, however many reports
\* interleave, unless two of them computed that day at once, one stopped half
\* way or a build moved to another application.
THEOREM TotalsMatch == Spec => []DailyTotalsMatch
<1>1. Init => TypeInv /\ SumInv /\ DailyTotalsMatch
  BY TypeInit, TotalsInit
<1>2. TypeInv /\ SumInv /\ DailyTotalsMatch /\ [Next]_vars
        => (TypeInv /\ SumInv /\ DailyTotalsMatch)'
  BY TypeStep, TotalsStep
<1> QED BY <1>1, <1>2, PTL DEF Spec
=============================================================================
