------------------------ MODULE NativeBuilds_proofs ------------------------
(***************************************************************************)
(* For every number of builds, requests and slots, and every bound: the    *)
(* types of NativeBuilds, that the builder works within the plan, and that *)
(* a build shown as over is over and stays so, is announced once and has   *)
(* its time recorded, with the exceptions the properties name.             *)
(***************************************************************************)
EXTENDS NativeBuilds, FiniteSetTheorems, TLAPS

\* Which steps a start, a poll and what follows them consist of.
Shape(w) ==
  \/ work[w] = Idle
  \/ /\ work[w].b \in Builds
     /\ \/ work[w].kind = "start" /\ work[w].step \in {"reserve", "call", "store"}
        \/ work[w].kind \in {"poll", "cron"} /\ work[w].step \in {"get", "cancel", "store"}
        \/ work[w].kind = "none" /\ work[w].step \in {"fail", "failStore", "bill"}
     /\ work[w].step \in {"cancel", "store"} => work[w].got \in Statuses

Typed == TypeOK /\ \A w \in Workers : Shape(w)

\* Builds whose slot was given back while they held it, in either way.
Excused == reopened \cup givenUp

\* A build that took a slot keeps it until it is over.
Taken(b) == row[b] \notin {None, "pending"} \/ b \in Excused

\* The builder's answer stays true while it is used: a job that is over stays
\* so, and one that runs has taken a slot.
Answered(w) ==
  work[w].step \in {"cancel", "store"} =>
    /\ work[w].got \in {"pending", "running"} \cup Over
    /\ work[w].got \in Over => job[work[w].b].status \in Over
    /\ work[w].got = "running" => Taken(work[w].b)
    /\ work[w].late => work[w].got = "failed"
    /\ work[w].kind = "start" => work[w].got = "running"

\* One who read that a build is over writes nothing else, unless a start gave
\* the build up: the job was over by then, and so the answer tells.
SawTheEnd(w) ==
  work[w].seen \in Over =>
    \/ work[w].seen = "failed" /\ work[w].b \in givenUp
    \/ work[w].step \in {"reserve", "call", "get"} /\ job[work[w].b].status \in Over
    \/ work[w].step = "store" /\ work[w].kind # "start" /\ work[w].got \in Over
    \/ work[w].step = "failStore"

\* A start works on a row that is there, and has a slot when it calls.
Claimed(w) ==
  /\ work[w].step = "reserve" => row[work[w].b] # None
  /\ work[w].step = "call" => Taken(work[w].b)
  /\ work[w].step \in {"reserve", "call"} => ~work[w].late

Knows(w) == Answered(w) /\ SawTheEnd(w) /\ Claimed(w)

\* The builder is done with a build that is over, and its end was announced when
\* it came to be shown, once more than it was taken back.
Ended(b) == row[b] \in Over => job[b].status \in Over \/ GivenUp(b)
Announced(b) ==
  /\ ends[b] <= 1 + takenBack[b]
  /\ row[b] \notin Over => ends[b] <= takenBack[b]

\* Its time is recorded, or somebody is about to record it.
Settled(b) == b \in billed \/ \E w \in Workers : work[w].step = "bill" /\ work[w].b = b
Unpaid(b) == row[b] = "cancelled" /\ b \in unpaid
Due(b) ==
  row[b] \in Over /\ job[b].time # "none" => Settled(b) \/ GivenUp(b) \/ Unpaid(b)

\* The builder works for builds that hold a slot, and the plan has that many.
Held(b) == Active(b) => HoldsSlot(b) \/ b \in Excused
Holding == {b \in Builds : HoldsSlot(b)} \ Excused
Planned == others + Cardinality(Holding) <= Limit

KnowInv == \A w \in Workers : Knows(w)
BuildInv == \A b \in Builds : Ended(b) /\ Announced(b) /\ Due(b) /\ Held(b)
Inv == Typed /\ KnowInv /\ BuildInv /\ Planned

\* What no step undoes.
Forward(b) ==
  /\ row[b] # None => row'[b] # None
  /\ job[b].status \in Over => job'[b] = job[b]
  /\ Taken(b) => Taken(b)'
  /\ b \in givenUp => b \in givenUp'
  /\ b \in Excused => b \in Excused'
  /\ b \in unpaid => b \in unpaid'
  /\ row[b] \in Over => row'[b] \in Over \/ GivenUp(b)
  /\ Settled(b) => Settled(b)'

-----------------------------------------------------------------------------
(* Types *)

LEMMA TypeInit == Init => Typed
BY BuildsAssumption DEF Init, Typed, TypeOK, Shape, Workers, Idle, Work, Jobs

\* A worker's new state types work and leaves the others alone.
LEMMA Becoming ==
  ASSUME NEW w \in Workers, NEW s \in Work, work \in [Workers -> Work], Become(w, s)
  PROVE  /\ work' \in [Workers -> Work]
         /\ work'[w] = s
         /\ \A v \in Workers \ {w} : work'[v] = work[v]
BY DEF Become

\* A build's status is written as it should be.
LEMMA Writing ==
  ASSUME TypeOK, NEW b \in Builds, NEW to \in Statuses, SetRow(b, to)
  PROVE  row' \in [Builds -> Statuses \cup {None}] /\ stale' \subseteq Builds
BY DEF SetRow, TypeOK

LEMMA Storing ==
  ASSUME TypeOK, NEW b \in Builds, NEW seen, NEW got \in Statuses, NEW late,
         Store(b, seen, got, late)
  PROVE  /\ row' \in [Builds -> Statuses \cup {None}]
         /\ stale' \subseteq Builds
         /\ ends' \in [Builds -> Nat]
         /\ takenBack' \in [Builds -> Nat]
BY Writing DEF Store, told, TypeOK

LEMMA Calling ==
  ASSUME TypeOK, NEW b \in Builds, Accept(b) \/ CancelJob(b)
  PROVE  job' \in [Builds -> Jobs]
BY DEF Accept, CancelJob, Jobs, Over, TypeOK

LEMMA Counting == TypeOK /\ Fault => faults' \in 0 .. MaxFaults
BY BuildsAssumption DEF Fault, TypeOK

\* A worker that takes a step of the right shape leaves the others in shape.
LEMMA Shaping ==
  ASSUME Typed, NEW w \in Workers, NEW s \in Work, Become(w, s),
         s = Idle \/ (/\ s.b \in Builds
                      /\ \/ s.kind = "start" /\ s.step \in {"reserve", "call", "store"}
                         \/ s.kind \in {"poll", "cron"} /\ s.step \in {"get", "cancel", "store"}
                         \/ s.kind = "none" /\ s.step \in {"fail", "failStore", "bill"}
                      /\ s.step \in {"cancel", "store"} => s.got \in Statuses)
  PROVE  work' \in [Workers -> Work] /\ \A v \in Workers : Shape(v)'
<1>1. work' \in [Workers -> Work] /\ work'[w] = s /\ \A v \in Workers \ {w} : work'[v] = work[v]
  BY Becoming DEF Typed, TypeOK
<1>2. Shape(w)'
  BY <1>1 DEF Shape
<1>3. ASSUME NEW v \in Workers \ {w} PROVE Shape(v)'
  BY <1>1 DEF Shape, Typed
<1> QED BY <1>1, <1>2, <1>3

\* A worker that does something works on a build, and is what it looks like.
LEMMA Working ==
  ASSUME Typed, NEW w \in Workers, work[w].step # "idle"
  PROVE  /\ work[w].b \in Builds
         /\ work[w] \in Work
         /\ Shape(w)
         /\ work[w].step \in {"cancel", "store"} => work[w].got \in Statuses
BY DEF Typed, TypeOK, Shape, Idle

\* Every step keeps the types.
LEMMA TypeStep == Typed /\ [Next]_vars => Typed'
<1> SUFFICES ASSUME Typed, [Next]_vars PROVE Typed'
    OBVIOUS
<1> DEFINE Shapes == work' \in [Workers -> Work] /\ \A v \in Workers : Shape(v)'
<1>0. TypeOK /\ Idle \in Work
  BY DEF Typed, Idle, Work
<1>s. ASSUME UNCHANGED work PROVE Shapes
  BY <1>s, <1>0 DEF Typed, TypeOK, Shape
<1>i. ASSUME NEW w \in Workers, Become(w, Idle) PROVE Shapes
  BY <1>i, <1>0, Shaping
<1>1. ASSUME NEW b \in Builds, Request(b) PROVE Typed'
  BY <1>0, <1>1, <1>s, Writing DEF Request, Statuses, bounds, rest, history, told, Typed, TypeOK
<1>2. ASSUME NEW w \in Workers, NEW b \in Builds, Start(w, b) PROVE Typed'
  <2> DEFINE s == [Idle EXCEPT !.kind = "start", !.step = "reserve", !.b = b, !.seen = row[b]]
  <2>1. s \in Work /\ s.b \in Builds /\ s.kind = "start" /\ s.step = "reserve"
    BY <1>0 DEF Idle, Work, TypeOK
  <2>2. Shapes
    BY <1>2, <2>1, Shaping DEF Start
  <2> QED BY <1>0, <1>2, <2>2, BuildsAssumption DEF Start, rest, history, told, Typed, TypeOK
<1>3. ASSUME NEW w \in Workers, Reserve(w) PROVE Typed'
  <2> DEFINE s == [work[w] EXCEPT !.step = "call"]
  <2>1. work[w].b \in Builds /\ s \in Work /\ s.b = work[w].b /\ s.kind = "start" /\ s.step = "call"
    BY <1>3, Working DEF Reserve, Work, Shape, Idle
  <2>2. Shapes
    BY <1>3, <1>i, <2>1, Shaping DEF Reserve, Goto
  <2>3. row' \in [Builds -> Statuses \cup {None}] /\ stale' \subseteq Builds
    BY <1>0, <1>3, <2>1 DEF Reserve, SetRow, Statuses, TypeOK
  <2> QED BY <1>0, <1>3, <2>2, <2>3 DEF Reserve, bounds, rest, history, told, Typed, TypeOK
<1>4. CASE OtherStarts
  <2>1. Cardinality({b \in Builds : HoldsSlot(b)}) \in Nat
    BY BuildsAssumption, FS_Subset, FS_CardinalityType
  <2> QED BY <1>0, <1>4, <1>s, <2>1, BuildsAssumption DEF OtherStarts, bounds, history, told, Typed, TypeOK
<1>5. CASE OtherEnds
  BY <1>0, <1>5, <1>s, BuildsAssumption DEF OtherEnds, bounds, history, told, Typed, TypeOK
<1>6. ASSUME NEW w \in Workers, CallAccepted(w) PROVE Typed'
  <2> DEFINE s == [work[w] EXCEPT !.step = "store", !.got = Started(job'[work[w].b].status)]
  <2>1. work[w].b \in Builds /\ work[w].kind = "start" /\ work[w] \in Work
    BY <1>6, Working DEF CallAccepted, Shape, Idle
  <2>2. job' \in [Builds -> Jobs]
    BY <1>0, <1>6, <2>1, Calling DEF CallAccepted
  <2>3. Started(job'[work[w].b].status) \in Statuses
    BY <2>1, <2>2 DEF Started, Shown, Jobs, Statuses, Over
  <2>4. s \in Work /\ s.b = work[w].b /\ s.kind = "start" /\ s.step = "store" /\ s.got \in Statuses
    BY <2>1, <2>3 DEF Work
  <2>5. Shapes
    BY <1>6, <2>1, <2>4, Shaping DEF CallAccepted
  <2> QED BY <1>0, <1>6, <2>2, <2>5 DEF CallAccepted, bounds, rest, history, told, Typed, TypeOK
<1>7. ASSUME NEW w \in Workers, CallRefused(w) \/ CallLost(w) PROVE Typed'
  <2> DEFINE s == [Idle EXCEPT !.step = "fail", !.b = work[w].b]
  <2>1. work[w].b \in Builds
    BY <1>7, Working DEF CallRefused, CallLost
  <2>2. s \in Work /\ s.b = work[w].b /\ s.kind = "none" /\ s.step = "fail"
    BY <2>1 DEF Idle, Work
  <2>3. Shapes
    BY <1>7, <2>1, <2>2, Shaping DEF CallRefused, CallLost
  <2>4. job' \in [Builds -> Jobs] /\ faults' \in 0 .. MaxFaults
    BY <1>0, <1>7, <2>1, Calling, Counting DEF CallRefused, CallLost, TypeOK
  <2> QED BY <1>0, <1>7, <2>3, <2>4 DEF CallRefused, CallLost, rest, history, told, Typed, TypeOK
<1>8. ASSUME NEW w \in Workers, StoreStarted(w) PROVE Typed'
  <2>1. work[w].b \in Builds /\ work[w].got \in Statuses
    BY <1>8, Working DEF StoreStarted
  <2>2. /\ row' \in [Builds -> Statuses \cup {None}]
        /\ stale' \subseteq Builds
        /\ ends' \in [Builds -> Nat] /\ takenBack' \in [Builds -> Nat]
        /\ faults' \in 0 .. MaxFaults
    BY <1>0, <1>8, <2>1, Storing, Counting DEF StoreStarted, told, TypeOK
  <2> QED BY <1>0, <1>8, <1>i, <2>2 DEF StoreStarted, Typed, TypeOK
<1>9. ASSUME NEW w \in Workers, MarkAsFailed(w) PROVE Typed'
  <2> DEFINE s == [work[w] EXCEPT !.step = "failStore", !.seen = row[work[w].b]]
  <2>1. work[w].b \in Builds /\ work[w].kind = "none" /\ work[w] \in Work
    BY <1>9, Working DEF MarkAsFailed, Shape, Idle
  <2>2. s \in Work /\ s.b = work[w].b /\ s.kind = "none" /\ s.step = "failStore"
    BY <1>0, <2>1 DEF Work, TypeOK
  <2>3. Shapes
    BY <1>9, <1>i, <2>1, <2>2, Shaping DEF MarkAsFailed
  <2>4. "failed" \in Statuses
    BY DEF Statuses, Over
  <2> QED BY <1>0, <1>9, <2>1, <2>3, <2>4, Writing, Counting DEF MarkAsFailed, told, Typed, TypeOK
<1>10. ASSUME NEW w \in Workers, StoreFailed(w) PROVE Typed'
  <2>1. work[w].b \in Builds /\ "failed" \in Statuses
    BY <1>10, Working DEF StoreFailed, Statuses, Over
  <2>2. /\ row' \in [Builds -> Statuses \cup {None}]
        /\ stale' \subseteq Builds
        /\ ends' \in [Builds -> Nat] /\ takenBack' \in [Builds -> Nat]
        /\ faults' \in 0 .. MaxFaults
    BY <1>0, <1>10, <2>1, Storing, Counting DEF StoreFailed, told, TypeOK
  <2> QED BY <1>0, <1>10, <1>i, <2>1, <2>2 DEF StoreFailed, Typed, TypeOK
<1>11. ASSUME NEW w \in Workers, NEW b \in Builds, NEW kind \in {"poll", "cron"}, Poll(w, b, kind)
       PROVE  Typed'
  <2> DEFINE s == [Idle EXCEPT !.kind = kind, !.step = "get", !.b = b, !.seen = row[b]]
  <2>1. s \in Work /\ s.b \in Builds /\ s.kind \in {"poll", "cron"} /\ s.step = "get"
    BY <1>0 DEF Idle, Work, TypeOK
  <2>2. Shapes
    BY <1>11, <2>1, Shaping DEF Poll
  <2> QED BY <1>0, <1>11, <2>2 DEF Poll, bounds, rest, history, told, Typed, TypeOK
<1>12. ASSUME NEW w \in Workers, Get(w) PROVE Typed'
  <2> DEFINE j == job[work[w].b]
             over == j.status \in Over
             s(late) == [work[w] EXCEPT
                           !.step = IF late /\ ~over THEN "cancel" ELSE "store",
                           !.got = IF late /\ over THEN "failed" ELSE Shown(j.status),
                           !.late = late /\ over]
  <2>1. work[w].b \in Builds /\ work[w].kind \in {"poll", "cron"} /\ work[w] \in Work
    BY <1>12, Working DEF Get, Shape, Idle
  <2>2. "failed" \in Statuses /\ Shown(j.status) \in Statuses
    BY <1>0, <2>1 DEF Shown, Jobs, Statuses, Over, TypeOK
  <2>3. PICK late \in TimedOut(j) : Become(w, s(late))
    BY <1>12 DEF Get
  <2>4. /\ s(late) \in Work
        /\ s(late).b = work[w].b
        /\ s(late).kind = work[w].kind
        /\ s(late).step \in {"cancel", "store"}
        /\ s(late).got \in Statuses
    BY <2>1, <2>2 DEF Work
  <2>5. Shapes
    BY <2>1, <2>3, <2>4, Shaping
  <2> QED BY <1>0, <1>12, <2>5 DEF Get, bounds, rest, history, told, Typed, TypeOK
<1>13. ASSUME NEW w \in Workers, CancelLate(w) PROVE Typed'
  <2> DEFINE s == [work[w] EXCEPT !.step = "store", !.got = "failed", !.late = TRUE]
             t == [work[w] EXCEPT !.step = "store"]
  <2>1. /\ work[w].b \in Builds
        /\ work[w].kind \in {"poll", "cron"}
        /\ work[w] \in Work
        /\ work[w].got \in Statuses
    BY <1>13, Working DEF CancelLate, Shape, Idle
  <2>2. /\ s \in Work /\ t \in Work
        /\ s.b = work[w].b /\ t.b = work[w].b
        /\ s.kind = work[w].kind /\ t.kind = work[w].kind
        /\ s.step = "store" /\ t.step = "store"
        /\ s.got \in Statuses /\ t.got \in Statuses
    BY <2>1 DEF Work, Statuses, Over
  <2>3. CASE Become(w, s) /\ CancelJob(work[w].b) /\ UNCHANGED faults
    <3>1. Shapes
      BY <2>1, <2>2, <2>3, Shaping
    <3> QED BY <1>0, <1>13, <2>1, <2>3, <3>1, Calling DEF CancelLate, rest, history, told, Typed, TypeOK
  <2>4. CASE Become(w, t) /\ UNCHANGED job /\ (UNCHANGED faults \/ Fault)
    <3>1. Shapes
      BY <2>1, <2>2, <2>4, Shaping
    <3> QED BY <1>0, <1>13, <2>4, <3>1, Counting DEF CancelLate, rest, history, told, Typed, TypeOK
  <2> QED BY <1>13, <2>3, <2>4 DEF CancelLate, NotCancelled
<1>14. ASSUME NEW w \in Workers, StorePolled(w) PROVE Typed'
  <2> DEFINE s == [Idle EXCEPT !.step = "bill", !.b = work[w].b]
  <2>1. work[w].b \in Builds /\ work[w].got \in Statuses
    BY <1>14, Working DEF StorePolled
  <2>2. s \in Work /\ s.b = work[w].b /\ s.kind = "none" /\ s.step = "bill"
    BY <2>1 DEF Work, Idle
  <2>3. Shapes
    BY <1>14, <1>i, <2>1, <2>2, Shaping DEF StorePolled
  <2>4. /\ row' \in [Builds -> Statuses \cup {None}]
        /\ stale' \subseteq Builds
        /\ ends' \in [Builds -> Nat] /\ takenBack' \in [Builds -> Nat]
        /\ faults' \in 0 .. MaxFaults
    BY <1>0, <1>14, <2>1, Storing, Counting DEF StorePolled, told, TypeOK
  <2> QED BY <1>0, <1>14, <2>1, <2>3, <2>4 DEF StorePolled, Typed, TypeOK
<1>15. ASSUME NEW w \in Workers, Bill(w) PROVE Typed'
  <2>1. work[w].b \in Builds
    BY <1>15, Working DEF Bill
  <2> QED BY <1>0, <1>15, <1>i, <2>1 DEF Bill, bounds, history, told, Typed, TypeOK
<1>16. ASSUME NEW w \in Workers, Die(w) PROVE Typed'
  <2>1. work[w].step = "bill" => work[w].b \in Builds
    BY Working
  <2> QED BY <1>0, <1>16, <1>i, <2>1, Counting DEF Die, history, told, Typed, TypeOK
<1>17. ASSUME NEW b \in Builds, Cancel(b) PROVE Typed'
  BY <1>0, <1>17, <1>s, Calling DEF Cancel, bounds, rest, history, told, Typed, TypeOK
<1>18. ASSUME NEW b \in Builds, Run(b) \/ End(b) \/ RunOn(b) PROVE Typed'
  <2>1. /\ [job[b] EXCEPT !.status = "succeeded"] \in Jobs
        /\ [job[b] EXCEPT !.time = "overdue"] \in Jobs
        /\ [status |-> "running", time |-> "some"] \in Jobs
    BY <1>0 DEF TypeOK, Jobs
  <2>2. job' = [job EXCEPT ![b] = [status |-> "running", time |-> "some"]]
          => job' \in [Builds -> Jobs]
    BY <1>0, <2>1 DEF TypeOK
  <2>3. job' = [job EXCEPT ![b].status = "succeeded"] => job' \in [Builds -> Jobs]
    BY <1>0, <2>1 DEF TypeOK
  <2>4. job' = [job EXCEPT ![b].time = "overdue"] => job' \in [Builds -> Jobs]
    BY <1>0, <2>1 DEF TypeOK
  <2>5. job' \in [Builds -> Jobs]
    BY <1>18, <2>2, <2>3, <2>4 DEF Run, End, RunOn
  <2> QED BY <1>0, <1>18, <1>s, <2>5 DEF Run, End, RunOn, bounds, rest, history, told, Typed, TypeOK
<1>19. ASSUME NEW b \in Builds, Age(b) PROVE Typed'
  BY <1>0, <1>19, <1>s DEF Age, bounds, rest, history, told, Typed, TypeOK
<1>20. CASE UNCHANGED vars
  BY <1>0, <1>20, <1>s DEF vars, bounds, rest, history, told, Typed, TypeOK
<1> QED BY <1>1, <1>2, <1>3, <1>4, <1>5, <1>6, <1>7, <1>8, <1>9, <1>10, <1>11, <1>12, <1>13,
          <1>14, <1>15, <1>16, <1>17, <1>18, <1>19, <1>20 DEF Next, Steps, Reconcile, Workers

\* Every variable has its type, in every reachable state.
THEOREM TypeCorrect == Spec => []TypeOK
<1>1. Spec => []Typed
  BY TypeInit, TypeStep, PTL DEF Spec
<1>2. Typed => TypeOK
  BY DEF Typed
<1> QED BY <1>1, <1>2, PTL

-----------------------------------------------------------------------------
(* What no step undoes *)

\* Writing a status changes one build.
LEMMA Written ==
  ASSUME TypeOK, NEW b \in Builds, NEW to, SetRow(b, to)
  PROVE  row'[b] = to /\ \A c \in Builds \ {b} : row'[c] = row[c]
BY DEF SetRow, TypeOK

LEMMA Stored ==
  ASSUME TypeOK, NEW b \in Builds, NEW seen, NEW got \in Statuses, NEW late \in BOOLEAN,
         Store(b, seen, got, late)
  PROVE  /\ \A c \in Builds \ {b} : row'[c] = row[c] /\ UNCHANGED <<ends[c], takenBack[c]>>
         /\ \/ row'[b] = row[b] /\ UNCHANGED <<ends[b], takenBack[b]>>
            \/ /\ row[b] = seen
               /\ row'[b] = got
               /\ \/ ends'[b] = ends[b]
                  \/ /\ ends'[b] = ends[b] + 1
                     /\ row[b] \notin Over
                     /\ late \/ got \in {"succeeded", "failed"}
               /\ takenBack'[b] = takenBack[b] + (IF row[b] \in Over /\ got \notin Over THEN 1 ELSE 0)
<1>1. CASE row[b] # seen
  BY <1>1 DEF Store, Unchanged, told
<1>2. CASE row[b] = seen
  <2> DEFINE tells == Transition(seen, got, late) \in {"succeeded", "failed", "timed_out"}
             takes == row[b] \in Over /\ got \notin Over
  <2>1. /\ SetRow(b, got)
        /\ ends' = IF tells THEN [ends EXCEPT ![b] = @ + 1] ELSE ends
        /\ takenBack' = IF takes THEN [takenBack EXCEPT ![b] = @ + 1] ELSE takenBack
    BY <1>2 DEF Store, Unchanged
  <2>2. row'[b] = got /\ \A c \in Builds \ {b} : row'[c] = row[c]
    BY <2>1, Written
  <2>3. tells => seen \notin Over /\ (late \/ got \in {"succeeded", "failed"})
    BY DEF Transition, AnyChange, Statuses, Over
  <2>4. /\ \A c \in Builds \ {b} : ends'[c] = ends[c]
        /\ ends'[b] = IF tells THEN ends[b] + 1 ELSE ends[b]
    BY <2>1 DEF TypeOK
  <2>5. /\ \A c \in Builds \ {b} : takenBack'[c] = takenBack[c]
        /\ takenBack'[b] = takenBack[b] + (IF takes THEN 1 ELSE 0)
    BY <2>1 DEF TypeOK
  <2> QED BY <1>2, <2>2, <2>3, <2>4, <2>5
<1> QED BY <1>1, <1>2

\* A step that writes no row keeps what is settled, and every job that is over.
LEMMA Calm ==
  ASSUME NEW w \in Workers, NEW b \in Builds,
         \A v \in Workers \ {w} : work'[v] = work[v],
         UNCHANGED <<row, reopened, givenUp, unpaid>>,
         billed \subseteq billed',
         job[b].status \in Over => job'[b] = job[b],
         \/ work[w].step # "bill" \/ work[w].b # b
         \/ work'[w] = work[w] \/ b \in billed'
  PROVE  Forward(b)
<1>1. Settled(b) => Settled(b)'
  BY DEF Settled
<1> QED BY <1>1 DEF Forward, Taken, Excused

\* A worker that writes a row was not about to record a time.
LEMMA Writer ==
  ASSUME NEW w \in Workers, NEW b \in Builds, work[w].step # "bill",
         \A v \in Workers \ {w} : work'[v] = work[v],
         UNCHANGED <<job, billed>>,
         reopened \subseteq reopened', givenUp \subseteq givenUp', unpaid \subseteq unpaid',
         Taken(b) => Taken(b)',
         row[b] # None => row'[b] # None,
         row[b] \in Over => row'[b] \in Over \/ GivenUp(b)
  PROVE  Forward(b)
<1>1. Settled(b) => Settled(b)'
  BY DEF Settled
<1> QED BY <1>1 DEF Forward, Excused

LEMMA ForwardStep == Inv /\ [Next]_vars => \A b \in Builds : Forward(b)
<1> SUFFICES ASSUME Inv, [Next]_vars, NEW b \in Builds PROVE Forward(b)
    OBVIOUS
<1>0. TypeOK /\ Typed /\ b \in Workers
  BY DEF Inv, Typed, Workers
<1>o. ASSUME NEW w \in Workers, NEW s, Become(w, s)
      PROVE  \A v \in Workers \ {w} : work'[v] = work[v]
  BY <1>0, <1>o DEF Become, TypeOK
<1>1. ASSUME NEW c \in Builds, Request(c) PROVE Forward(b)
  <2>1. /\ row' = [row EXCEPT ![c] = "pending"] /\ row[c] = None
        /\ UNCHANGED <<job, work, billed, reopened, givenUp, unpaid>>
    BY <1>1 DEF Request, SetRow, rest, history
  <2>2. Settled(b) => Settled(b)'
    BY <2>1 DEF Settled
  <2>3. None \notin Over
    BY BuildsAssumption DEF Statuses
  <2> QED BY <1>0, <2>1, <2>2, <2>3 DEF Forward, Taken, Excused, TypeOK
<1>2. ASSUME NEW w \in Workers, NEW c \in Builds, Start(w, c) PROVE Forward(b)
  BY <1>2, <1>o, Calm DEF Start, Free, Idle, rest, history
<1>3. ASSUME NEW w \in Workers, Reserve(w) PROVE Forward(b)
  <2>1. work[w].b \in Builds
    BY <1>0, <1>3, Working DEF Reserve
  <2>2. CASE SetRow(work[w].b, IF row[work[w].b] = "pending" THEN "starting" ELSE row[work[w].b])
             /\ Goto(w, "call")
    <3>1. Taken(b) => Taken(b)'
      BY <1>0, <1>3, <2>1, <2>2, Written, BuildsAssumption
         DEF Reserve, Taken, Excused, Statuses, rest, history
    <3>2. row[b] \in Over => row'[b] \in Over
      BY <1>0, <2>1, <2>2, Written DEF Over
    <3>3. row[b] # None => row'[b] # None
      BY <1>0, <2>1, <2>2, Written, BuildsAssumption DEF Statuses
    <3> QED BY <1>3, <1>o, <2>2, <3>1, <3>2, <3>3, Writer DEF Reserve, Goto, rest, history
  <2>3. CASE Become(w, Idle) /\ UNCHANGED <<row, stale>>
    BY <1>3, <1>o, <2>3, Calm DEF Reserve, rest, history
  <2> QED BY <1>3, <2>2, <2>3 DEF Reserve
<1>4. CASE OtherStarts \/ OtherEnds
  BY <1>0, <1>4, Calm DEF OtherStarts, OtherEnds, history
<1>6. ASSUME NEW w \in Workers, CallAccepted(w) \/ CallRefused(w) \/ CallLost(w)
      PROVE  Forward(b)
  <2>1. work[w].b \in Builds
    BY <1>0, <1>6, Working DEF CallAccepted, CallRefused, CallLost
  <2>2. job[b].status \in Over => job'[b] = job[b]
    BY <1>0, <1>6, <2>1 DEF CallAccepted, CallRefused, CallLost, Accept, Over, TypeOK
  <2> QED BY <1>6, <1>o, <2>2, Calm DEF CallAccepted, CallRefused, CallLost, rest, history
<1>8. ASSUME NEW w \in Workers, StoreStarted(w) PROVE Forward(b)
  <2>1. /\ work[w].b \in Builds /\ work[w].kind = "start" /\ work[w].step = "store"
        /\ work[w].got = "running" /\ work[w].got \in Statuses
        /\ work[w].seen \in Over => work[w].seen = "failed" /\ work[w].b \in givenUp
    BY <1>0, <1>8, Working DEF StoreStarted, Inv, KnowInv, Knows, Answered, SawTheEnd
  <2>2. /\ \A c \in Builds \ {work[w].b} : row'[c] = row[c]
        /\ \/ row'[work[w].b] = row[work[w].b]
           \/ row[work[w].b] = work[w].seen /\ row'[work[w].b] = "running"
    BY <1>0, <1>8, <2>1, Stored DEF StoreStarted
  <2>3. Taken(b) => Taken(b)'
    BY <1>8, <2>2, BuildsAssumption DEF StoreStarted, Taken, Excused, Statuses
  <2>4. row[b] # None => row'[b] # None
    BY <2>1, <2>2, BuildsAssumption
  <2>5. row[b] \in Over => row'[b] \in Over \/ GivenUp(b)
    BY <2>1, <2>2 DEF GivenUp
  <2> QED BY <1>8, <1>o, <2>1, <2>3, <2>4, <2>5, Writer DEF StoreStarted
<1>9. ASSUME NEW w \in Workers, MarkAsFailed(w) PROVE Forward(b)
  <2>1. work[w].b \in Builds
    BY <1>0, <1>9, Working DEF MarkAsFailed
  <2>2. row' = row \/ (row' = [row EXCEPT ![work[w].b] = "failed"])
    BY <1>9 DEF MarkAsFailed, SetRow
  <2>3. Taken(b) => Taken(b)'
    BY <1>0, <1>9, <2>2, BuildsAssumption DEF MarkAsFailed, Taken, Excused, Statuses, Over, TypeOK
  <2>4. row[b] \in Over => row'[b] \in Over
    BY <1>0, <2>1, <2>2 DEF Over, TypeOK
  <2>5. givenUp \subseteq givenUp'
    BY <1>9 DEF MarkAsFailed
  <2>6. row[b] # None => row'[b] # None
    BY <1>0, <2>1, <2>2, BuildsAssumption DEF Statuses, Over, TypeOK
  <2> QED BY <1>9, <1>o, <2>3, <2>4, <2>5, <2>6, Writer DEF MarkAsFailed
<1>10. ASSUME NEW w \in Workers, StoreFailed(w) PROVE Forward(b)
  <2>1. work[w].b \in Builds /\ "failed" \in Statuses
    BY <1>0, <1>10, Working DEF StoreFailed, Statuses, Over
  <2>2. /\ \A c \in Builds \ {work[w].b} : row'[c] = row[c]
        /\ row'[work[w].b] = row[work[w].b] \/ row'[work[w].b] = "failed"
    BY <1>0, <1>10, <2>1, Stored DEF StoreFailed
  <2>3. Taken(b) => Taken(b)'
    BY <1>10, <2>2, BuildsAssumption DEF StoreFailed, Taken, Excused, Statuses, Over
  <2>4. row[b] \in Over => row'[b] \in Over
    BY <2>2 DEF Over
  <2>5. givenUp \subseteq givenUp'
    BY <1>10 DEF StoreFailed
  <2>6. row[b] # None => row'[b] # None
    BY <2>1, <2>2, BuildsAssumption
  <2> QED BY <1>10, <1>o, <2>3, <2>4, <2>5, <2>6, Writer DEF StoreFailed
<1>11. ASSUME NEW w \in Workers, NEW c \in Builds, NEW kind, Poll(w, c, kind) PROVE Forward(b)
  BY <1>11, <1>o, Calm DEF Poll, Free, Idle, rest, history
<1>12. ASSUME NEW w \in Workers, Get(w) PROVE Forward(b)
  BY <1>12, <1>o, Calm DEF Get, rest, history
<1>13. ASSUME NEW w \in Workers, CancelLate(w) PROVE Forward(b)
  <2>1. work[w].b \in Builds
    BY <1>0, <1>13, Working DEF CancelLate
  <2>2. job[b].status \in Over => job'[b] = job[b]
    BY <1>0, <1>13, <2>1 DEF CancelLate, CancelJob, TypeOK, Jobs
  <2> QED BY <1>13, <1>o, <2>2, Calm DEF CancelLate, rest, history
<1>14. ASSUME NEW w \in Workers, StorePolled(w) PROVE Forward(b)
  <2>1. /\ work[w].b \in Builds /\ work[w].kind \in {"poll", "cron"} /\ work[w].step = "store"
        /\ work[w].got \in Statuses /\ work[w].late \in BOOLEAN
        /\ work[w].got \in {"pending", "running"} \cup Over
        /\ work[w].seen \in Over =>
             work[w].got \in Over \/ (work[w].seen = "failed" /\ work[w].b \in givenUp)
    BY <1>0, <1>14, Working DEF StorePolled, Inv, KnowInv, Knows, Answered, SawTheEnd, Work
  <2>2. /\ \A c \in Builds \ {work[w].b} : row'[c] = row[c]
        /\ \/ row'[work[w].b] = row[work[w].b]
           \/ row[work[w].b] = work[w].seen /\ row'[work[w].b] = work[w].got
    BY <1>0, <1>14, <2>1, Stored DEF StorePolled
  <2>3. /\ UNCHANGED givenUp /\ reopened \subseteq reopened' /\ unpaid \subseteq unpaid'
        /\ HoldsSlot(work[w].b) /\ row'[work[w].b] = "pending" => work[w].b \in reopened'
    BY <1>14 DEF StorePolled
  <2>4. row[b] \in Over => row'[b] \in Over \/ GivenUp(b)
    BY <2>1, <2>2 DEF GivenUp
  <2>5. ASSUME Taken(b) PROVE Taken(b)'
    <3>1. CASE row'[b] = row[b] \/ b \in Excused
      BY <2>3, <2>5, <3>1 DEF Taken, Excused
    <3>2. CASE row'[b] # row[b] /\ b \notin Excused
      <4>1. b = work[w].b /\ row[b] = work[w].seen /\ row'[b] = work[w].got
        BY <2>2, <3>2
      <4>2. row[b] \in Over \/ HoldsSlot(b)
        BY <1>0, <2>5, <3>2 DEF Taken, HoldsSlot, Statuses, TypeOK
      <4>3. row'[b] # None
        BY <2>1, <4>1, BuildsAssumption
      <4> QED BY <2>1, <2>3, <2>4, <3>2, <4>1, <4>2, <4>3 DEF Taken, Excused, GivenUp, Over
    <3> QED BY <3>1, <3>2
  <2>6. row[b] # None => row'[b] # None
    BY <2>1, <2>2, BuildsAssumption
  <2> QED BY <1>14, <1>o, <2>1, <2>3, <2>4, <2>5, <2>6, Writer DEF StorePolled
<1>15. ASSUME NEW w \in Workers, Bill(w) \/ Die(w) PROVE Forward(b)
  BY <1>15, <1>o, Calm DEF Bill, Die, history
<1>17. ASSUME NEW c \in Builds, Cancel(c) \/ Run(c) \/ End(c) \/ RunOn(c) \/ Age(c)
       PROVE  Forward(b)
  <2>1. job[b].status \in Over => job'[b] = job[b]
    BY <1>0, <1>17 DEF Cancel, CancelJob, Run, End, RunOn, Age, Over, TypeOK, rest
  <2> QED BY <1>0, <1>17, <2>1, Calm DEF Cancel, Run, End, RunOn, Age, rest, history
<1>20. CASE UNCHANGED vars
  BY <1>0, <1>20, Calm DEF vars, rest, history
<1> QED BY <1>1, <1>2, <1>3, <1>4, <1>6, <1>8, <1>9, <1>10, <1>11, <1>12, <1>13,
          <1>14, <1>15, <1>17, <1>20 DEF Next, Steps, Reconcile, Workers

-----------------------------------------------------------------------------
(* What the workers know *)

LEMMA IdleKnows ==
  ASSUME NEW w, work[w].step \in {"idle", "fail", "bill"}, work[w].seen = None
  PROVE  Knows(w)
<1>1. None \notin Over
  BY BuildsAssumption DEF Statuses
<1> QED BY <1>1 DEF Knows, Answered, SawTheEnd, Claimed

\* One who takes no step still knows it.
LEMMA OthersKnow ==
  ASSUME Inv, \A b \in Builds : Forward(b), NEW v \in Workers, work'[v] = work[v]
  PROVE  Knows(v)'
<1>1. Typed /\ Knows(v)
  BY DEF Inv, KnowInv
<1>2. CASE work[v].step = "idle"
  <2>1. work[v] = Idle
    BY <1>1, <1>2 DEF Typed, Shape, TypeOK
  <2> QED BY <2>1, IdleKnows, BuildsAssumption DEF Idle, Knows, Answered, SawTheEnd, Claimed, Statuses
<1>3. CASE work[v].step # "idle"
  <2>1. work[v].b \in Builds
    BY <1>1, <1>3, Working
  <2>2. Forward(work[v].b)
    BY <2>1
  <2>3. Answered(v)'
    BY <1>1, <2>1, <2>2 DEF Forward, Knows, Answered, Taken, Excused
  <2>4. SawTheEnd(v)'
    BY <1>1, <2>1, <2>2 DEF Forward, Knows, SawTheEnd
  <2>5. Claimed(v)'
    BY <1>1, <2>1, <2>2 DEF Forward, Knows, Claimed, Taken, Excused
  <2> QED BY <2>3, <2>4, <2>5 DEF Knows
<1> QED BY <1>2, <1>3

LEMMA KnowStep == Inv /\ [Next]_vars => KnowInv'
<1> SUFFICES ASSUME Inv, [Next]_vars PROVE KnowInv'
    OBVIOUS
<1>0. /\ TypeOK /\ Typed /\ \A b \in Builds : Forward(b)
      /\ \A b \in Builds : Ended(b) /\ Held(b)
      /\ \A w \in Workers : Knows(w)
  BY ForwardStep DEF Inv, Typed, BuildInv, KnowInv
<1>o. ASSUME NEW w \in Workers, \A v \in Workers \ {w} : work'[v] = work[v], Knows(w)'
      PROVE  KnowInv'
  BY <1>o, <1>0, OthersKnow DEF KnowInv
<1>b. ASSUME NEW w \in Workers, NEW s, Become(w, s)
      PROVE  work'[w] = s /\ \A v \in Workers \ {w} : work'[v] = work[v]
  BY <1>0, <1>b DEF Become, TypeOK
<1>i. ASSUME NEW w \in Workers, NEW s, Become(w, s), s.step \in {"idle", "fail", "bill"}, s.seen = None
      PROVE  KnowInv'
  <2>1. work'[w] = s /\ \A v \in Workers \ {w} : work'[v] = work[v]
    BY <1>i, <1>b
  <2>2. None \notin Over
    BY BuildsAssumption DEF Statuses
  <2>3. Knows(w)'
    BY <1>i, <2>1, <2>2 DEF Knows, Answered, SawTheEnd, Claimed
  <2> QED BY <1>o, <2>1, <2>3
<1>w. ASSUME UNCHANGED work PROVE KnowInv'
  BY <1>w, <1>0, OthersKnow DEF KnowInv
<1>2. ASSUME NEW w \in Workers, NEW b \in Builds, Start(w, b) PROVE KnowInv'
  <2> DEFINE s == [Idle EXCEPT !.kind = "start", !.step = "reserve", !.b = b, !.seen = row[b]]
  <2>1. work'[w] = s /\ \A v \in Workers \ {w} : work'[v] = work[v]
    BY <1>2, <1>b DEF Start
  <2>2. s.step = "reserve" /\ s.seen = row[b] /\ s.b = b /\ s.late = FALSE
    BY DEF Idle
  <2>3. Knows(w)'
    BY <1>0, <1>2, <2>1, <2>2 DEF Start, Free, Knows, Answered, SawTheEnd, Claimed, Ended, GivenUp, rest, history
  <2> QED BY <1>o, <2>1, <2>3
<1>3. ASSUME NEW w \in Workers, Reserve(w) PROVE KnowInv'
  <2>1. work[w].b \in Builds /\ work[w] \in Work
    BY <1>0, <1>3, Working DEF Reserve
  <2>2. CASE /\ SetRow(work[w].b, IF row[work[w].b] = "pending" THEN "starting" ELSE row[work[w].b])
             /\ Goto(w, "call")
             /\ row[work[w].b] \notin Over
    <3> DEFINE s == [work[w] EXCEPT !.step = "call"]
    <3>1. work'[w] = s /\ \A v \in Workers \ {w} : work'[v] = work[v]
      BY <2>2, <1>b DEF Goto
    <3>2. s.step = "call" /\ s.seen = work[w].seen /\ s.b = work[w].b /\ s.late = work[w].late
      BY <2>1 DEF Work
    <3>3. row'[work[w].b] \notin {"pending"}
      BY <1>0, <2>1, <2>2, Written
    <3>4. s.seen \in Over => \/ s.seen = "failed" /\ s.b \in givenUp'
                             \/ job'[s.b].status \in Over
      BY <1>0, <1>3, <2>1, <2>2, <3>2 DEF Reserve, Knows, SawTheEnd, rest, history
    <3>5. row'[work[w].b] # None /\ ~work[w].late
      BY <1>0, <1>3, <2>1 DEF Reserve, Knows, Claimed, Forward
    <3>6. Knows(w)'
      BY <3>1, <3>2, <3>3, <3>4, <3>5 DEF Knows, Answered, SawTheEnd, Claimed, Taken
    <3> QED BY <1>o, <3>1, <3>6
  <2>3. CASE Become(w, Idle)
    BY <2>3, <1>i DEF Idle
  <2> QED BY <1>3, <2>2, <2>3 DEF Reserve
<1>6. ASSUME NEW w \in Workers, CallAccepted(w) PROVE KnowInv'
  <2> DEFINE s == [work[w] EXCEPT !.step = "store", !.got = Started(job'[work[w].b].status)]
  <2>1. work[w].b \in Builds /\ work[w] \in Work /\ work[w].kind = "start" /\ work[w].step = "call"
    BY <1>0, <1>6, Working DEF CallAccepted, Shape, Idle
  <2>2. work'[w] = s /\ \A v \in Workers \ {w} : work'[v] = work[v]
    BY <1>6, <1>b DEF CallAccepted
  <2>3. job'[work[w].b].status \in {"queued", "running"}
    BY <1>0, <1>6, <2>1 DEF CallAccepted, Accept, TypeOK, Jobs, Over
  <2>4. /\ s.step = "store" /\ s.seen = work[w].seen /\ s.b = work[w].b
        /\ s.got = "running" /\ s.kind = "start" /\ s.late = work[w].late
    BY <2>1, <2>3 DEF Started, Shown, Work
  <2>5. /\ Taken(work[w].b) /\ (s.seen \in Over => s.seen = "failed" /\ work[w].b \in givenUp)
        /\ UNCHANGED <<row, reopened, givenUp>>
    BY <1>0, <1>6, <2>1, <2>4 DEF CallAccepted, Knows, Claimed, SawTheEnd, rest, history
  <2>6. ~work[w].late
    BY <1>0, <2>1 DEF Knows, Claimed
  <2>7. Knows(w)'
    BY <2>2, <2>4, <2>5, <2>6 DEF Knows, Answered, SawTheEnd, Claimed, Over, Taken, Excused
  <2> QED BY <1>o, <2>2, <2>7
<1>7. ASSUME NEW w \in Workers, CallRefused(w) \/ CallLost(w) PROVE KnowInv'
  BY <1>7, <1>i DEF CallRefused, CallLost, Idle
<1>8. ASSUME NEW w \in Workers, StoreStarted(w) \/ StoreFailed(w) \/ Bill(w) \/ Die(w)
      PROVE  KnowInv'
  BY <1>8, <1>i DEF StoreStarted, StoreFailed, Bill, Die, Idle
<1>9. ASSUME NEW w \in Workers, MarkAsFailed(w) PROVE KnowInv'
  <2> DEFINE s == [work[w] EXCEPT !.step = "failStore", !.seen = row[work[w].b]]
  <2>1. work[w] \in Work
    BY <1>0, <1>9, Working DEF MarkAsFailed
  <2>2. CASE Become(w, Idle)
    BY <2>2, <1>i DEF Idle
  <2>3. CASE Become(w, s)
    <3>1. work'[w] = s /\ \A v \in Workers \ {w} : work'[v] = work[v]
      BY <2>3, <1>b
    <3>2. s.step = "failStore"
      BY <2>1 DEF Work
    <3>3. Knows(w)'
      BY <3>1, <3>2 DEF Knows, Answered, SawTheEnd, Claimed
    <3> QED BY <1>o, <3>1, <3>3
  <2> QED BY <1>9, <2>2, <2>3 DEF MarkAsFailed
<1>11. ASSUME NEW w \in Workers, NEW b \in Builds, NEW kind, Poll(w, b, kind) PROVE KnowInv'
  <2> DEFINE s == [Idle EXCEPT !.kind = kind, !.step = "get", !.b = b, !.seen = row[b]]
  <2>1. work'[w] = s /\ \A v \in Workers \ {w} : work'[v] = work[v]
    BY <1>11, <1>b DEF Poll
  <2>2. s.step = "get" /\ s.seen = row[b] /\ s.b = b
    BY DEF Idle
  <2>3. row[b] \in Over => (row[b] = "failed" /\ b \in givenUp') \/ job'[b].status \in Over
    BY <1>0 DEF Ended, GivenUp, Forward
  <2>4. Knows(w)'
    BY <2>1, <2>2, <2>3 DEF Knows, Answered, SawTheEnd, Claimed
  <2> QED BY <1>o, <2>1, <2>4
<1>12. ASSUME NEW w \in Workers, Get(w) PROVE KnowInv'
  <2> DEFINE b == work[w].b
             j == job[b]
             over == j.status \in Over
  <2>0. PICK late \in TimedOut(j) :
          Become(w, [work[w] EXCEPT
                       !.step = IF late /\ ~over THEN "cancel" ELSE "store",
                       !.got = IF late /\ over THEN "failed" ELSE Shown(j.status),
                       !.late = late /\ over])
    BY <1>12 DEF Get
  <2> DEFINE s == [work[w] EXCEPT
                     !.step = IF late /\ ~over THEN "cancel" ELSE "store",
                     !.got = IF late /\ over THEN "failed" ELSE Shown(j.status),
                     !.late = late /\ over]
  <2>1. b \in Builds /\ work[w].kind \in {"poll", "cron"} /\ work[w] \in Work /\ work[w].step = "get"
    BY <1>0, <1>12, Working DEF Get, Shape, Idle
  <2>2. work'[w] = s /\ \A v \in Workers \ {w} : work'[v] = work[v]
    BY <2>0, <1>b
  <2>3. j.status \in {"pending", "queued", "running"} \cup Over
    BY <1>0, <2>1 DEF TypeOK, Jobs, Over
  <2>4. /\ s.b = b /\ s.kind = work[w].kind /\ s.seen = work[w].seen
        /\ s.step = IF late /\ ~over THEN "cancel" ELSE "store"
        /\ s.got = IF late /\ over THEN "failed" ELSE Shown(j.status)
        /\ s.late = (late /\ over)
    BY <2>1 DEF Work
  <2>5. UNCHANGED <<row, job, reopened, givenUp>>
    BY <1>12 DEF Get, rest, history
  <2>6. s.got = "running" => Taken(b)
    <3>1. ASSUME s.got = "running" PROVE Active(b)
      BY <2>3, <2>4, <3>1 DEF Shown, Active, Over
    <3>2. Active(b) => Taken(b)
      BY <1>0, <2>1, BuildsAssumption DEF Held, HoldsSlot, Taken, Statuses
    <3> QED BY <3>1, <3>2
  <2>7. s.got \in {"pending", "running"} \cup Over /\ (s.got \in Over <=> over)
    BY <2>3, <2>4 DEF Shown, Over
  <2>8. s.seen \in Over => (s.seen = "failed" /\ b \in givenUp) \/ over
    BY <1>0, <2>1, <2>4 DEF Knows, SawTheEnd
  <2>9. Answered(w)'
    BY <2>1, <2>2, <2>4, <2>5, <2>6, <2>7 DEF Answered, Taken, Excused
  <2>10. SawTheEnd(w)'
    BY <2>1, <2>2, <2>4, <2>5, <2>7, <2>8 DEF SawTheEnd
  <2>11. Claimed(w)'
    BY <2>2, <2>4 DEF Claimed
  <2> QED BY <1>o, <2>2, <2>9, <2>10, <2>11 DEF Knows
<1>13. ASSUME NEW w \in Workers, CancelLate(w) PROVE KnowInv'
  <2> DEFINE b == work[w].b
             s == [work[w] EXCEPT !.step = "store", !.got = "failed", !.late = TRUE]
             t == [work[w] EXCEPT !.step = "store"]
  <2>1. b \in Builds /\ work[w].kind \in {"poll", "cron"} /\ work[w] \in Work /\ work[w].step = "cancel"
    BY <1>0, <1>13, Working DEF CancelLate, Shape, Idle
  <2>2. UNCHANGED <<row, reopened, givenUp>>
    BY <1>13 DEF CancelLate, rest, history
  <2>3. work[w].seen \in Over => work[w].seen = "failed" /\ b \in givenUp
    BY <1>0, <2>1 DEF Knows, SawTheEnd
  <2>4. CASE CancelJob(b) /\ Become(w, s)
    <3>1. work'[w] = s /\ \A v \in Workers \ {w} : work'[v] = work[v]
      BY <2>4, <1>b
    <3>2. /\ s.b = b /\ s.kind = work[w].kind /\ s.seen = work[w].seen
          /\ s.step = "store" /\ s.got = "failed" /\ s.late = TRUE
      BY <2>1 DEF Work
    <3>3. job'[b].status \in Over
      BY <1>0, <2>1, <2>4 DEF CancelJob, TypeOK, Jobs, Over
    <3>4. Knows(w)'
      BY <2>1, <2>2, <2>3, <3>1, <3>2, <3>3 DEF Knows, Answered, SawTheEnd, Claimed, Over
    <3> QED BY <1>o, <3>1, <3>4
  <2>5. CASE Become(w, t) /\ UNCHANGED job
    <3>1. work'[w] = t /\ \A v \in Workers \ {w} : work'[v] = work[v]
      BY <2>5, <1>b
    <3>2. /\ t.b = b /\ t.kind = work[w].kind /\ t.seen = work[w].seen
          /\ t.step = "store" /\ t.got = work[w].got /\ t.late = work[w].late
      BY <2>1 DEF Work
    <3>3. Answered(w)
      BY <1>0 DEF Knows
    <3>4. Answered(w)'
      BY <2>1, <2>2, <2>5, <3>1, <3>2, <3>3 DEF Answered, Taken, Excused
    <3>5. SawTheEnd(w)' /\ Claimed(w)'
      BY <2>2, <2>3, <3>1, <3>2 DEF SawTheEnd, Claimed
    <3> QED BY <1>o, <3>1, <3>4, <3>5 DEF Knows
  <2> QED BY <1>13, <2>4, <2>5 DEF CancelLate, NotCancelled
<1>14. ASSUME NEW w \in Workers, StorePolled(w) PROVE KnowInv'
  BY <1>14, <1>i DEF StorePolled, Idle
<1>17. CASE \/ \E b \in Builds : Request(b) \/ Cancel(b) \/ Run(b) \/ End(b) \/ RunOn(b) \/ Age(b)
            \/ OtherStarts \/ OtherEnds \/ UNCHANGED vars
  BY <1>17, <1>w DEF Request, Cancel, Run, End, RunOn, Age, OtherStarts, OtherEnds, vars
<1> QED BY <1>2, <1>3, <1>6, <1>7, <1>8, <1>9, <1>11, <1>12, <1>13, <1>14, <1>17
        DEF Next, Steps, Reconcile, Workers

-----------------------------------------------------------------------------
(* What is true of the builds *)

GoodBuild(b) == Ended(b) /\ Announced(b) /\ Due(b) /\ Held(b)

\* A step that leaves a build's row alone and starts no job without a slot.
LEMMA Untouched ==
  ASSUME Inv, NEW b \in Builds, Forward(b),
         row'[b] = row[b], UNCHANGED <<ends[b], takenBack[b]>>,
         Active(b)' => HoldsSlot(b) \/ b \in Excused
  PROVE  GoodBuild(b)'
<1>0. Ended(b) /\ Announced(b) /\ Due(b)
  BY DEF Inv, BuildInv
<1>1. Ended(b)'
  BY <1>0 DEF Ended, GivenUp, Forward
<1>2. Announced(b)'
  BY <1>0 DEF Announced
<1>3. ASSUME row'[b] \in Over, job'[b].time # "none"
      PROVE  Settled(b)' \/ GivenUp(b)' \/ Unpaid(b)'
  <2>1. CASE GivenUp(b)
    BY <2>1 DEF GivenUp, Forward
  <2>2. CASE ~GivenUp(b)
    <3>1. job'[b] = job[b]
      BY <1>0, <1>3, <2>2 DEF Ended, Forward
    <3>2. Settled(b) \/ Unpaid(b)
      BY <1>0, <1>3, <2>2, <3>1 DEF Due
    <3> QED BY <3>2 DEF Forward, Unpaid
  <2> QED BY <2>1, <2>2
<1>4. Held(b)'
  BY DEF Held, HoldsSlot, Forward
<1> QED BY <1>1, <1>2, <1>3, <1>4 DEF GoodBuild, Due

\* A build that a start marks as failed is given up.
LEMMA GivingUp ==
  ASSUME Inv, NEW b \in Builds, row'[b] = "failed", b \in givenUp',
         takenBack'[b] = takenBack[b],
         \/ ends'[b] = ends[b]
         \/ ends'[b] = ends[b] + 1 /\ row[b] \notin Over
  PROVE  GoodBuild(b)'
<1>1. GivenUp(b)' /\ row'[b] \in Over
  BY DEF GivenUp, Over
<1>2. Announced(b) /\ ends[b] \in Nat /\ takenBack[b] \in Nat
  BY DEF Inv, BuildInv, Typed, TypeOK
<1>3. Announced(b)'
  BY <1>1, <1>2 DEF Announced
<1> QED BY <1>1, <1>3 DEF GoodBuild, Ended, Due, Held, Excused

LEMMA BuildStep == Inv /\ [Next]_vars => BuildInv'
<1> SUFFICES ASSUME Inv, [Next]_vars, NEW b \in Builds PROVE GoodBuild(b)'
    BY DEF BuildInv, GoodBuild
<1>0. /\ TypeOK /\ Typed /\ Forward(b)
      /\ Ended(b) /\ Announced(b) /\ Due(b) /\ Held(b)
      /\ \A w \in Workers : Knows(w)
      /\ ends[b] \in Nat /\ takenBack[b] \in Nat
  BY ForwardStep DEF Inv, Typed, TypeOK, BuildInv, KnowInv
<1>u. ASSUME UNCHANGED <<row, ends, takenBack>>, job'[b] = job[b] \/ (Active(b)' => Active(b))
      PROVE  GoodBuild(b)'
  BY <1>0, <1>u, Untouched DEF Active, Held
<1>1. ASSUME NEW c \in Builds, Request(c) PROVE GoodBuild(b)'
  <2>1. /\ row[c] = None /\ row' = [row EXCEPT ![c] = "pending"]
        /\ UNCHANGED <<job, ends, takenBack, reopened, givenUp>>
    BY <1>1 DEF Request, SetRow, rest, history, told
  <2>2. CASE c # b
    BY <1>0, <2>1, <2>2, Untouched DEF Active, Held, TypeOK
  <2>3. CASE c = b
    <3>1. row'[b] = "pending" /\ row[b] = None
      BY <1>0, <2>1, <2>3 DEF TypeOK
    <3>2. None \notin Over \cup {"starting", "running"}
      BY BuildsAssumption DEF Statuses
    <3>3. Ended(b)' /\ Due(b)' /\ Announced(b)'
      BY <1>0, <2>1, <3>1, <3>2 DEF Ended, Due, Announced, Over
    <3>4. Held(b)'
      BY <1>0, <2>1, <3>1, <3>2 DEF Held, Active, HoldsSlot, Excused
    <3> QED BY <3>3, <3>4 DEF GoodBuild
  <2> QED BY <2>2, <2>3
<1>2. ASSUME NEW w \in Workers, NEW c \in Builds, NEW kind, Start(w, c) \/ Poll(w, c, kind)
      PROVE  GoodBuild(b)'
  BY <1>2, <1>u DEF Start, Poll, rest, history, told
<1>3. ASSUME NEW w \in Workers, Reserve(w) PROVE GoodBuild(b)'
  <2>1. work[w].b \in Builds
    BY <1>0, <1>3, Working DEF Reserve
  <2>2. UNCHANGED <<job, ends, takenBack, reopened, givenUp>>
    BY <1>3 DEF Reserve, rest, history, told
  <2>3. CASE row'[b] = row[b]
    BY <1>0, <2>2, <2>3, Untouched DEF Active, Held
  <2>4. CASE row'[b] # row[b]
    <3>1. row[b] = "pending" /\ row'[b] = "starting"
      BY <1>0, <1>3, <2>1, <2>4, Written DEF Reserve
    <3>2. Ended(b)' /\ Due(b)' /\ Announced(b)'
      BY <1>0, <2>2, <3>1 DEF Ended, Due, Announced, Over
    <3>3. Held(b)'
      BY <3>1 DEF Held, HoldsSlot
    <3> QED BY <3>2, <3>3 DEF GoodBuild
  <2> QED BY <2>3, <2>4
<1>4. CASE OtherStarts \/ OtherEnds
  BY <1>4, <1>u DEF OtherStarts, OtherEnds, history, told
<1>6. ASSUME NEW w \in Workers, CallAccepted(w) \/ CallLost(w) PROVE GoodBuild(b)'
  <2>1. work[w].b \in Builds /\ work[w].step = "call"
    BY <1>0, <1>6, Working DEF CallAccepted, CallLost
  <2>2. UNCHANGED <<row, ends, takenBack>>
    BY <1>6 DEF CallAccepted, CallLost, rest, history, told
  <2>3. CASE job'[b] = job[b]
    BY <1>u, <2>2, <2>3
  <2>4. CASE job'[b] # job[b]
    <3>1. b = work[w].b /\ job[b].status = "pending"
      BY <1>0, <1>6, <2>1, <2>4 DEF CallAccepted, CallLost, Accept, TypeOK
    <3>2. Taken(b)
      BY <1>0, <2>1, <3>1 DEF Knows, Claimed
    <3>3. row[b] \in Over => b \in Excused
      BY <1>0, <3>1 DEF Ended, GivenUp, Over, Excused
    <3>4. HoldsSlot(b) \/ b \in Excused
      BY <1>0, <3>2, <3>3 DEF Taken, HoldsSlot, Statuses, TypeOK
    <3> QED BY <1>0, <2>2, <3>4, Untouched
  <2> QED BY <2>3, <2>4
<1>7. ASSUME NEW w \in Workers, CallRefused(w) PROVE GoodBuild(b)'
  BY <1>7, <1>u DEF CallRefused, rest, history, told
<1>8. ASSUME NEW w \in Workers, StoreStarted(w) PROVE GoodBuild(b)'
  <2>1. work[w].b \in Builds /\ work[w].got = "running" /\ work[w].got \in Statuses
    BY <1>0, <1>8, Working DEF StoreStarted, Knows, Answered
  <2>2. UNCHANGED <<job, reopened, givenUp>>
    BY <1>8 DEF StoreStarted
  <2>3. \/ row'[b] = row[b] /\ UNCHANGED <<ends[b], takenBack[b]>>
        \/ /\ row'[b] = "running" /\ ends'[b] = ends[b]
           /\ takenBack'[b] = takenBack[b] + (IF row[b] \in Over THEN 1 ELSE 0)
    <3>1. CASE UNCHANGED <<row, stale, told>>
      BY <3>1 DEF told
    <3>2. CASE Store(work[w].b, work[w].seen, work[w].got, FALSE)
      <4>1. work[w].got \notin Over /\ FALSE \in BOOLEAN
        BY <2>1 DEF Over
      <4>2. CASE b # work[w].b
        <5>1. \A c \in Builds \ {work[w].b} : row'[c] = row[c] /\ UNCHANGED <<ends[c], takenBack[c]>>
          BY <1>0, <2>1, <3>2, <4>1, Stored
        <5> QED BY <4>2, <5>1
      <4>3. CASE b = work[w].b
        <5>1. Store(b, work[w].seen, work[w].got, FALSE)
          BY <3>2, <4>3
        <5>2. "running" \notin {"succeeded", "failed"}
          OBVIOUS
        <5> QED BY <1>0, <2>1, <4>1, <5>1, <5>2, Stored
      <4> QED BY <4>2, <4>3
    <3> QED BY <1>8, <3>1, <3>2 DEF StoreStarted
  <2>4. CASE row'[b] = row[b] /\ UNCHANGED <<ends[b], takenBack[b]>>
    BY <1>0, <2>2, <2>4, Untouched DEF Active, Held
  <2>5. CASE /\ row'[b] = "running" /\ ends'[b] = ends[b]
             /\ takenBack'[b] = takenBack[b] + (IF row[b] \in Over THEN 1 ELSE 0)
    <3>1. Ended(b)' /\ Due(b)' /\ Held(b)'
      BY <2>5 DEF Ended, Due, Held, HoldsSlot, Over
    <3>2. Announced(b)'
      BY <1>0, <2>5 DEF Announced
    <3> QED BY <3>1, <3>2 DEF GoodBuild
  <2> QED BY <2>3, <2>4, <2>5
<1>9. ASSUME NEW w \in Workers, MarkAsFailed(w) PROVE GoodBuild(b)'
  <2>1. work[w].b \in Builds /\ UNCHANGED <<job, ends, takenBack>>
    BY <1>0, <1>9, Working DEF MarkAsFailed, told
  <2>2. CASE UNCHANGED row
    BY <1>u, <2>1, <2>2
  <2>3. CASE SetRow(work[w].b, "failed") /\ givenUp' = givenUp \cup {work[w].b}
    <3>1. CASE work[w].b = b
      BY <1>0, <2>1, <2>3, <3>1, Written, GivingUp
    <3>2. CASE work[w].b # b
      BY <1>0, <2>1, <2>3, <3>2, Written, Untouched DEF Active, Held
    <3> QED BY <3>1, <3>2
  <2> QED BY <1>9, <2>2, <2>3 DEF MarkAsFailed
<1>10. ASSUME NEW w \in Workers, StoreFailed(w) PROVE GoodBuild(b)'
  <2>1. work[w].b \in Builds /\ "failed" \in Statuses /\ UNCHANGED job
    BY <1>0, <1>10, Working DEF StoreFailed, Statuses, Over
  <2>2. CASE row'[b] = row[b] /\ UNCHANGED <<ends[b], takenBack[b]>>
    BY <1>0, <2>1, <2>2, Untouched DEF Active, Held
  <2>3. CASE ~(row'[b] = row[b] /\ UNCHANGED <<ends[b], takenBack[b]>>)
    <3>0. ~UNCHANGED <<row, stale, told, givenUp>>
      BY <2>3 DEF told
    <3>1. /\ Store(work[w].b, work[w].seen, "failed", FALSE)
          /\ Unchanged(work[w].b, work[w].seen) => work[w].b \in givenUp'
      BY <1>10, <3>0 DEF StoreFailed
    <3>2. b = work[w].b
      BY <1>0, <2>1, <2>3, <3>1, Stored
    <3>3. "failed" \in Over
      BY DEF Over
    <3>4. /\ row[b] = work[w].seen /\ row'[b] = "failed"
          /\ takenBack'[b] = takenBack[b]
          /\ \/ ends'[b] = ends[b]
             \/ ends'[b] = ends[b] + 1 /\ row[b] \notin Over
      <4>1. Store(b, work[w].seen, "failed", FALSE)
        BY <3>1, <3>2
      <4>2. takenBack[b] \in Nat /\ FALSE \in BOOLEAN
        BY <1>0
      <4>3. \/ row'[b] = row[b] /\ UNCHANGED <<ends[b], takenBack[b]>>
            \/ /\ row[b] = work[w].seen
               /\ row'[b] = "failed"
               /\ \/ ends'[b] = ends[b]
                  \/ /\ ends'[b] = ends[b] + 1
                     /\ row[b] \notin Over
               /\ takenBack'[b] = takenBack[b] + 0
        BY <1>0, <2>1, <3>3, <4>1, <4>2, Stored
      <4> QED BY <2>3, <4>2, <4>3
    <3> QED BY <3>1, <3>2, <3>4, GivingUp DEF Unchanged
  <2> QED BY <2>2, <2>3
<1>12. ASSUME NEW w \in Workers, Get(w) PROVE GoodBuild(b)'
  BY <1>12, <1>u DEF Get, rest, history, told
<1>13. ASSUME NEW w \in Workers, CancelLate(w) PROVE GoodBuild(b)'
  <2>1. work[w].b \in Builds
    BY <1>0, <1>13, Working DEF CancelLate
  <2>2. Active(b)' => Active(b)
    BY <1>0, <1>13, <2>1 DEF CancelLate, CancelJob, Active, TypeOK, Jobs, Over
  <2> QED BY <1>13, <1>u, <2>2 DEF CancelLate, rest, history, told
<1>14. ASSUME NEW w \in Workers, StorePolled(w) PROVE GoodBuild(b)'
  <2>1. /\ work[w].b \in Builds /\ work[w].kind \in {"poll", "cron"} /\ work[w].step = "store"
        /\ work[w].got \in Statuses /\ work[w].late \in BOOLEAN
        /\ work[w].got \in {"pending", "running"} \cup Over
        /\ work[w].got \in Over => job[work[w].b].status \in Over
        /\ work[w].late => work[w].got = "failed"
    BY <1>0, <1>14, Working DEF StorePolled, Knows, Answered, Work
  <2>2. UNCHANGED <<job, givenUp>>
    BY <1>14 DEF StorePolled
  <2>3. /\ b # work[w].b => row'[b] = row[b] /\ UNCHANGED <<ends[b], takenBack[b]>>
        /\ \/ row'[b] = row[b] /\ UNCHANGED <<ends[b], takenBack[b]>>
           \/ /\ row'[b] = work[w].got
              /\ \/ ends'[b] = ends[b]
                 \/ /\ ends'[b] = ends[b] + 1
                    /\ row[b] \notin Over
                    /\ work[w].got \in Over
              /\ takenBack'[b] = takenBack[b] + (IF row[b] \in Over /\ work[w].got \notin Over THEN 1 ELSE 0)
    BY <1>0, <1>14, <2>1, Stored DEF StorePolled, told, Over
  <2>4. CASE row'[b] = row[b]
    BY <1>0, <2>2, <2>3, <2>4, Untouched DEF Active, Held
  <2>5. CASE row'[b] # row[b]
    <3>1. b = work[w].b /\ row'[b] = work[w].got
      BY <2>3, <2>5
    <3>2. Ended(b)'
      BY <2>1, <2>2, <3>1 DEF Ended
    <3>3. Announced(b)'
      BY <1>0, <2>3, <2>5, <3>1 DEF Announced
    <3>4. Due(b)'
      <4>1. SUFFICES ASSUME row'[b] \in Over, job'[b].time # "none"
                     PROVE  Settled(b)' \/ Unpaid(b)'
        BY DEF Due
      <4>2. CASE ToBill(w)
        <5>1. work'[w] = [Idle EXCEPT !.step = "bill", !.b = work[w].b]
          BY <1>0, <1>14, <4>2 DEF StorePolled, Become, TypeOK
        <5>2. work'[w].step = "bill" /\ work'[w].b = b
          BY <3>1, <5>1 DEF Idle
        <5> QED BY <5>2 DEF Settled
      <4>3. CASE ~ToBill(w)
        <5>1. work[w].kind = "poll" /\ row'[b] = "cancelled"
          BY <2>1, <2>2, <3>1, <4>1, <4>3 DEF ToBill, Paid, Over
        <5>2. b \in unpaid'
          BY <1>14, <2>5, <3>1, <5>1 DEF StorePolled
        <5> QED BY <5>1, <5>2 DEF Unpaid
      <4> QED BY <4>2, <4>3
    <3>5. Held(b)'
      <4>1. CASE row'[b] \in Over
        BY <2>1, <2>2, <3>1, <4>1 DEF Held, Active, Over
      <4>2. CASE row'[b] = "running"
        BY <4>2 DEF Held, HoldsSlot
      <4>3. CASE row'[b] = "pending"
        BY <1>0, <1>14, <2>2, <3>1, <4>3 DEF StorePolled, Held, Active, Excused
      <4> QED BY <2>1, <3>1, <4>1, <4>2, <4>3
    <3> QED BY <3>2, <3>3, <3>4, <3>5 DEF GoodBuild
  <2> QED BY <2>4, <2>5
<1>15. ASSUME NEW w \in Workers, Bill(w) \/ Die(w) PROVE GoodBuild(b)'
  BY <1>15, <1>u DEF Bill, Die, history, told
<1>17. ASSUME NEW c \in Builds, Cancel(c) \/ Run(c) \/ End(c) \/ RunOn(c) \/ Age(c)
       PROVE  GoodBuild(b)'
  <2>1. Active(b)' => Active(b)
    BY <1>0, <1>17 DEF Cancel, CancelJob, Run, End, RunOn, Age, Active, TypeOK, Jobs, Over, rest
  <2> QED BY <1>17, <1>u, <2>1 DEF Cancel, Run, End, RunOn, Age, rest, history, told
<1>20. CASE UNCHANGED vars
  BY <1>20, <1>u DEF vars, rest, history, told
<1> QED BY <1>1, <1>2, <1>3, <1>4, <1>6, <1>7, <1>8, <1>9, <1>10, <1>12, <1>13,
          <1>14, <1>15, <1>17, <1>20 DEF Next, Steps, Reconcile, Workers

-----------------------------------------------------------------------------
(* The slots of the plan *)

LEMMA Countable ==
  ASSUME NEW S \in SUBSET Builds
  PROVE  IsFiniteSet(S) /\ Cardinality(S) \in Nat
BY BuildsAssumption, FS_Subset, FS_CardinalityType

LEMMA SlotsFinite == Holding \subseteq Builds /\ Holding' \subseteq Builds
BY DEF Holding

\* A step that gives no build a slot, apart from those already excused.
LEMMA NoSlotTaken ==
  ASSUME Inv, Holding' \subseteq Holding, others' \in Nat, others' <= others
  PROVE  Planned'
<1>1. Cardinality(Holding') <= Cardinality(Holding)
  BY SlotsFinite, Countable, FS_Subset
<1>2. Planned /\ TypeOK
  BY DEF Inv, Typed
<1> QED BY <1>1, <1>2, SlotsFinite, Countable, BuildsAssumption DEF Planned, TypeOK

LEMMA PlanStep == Inv /\ [Next]_vars => Planned'
<1> SUFFICES ASSUME Inv, [Next]_vars PROVE Planned'
    OBVIOUS
<1>0. /\ TypeOK /\ Typed /\ Planned
      /\ \A b \in Builds : Forward(b)
      /\ \A w \in Workers : Knows(w)
      /\ others \in Nat
  BY ForwardStep, BuildsAssumption DEF Inv, Typed, KnowInv, TypeOK
<1>n. ASSUME UNCHANGED others,
             \A b \in Builds : (b \notin Excused' /\ row'[b] \in {"starting", "running"})
                                 => HoldsSlot(b)
      PROVE  Planned'
  <2>1. Holding' \subseteq Holding
    BY <1>0, <1>n DEF Holding, HoldsSlot, Forward
  <2> QED BY <1>0, <1>n, <2>1, NoSlotTaken
<1>u. ASSUME UNCHANGED <<others, row>> PROVE Planned'
  BY <1>n, <1>u DEF HoldsSlot
<1>1. ASSUME NEW b \in Builds, Request(b) PROVE Planned'
  BY <1>0, <1>1, <1>n DEF Request, SetRow, HoldsSlot, rest, TypeOK
<1>3. ASSUME NEW w \in Workers, Reserve(w) PROVE Planned'
  <2> DEFINE b == work[w].b
             Rest == {o \in Builds \ {b} : HoldsSlot(o)}
  <2>1. b \in Builds /\ UNCHANGED <<others, reopened, givenUp>>
    BY <1>0, <1>3, Working DEF Reserve, rest, history
  <2>2. CASE UNCHANGED row
    BY <1>u, <2>1, <2>2
  <2>3. CASE /\ SetRow(b, IF row[b] = "pending" THEN "starting" ELSE row[b])
             /\ others + Cardinality(Rest) < Limit
    <3>1. Holding' \subseteq Rest \cup {b}
      BY <1>0, <2>1, <2>3, Written DEF Holding, HoldsSlot
    <3>2. IsFiniteSet(Rest) /\ Cardinality(Rest) \in Nat
      BY Countable
    <3>3. /\ IsFiniteSet(Rest \cup {b})
          /\ Cardinality(Rest \cup {b}) = Cardinality(Rest) + 1
      BY <3>2, FS_AddElement
    <3>4. Cardinality(Holding') <= Cardinality(Rest) + 1
      BY <3>1, <3>3, FS_Subset
    <3>5. Cardinality(Holding') \in Nat
      BY SlotsFinite, Countable
    <3> QED BY <1>0, <2>1, <2>3, <3>2, <3>4, <3>5, BuildsAssumption DEF Planned
  <2> QED BY <1>3, <2>2, <2>3 DEF Reserve
<1>4. CASE OtherStarts
  <2> DEFINE All == {b \in Builds : HoldsSlot(b)}
  <2>1. IsFiniteSet(All) /\ Cardinality(All) \in Nat
    BY Countable
  <2>2. Holding' \subseteq All
    BY <1>4 DEF OtherStarts, Holding, HoldsSlot
  <2>3. Cardinality(Holding') <= Cardinality(All)
    BY <2>1, <2>2, FS_Subset
  <2>4. others' = others + 1 /\ others + Cardinality(All) < Limit
    BY <1>4 DEF OtherStarts
  <2>5. Cardinality(Holding') \in Nat
    BY SlotsFinite, Countable
  <2> QED BY <1>0, <2>1, <2>3, <2>4, <2>5, BuildsAssumption DEF Planned
<1>5. CASE OtherEnds
  <2>1. Holding' \subseteq Holding
    BY <1>5 DEF OtherEnds, Holding, HoldsSlot, Excused, history
  <2>2. others' \in Nat /\ others' <= others
    BY <1>0, <1>5 DEF OtherEnds
  <2> QED BY <2>1, <2>2, NoSlotTaken
<1>2. ASSUME NEW w \in Workers, NEW b \in Builds, NEW kind, Start(w, b) \/ Poll(w, b, kind)
      PROVE  Planned'
  BY <1>2, <1>u DEF Start, Poll, rest
<1>6. ASSUME NEW w \in Workers,
             \/ CallAccepted(w) \/ CallRefused(w) \/ CallLost(w)
             \/ Get(w) \/ CancelLate(w) \/ Bill(w) \/ Die(w)
      PROVE  Planned'
  BY <1>6, <1>u DEF CallAccepted, CallRefused, CallLost, Get, CancelLate, Bill, Die, rest
<1>8. ASSUME NEW w \in Workers, StoreStarted(w) PROVE Planned'
  <2>1. /\ work[w].b \in Builds
        /\ work[w].got = "running" /\ work[w].got \in Statuses
        /\ Taken(work[w].b)
        /\ work[w].seen \in Over => work[w].b \in givenUp
    BY <1>0, <1>8, Working DEF StoreStarted, Knows, Answered, SawTheEnd
  <2>2. UNCHANGED <<others, reopened, givenUp>>
    BY <1>8 DEF StoreStarted
  <2>3. /\ \A c \in Builds \ {work[w].b} : row'[c] = row[c]
        /\ row'[work[w].b] = row[work[w].b] \/ row[work[w].b] = work[w].seen
    <3>1. CASE UNCHANGED row
      BY <3>1
    <3>2. CASE Store(work[w].b, work[w].seen, work[w].got, FALSE)
      BY <1>0, <2>1, <3>2, Stored
    <3> QED BY <1>8, <3>1, <3>2 DEF StoreStarted
  <2>4. ASSUME NEW c \in Builds, c \notin Excused', row'[c] \in {"starting", "running"}
        PROVE  HoldsSlot(c)
    BY <1>0, <2>1, <2>2, <2>3, <2>4 DEF HoldsSlot, Taken, Excused, Statuses, TypeOK
  <2> QED BY <1>n, <2>2, <2>4
<1>9. ASSUME NEW w \in Workers, MarkAsFailed(w) \/ StoreFailed(w) PROVE Planned'
  <2>1. work[w].b \in Builds /\ "failed" \in Statuses
    BY <1>0, <1>9, Working DEF MarkAsFailed, StoreFailed, Statuses, Over
  <2>2. /\ \A c \in Builds \ {work[w].b} : row'[c] = row[c]
        /\ row'[work[w].b] = row[work[w].b] \/ row'[work[w].b] = "failed"
    <3>1. CASE UNCHANGED row
      BY <3>1
    <3>2. CASE SetRow(work[w].b, "failed")
      BY <1>0, <2>1, <3>2, Written
    <3>3. CASE Store(work[w].b, work[w].seen, "failed", FALSE)
      BY <1>0, <2>1, <3>3, Stored
    <3> QED BY <1>9, <3>1, <3>2, <3>3 DEF MarkAsFailed, StoreFailed
  <2> QED BY <1>9, <1>n, <2>2 DEF MarkAsFailed, StoreFailed, HoldsSlot
<1>14. ASSUME NEW w \in Workers, StorePolled(w) PROVE Planned'
  <2>1. /\ work[w].b \in Builds
        /\ work[w].got \in Statuses /\ work[w].late \in BOOLEAN
        /\ work[w].got \in {"pending", "running"} \cup Over
        /\ work[w].got = "running" => Taken(work[w].b)
        /\ work[w].kind # "start" /\ work[w].step = "store"
        /\ work[w].seen \in Over =>
             work[w].got \in Over \/ (work[w].seen = "failed" /\ work[w].b \in givenUp)
    BY <1>0, <1>14, Working DEF StorePolled, Knows, Answered, SawTheEnd, Work
  <2>2. UNCHANGED <<others, givenUp>> /\ reopened \subseteq reopened'
    BY <1>14 DEF StorePolled
  <2>3. /\ \A c \in Builds \ {work[w].b} : row'[c] = row[c]
        /\ \/ row'[work[w].b] = row[work[w].b]
           \/ row[work[w].b] = work[w].seen /\ row'[work[w].b] = work[w].got
    BY <1>0, <1>14, <2>1, Stored DEF StorePolled
  <2>4. ASSUME NEW c \in Builds, c \notin Excused', row'[c] \in {"starting", "running"}
        PROVE  HoldsSlot(c)
    <3>1. CASE row'[c] = row[c]
      BY <2>4, <3>1 DEF HoldsSlot
    <3>2. CASE row'[c] # row[c]
      <4>1. c = work[w].b /\ row[c] = work[w].seen /\ work[w].got = "running"
        BY <2>1, <2>3, <2>4, <3>2 DEF Over
      <4> QED BY <1>0, <2>1, <2>2, <2>4, <4>1 DEF HoldsSlot, Taken, Excused, Statuses, Over, TypeOK
    <3> QED BY <3>1, <3>2
  <2> QED BY <1>n, <2>2, <2>4
<1>17. ASSUME NEW c \in Builds, Cancel(c) \/ Run(c) \/ End(c) \/ RunOn(c) \/ Age(c)
       PROVE  Planned'
  BY <1>17, <1>u DEF Cancel, Run, End, RunOn, Age, rest
<1>20. CASE UNCHANGED vars
  BY <1>20, <1>u DEF vars, rest
<1> QED BY <1>1, <1>2, <1>3, <1>4, <1>5, <1>6, <1>8, <1>9, <1>14, <1>17, <1>20
        DEF Next, Steps, Reconcile, Workers

-----------------------------------------------------------------------------
(* The theorems *)

LEMMA InvInit == Init => Inv
<1> SUFFICES ASSUME Init PROVE Inv
    OBVIOUS
<1>1. Typed
  BY TypeInit
<1>2. KnowInv
  <2> SUFFICES ASSUME NEW w \in Workers PROVE Knows(w)
      BY DEF KnowInv
  <2>1. work[w].step = "idle" /\ work[w].seen = None
    BY DEF Init, Idle
  <2> QED BY <2>1, IdleKnows
<1>3. BuildInv
  BY BuildsAssumption
     DEF Init, BuildInv, Ended, Announced, Due, Held, Active, Statuses, Over
<1>4. Holding = {} /\ others = 0
  BY BuildsAssumption DEF Init, Holding, HoldsSlot, Statuses
<1>5. Planned
  BY <1>4, FS_EmptySet, BuildsAssumption DEF Planned
<1> QED BY <1>1, <1>2, <1>3, <1>5 DEF Inv

LEMMA InvStep == Inv /\ [Next]_vars => Inv'
BY TypeStep, KnowStep, BuildStep, PlanStep DEF Inv

LEMMA Invariance == Spec => []Inv
BY InvInit, InvStep, PTL DEF Spec

\* The builder never works on more builds than the plan allows, apart from
\* those whose slot a poll or a start gave back.
THEOREM PlanKept == Spec => []WithinPlan
<1>1. Inv => WithinPlan
  <2> SUFFICES ASSUME Inv PROVE WithinPlan
      OBVIOUS
  <2> DEFINE Works == {b \in Builds : Active(b)} \ (reopened \cup givenUp)
  <2>1. Works \subseteq Holding
    BY DEF Inv, BuildInv, Held, Holding, Excused
  <2>2. Cardinality(Works) <= Cardinality(Holding)
    BY <2>1, SlotsFinite, Countable, FS_Subset
  <2>3. Cardinality(Works) \in Nat /\ Cardinality(Holding) \in Nat /\ others \in Nat
    BY SlotsFinite, Countable, BuildsAssumption DEF Inv, Typed, TypeOK
  <2> QED BY <2>2, <2>3, BuildsAssumption DEF WithinPlan, Inv, Planned
<1> QED BY <1>1, Invariance, PTL

\* A build is shown as over only when the builder is done with it, or as failed
\* when a start has given it up.
THEOREM OversOver == Spec => []OverMeansOver
<1>1. Inv => OverMeansOver
  BY DEF Inv, BuildInv, Ended, OverMeansOver, Active, Over
<1> QED BY <1>1, Invariance, PTL

\* The end of a build is announced at most once more than it was taken back.
THEOREM EndsOnce == Spec => []AnnouncedOnce
<1>1. Inv => AnnouncedOnce
  BY DEF Inv, BuildInv, Announced, AnnouncedOnce
<1> QED BY <1>1, Invariance, PTL

\* A build that ran and is over has its time recorded when nobody works on it any
\* more, unless a start gave it up or a poll was the one to store its cancellation.
THEOREM EndsBilled == Spec => []EndIsBilled
<1>1. Inv => EndIsBilled
  BY DEF Inv, BuildInv, Due, Settled, Unpaid, EndIsBilled
<1> QED BY <1>1, Invariance, PTL

\* An end that is shown is not taken back, by whatever step, but for the failure of
\* a build that a start has given up.
THEOREM NoEndTakenBack == Spec => EndsStand
<1>1. Inv /\ [Next]_vars =>
        [\A b \in Builds : row[b] \in Over => row'[b] \in Over \/ GivenUp(b)]_vars
  BY ForwardStep DEF Forward
<1> QED BY <1>1, Invariance, PTL DEF Spec, EndsStand
=============================================================================
