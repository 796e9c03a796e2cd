---------------------- MODULE WebhookDeliveries_proofs ----------------------
(***************************************************************************)
(* For every number of deliveries and handlers and every bound: the types  *)
(* of WebhookDeliveries, that a pending delivery is in somebody's hand,    *)
(* that a delivery nobody works on tells what became of it, and that the   *)
(* endpoint is not called more often than the attempts and faults allow.   *)
(***************************************************************************)
EXTENDS WebhookDeliveries, Integers, TLAPS

\* A handler that does something works on a delivery.
Shape(j) == job[j] = Idle \/ (job[j].d \in Deliveries /\ job[j].step # "idle")

\* So does an administrator's retry.
RetryShape == retry = NoRetry \/ (retry.d \in Deliveries /\ retry.step # "idle")

Typed == TypeOK /\ (\A j \in Handlers : Shape(j)) /\ RetryShape

\* Before it is queued or posted by its author, nobody else has a delivery.
Fresh(d) ==
  author[d] \in {"none", "event", "test", "queueing", "testing"} =>
    /\ d \notin accepted
    /\ copies[d] = 0
    /\ Working(d) = {}
    /\ retry.d # d
    /\ rows[d] # None => author[d] \in {"queueing", "testing"} /\ rows[d].status = "pending"

\* Somebody is about to write the result, apart from those who have written it.
Responsible(d) ==
  \/ copies[d] > 0
  \/ \E j \in Handlers : job[j].d = d /\ job[j].step \notin {"fail", "disable"}
  \/ author[d] \in {"queueing", "testing"}
  \/ retry = [step |-> "send", d |-> d]
Answerable(d) == Has(d, "pending") => Responsible(d) \/ d \in lost

\* A delivery has one handler, and an acceptance is stored by the one that got
\* it and never written over.
Alone(d) == d \notin disturbed => \A j, k \in Working(d) : j = k
Claims(d) == Has(d, "success") => d \in accepted
Bearer(d) == \E j \in Handlers : job[j].d = d /\ job[j].step = "ok"
Kept(d) ==
  d \in accepted /\ d \notin lost \cup disturbed /\ rows[d] # None =>
    \/ Bearer(d)
    \/ Has(d, "success") /\ \A j \in Working(d) : job[j].step = "row"

Good(d) == Fresh(d) /\ Answerable(d) /\ Alone(d) /\ Claims(d) /\ Kept(d)
Bears(j) == job[j].step = "ok" => job[j].d \in accepted
Gone == hook = "deleted" => \A d \in Deliveries : rows[d] = None
Inv == Typed /\ (\A j \in Handlers : Bears(j)) /\ (\A d \in Deliveries : Good(d)) /\ Gone

-----------------------------------------------------------------------------
(* Types *)

LEMMA TypeInit == Init => Typed
BY WebhookAssumption DEF Init, Typed, TypeOK, Shape, RetryShape, Idle, NoRetry, Jobs

\* A handler's new state types job and leaves the others alone.
LEMMA Becoming ==
  ASSUME TypeOK, NEW j \in Handlers, NEW s \in Jobs, Become(j, s)
  PROVE  /\ job' \in [Handlers -> Jobs]
         /\ job'[j] = s
         /\ \A k \in Handlers \ {j} : job'[k] = job[k]
BY DEF Become, TypeOK

\* A handler that goes on stays in shape, and so do the others.
LEMMA Shaping ==
  ASSUME Typed, NEW j \in Handlers, NEW s \in Jobs, Become(j, s),
         s = Idle \/ (s.d \in Deliveries /\ s.step # "idle")
  PROVE  job' \in [Handlers -> Jobs] /\ \A k \in Handlers : Shape(k)'
<1>1. /\ job' \in [Handlers -> Jobs]
      /\ job'[j] = s
      /\ \A k \in Handlers \ {j} : job'[k] = job[k]
  BY Becoming DEF Typed
<1> QED BY <1>1 DEF Typed, Shape

\* A handler that is not idle has a delivery, and what it becomes on the way.
LEMMA Busy ==
  ASSUME Typed, NEW j \in Handlers, job[j].step # "idle"
  PROVE  /\ job[j].d \in Deliveries /\ job[j] \in Jobs
         /\ job[j].count \in Nat /\ job[j].held \in BOOLEAN
BY DEF Typed, TypeOK, Shape, Idle, Jobs

LEMMA IdleTyped == Idle \in Jobs /\ Idle.step = "idle" /\ Idle.d = None /\ None \notin Deliveries
BY WebhookAssumption DEF Idle, Jobs

\* An update writes one row, if it is there.
LEMMA Updating ==
  ASSUME TypeOK, NEW d \in Deliveries, NEW r, rows[d] # None => r \in Rows, Update(d, r)
  PROVE  /\ rows' \in [Deliveries -> Rows \cup {None}]
         /\ \A e \in Deliveries \ {d} : rows'[e] = rows[e]
         /\ rows'[d] = IF rows[d] = None THEN None ELSE r
BY DEF Update, TypeOK

LEMMA SettingStatus ==
  ASSUME TypeOK, NEW d \in Deliveries, NEW s \in {"pending", "success", "failed"}, SetStatus(d, s)
  PROVE  /\ rows' \in [Deliveries -> Rows \cup {None}]
         /\ \A e \in Deliveries \ {d} : rows'[e] = rows[e]
         /\ rows[d] = None => rows'[d] = None
         /\ rows[d] # None => rows'[d] \in Rows /\ rows'[d].status = s
<1>1. rows[d] # None => rows[d] \in Rows
  BY DEF TypeOK
<1>2. rows[d] # None => [rows[d] EXCEPT !.status = s] \in Rows
                        /\ [rows[d] EXCEPT !.status = s].status = s
  BY <1>1 DEF Rows
<1> QED BY <1>2, Updating DEF SetStatus

LEMMA SettingCount ==
  ASSUME TypeOK, NEW d \in Deliveries, NEW n \in Nat,
         Update(d, [rows[d] EXCEPT !.attempts = n])
  PROVE  /\ rows' \in [Deliveries -> Rows \cup {None}]
         /\ \A e \in Deliveries \ {d} : rows'[e] = rows[e]
         /\ rows[d] = None => rows'[d] = None
         /\ rows[d] # None => rows'[d] \in Rows /\ rows'[d].status = rows[d].status
<1>1. rows[d] # None => rows[d] \in Rows
  BY DEF TypeOK
<1>2. rows[d] # None => [rows[d] EXCEPT !.attempts = n] \in Rows
                        /\ [rows[d] EXCEPT !.attempts = n].status = rows[d].status
  BY <1>1 DEF Rows
<1> QED BY <1>2, Updating

\* A send adds a copy or loses the delivery.
LEMMA Sending ==
  ASSUME TypeOK, NEW d \in Deliveries, Send(d)
  PROVE  /\ copies' \in [Deliveries -> Nat] /\ faults' \in 0 .. MaxFaults
         /\ \A e \in Deliveries \ {d} : copies'[e] = copies[e]
         /\ lost \subseteq lost' /\ lost' \subseteq lost \cup {d}
         /\ copies'[d] > 0 \/ d \in lost'
         /\ d \in lost' \/ copies'[d] = copies[d] + 1
BY WebhookAssumption DEF Send, Enqueue, Fault, TypeOK

\* A call adds one at most to the calls counted.
LEMMA OneMoreTyped ==
  ASSUME NEW n \in Nat
  PROVE  OneMore(n) \in Nat /\ OneMore(n) <= n + 1
BY WebhookAssumption DEF OneMore, MostCalls

LEMMA Counting == TypeOK /\ Fault => faults' \in 0 .. MaxFaults
BY WebhookAssumption DEF Fault, TypeOK

\* Where every step of a handler leads.
LEMMA Steps ==
  ASSUME Typed, NEW j \in Handlers, NEW step, Goto(j, step),
         job[j].step # "idle", step # "idle",
         step \in {"row", "hook", "count", "write", "post",
                   "reschedule", "enqueue", "fail", "disable"} \cup Outcomes
  PROVE  /\ job' \in [Handlers -> Jobs] /\ \A k \in Handlers : Shape(k)'
         /\ job'[j].step = step /\ job'[j].d = job[j].d
         /\ \A k \in Handlers \ {j} : job'[k] = job[k]
<1> DEFINE s == [job[j] EXCEPT !.step = step]
<1>1. s \in Jobs /\ s.step = step /\ s.d = job[j].d /\ s.d \in Deliveries
  BY Busy DEF Jobs
<1> QED BY <1>1, Shaping, Becoming DEF Goto, Typed

LEMMA Stops ==
  ASSUME Typed, NEW j \in Handlers, Become(j, Idle)
  PROVE  /\ job' \in [Handlers -> Jobs] /\ \A k \in Handlers : Shape(k)'
         /\ job'[j] = Idle
         /\ \A k \in Handlers \ {j} : job'[k] = job[k]
BY IdleTyped, Shaping, Becoming DEF Typed

LEMMA TypeStep == Typed /\ [Next]_vars => Typed'
<1> SUFFICES ASSUME Typed, [Next]_vars PROVE Typed'
    OBVIOUS
<1> DEFINE Shapes == job' \in [Handlers -> Jobs] /\ \A k \in Handlers : Shape(k)'
<1>0. TypeOK /\ RetryShape
  BY DEF Typed
<1>s. ASSUME UNCHANGED job PROVE Shapes
  BY <1>s, <1>0 DEF Typed, TypeOK, Shape
<1>r. ASSUME UNCHANGED retry PROVE RetryShape'
  BY <1>r, <1>0 DEF RetryShape
<1>1. ASSUME NEW d \in Deliveries, NEW for \in {"event", "test"}, Create(d, for) PROVE Typed'
  BY <1>0, <1>1, <1>s, <1>r DEF Create, world, history, Typed, TypeOK
<1>2. ASSUME NEW d \in Deliveries, InsertRow(d) PROVE Typed'
  <2>1. rows' \in [Deliveries -> Rows \cup {None}]
    BY <1>0, <1>2 DEF InsertRow, Rows, TypeOK
  <2> QED BY <1>0, <1>2, <1>s, <1>r, <2>1 DEF InsertRow, history, Typed, TypeOK
<1>3. ASSUME NEW d \in Deliveries, QueueEvent(d) PROVE Typed'
  <2>1. rows' \in [Deliveries -> Rows \cup {None}]
    BY <1>0, <1>3, SettingStatus DEF QueueEvent, TypeOK
  <2>2. copies' \in [Deliveries -> Nat] /\ faults' \in 0 .. MaxFaults /\ lost' \subseteq lost \cup {d}
    BY <1>0, <1>3, Sending DEF QueueEvent, TypeOK
  <2> QED BY <1>0, <1>3, <1>s, <1>r, <2>1, <2>2 DEF QueueEvent, Typed, TypeOK
<1>4. ASSUME NEW d \in Deliveries, Test(d) PROVE Typed'
  <2>1. rows' \in [Deliveries -> Rows \cup {None}]
    BY <1>0, <1>4, SettingStatus DEF Test
  <2> QED BY <1>0, <1>4, <1>s, <1>r, <2>1 DEF Test, Typed, TypeOK
<1>5. ASSUME NEW d \in Deliveries, CountTest(d) PROVE Typed'
  <2>1. rows' \in [Deliveries -> Rows \cup {None}]
    BY <1>0, <1>5, SettingCount DEF CountTest
  <2> QED BY <1>0, <1>5, <1>s, <1>r, <2>1 DEF CountTest, history, Typed, TypeOK
<1>6. ASSUME NEW d \in Deliveries, AuthorDies(d) PROVE Typed'
  BY <1>0, <1>6, <1>s, <1>r, Counting DEF AuthorDies, world, Typed, TypeOK
<1>7. ASSUME NEW d \in Deliveries, GiveUp(d) PROVE Typed'
  <2>1. copies' \in [Deliveries -> Nat]
    BY <1>0, <1>7 DEF GiveUp, TypeOK
  <2> QED BY <1>0, <1>7, <1>s, <1>r, <2>1, Counting DEF GiveUp, Typed, TypeOK
<1>8. ASSUME NEW d \in Deliveries, StartRetry(d) PROVE Typed'
  <2>1. RetryShape' /\ retry' \in [step : {"idle", "hook", "reset", "send"}, d : Deliveries \cup {None}]
    BY <1>8 DEF StartRetry, RetryShape
  <2>2. resets' \in 0 .. MaxResets
    BY <1>0, <1>8, WebhookAssumption DEF StartRetry, TypeOK
  <2> QED BY <1>0, <1>8, <1>s, <2>1, <2>2 DEF StartRetry, world, history, Typed, TypeOK
<1>9. ASSUME NEW d \in Deliveries, Cleanup(d) PROVE Typed'
  BY <1>0, <1>9, <1>s, <1>r DEF Cleanup, history, Typed, TypeOK
<1>10. ASSUME NEW j \in Handlers, NEW d \in Deliveries, Start(j, d) PROVE Typed'
  <2> DEFINE s == [step |-> "row", d |-> d, count |-> 0, held |-> TRUE]
  <2>1. s \in Jobs /\ s.d \in Deliveries /\ s.step # "idle"
    BY DEF Jobs
  <2>2. Shapes
    BY <1>10, <2>1, Shaping DEF Start
  <2>3. copies' \in [Deliveries -> Nat]
    BY <1>0, <1>10 DEF Start, TypeOK
  <2> QED BY <1>0, <1>10, <1>r, <2>2, <2>3 DEF Start, Typed, TypeOK
<1>11. ASSUME NEW j \in Handlers, ReadRow(j) \/ ReadHook(j) PROVE Typed'
  <2>1. Shapes
    BY <1>11, Stops, Steps DEF ReadRow, ReadHook
  <2> QED BY <1>0, <1>11, <1>r, <2>1 DEF ReadRow, ReadHook, world, history, Typed, TypeOK
<1>12. ASSUME NEW j \in Handlers, ReadCount(j) PROVE Typed'
  <2> DEFINE n == Counted(rows[job[j].d].attempts)
             s == [job[j] EXCEPT !.step = "write", !.count = n]
  <2>1. CASE Goto(j, "post")
    <3>1. Shapes
      BY <1>12, <2>1, Steps DEF ReadCount
    <3> QED BY <1>0, <1>12, <1>r, <3>1, Counting DEF ReadCount, world, history, Typed, TypeOK
  <2>2. CASE rows[job[j].d] # None /\ Become(j, s) /\ UNCHANGED faults
    <3>1. job[j].d \in Deliveries /\ job[j] \in Jobs
      BY <1>12, Busy DEF ReadCount
    <3>2. n \in Nat
      BY <1>0, <2>2, <3>1 DEF TypeOK, Rows, Counted
    <3>3. s \in Jobs /\ s.d \in Deliveries /\ s.step # "idle"
      BY <3>1, <3>2 DEF Jobs
    <3>4. Shapes
      BY <2>2, <3>3, Shaping
    <3> QED BY <1>0, <1>12, <1>r, <2>2, <3>4 DEF ReadCount, world, history, Typed, TypeOK
  <2> QED BY <1>12, <2>1, <2>2 DEF ReadCount
<1>13. ASSUME NEW j \in Handlers, WriteCount(j) PROVE Typed'
  <2>1. job[j].d \in Deliveries /\ job[j].count \in Nat
    BY <1>13, Busy DEF WriteCount
  <2>2. rows' \in [Deliveries -> Rows \cup {None}]
    BY <1>0, <1>13, <2>1, SettingCount DEF WriteCount, TypeOK
  <2>3. Shapes
    BY <1>13, Steps DEF WriteCount
  <2> QED BY <1>0, <1>13, <1>r, <2>2, <2>3, Counting DEF WriteCount, history, Typed, TypeOK
<1>14. ASSUME NEW j \in Handlers, NEW outcome \in Outcomes, Post(j, outcome) PROVE Typed'
  <2>1. job[j].d \in Deliveries
    BY <1>14, Busy DEF Post
  <2>2. Shapes
    BY <1>14, Steps DEF Post, Outcomes
  <2>3. posts' \in [Deliveries -> Nat]
    BY <1>0, <1>14, <2>1, OneMoreTyped DEF Post, TypeOK
  <2> QED BY <1>0, <1>14, <1>r, <2>1, <2>2, <2>3 DEF Post, world, Typed, TypeOK
<1>15. ASSUME NEW j \in Handlers, NEW outcome \in Outcomes, StoreResult(j, outcome) PROVE Typed'
  <2>1. job[j].d \in Deliveries /\ job[j].step # "idle"
    BY <1>15, Busy DEF StoreResult, Outcomes
  <2>2. rows' \in [Deliveries -> Rows \cup {None}]
    BY <1>0, <1>15, <2>1, SettingStatus DEF StoreResult, StatusOf, TypeOK
  <2>3. Shapes
    BY <1>15, <2>1, Steps, Stops DEF StoreResult, After
  <2> QED BY <1>0, <1>15, <1>r, <2>1, <2>2, <2>3, Counting DEF StoreResult, Typed, TypeOK
<1>16. ASSUME NEW j \in Handlers, Reschedule(j) \/ MarkFailed(j) PROVE Typed'
  <2>1. job[j].d \in Deliveries /\ job[j].step # "idle"
    BY <1>16, Busy DEF Reschedule, MarkFailed
  <2>2. rows' \in [Deliveries -> Rows \cup {None}]
    BY <1>0, <1>16, <2>1, SettingStatus DEF Reschedule, MarkFailed, TypeOK
  <2>3. Shapes
    BY <1>16, <2>1, Steps DEF Reschedule, MarkFailed
  <2> QED BY <1>0, <1>16, <1>r, <2>1, <2>2, <2>3, Counting
          DEF Reschedule, MarkFailed, history, Typed, TypeOK
<1>17. ASSUME NEW j \in Handlers, QueueRetry(j) PROVE Typed'
  <2>1. job[j].d \in Deliveries
    BY <1>17, Busy DEF QueueRetry
  <2>2. copies' \in [Deliveries -> Nat] /\ faults' \in 0 .. MaxFaults /\ lost' \subseteq Deliveries
    BY <1>0, <1>17, <2>1, Sending DEF QueueRetry, TypeOK
  <2> QED BY <1>0, <1>17, <1>r, <2>2, Stops DEF QueueRetry, Typed, TypeOK
<1>18. ASSUME NEW j \in Handlers, Disable(j) PROVE Typed'
  BY <1>0, <1>18, <1>r, Stops, Counting DEF Disable, Typed, TypeOK
<1>19. ASSUME NEW j \in Handlers, AnswerFirst(j) \/ TimeOut(j) PROVE Typed'
  <2> DEFINE s == [job[j] EXCEPT !.held = FALSE]
  <2>1. job[j].step # "idle"
    BY <1>19 DEF AnswerFirst, TimeOut, Typed, Shape, Idle
  <2>2. job[j].d \in Deliveries /\ job[j] \in Jobs
    BY <2>1, Busy
  <2>3. s \in Jobs /\ s.d \in Deliveries /\ s.step # "idle"
    BY <2>1, <2>2 DEF Jobs
  <2>4. Shapes
    BY <1>19, <2>3, Shaping DEF AnswerFirst, TimeOut
  <2>5. copies' \in [Deliveries -> Nat]
    BY <1>0, <1>19 DEF AnswerFirst, TimeOut, world, TypeOK
  <2> QED BY <1>0, <1>19, <1>r, <2>4, <2>5, Counting
          DEF AnswerFirst, TimeOut, world, history, Typed, TypeOK
<1>20. ASSUME NEW j \in Handlers, HandlerDies(j) \/ Throw(j) PROVE Typed'
  <2>1. job[j].d \in Deliveries
    BY <1>20 DEF HandlerDies, Throw, Typed, Shape
  <2>2. copies' \in [Deliveries -> Nat]
    BY <1>0, <1>20 DEF HandlerDies, Throw, world, TypeOK
  <2>3. lost' \cup disturbed' \subseteq Deliveries
    BY <1>0, <1>20, <2>1 DEF HandlerDies, Throw, TypeOK
  <2> QED BY <1>0, <1>20, <1>r, <2>2, <2>3, Stops, Counting DEF HandlerDies, Throw, world, Typed, TypeOK
<1>21. CASE CheckHook
  <2>1. RetryShape' /\ retry' \in [step : {"idle", "hook", "reset", "send"}, d : Deliveries \cup {None}]
    BY <1>0, <1>21 DEF CheckHook, RetryShape, NoRetry, TypeOK
  <2> QED BY <1>0, <1>21, <1>s, <2>1 DEF CheckHook, world, history, Typed, TypeOK
<1>22. CASE Reset
  <2>1. retry.d \in Deliveries
    BY <1>0, <1>22 DEF Reset, RetryShape, NoRetry
  <2>2. RetryShape' /\ retry' \in [step : {"idle", "hook", "reset", "send"}, d : Deliveries \cup {None}]
    BY <1>0, <1>22, <2>1 DEF Reset, RetryShape, NoRetry, TypeOK
  <2>3. rows' \in [Deliveries -> Rows \cup {None}]
    BY <1>0, <1>22, <2>1, Updating DEF Reset, Rows
  <2>4. disturbed' \subseteq Deliveries
    BY <1>0, <1>22, <2>1 DEF Reset, TypeOK
  <2> QED BY <1>0, <1>22, <1>s, <2>2, <2>3, <2>4 DEF Reset, Typed, TypeOK
<1>23. CASE SendRetry
  <2>1. retry.d \in Deliveries
    BY <1>0, <1>23 DEF SendRetry, RetryShape, NoRetry
  <2>2. copies' \in [Deliveries -> Nat] /\ faults' \in 0 .. MaxFaults /\ lost' \subseteq Deliveries
    BY <1>0, <1>23, <2>1, Sending DEF SendRetry, TypeOK
  <2>3. RetryShape' /\ retry' \in [step : {"idle", "hook", "reset", "send"}, d : Deliveries \cup {None}]
    BY <1>23 DEF SendRetry, RetryShape, NoRetry
  <2> QED BY <1>0, <1>23, <1>s, <2>2, <2>3 DEF SendRetry, Typed, TypeOK
<1>24. CASE RetryDies
  <2>1. retry.d \in Deliveries
    BY <1>0, <1>24 DEF RetryDies, RetryShape
  <2>2. RetryShape' /\ retry' \in [step : {"idle", "hook", "reset", "send"}, d : Deliveries \cup {None}]
    BY <1>24 DEF RetryDies, RetryShape, NoRetry
  <2>3. lost' \subseteq Deliveries
    BY <1>0, <1>24, <2>1 DEF RetryDies, TypeOK
  <2> QED BY <1>0, <1>24, <1>s, <2>2, <2>3, Counting DEF RetryDies, world, Typed, TypeOK
<1>25. ASSUME NEW to \in {"enabled", "disabled"}, Switch(to) PROVE Typed'
  BY <1>0, <1>25, <1>s, <1>r DEF Switch, Typed, TypeOK
<1>26. CASE DeleteHook
  BY <1>0, <1>26, <1>s, <1>r DEF DeleteHook, history, Typed, TypeOK
<1>27. CASE UNCHANGED vars
  BY <1>0, <1>27, <1>s, <1>r DEF vars, world, history, Typed, TypeOK
<1> QED BY <1>1, <1>2, <1>3, <1>4, <1>5, <1>6, <1>7, <1>8, <1>9, <1>10, <1>11, <1>12, <1>13,
          <1>14, <1>15, <1>16, <1>17, <1>18, <1>19, <1>20, <1>21, <1>22, <1>23, <1>24,
          <1>25, <1>26, <1>27 DEF Next, Author, Handle, Retry

\* Every variable has its type, in every reachable state.
THEOREM TypeCorrect == Spec => []TypeOK
<1>1. Spec => []Typed
  BY TypeInit, TypeStep, PTL DEF Spec
<1>2. Typed => TypeOK
  BY DEF Typed
<1> QED BY <1>1, <1>2, PTL

-----------------------------------------------------------------------------
(* What becomes of a delivery *)

\* A step that has nothing to do with a delivery.
LEMMA Elsewhere ==
  ASSUME NEW d \in Deliveries, Good(d),
         rows'[d] = rows[d], copies'[d] = copies[d], author'[d] = author[d],
         d \in accepted' <=> d \in accepted,
         lost \subseteq lost', disturbed \subseteq disturbed',
         \A j \in Handlers : job'[j] = job[j] \/ (job[j].d # d /\ job'[j].d # d),
         retry = [step |-> "send", d |-> d] => retry' = [step |-> "send", d |-> d],
         retry'.d = d => retry.d = d
  PROVE  Good(d)'
<1>1. Fresh(d)'
  BY DEF Good, Fresh, Working
<1>2. Answerable(d)'
  BY DEF Good, Answerable, Responsible, Has
<1>3. Alone(d)'
  BY DEF Good, Alone, Working
<1>4. Claims(d)'
  BY DEF Good, Claims, Has
<1>5. Kept(d)'
  BY DEF Good, Kept, Bearer, Working, Has
<1> QED BY <1>1, <1>2, <1>3, <1>4, <1>5 DEF Good

\* Handlers that bear an acceptance still do.
LEMMA StillBears ==
  ASSUME accepted \subseteq accepted', \A j \in Handlers : Bears(j),
         \A j \in Handlers : job'[j] = job[j] \/ job'[j].step # "ok" \/ job'[j].d \in accepted'
  PROVE  \A j \in Handlers : Bears(j)'
BY DEF Bears

LEMMA BearStep == Inv /\ [Next]_vars => \A j \in Handlers : Bears(j)'
<1> SUFFICES ASSUME Inv, [Next]_vars PROVE \A j \in Handlers : Bears(j)'
    OBVIOUS
<1>0. Typed /\ TypeOK /\ \A j \in Handlers : Bears(j)
  BY DEF Inv, Typed
<1>s. ASSUME UNCHANGED job, accepted \subseteq accepted' PROVE \A j \in Handlers : Bears(j)'
  BY <1>0, <1>s, StillBears
<1>i. ASSUME NEW j \in Handlers, Become(j, Idle), accepted \subseteq accepted'
      PROVE  \A k \in Handlers : Bears(k)'
  BY <1>0, <1>i, Stops, IdleTyped DEF Bears
<1>g. ASSUME NEW j \in Handlers, NEW step, Goto(j, step), step # "ok", accepted \subseteq accepted'
      PROVE  \A k \in Handlers : Bears(k)'
  <2>1. [job[j] EXCEPT !.step = step].step = step
    BY <1>0 DEF TypeOK, Jobs
  <2>2. job'[j].step = step /\ \A k \in Handlers \ {j} : job'[k] = job[k]
    BY <1>0, <1>g, <2>1 DEF Goto, Become, TypeOK
  <2> QED BY <1>0, <1>g, <2>2 DEF Bears
<1>1. ASSUME NEW d \in Deliveries,
             \/ \E for \in {"event", "test"} : Create(d, for)
             \/ InsertRow(d) \/ QueueEvent(d) \/ Test(d) \/ CountTest(d)
             \/ AuthorDies(d) \/ GiveUp(d) \/ StartRetry(d) \/ Cleanup(d)
      PROVE  \A k \in Handlers : Bears(k)'
  BY <1>1, <1>s DEF Create, InsertRow, QueueEvent, Test, CountTest, AuthorDies, GiveUp, StartRetry,
                    Cleanup, world, history
<1>2. ASSUME NEW j \in Handlers, NEW d \in Deliveries, Start(j, d)
      PROVE  \A k \in Handlers : Bears(k)'
  <2>1. job'[j].step = "row" /\ \A k \in Handlers \ {j} : job'[k] = job[k]
    BY <1>0, <1>2 DEF Start, Become, TypeOK
  <2> QED BY <1>0, <1>2, <2>1 DEF Start, Bears
<1>3. ASSUME NEW j \in Handlers,
             ReadRow(j) \/ ReadHook(j) \/ WriteCount(j) \/ Reschedule(j) \/ QueueRetry(j)
             \/ MarkFailed(j) \/ Disable(j) \/ HandlerDies(j) \/ Throw(j)
      PROVE  \A k \in Handlers : Bears(k)'
  BY <1>3, <1>i, <1>g DEF ReadRow, ReadHook, WriteCount, Reschedule, QueueRetry, MarkFailed, Disable,
                          HandlerDies, Throw, history
<1>4. ASSUME NEW j \in Handlers, ReadCount(j) PROVE \A k \in Handlers : Bears(k)'
  <2>1. CASE Goto(j, "post")
    BY <1>4, <1>g, <2>1 DEF ReadCount, history
  <2>2. CASE Become(j, [job[j] EXCEPT !.step = "write", !.count = Counted(rows[job[j].d].attempts)])
    <3>1. [job[j] EXCEPT !.step = "write", !.count = Counted(rows[job[j].d].attempts)].step = "write"
      BY <1>0 DEF TypeOK, Jobs
    <3>2. job'[j].step = "write" /\ \A k \in Handlers \ {j} : job'[k] = job[k]
      BY <1>0, <2>2, <3>1 DEF Become, TypeOK
    <3> QED BY <1>0, <1>4, <3>2 DEF ReadCount, history, Bears
  <2> QED BY <1>4, <2>1, <2>2 DEF ReadCount
<1>5. ASSUME NEW j \in Handlers, NEW outcome \in Outcomes, Post(j, outcome)
      PROVE  \A k \in Handlers : Bears(k)'
  <2>1. /\ job'[j].step = outcome /\ job'[j].d = job[j].d
        /\ \A k \in Handlers \ {j} : job'[k] = job[k]
    BY <1>0, <1>5, Steps DEF Post, Outcomes
  <2> QED BY <1>0, <1>5, <2>1 DEF Post, Bears
<1>6. ASSUME NEW j \in Handlers, NEW outcome \in Outcomes, StoreResult(j, outcome)
      PROVE  \A k \in Handlers : Bears(k)'
  BY <1>6, <1>i, <1>g DEF StoreResult, After
<1>7. ASSUME NEW j \in Handlers, AnswerFirst(j) \/ TimeOut(j) PROVE \A k \in Handlers : Bears(k)'
  <2> DEFINE s == [job[j] EXCEPT !.held = FALSE]
  <2>1. s.step = job[j].step /\ s.d = job[j].d
    BY <1>0 DEF TypeOK, Jobs
  <2>2. job'[j] = s /\ \A k \in Handlers \ {j} : job'[k] = job[k]
    BY <1>0, <1>7 DEF AnswerFirst, TimeOut, Become, TypeOK
  <2> QED BY <1>0, <1>7, <2>1, <2>2 DEF AnswerFirst, TimeOut, history, Bears
<1>8. CASE \/ CheckHook \/ Reset \/ SendRetry \/ RetryDies \/ DeleteHook \/ UNCHANGED vars
           \/ \E to \in {"enabled", "disabled"} : Switch(to)
  BY <1>8, <1>s DEF CheckHook, Reset, SendRetry, RetryDies, DeleteHook, Switch, vars, world, history
<1> QED BY <1>1, <1>2, <1>3, <1>4, <1>5, <1>6, <1>7, <1>8 DEF Next, Author, Handle, Retry

\* A deleted webhook has no deliveries.
LEMMA GoneStep == Inv /\ [Next]_vars => Gone'
<1> SUFFICES ASSUME Inv, [Next]_vars PROVE Gone'
    OBVIOUS
<1>0. Typed /\ TypeOK /\ Gone
  BY DEF Inv, Typed
<1>k. ASSUME hook' = "deleted" => hook = "deleted",
             \A d \in Deliveries : rows[d] = None => rows'[d] = None
      PROVE  Gone'
  BY <1>0, <1>k DEF Gone
<1>u. ASSUME UNCHANGED <<hook, rows>> PROVE Gone'
  BY <1>u, <1>k
<1>1. ASSUME NEW d \in Deliveries,
             \/ \E for \in {"event", "test"} : Create(d, for)
             \/ AuthorDies(d) \/ GiveUp(d) \/ StartRetry(d) \/ (\E j \in Handlers : Start(j, d))
      PROVE  Gone'
  BY <1>1, <1>u DEF Create, AuthorDies, GiveUp, StartRetry, Start, world
<1>2. ASSUME NEW d \in Deliveries, InsertRow(d) PROVE Gone'
  BY <1>0, <1>2 DEF InsertRow, Gone
<1>3. ASSUME NEW d \in Deliveries, QueueEvent(d) \/ Test(d) \/ CountTest(d) \/ Cleanup(d) PROVE Gone'
  <2>1. \A e \in Deliveries : rows[e] = None => rows'[e] = None
    BY <1>0, <1>3, SettingStatus, SettingCount DEF QueueEvent, Test, CountTest, Cleanup, TypeOK
  <2> QED BY <1>3, <1>k, <2>1 DEF QueueEvent, Test, CountTest, Cleanup
<1>4. ASSUME NEW j \in Handlers,
             \/ ReadRow(j) \/ ReadHook(j) \/ ReadCount(j) \/ QueueRetry(j) \/ AnswerFirst(j)
             \/ TimeOut(j) \/ HandlerDies(j) \/ Throw(j)
             \/ \E outcome \in Outcomes : Post(j, outcome)
      PROVE  Gone'
  BY <1>4, <1>u DEF ReadRow, ReadHook, ReadCount, QueueRetry, AnswerFirst, TimeOut, HandlerDies, Throw,
                    Post, world
<1>5. ASSUME NEW j \in Handlers, WriteCount(j) \/ Reschedule(j) \/ MarkFailed(j) PROVE Gone'
  <2>1. job[j].d \in Deliveries /\ job[j].count \in Nat
    BY <1>0, <1>5, Busy DEF WriteCount, Reschedule, MarkFailed
  <2>2. \A e \in Deliveries : rows[e] = None => rows'[e] = None
    BY <1>0, <1>5, <2>1, SettingStatus, SettingCount DEF WriteCount, Reschedule, MarkFailed
  <2> QED BY <1>5, <1>k, <2>2 DEF WriteCount, Reschedule, MarkFailed
<1>6. ASSUME NEW j \in Handlers, NEW outcome \in Outcomes, StoreResult(j, outcome) PROVE Gone'
  <2>1. job[j].d \in Deliveries
    BY <1>0, <1>6, Busy DEF StoreResult, Outcomes
  <2>2. \A e \in Deliveries : rows[e] = None => rows'[e] = None
    BY <1>0, <1>6, <2>1, SettingStatus DEF StoreResult, StatusOf
  <2> QED BY <1>6, <1>k, <2>2 DEF StoreResult
<1>7. ASSUME NEW j \in Handlers, Disable(j) PROVE Gone'
  BY <1>7, <1>k DEF Disable
<1>8. CASE CheckHook \/ SendRetry \/ RetryDies \/ UNCHANGED vars
  BY <1>8, <1>u DEF CheckHook, SendRetry, RetryDies, vars, world
<1>9. CASE Reset
  <2>1. \A e \in Deliveries : rows[e] = None => rows'[e] = None
    BY <1>9 DEF Reset, Update
  <2> QED BY <1>9, <1>k, <2>1 DEF Reset
<1>10. CASE DeleteHook
  BY <1>10 DEF DeleteHook, Gone
<1>11. ASSUME NEW to \in {"enabled", "disabled"}, Switch(to) PROVE Gone'
  BY <1>11 DEF Switch, Gone
<1> QED BY <1>1, <1>2, <1>3, <1>4, <1>5, <1>6, <1>7, <1>8, <1>9, <1>10, <1>11
        DEF Next, Author, Handle, Retry

\* What is known of the delivery a handler works on.
LEMMA Own ==
  ASSUME Inv, NEW j \in Handlers, NEW d \in Deliveries, job[j].d = d
  PROVE  /\ author[d] \in {"counting", "done"}
         /\ d \notin disturbed => \A k \in Handlers : job[k].d = d => k = j
         /\ d \in accepted /\ d \notin lost \cup disturbed /\ rows[d] # None =>
              job[j].step = "ok" \/ (job[j].step = "row" /\ Has(d, "success"))
<1>1. Good(d) /\ TypeOK /\ j \in Working(d)
  BY DEF Inv, Typed, Working
<1>2. author[d] \in {"counting", "done"}
  BY <1>1 DEF Good, Fresh, TypeOK
<1>3. d \notin disturbed => \A k \in Handlers : job[k].d = d => k = j
  BY <1>1 DEF Good, Alone, Working
<1> QED BY <1>1, <1>2, <1>3 DEF Good, Kept, Bearer

\* A handler that goes on or stops leaves it to others as it was.
LEMMA OwnFrame ==
  ASSUME Inv, NEW j \in Handlers, NEW d \in Deliveries, job[j].d = d,
         job'[j].d \in {d, None}, \A k \in Handlers \ {j} : job'[k] = job[k],
         UNCHANGED author, disturbed \subseteq disturbed'
  PROVE  Fresh(d)' /\ Alone(d)'
<1>1. Good(d) /\ author[d] \in {"counting", "done"}
  BY Own DEF Inv
<1>2. Fresh(d)'
  BY <1>1 DEF Fresh
<1>3. Alone(d)'
  BY <1>1, IdleTyped DEF Good, Alone, Working
<1> QED BY <1>2, <1>3

\* In particular when it has nothing to bear: it neither reads the row first nor
\* holds an acceptance, so that nothing was accepted before.
LEMMA OwnStep ==
  ASSUME Inv, NEW j \in Handlers, NEW d \in Deliveries, job[j].d = d,
         job[j].step \notin {"row", "ok"},
         job'[j].d \in {d, None}, \A k \in Handlers \ {j} : job'[k] = job[k],
         UNCHANGED <<author, accepted>>, disturbed \subseteq disturbed', lost \subseteq lost',
         rows[d] = None => rows'[d] = None,
         Has(d, "success")' => Has(d, "success"),
         Answerable(d)'
  PROVE  Good(d)'
<1>1. Fresh(d)' /\ Alone(d)'
  BY OwnFrame
<1>2. Good(d)
  BY DEF Inv
<1>3. Claims(d)'
  BY <1>2 DEF Good, Claims, Has
<1>4. Kept(d)'
  BY Own DEF Kept
<1> QED BY <1>1, <1>3, <1>4 DEF Good

LEMMA GoodStep == Inv /\ [Next]_vars => \A d \in Deliveries : Good(d)'
<1> SUFFICES ASSUME Inv, [Next]_vars, NEW d \in Deliveries PROVE Good(d)'
    OBVIOUS
<1>0. /\ Typed /\ TypeOK /\ Good(d) /\ Gone /\ \A j \in Handlers : Bears(j)
      /\ None \notin Deliveries
  BY WebhookAssumption DEF Inv, Typed
<1>e. ASSUME UNCHANGED <<rows, copies, author, accepted, job, retry>>,
             lost \subseteq lost', disturbed \subseteq disturbed'
      PROVE  Good(d)'
  BY <1>0, <1>e, Elsewhere
<1>1. ASSUME NEW e \in Deliveries, NEW for \in {"event", "test"}, Create(e, for) PROVE Good(d)'
  <2>1. /\ author[e] = "none" /\ author' = [author EXCEPT ![e] = for]
        /\ UNCHANGED <<rows, copies, job, retry, accepted, lost, disturbed>>
    BY <1>1 DEF Create, world, history
  <2>2. CASE e # d
    BY <1>0, <2>1, <2>2, Elsewhere DEF TypeOK
  <2>3. CASE e = d
    <3>1. author[d] = "none" /\ author'[d] \in {"event", "test"}
      BY <1>0, <2>1, <2>3 DEF TypeOK
    <3>2. rows[d] = None /\ d \notin accepted
      BY <1>0, <3>1 DEF Good, Fresh
    <3> QED BY <1>0, <2>1, <3>1, <3>2
            DEF Good, Fresh, Answerable, Alone, Claims, Kept, Has, Working
  <2> QED BY <2>2, <2>3
<1>2. ASSUME NEW e \in Deliveries, InsertRow(e) PROVE Good(d)'
  <2>1. UNCHANGED <<copies, job, retry, accepted, lost, disturbed>>
    BY <1>2 DEF InsertRow, history
  <2>2. CASE e # d
    BY <1>0, <1>2, <2>1, <2>2, Elsewhere DEF InsertRow, TypeOK
  <2>3. CASE e = d
    <3>1. /\ d \notin accepted /\ copies[d] = 0 /\ Working(d) = {} /\ retry.d # d
          /\ rows[d] = None
      BY <1>0, <1>2, <2>3 DEF InsertRow, Good, Fresh
    <3>2. \/ rows'[d] = None /\ author'[d] = "done"
          \/ /\ rows'[d] = [status |-> "pending", attempts |-> 0]
             /\ author'[d] \in {"queueing", "testing"}
      BY <1>0, <1>2, <2>3, <3>1 DEF InsertRow, TypeOK
    <3>3. Fresh(d)' /\ Answerable(d)' /\ Claims(d)' /\ Kept(d)'
      BY <2>1, <3>1, <3>2 DEF Fresh, Answerable, Responsible, Claims, Kept, Has, Working
    <3>4. Alone(d)'
      BY <1>0, <2>1 DEF Good, Alone, Working
    <3> QED BY <3>3, <3>4 DEF Good
  <2> QED BY <2>2, <2>3
<1>3. ASSUME NEW e \in Deliveries, QueueEvent(e) PROVE Good(d)'
  <2>1. /\ author[e] = "queueing" /\ author' = [author EXCEPT ![e] = "done"]
        /\ UNCHANGED <<job, retry, accepted, disturbed>>
        /\ (Send(e) /\ UNCHANGED rows) \/ (SetStatus(e, "failed") /\ UNCHANGED <<copies, lost>>)
    BY <1>3 DEF QueueEvent
  <2>2. /\ lost \subseteq lost'
        /\ e # d => rows'[d] = rows[d] /\ copies'[d] = copies[d]
    BY <1>0, <2>1, Sending, SettingStatus
  <2>3. CASE e # d
    BY <1>0, <2>1, <2>2, <2>3, Elsewhere DEF TypeOK
  <2>4. CASE e = d
    <3>1. d \notin accepted /\ Working(d) = {} /\ author'[d] = "done"
          /\ (rows[d] # None => rows[d].status = "pending")
      BY <1>0, <2>1, <2>4 DEF Good, Fresh, TypeOK
    <3>2. Fresh(d)' /\ Alone(d)' /\ Kept(d)'
      BY <1>0, <2>1, <3>1 DEF Good, Fresh, Alone, Kept, Working
    <3>3. \/ copies'[d] > 0 \/ d \in lost' \/ ~Has(d, "pending")'
      BY <1>0, <2>1, <2>4, Sending, SettingStatus DEF Has
    <3>4. ~Has(d, "success")'
      BY <1>0, <2>1, <2>4, <3>1, SettingStatus DEF Has
    <3> QED BY <3>2, <3>3, <3>4 DEF Good, Answerable, Responsible, Claims
  <2> QED BY <2>3, <2>4
<1>4. ASSUME NEW e \in Deliveries, Test(e) PROVE Good(d)'
  <2>1. /\ author[e] = "testing" /\ author' = [author EXCEPT ![e] = "counting"]
        /\ UNCHANGED <<copies, job, retry, lost, disturbed>>
        /\ \/ SetStatus(e, "success") /\ accepted' = accepted \cup {e}
           \/ SetStatus(e, "failed") /\ UNCHANGED accepted
    BY <1>4 DEF Test
  <2>2. CASE e # d
    <3>1. rows'[d] = rows[d]
      BY <1>0, <2>1, <2>2, SettingStatus
    <3> QED BY <1>0, <2>1, <2>2, <3>1, Elsewhere DEF TypeOK
  <2>3. CASE e = d
    <3>1. d \notin accepted /\ Working(d) = {} /\ author'[d] = "counting"
      BY <1>0, <2>1, <2>3 DEF Good, Fresh, TypeOK
    <3>2. Fresh(d)' /\ Alone(d)'
      BY <1>0, <2>1, <3>1 DEF Good, Fresh, Alone, Working
    <3>3. \/ rows'[d] = None
          \/ rows'[d] # None /\ rows'[d].status = "success" /\ d \in accepted'
          \/ rows'[d] # None /\ rows'[d].status = "failed" /\ d \notin accepted'
      BY <1>0, <2>1, <2>3, <3>1, SettingStatus
    <3>4. Working(d)' = {}
      BY <2>1, <3>1 DEF Working
    <3>5. Answerable(d)' /\ Claims(d)' /\ Kept(d)'
      BY <3>3, <3>4 DEF Answerable, Claims, Kept, Has
    <3> QED BY <3>2, <3>5 DEF Good
  <2> QED BY <2>2, <2>3
<1>5. ASSUME NEW e \in Deliveries, CountTest(e) PROVE Good(d)'
  <2>1. /\ author[e] = "counting" /\ author' = [author EXCEPT ![e] = "done"]
        /\ UNCHANGED <<copies, job, retry, accepted, lost, disturbed>>
    BY <1>5 DEF CountTest, history
  <2>2. /\ e # d => rows'[d] = rows[d]
        /\ rows[d] = None => rows'[d] = None
        /\ rows[d] # None => rows'[d] = rows[d] \/ rows'[d].status = rows[d].status
    BY <1>0, <1>5, SettingCount DEF CountTest
  <2>3. CASE e # d
    BY <1>0, <2>1, <2>2, <2>3, Elsewhere DEF TypeOK
  <2>4. CASE e = d
    <3>1. author[d] = "counting" /\ author'[d] = "done"
      BY <1>0, <2>1, <2>4 DEF TypeOK
    <3>2. \A status : Has(d, status)' => Has(d, status)
      BY <2>2 DEF Has
    <3>3. rows'[d] # None => (\A status : Has(d, status) => Has(d, status)')
      BY <2>2 DEF Has
    <3>4. Fresh(d)' /\ Alone(d)' /\ Claims(d)'
      BY <1>0, <2>1, <3>1, <3>2 DEF Good, Fresh, Alone, Claims, Working
    <3>5. Answerable(d)'
      BY <1>0, <2>1, <3>1, <3>2 DEF Good, Answerable, Responsible
    <3>6. Kept(d)'
      BY <1>0, <2>1, <2>2, <3>3 DEF Good, Kept, Bearer, Working
    <3> QED BY <3>4, <3>5, <3>6 DEF Good
  <2> QED BY <2>3, <2>4
<1>6. ASSUME NEW e \in Deliveries, AuthorDies(e) PROVE Good(d)'
  <2>1. /\ author' = [author EXCEPT ![e] = "done"] /\ lost' = lost \cup {e}
        /\ UNCHANGED <<rows, copies, job, retry, accepted, disturbed>>
    BY <1>6 DEF AuthorDies, world
  <2>2. CASE e # d
    BY <1>0, <2>1, <2>2, Elsewhere DEF TypeOK
  <2>3. CASE e = d
    BY <1>0, <2>1, <2>3 DEF Good, Fresh, Answerable, Alone, Claims, Kept, Has, Working, TypeOK
  <2> QED BY <2>2, <2>3
<1>7. ASSUME NEW e \in Deliveries, GiveUp(e) PROVE Good(d)'
  <2>1. /\ copies[e] > 0 /\ copies' = [copies EXCEPT ![e] = @ - 1] /\ lost' = lost \cup {e}
        /\ UNCHANGED <<rows, author, job, retry, accepted, disturbed>>
    BY <1>7 DEF GiveUp
  <2>2. CASE e # d
    BY <1>0, <2>1, <2>2, Elsewhere DEF TypeOK
  <2>3. CASE e = d
    BY <1>0, <2>1, <2>3 DEF Good, Fresh, Answerable, Alone, Claims, Kept, Has, Working, TypeOK
  <2> QED BY <2>2, <2>3
<1>8. ASSUME NEW e \in Deliveries, StartRetry(e) PROVE Good(d)'
  <2>1. /\ retry = NoRetry /\ rows[e] # None /\ rows[e].status = "failed"
        /\ retry' = [step |-> "hook", d |-> e]
        /\ UNCHANGED <<rows, copies, author, job, accepted, lost, disturbed>>
    BY <1>8 DEF StartRetry, world, history
  <2>2. retry # [step |-> "send", d |-> d] /\ retry.d # d
    BY <1>0, <2>1 DEF NoRetry
  <2>3. Fresh(d)'
    BY <1>0, <2>1 DEF Good, Fresh, Working
  <2>4. Answerable(d)'
    BY <1>0, <2>1, <2>2 DEF Good, Answerable, Responsible, Has
  <2> QED BY <1>0, <2>1, <2>3, <2>4 DEF Good, Alone, Claims, Kept, Bearer, Has, Working
<1>9. ASSUME NEW e \in Deliveries, Cleanup(e) PROVE Good(d)'
  <2>1. /\ rows' = [rows EXCEPT ![e] = None]
        /\ UNCHANGED <<copies, author, job, retry, accepted, lost, disturbed>>
    BY <1>9 DEF Cleanup, history
  <2>2. CASE e # d
    BY <1>0, <2>1, <2>2, Elsewhere DEF TypeOK
  <2>3. CASE e = d
    BY <1>0, <2>1, <2>3 DEF Good, Fresh, Answerable, Alone, Claims, Kept, Has, Working, TypeOK
  <2> QED BY <2>2, <2>3
<1>26. CASE DeleteHook
  <2>1. /\ rows'[d] = None
        /\ UNCHANGED <<copies, author, job, retry, accepted, lost, disturbed>>
    BY <1>26 DEF DeleteHook, history
  <2> QED BY <1>0, <2>1 DEF Good, Fresh, Answerable, Alone, Claims, Kept, Has, Working
<1>25. ASSUME NEW to \in {"enabled", "disabled"}, Switch(to) PROVE Good(d)'
  BY <1>25, <1>e DEF Switch
<1>27. CASE UNCHANGED vars
  BY <1>27, <1>e DEF vars, world, history
<1>j. ASSUME NEW j \in Handlers, job[j].step # "idle", job[j].d # d,
             UNCHANGED <<author, retry>>,
             \A k \in Handlers \ {j} : job'[k] = job[k],
             job'[j].d \in {job[j].d, None},
             rows'[d] = rows[d], copies'[d] = copies[d], d \in accepted' <=> d \in accepted,
             lost \subseteq lost', disturbed \subseteq disturbed'
      PROVE  Good(d)'
  BY <1>0, <1>j, Elsewhere
<1>10. ASSUME NEW j \in Handlers, NEW e \in Deliveries, Start(j, e) PROVE Good(d)'
  <2> DEFINE s == [step |-> "row", d |-> e, count |-> 0, held |-> TRUE]
  <2>1. /\ job[j] = Idle /\ copies[e] > 0 /\ copies' = [copies EXCEPT ![e] = @ - 1]
        /\ disturbed' = IF Working(e) = {} THEN disturbed ELSE disturbed \cup {e}
        /\ UNCHANGED <<rows, author, retry, accepted, lost>>
    BY <1>10 DEF Start
  <2>2. job'[j] = s /\ \A k \in Handlers \ {j} : job'[k] = job[k]
    BY <1>0, <1>10 DEF Start, Become, TypeOK
  <2>3. CASE e # d
    BY <1>0, <2>1, <2>2, <2>3, IdleTyped, Elsewhere DEF TypeOK
  <2>4. CASE e = d
    <3>1. author[d] \in {"counting", "done"}
      BY <1>0, <2>1, <2>4 DEF Good, Fresh, TypeOK
    <3>2. Fresh(d)'
      BY <2>1, <3>1 DEF Fresh
    <3>3. Answerable(d)'
      BY <2>2, <2>4 DEF Answerable, Responsible
    <3>4. Alone(d)'
      BY <2>1, <2>2, <2>4 DEF Alone, Working
    <3>5. Claims(d)'
      BY <1>0, <2>1 DEF Good, Claims, Has
    <3>6. Kept(d)'
      <4>1. CASE Working(d) # {}
        BY <2>1, <2>4, <4>1 DEF Kept
      <4>2. CASE Working(d) = {}
        BY <1>0, <2>1, <2>2, <2>4, <4>2 DEF Good, Kept, Bearer, Has, Working
      <4> QED BY <4>1, <4>2
    <3> QED BY <3>2, <3>3, <3>4, <3>5, <3>6 DEF Good
  <2> QED BY <2>3, <2>4
<1>11. ASSUME NEW j \in Handlers, ReadRow(j) PROVE Good(d)'
  <2>1. /\ job[j].step = "row"
        /\ UNCHANGED <<rows, copies, author, retry, accepted, lost, disturbed>>
    BY <1>11 DEF ReadRow, world, history
  <2>2. /\ \A k \in Handlers \ {j} : job'[k] = job[k]
        /\ IF NothingToDo(job[j].d)
           THEN job'[j] = Idle ELSE job'[j].d = job[j].d /\ job'[j].step = "hook"
    BY <1>0, <1>11, Steps, Stops DEF ReadRow
  <2>3. CASE job[j].d # d
    BY <2>1, <2>2, <2>3, <1>j, IdleTyped
  <2>4. CASE job[j].d = d
    <3>1. Fresh(d)' /\ Alone(d)'
      BY <2>1, <2>2, <2>4, OwnFrame, IdleTyped
    <3>2. Answerable(d)'
      BY <2>1, <2>2, <2>4 DEF Answerable, Responsible, Has, NothingToDo
    <3>3. Claims(d)'
      BY <1>0, <2>1 DEF Good, Claims, Has
    <3>4. Kept(d)'
      <4>1. SUFFICES ASSUME d \in accepted, d \notin lost \cup disturbed, rows[d] # None
                     PROVE  Kept(d)'
        BY <2>1 DEF Kept
      <4>2. Has(d, "success") /\ job'[j] = Idle
        BY <2>1, <2>2, <2>4, <4>1, Own DEF NothingToDo, Has
      <4>3. Working(d)' = {}
        BY <1>0, <2>2, <2>4, <4>1, <4>2, Own, IdleTyped DEF Working
      <4> QED BY <2>1, <4>2, <4>3 DEF Kept, Has
    <3> QED BY <3>1, <3>2, <3>3, <3>4 DEF Good
  <2> QED BY <2>3, <2>4
<1>12. ASSUME NEW j \in Handlers, ReadHook(j) PROVE Good(d)'
  <2>1. /\ job[j].step = "hook"
        /\ UNCHANGED <<rows, copies, author, retry, accepted, lost, disturbed>>
    BY <1>12 DEF ReadHook, world, history
  <2>2. /\ \A k \in Handlers \ {j} : job'[k] = job[k]
        /\ IF hook = "deleted" THEN job'[j] = Idle
           ELSE job'[j].d = job[j].d /\ job'[j].step = "count"
    BY <1>0, <1>12, Steps, Stops DEF ReadHook
  <2>3. CASE job[j].d # d
    BY <2>1, <2>2, <2>3, <1>j, IdleTyped
  <2>4. CASE job[j].d = d
    <3>1. Answerable(d)'
      BY <1>0, <2>1, <2>2, <2>4 DEF Answerable, Responsible, Has, Gone
    <3> QED BY <2>1, <2>2, <2>4, <3>1, OwnStep, IdleTyped DEF Has
  <2> QED BY <2>3, <2>4
<1>13. ASSUME NEW j \in Handlers, ReadCount(j) PROVE Good(d)'
  <2>1. /\ job[j].step = "count"
        /\ UNCHANGED <<rows, copies, author, retry, accepted, lost, disturbed>>
    BY <1>13 DEF ReadCount, world, history
  <2>2. /\ \A k \in Handlers \ {j} : job'[k] = job[k]
        /\ job'[j].d = job[j].d /\ job'[j].step \in {"write", "post"}
    <3>1. CASE Goto(j, "post")
      BY <1>0, <2>1, <3>1, Steps
    <3>2. CASE Become(j, [job[j] EXCEPT !.step = "write", !.count = Counted(rows[job[j].d].attempts)])
      BY <1>0, <3>2 DEF Become, TypeOK, Jobs
    <3> QED BY <1>13, <3>1, <3>2 DEF ReadCount
  <2>3. CASE job[j].d # d
    BY <2>1, <2>2, <2>3, <1>j
  <2>4. CASE job[j].d = d
    <3>1. Answerable(d)'
      BY <2>2, <2>4 DEF Answerable, Responsible
    <3> QED BY <2>1, <2>2, <2>4, <3>1, OwnStep DEF Has
  <2> QED BY <2>3, <2>4
<1>14. ASSUME NEW j \in Handlers, WriteCount(j) \/ Reschedule(j) PROVE Good(d)'
  <2>1. /\ job[j].step \in {"write", "reschedule"}
        /\ UNCHANGED <<copies, author, retry, accepted, disturbed>>
        /\ job[j].d \in Deliveries /\ job[j].count \in Nat
        /\ lost \subseteq lost'
    BY <1>0, <1>14, Busy DEF WriteCount, Reschedule, history
  <2>2. /\ \A k \in Handlers \ {j} : job'[k] = job[k]
        /\ job'[j].d = job[j].d /\ job'[j].step \in {"post", "enqueue"}
    BY <1>0, <1>14, Steps DEF WriteCount, Reschedule
  <2>3. /\ job[j].d # d => rows'[d] = rows[d]
        /\ rows[d] = None => rows'[d] = None
        /\ Has(d, "success")' => Has(d, "success")
    <3>1. CASE UNCHANGED rows
      BY <3>1 DEF Has
    <3>2. CASE Update(job[j].d, [rows[job[j].d] EXCEPT !.attempts = job[j].count])
      BY <1>0, <2>1, <3>2, SettingCount DEF Has
    <3>3. CASE SetStatus(job[j].d, "pending")
      BY <1>0, <2>1, <3>3, SettingStatus DEF Has
    <3> QED BY <1>14, <3>1, <3>2, <3>3 DEF WriteCount, Reschedule
  <2>4. CASE job[j].d # d
    BY <2>1, <2>2, <2>3, <2>4, <1>j
  <2>5. CASE job[j].d = d
    <3>1. Answerable(d)'
      BY <2>2, <2>5 DEF Answerable, Responsible
    <3> QED BY <2>1, <2>2, <2>3, <2>5, <3>1, OwnStep
  <2> QED BY <2>4, <2>5
<1>15. ASSUME NEW j \in Handlers, NEW outcome \in Outcomes, Post(j, outcome) PROVE Good(d)'
  <2>1. /\ job[j].step = "post" /\ job[j].d \in Deliveries
        /\ UNCHANGED <<rows, copies, author, retry, lost, disturbed>>
        /\ accepted' = IF outcome = "ok" THEN accepted \cup {job[j].d} ELSE accepted
    BY <1>0, <1>15, Busy DEF Post, world
  <2>2. /\ \A k \in Handlers \ {j} : job'[k] = job[k]
        /\ job'[j].d = job[j].d /\ job'[j].step = outcome
    BY <1>0, <1>15, Steps DEF Post, Outcomes
  <2>3. CASE job[j].d # d
    BY <2>1, <2>2, <2>3, <1>j
  <2>4. CASE job[j].d = d
    <3>1. Fresh(d)' /\ Alone(d)'
      BY <2>1, <2>2, <2>4, OwnFrame
    <3>2. Answerable(d)'
      BY <2>2, <2>4 DEF Answerable, Responsible, Outcomes
    <3>3. Claims(d)'
      BY <1>0, <2>1 DEF Good, Claims, Has
    <3>4. Kept(d)'
      BY <2>1, <2>2, <2>4, Own DEF Kept, Bearer
    <3> QED BY <3>1, <3>2, <3>3, <3>4 DEF Good
  <2> QED BY <2>3, <2>4
<1>16. ASSUME NEW j \in Handlers, NEW outcome \in Outcomes, StoreResult(j, outcome) PROVE Good(d)'
  <2>1. /\ job[j].step = outcome /\ job[j].d \in Deliveries
        /\ UNCHANGED <<copies, author, retry, accepted, disturbed>>
        /\ \/ SetStatus(job[j].d, StatusOf(outcome)) /\ UNCHANGED lost
           \/ lost' = lost \cup {job[j].d} /\ UNCHANGED rows
    BY <1>0, <1>16, Busy DEF StoreResult, Outcomes
  <2>2. /\ \A k \in Handlers \ {j} : job'[k] = job[k]
        /\ IF outcome = "ok" THEN job'[j] = Idle
           ELSE job'[j].d = job[j].d /\ job'[j].step \in {"reschedule", "fail"}
    <3>1. CASE After(outcome, job[j].count) = "idle"
      <4>1. outcome = "ok" /\ Become(j, Idle)
        BY <1>16, <3>1 DEF StoreResult, After
      <4> QED BY <1>0, <4>1, Stops
    <3>2. CASE After(outcome, job[j].count) # "idle"
      <4>1. outcome # "ok" /\ After(outcome, job[j].count) \in {"reschedule", "fail"}
        BY <3>2 DEF After
      <4>2. Goto(j, After(outcome, job[j].count)) /\ job[j].step # "idle"
        BY <1>16, <2>1, <3>2 DEF StoreResult, Outcomes
      <4> QED BY <1>0, <4>1, <4>2, Steps
    <3> QED BY <3>1, <3>2
  <2>3. StatusOf(outcome) \in {"success", "failed"} /\ (StatusOf(outcome) = "success" <=> outcome = "ok")
    BY DEF StatusOf
  <2>4. CASE job[j].d # d
    <3>1. rows'[d] = rows[d] /\ lost \subseteq lost'
      BY <1>0, <2>1, <2>3, <2>4, SettingStatus
    <3> QED BY <2>1, <2>2, <2>4, <3>1, <1>j, IdleTyped DEF Outcomes
  <2>5. CASE job[j].d = d
    <3>1. \/ d \in lost' /\ rows' = rows
          \/ /\ rows[d] = None => rows'[d] = None
             /\ rows[d] # None => rows'[d].status = StatusOf(outcome)
             /\ lost' = lost
      BY <1>0, <2>1, <2>3, <2>5, SettingStatus
    <3>2. Answerable(d)'
      BY <2>3, <3>1 DEF Answerable, Has
    <3>3. CASE outcome = "ok"
      <4>1. Fresh(d)' /\ Alone(d)'
        BY <2>1, <2>2, <2>5, <3>3, OwnFrame, IdleTyped
      <4>2. d \in accepted'
        BY <1>0, <2>1, <2>5, <3>3 DEF Bears
      <4>3. Kept(d)'
        <5>1. SUFFICES ASSUME d \notin lost', d \notin disturbed, rows'[d] # None PROVE Kept(d)'
          BY <2>1 DEF Kept
        <5>2. Has(d, "success")'
          BY <2>3, <3>1, <3>3, <5>1 DEF Has
        <5>3. Working(d)' = {}
          BY <1>0, <2>2, <2>5, <3>3, <5>1, Own, IdleTyped DEF Working
        <5> QED BY <5>2, <5>3 DEF Kept
      <4> QED BY <3>2, <4>1, <4>2, <4>3 DEF Good, Claims
    <3>4. CASE outcome # "ok"
      <4>1. Has(d, "success")' => Has(d, "success")
        BY <2>3, <3>1, <3>4 DEF Has
      <4>2. (rows[d] = None => rows'[d] = None) /\ lost \subseteq lost'
        BY <2>1, <3>1
      <4> QED BY <2>1, <2>2, <2>5, <3>2, <3>4, <4>1, <4>2, OwnStep DEF Outcomes
    <3> QED BY <3>3, <3>4
  <2> QED BY <2>4, <2>5
<1>17. ASSUME NEW j \in Handlers, QueueRetry(j) PROVE Good(d)'
  <2>1. /\ job[j].step = "enqueue" /\ job[j].d \in Deliveries
        /\ UNCHANGED <<rows, author, retry, accepted, disturbed>>
    BY <1>0, <1>17, Busy DEF QueueRetry
  <2>2. job'[j] = Idle /\ \A k \in Handlers \ {j} : job'[k] = job[k]
    BY <1>0, <1>17, Stops DEF QueueRetry
  <2>3. /\ lost \subseteq lost'
        /\ job[j].d # d => copies'[d] = copies[d]
        /\ job[j].d = d => copies'[d] > 0 \/ d \in lost'
    BY <1>0, <1>17, <2>1, Sending DEF QueueRetry
  <2>4. CASE job[j].d # d
    BY <2>1, <2>2, <2>3, <2>4, <1>j, IdleTyped
  <2>5. CASE job[j].d = d
    <3>1. Answerable(d)'
      BY <2>3, <2>5 DEF Answerable, Responsible
    <3> QED BY <2>1, <2>2, <2>3, <2>5, <3>1, OwnStep, IdleTyped DEF Has
  <2> QED BY <2>4, <2>5
<1>18. ASSUME NEW j \in Handlers, MarkFailed(j) \/ Disable(j) PROVE Good(d)'
  <2>1. /\ job[j].step \in {"fail", "disable"} /\ job[j].d \in Deliveries
        /\ UNCHANGED <<copies, author, retry, accepted, disturbed, lost>>
    BY <1>0, <1>18, Busy DEF MarkFailed, Disable, history
  <2>2. /\ \A k \in Handlers \ {j} : job'[k] = job[k]
        /\ job'[j] = Idle \/ (job'[j].d = job[j].d /\ job'[j].step = "disable")
    BY <1>0, <1>18, Steps, Stops DEF MarkFailed, Disable
  <2>3. rows' = rows \/ SetStatus(job[j].d, "failed")
    BY <1>18 DEF MarkFailed, Disable
  <2>4. CASE job[j].d # d
    <3>1. rows'[d] = rows[d]
      BY <1>0, <2>1, <2>3, <2>4, SettingStatus
    <3> QED BY <2>1, <2>2, <2>4, <3>1, <1>j, IdleTyped
  <2>5. CASE job[j].d = d
    <3>1. /\ rows[d] = None => rows'[d] = None
          /\ Has(d, "success")' => Has(d, "success")
          /\ Has(d, "pending")' => Has(d, "pending")
      BY <1>0, <2>1, <2>3, <2>5, SettingStatus DEF Has
    <3>2. Answerable(d)'
      BY <1>0, <2>1, <2>2, <2>5, <3>1 DEF Good, Answerable, Responsible
    <3> QED BY <2>1, <2>2, <2>5, <3>1, <3>2, OwnStep, IdleTyped
  <2> QED BY <2>4, <2>5
<1>19. ASSUME NEW j \in Handlers, AnswerFirst(j) \/ TimeOut(j) PROVE Good(d)'
  <2> DEFINE s == [job[j] EXCEPT !.held = FALSE]
  <2>1. job[j].step # "idle" /\ job[j].d \in Deliveries
    BY <1>0, <1>19 DEF AnswerFirst, TimeOut, Typed, Shape, Idle
  <2>s. s.step = job[j].step /\ s.d = job[j].d
    BY <1>0 DEF TypeOK, Jobs
  <2>b. Become(j, s)
    BY <1>19 DEF AnswerFirst, TimeOut
  <2>2. /\ s.step = job[j].step /\ s.d = job[j].d
        /\ job'[j] = s /\ \A k \in Handlers \ {j} : job'[k] = job[k]
    BY <1>0, <2>s, <2>b DEF Become, TypeOK
  <2>3. /\ UNCHANGED <<rows, author, retry, accepted, lost, disturbed>>
        /\ job[j].d # d => copies'[d] = copies[d]
        /\ copies[d] > 0 => copies'[d] > 0
    BY <1>0, <1>19, <2>1 DEF AnswerFirst, TimeOut, world, history, TypeOK
  <2>4. CASE job[j].d # d
    BY <2>1, <2>2, <2>3, <2>4, <1>j
  <2>5. CASE job[j].d = d
    <3>1. \A k \in Handlers : job'[k].d = job[k].d /\ job'[k].step = job[k].step
      BY <2>2
    <3>2. Fresh(d)' /\ Alone(d)'
      BY <2>2, <2>3, <2>5, OwnFrame
    <3>3. Answerable(d)'
      BY <1>0, <2>3, <3>1 DEF Good, Answerable, Responsible, Has, TypeOK
    <3>4. Claims(d)' /\ Kept(d)'
      BY <1>0, <2>3, <3>1 DEF Good, Claims, Kept, Bearer, Has, Working
    <3> QED BY <3>2, <3>3, <3>4 DEF Good
  <2> QED BY <2>4, <2>5
<1>20. ASSUME NEW j \in Handlers, HandlerDies(j) \/ Throw(j) PROVE Good(d)'
  <2>1. job[j].step # "idle" /\ job[j].d \in Deliveries
    BY <1>0, <1>20 DEF HandlerDies, Throw, Typed, Shape
  <2>2. job'[j] = Idle /\ \A k \in Handlers \ {j} : job'[k] = job[k]
    BY <1>0, <1>20, Stops DEF HandlerDies, Throw
  <2>3. /\ UNCHANGED <<rows, author, retry, accepted>>
        /\ lost \subseteq lost' /\ disturbed \subseteq disturbed'
        /\ job[j].d # d => copies'[d] = copies[d]
        /\ job[j].d = d => copies'[d] > 0 \/ d \in lost'
        /\ job[j].d = d /\ job[j].step = "ok" => d \in disturbed' \cup lost'
    BY <1>0, <1>20, <2>1 DEF HandlerDies, Throw, world, TypeOK
  <2>4. CASE job[j].d # d
    BY <2>1, <2>2, <2>3, <2>4, <1>j, IdleTyped
  <2>5. CASE job[j].d = d
    <3>1. Fresh(d)' /\ Alone(d)'
      BY <2>2, <2>3, <2>5, OwnFrame, IdleTyped
    <3>2. Answerable(d)'
      BY <2>3, <2>5 DEF Answerable, Responsible
    <3>3. Claims(d)'
      BY <1>0, <2>3 DEF Good, Claims, Has
    <3>4. Kept(d)'
      <4>1. SUFFICES ASSUME d \in accepted, d \notin lost', d \notin disturbed', rows[d] # None
                     PROVE  Kept(d)'
        BY <2>3 DEF Kept
      <4>2. Has(d, "success")
        BY <2>3, <2>5, <4>1, Own
      <4>3. Working(d)' = {}
        BY <1>0, <2>2, <2>3, <2>5, <4>1, Own, IdleTyped DEF Working
      <4> QED BY <2>3, <4>2, <4>3 DEF Kept, Has
    <3> QED BY <3>1, <3>2, <3>3, <3>4 DEF Good
  <2> QED BY <2>4, <2>5
<1>21. CASE CheckHook
  <2>1. /\ retry.step = "hook" /\ retry'.d \in {retry.d, None}
        /\ UNCHANGED <<rows, copies, author, job, accepted, lost, disturbed>>
    BY <1>0, <1>21 DEF CheckHook, world, history, NoRetry, TypeOK
  <2> QED BY <1>0, <2>1, Elsewhere
<1>22. CASE Reset
  <2>1. /\ retry.step = "reset" /\ retry.d \in Deliveries
        /\ retry' = [step |-> "send", d |-> retry.d]
        /\ UNCHANGED <<copies, author, job, accepted, lost>> /\ disturbed \subseteq disturbed'
    BY <1>0, <1>22 DEF Reset, Typed, RetryShape, NoRetry, TypeOK
  <2>2. CASE retry.d # d
    <3>1. rows'[d] = rows[d]
      BY <1>22, <2>2 DEF Reset, Update
    <3>2. retry # [step |-> "send", d |-> d] /\ retry'.d # d
      BY <2>1, <2>2
    <3> QED BY <1>0, <2>1, <3>1, <3>2, Elsewhere
  <2>3. CASE retry.d = d
    <3>1. /\ rows[d] = None => rows'[d] = None
          /\ rows[d] # None => rows'[d] = [status |-> "pending", attempts |-> 0]
      BY <1>0, <1>22, <2>1, <2>3, Updating DEF Reset, Rows
    <3>2. Fresh(d)'
      BY <1>0, <2>1, <2>3 DEF Good, Fresh
    <3>3. Answerable(d)'
      BY <2>1, <2>3 DEF Answerable, Responsible
    <3>4. Alone(d)'
      BY <1>0, <2>1 DEF Good, Alone, Working
    <3>5. Claims(d)'
      BY <3>1 DEF Claims, Has
    <3>6. Kept(d)'
      <4>1. SUFFICES ASSUME d \in accepted, d \notin lost, d \notin disturbed', rows'[d] # None
                     PROVE  FALSE
        BY <2>1 DEF Kept
      <4>2. Working(d) = {} /\ rows[d] # None /\ rows[d].status = "failed"
        BY <1>22, <2>3, <3>1, <4>1 DEF Reset
      <4>3. d \notin disturbed
        BY <2>1, <4>1
      <4> QED BY <1>0, <4>1, <4>2, <4>3 DEF Good, Kept, Bearer, Has, Working
    <3> QED BY <3>2, <3>3, <3>4, <3>5, <3>6 DEF Good
  <2> QED BY <2>2, <2>3
<1>23. CASE SendRetry \/ RetryDies
  <2>1. /\ retry.d \in Deliveries /\ retry' = NoRetry
        /\ UNCHANGED <<rows, author, job, accepted, disturbed>>
    BY <1>0, <1>23 DEF SendRetry, RetryDies, world, Typed, RetryShape, NoRetry
  <2>2. /\ lost \subseteq lost'
        /\ retry.d # d => copies'[d] = copies[d]
        /\ retry = [step |-> "send", d |-> d] => copies'[d] > 0 \/ d \in lost'
        /\ copies[d] > 0 => copies'[d] > 0 \/ d \in lost'
    BY <1>0, <1>23, <2>1, Sending DEF SendRetry, RetryDies, world, TypeOK
  <2>3. CASE retry.d # d
    <3>1. retry # [step |-> "send", d |-> d] /\ retry'.d # d
      BY <1>0, <2>1, <2>3 DEF NoRetry
    <3> QED BY <1>0, <2>1, <2>2, <2>3, <3>1, Elsewhere
  <2>4. CASE retry.d = d
    <3>1. Fresh(d)'
      BY <1>0, <2>1, <2>4 DEF Good, Fresh
    <3>2. Answerable(d)'
      BY <1>0, <2>1, <2>2 DEF Good, Answerable, Responsible, Has, TypeOK
    <3>3. Alone(d)' /\ Claims(d)' /\ Kept(d)'
      BY <1>0, <2>1, <2>2 DEF Good, Alone, Claims, Kept, Bearer, Has, Working
    <3> QED BY <3>1, <3>2, <3>3 DEF Good
  <2> QED BY <2>3, <2>4
<1> QED BY <1>1, <1>2, <1>3, <1>4, <1>5, <1>6, <1>7, <1>8, <1>9, <1>10, <1>11, <1>12, <1>13,
          <1>14, <1>15, <1>16, <1>17, <1>18, <1>19, <1>20, <1>21, <1>22, <1>23,
          <1>25, <1>26, <1>27 DEF Next, Author, Handle, Retry

-----------------------------------------------------------------------------
(* The theorems *)

LEMMA InvInit == Init => Inv
<1> SUFFICES ASSUME Init PROVE Inv
    OBVIOUS
<1>1. Typed
  BY TypeInit
<1>2. \A j \in Handlers : job[j].step = "idle" /\ job[j].d = None
  BY DEF Init, Idle
<1>3. \A j \in Handlers : Bears(j)
  BY <1>2 DEF Bears
<1>4. ASSUME NEW d \in Deliveries PROVE Good(d)
  <2>1. /\ Working(d) = {} /\ rows[d] = None /\ copies[d] = 0 /\ retry.d # d
        /\ accepted = {}
    BY <1>2, WebhookAssumption DEF Init, Working, NoRetry
  <2> QED BY <2>1 DEF Good, Fresh, Answerable, Alone, Claims, Kept, Has
<1>5. Gone
  BY DEF Init, Gone
<1> QED BY <1>1, <1>3, <1>4, <1>5 DEF Inv

LEMMA InvStep == Inv /\ [Next]_vars => Inv'
<1> SUFFICES ASSUME Inv, [Next]_vars PROVE Inv'
    OBVIOUS
<1>1. Typed'
  BY TypeStep DEF Inv
<1>2. \A j \in Handlers : Bears(j)'
  BY BearStep
<1>3. \A d \in Deliveries : Good(d)'
  BY GoodStep
<1>4. Gone'
  BY GoneStep
<1> QED BY <1>1, <1>2, <1>3, <1>4 DEF Inv

LEMMA Invariance == Spec => []Inv
BY InvInit, InvStep, PTL DEF Spec

\* A delivery shown as pending waits in the queue or is being worked on, unless
\* a send, a write or a handler was lost.
THEOREM PendingHeld == Spec => []PendingIsInHand
<1>1. Inv => PendingIsInHand
  BY DEF Inv, Good, Answerable, Responsible, PendingIsInHand, InHand, Working
<1> QED BY <1>1, Invariance, PTL

\* A delivery nobody works on tells whether the endpoint accepted it.
THEOREM OutcomesTold == Spec => []OutcomeTold
<1>1. Inv => OutcomeTold
  BY DEF Inv, Good, Claims, Kept, Bearer, OutcomeTold, InHand, Working
<1> QED BY <1>1, Invariance, PTL
-----------------------------------------------------------------------------
(* How often the endpoint may still be called *)

\* A handler that may send its delivery on.
MaySendOn(s) ==
  \/ s.step \in {"row", "hook", "count", "write", "reschedule", "enqueue"}
  \/ s.step \in {"post", "refused"} /\ s.count < MaxAttempts

\* The handler of d, idle when there is none.
Seats(d) == IF Working(d) = {} THEN {Idle} ELSE {job[j] : j \in Working(d)}

\* The copies that wait for d, the one an administrator is about to send included.
Waiting(d) == copies[d] + IF retry = [step |-> "send", d |-> d] THEN 1 ELSE 0

\* The calls that a attempts and t copies, waiting or being handled, leave.
Left(a, t) == (IF a < MaxAttempts THEN MaxAttempts - a ELSE 1) + t - 1

\* The calls still to be made for a delivery with this row, by the handler s and
\* by w copies that wait.
Ahead(row, s, w) ==
  IF row = None THEN IF s.step \in {"hook", "count", "write", "post"} THEN 1 ELSE 0
  ELSE (IF s.step = "post" THEN 1 ELSE 0)
       + Left(row.attempts, w + (IF MaySendOn(s) THEN 1 ELSE 0))

\* The calls allowed: a retry that has not reset the row has not used its share.
Granted(n) == MaxAttempts * (1 + n)
Unused(d) == IF retry.d = d /\ retry.step \in {"hook", "reset"} THEN MaxAttempts ELSE 0
Allowed(d) == Granted(resets) + faults - Unused(d)

Within(d) == \A s \in Seats(d) : posts[d] + Ahead(rows[d], s, Waiting(d)) <= Allowed(d)

\* A delivery whose author has not stored its test yet has not been called for.
Uncalled(d) ==
  /\ author[d] \in {"none", "event", "test", "queueing", "testing", "counting"} =>
       posts[d] = 0 /\ (rows[d] # None => rows[d].attempts = 0)
  /\ author[d] = "counting" =>
       copies[d] = 0 /\ Working(d) = {} /\ retry # [step |-> "send", d |-> d]

\* The count a handler is about to write is the next one.
NextCount(d) ==
  \A j \in Working(d) :
    job[j].step = "write" /\ rows[d] # None => job[j].count = rows[d].attempts + 1

Budget(d) == d \notin disturbed => Within(d) /\ Uncalled(d) /\ NextCount(d)

BudgetInv == Inv /\ \A d \in Deliveries : Budget(d)

LEMMA Granting ==
  /\ \A n \in Nat : /\ Granted(n) \in Nat /\ Granted(n) >= MaxAttempts
                    /\ Granted(n + 1) = Granted(n) + MaxAttempts
  /\ MaxAttempts \in Nat \ {0}
<1>1. MaxAttempts \in Nat \ {0}
  BY WebhookAssumption
<1>2. ASSUME NEW n \in Nat
      PROVE  /\ Granted(n) \in Nat /\ Granted(n) >= MaxAttempts
             /\ Granted(n + 1) = Granted(n) + MaxAttempts
  <2>1. MaxAttempts * (1 + n) = MaxAttempts + MaxAttempts * n
    BY <1>1
  <2>2. MaxAttempts * (1 + (n + 1)) = MaxAttempts * (1 + n) + MaxAttempts
    BY <1>1
  <2>3. MaxAttempts * n \in Nat
    BY <1>1
  <2> QED BY <1>1, <2>1, <2>2, <2>3 DEF Granted
<1> QED BY <1>1, <1>2

LEMMA AheadNatural ==
  ASSUME NEW row \in Rows \cup {None}, NEW s \in Jobs, NEW w \in Nat
  PROVE  Ahead(row, s, w) \in Nat
BY Granting DEF Ahead, Left, Rows

\* At most e more calls are ahead of a handler that calls no more itself and of
\* at most e more copies.
LEMMA AheadLess ==
  ASSUME NEW row \in Rows \cup {None}, NEW s \in Jobs, NEW w \in Nat,
         NEW row2 \in Rows \cup {None}, NEW s2 \in Jobs, NEW w2 \in Nat, NEW e \in {0, 1},
         row = None => row2 = None,
         row # None /\ row2 # None => row2.attempts = row.attempts,
         s2.step \in {"hook", "count", "write"} /\ row2 = None
           => s.step \in {"hook", "count", "write", "post"},
         s2.step = "post" => s.step = "post",
         w2 + (IF MaySendOn(s2) THEN 1 ELSE 0) <= w + (IF MaySendOn(s) THEN 1 ELSE 0) + e
  PROVE  Ahead(row2, s2, w2) <= Ahead(row, s, w) + e
<1> DEFINE t == w + (IF MaySendOn(s) THEN 1 ELSE 0)
           t2 == w2 + (IF MaySendOn(s2) THEN 1 ELSE 0)
<1>1. t \in Nat /\ t2 \in Nat /\ t2 <= t + e /\ (MaySendOn(s) => t >= 1)
  OBVIOUS
<1>2. CASE row2 = None /\ row = None
  BY <1>2 DEF Ahead
<1>3. CASE row2 # None /\ row # None
  <2>1. row.attempts \in Nat /\ row2.attempts = row.attempts
    BY <1>3 DEF Rows
  <2>2. Left(row2.attempts, t2) <= Left(row.attempts, t) + e
    BY <1>1, <2>1, Granting DEF Left
  <2>3. Left(row2.attempts, t2) \in Nat /\ Left(row.attempts, t) \in Nat
    BY <1>1, <2>1, Granting DEF Left
  <2> QED BY <1>3, <2>2, <2>3 DEF Ahead
<1>4. CASE row2 = None /\ row # None
  <2>1. row.attempts \in Nat
    BY <1>4 DEF Rows
  <2>2. Left(row.attempts, t) \in Nat /\ Left(row.attempts, t) >= t
    BY <1>1, <2>1, Granting DEF Left
  <2>3. s.step \in {"hook", "count", "write"} => MaySendOn(s)
    BY DEF MaySendOn
  <2> QED BY <1>1, <1>4, <2>2, <2>3 DEF Ahead
<1> QED BY <1>2, <1>3, <1>4

\* What types a delivery's budget.
BudgetTypes ==
  \A d \in Deliveries :
    /\ rows[d] \in Rows \cup {None} /\ posts[d] \in Nat /\ copies[d] \in Nat
    /\ Waiting(d) \in Nat /\ Waiting(d) >= copies[d]
    /\ Seats(d) \subseteq Jobs
    /\ faults \in Nat /\ resets \in Nat /\ Unused(d) \in {0, MaxAttempts}
    /\ Granted(resets) \in Nat
    /\ Allowed(d) \in Int /\ Allowed(d) = Granted(resets) + faults - Unused(d)

LEMMA BudgetTyped == Typed => BudgetTypes
<1> SUFFICES ASSUME Typed PROVE BudgetTypes
    OBVIOUS
<1> SUFFICES ASSUME NEW d \in Deliveries
             PROVE  /\ rows[d] \in Rows \cup {None} /\ posts[d] \in Nat /\ copies[d] \in Nat
                    /\ Waiting(d) \in Nat /\ Waiting(d) >= copies[d]
                    /\ Seats(d) \subseteq Jobs
                    /\ faults \in Nat /\ resets \in Nat /\ Unused(d) \in {0, MaxAttempts}
                    /\ Granted(resets) \in Nat
                    /\ Allowed(d) \in Int /\ Allowed(d) = Granted(resets) + faults - Unused(d)
    BY DEF BudgetTypes
<1>1. /\ rows[d] \in Rows \cup {None} /\ posts[d] \in Nat /\ copies[d] \in Nat
      /\ faults \in Nat /\ resets \in Nat /\ job \in [Handlers -> Jobs]
  BY WebhookAssumption DEF Typed, TypeOK
<1>2. Seats(d) \subseteq Jobs
  BY <1>1, IdleTyped DEF Seats, Working
<1>3. Waiting(d) \in Nat /\ Waiting(d) >= copies[d]
  BY <1>1 DEF Waiting
<1>4. Unused(d) \in {0, MaxAttempts}
  BY DEF Unused
<1>5. Granted(resets) \in Nat /\ MaxAttempts \in Nat
  BY <1>1, Granting
<1> QED BY <1>1, <1>2, <1>3, <1>4, <1>5 DEF Allowed

LEMMA BudgetTypedNext == Typed' => BudgetTypes'
BY BudgetTyped, PTL

\* A step that has nothing to do with a delivery can only allow it more calls.
LEMMA BudgetElsewhere ==
  ASSUME Typed, Typed', NEW d \in Deliveries, Budget(d),
         rows'[d] = rows[d], copies'[d] = copies[d], author'[d] = author[d], posts'[d] = posts[d],
         disturbed \subseteq disturbed',
         \A j \in Handlers : job'[j] = job[j] \/ (job[j].d # d /\ job'[j].d # d),
         retry' = retry \/ (retry.d # d /\ retry'.d # d),
         faults' >= faults, resets' \in {resets, resets + 1}
  PROVE  Budget(d)'
<1> SUFFICES ASSUME d \notin disturbed' PROVE Within(d)' /\ Uncalled(d)' /\ NextCount(d)'
    BY DEF Budget
<1>0. /\ Within(d) /\ Uncalled(d) /\ NextCount(d)
      /\ BudgetTypes /\ BudgetTypes'
  BY BudgetTyped, BudgetTypedNext DEF Budget
<1>1. /\ Working(d)' = Working(d) /\ Seats(d)' = Seats(d)
      /\ \A j \in Working(d) : job'[j] = job[j]
  BY DEF Working, Seats
<1>2. /\ Waiting(d)' = Waiting(d) /\ Unused(d)' = Unused(d)
      /\ (retry = [step |-> "send", d |-> d])' <=> retry = [step |-> "send", d |-> d]
  BY DEF Waiting, Unused
<1>3. Granted(resets') >= Granted(resets)
  BY <1>0, Granting DEF BudgetTypes
<1>4. Allowed(d)' >= Allowed(d)
  <2>1. /\ Allowed(d) = Granted(resets) + faults - Unused(d) /\ Granted(resets) \in Int
        /\ faults \in Int /\ Unused(d) \in Int
    BY <1>0, Granting DEF BudgetTypes
  <2>2. Allowed(d)' = Granted(resets') + faults' - Unused(d)' /\ Granted(resets') \in Int
        /\ faults' \in Int
    BY <1>0, Granting DEF BudgetTypes
  <2> QED BY <1>2, <1>3, <2>1, <2>2
<1>5. Within(d)'
  <2> SUFFICES ASSUME NEW s \in Seats(d)
               PROVE  posts[d] + Ahead(rows[d], s, Waiting(d)) <= Allowed(d)'
      BY <1>1, <1>2 DEF Within
  <2>1. posts[d] + Ahead(rows[d], s, Waiting(d)) <= Allowed(d)
    BY <1>0 DEF Within
  <2>2. /\ posts[d] \in Nat /\ Ahead(rows[d], s, Waiting(d)) \in Nat
        /\ Allowed(d) \in Int /\ Allowed(d)' \in Int
    BY <1>0, AheadNatural DEF BudgetTypes
  <2> QED BY <1>4, <2>1, <2>2
<1>6. Uncalled(d)'
  BY <1>0, <1>1, <1>2 DEF Uncalled
<1>7. NextCount(d)'
  BY <1>0, <1>1 DEF NextCount
<1> QED BY <1>5, <1>6, <1>7

\* The first call of a delivery, at most one copy of which waits.
LEMMA FirstCalls ==
  ASSUME Typed', NEW d \in Deliveries, Working(d)' = {}, posts'[d] = 0, Waiting(d)' <= 1,
         rows'[d] # None => rows'[d].attempts = 0, Unused(d)' = 0
  PROVE  Within(d)'
<1>0. BudgetTypes'
  BY BudgetTypedNext
<1>1. Seats(d)' = {Idle}
  BY DEF Seats
<1>2. Ahead(rows'[d], Idle, Waiting(d)') <= MaxAttempts
  <2>1. Waiting(d)' \in {0, 1}
    <3>1. Waiting(d)' \in Nat
      BY <1>0 DEF BudgetTypes
    <3> QED BY <3>1
  <2>2. ~MaySendOn(Idle) /\ Idle.step = "idle"
    BY DEF MaySendOn, Idle
  <2>3. MaxAttempts \in Nat /\ 0 < MaxAttempts
    BY WebhookAssumption
  <2>4. CASE rows'[d] = None
    BY <2>2, <2>3, <2>4 DEF Ahead
  <2>5. CASE rows'[d] # None
    <3>1. Ahead(rows'[d], Idle, Waiting(d)') = 0 + Left(0, Waiting(d)' + 0)
      BY <2>2, <2>5 DEF Ahead
    <3>2. Left(0, Waiting(d)' + 0) = MaxAttempts - 0 + Waiting(d)' - 1
      BY <2>1, <2>3 DEF Left
    <3> QED BY <2>1, <2>3, <3>1, <3>2
  <2> QED BY <2>4, <2>5
<1>3. Allowed(d)' >= MaxAttempts
  <2>1. /\ Allowed(d)' = Granted(resets') + faults' - Unused(d)' /\ faults' \in Nat /\ resets' \in Nat
    BY <1>0 DEF BudgetTypes
  <2> QED BY <2>1, Granting
<1>4. Ahead(rows'[d], Idle, Waiting(d)') \in Nat /\ Allowed(d)' \in Int
  BY <1>0, IdleTyped, AheadNatural DEF BudgetTypes
<1>5. 0 + Ahead(rows'[d], Idle, Waiting(d)') <= Allowed(d)'
  BY <1>2, <1>3, <1>4, Granting
<1> QED BY <1>1, <1>5 DEF Within

\* A step of nobody's handler: what it adds to the calls ahead is allowed.
LEMMA WithinKept ==
  ASSUME Typed, Typed', NEW d \in Deliveries, Within(d), UNCHANGED job, posts'[d] = posts[d],
         NEW e \in Int, Allowed(d)' >= Allowed(d) + e,
         \A s \in Seats(d) : Ahead(rows'[d], s, Waiting(d)') <= Ahead(rows[d], s, Waiting(d)) + e
  PROVE  Within(d)'
<1>0. BudgetTypes /\ BudgetTypes'
  BY BudgetTyped, BudgetTypedNext
<1>1. Seats(d)' = Seats(d)
  BY DEF Seats, Working
<1> SUFFICES ASSUME NEW s \in Seats(d)
             PROVE  posts[d] + Ahead(rows'[d], s, Waiting(d)') <= Allowed(d)'
    BY <1>1 DEF Within
<1>2. posts[d] + Ahead(rows[d], s, Waiting(d)) <= Allowed(d)
  BY DEF Within
<1>3. /\ posts[d] \in Nat /\ Ahead(rows[d], s, Waiting(d)) \in Nat
      /\ Ahead(rows'[d], s, Waiting(d)') \in Nat
      /\ Allowed(d) \in Int /\ Allowed(d)' \in Int
  BY <1>0, AheadNatural DEF BudgetTypes
<1>4. Ahead(rows'[d], s, Waiting(d)') <= Ahead(rows[d], s, Waiting(d)) + e
  OBVIOUS
<1> QED BY <1>2, <1>3, <1>4

\* A step of the handler of d, which is the only one.
LEMMA OwnBudget ==
  ASSUME Inv, Typed', NEW d \in Deliveries, Budget(d), d \notin disturbed,
         NEW j \in Handlers, job[j].d = d, \A k \in Handlers \ {j} : job'[k] = job[k],
         job'[j] = Idle \/ job'[j].d = d,
         UNCHANGED <<author, retry, resets>>,
         posts'[d] + Ahead(rows'[d], job'[j], Waiting(d)') + faults
           <= posts[d] + Ahead(rows[d], job[j], Waiting(d)) + faults',
         job'[j].step = "write" /\ rows'[d] # None => job'[j].count = rows'[d].attempts + 1
  PROVE  Budget(d)'
<1>0. /\ BudgetTypes /\ BudgetTypes' /\ Typed /\ Within(d) /\ Uncalled(d)
      /\ Working(d) = {j} /\ job[j] \in Jobs /\ Fresh(d)
      /\ job' \in [Handlers -> Jobs]
  <2>1. \A k \in Working(d) : k = j
    BY DEF Inv, Good, Alone, Working
  <2> QED BY <2>1, BudgetTyped, BudgetTypedNext DEF Inv, Budget, Typed, TypeOK, Good, Working
<1>1. author[d] \notin {"none", "event", "test", "queueing", "testing", "counting"}
  BY <1>0 DEF Fresh, Uncalled
<1>2. Seats(d) = {job[j]}
  BY <1>0 DEF Seats
<1>3. Seats(d)' = {job'[j]} /\ Working(d)' \subseteq {j}
  <2>1. \A k \in Handlers \ {j} : job'[k].d # d
    BY <1>0 DEF Working
  <2>2. CASE job'[j] = Idle
    <3>1. Working(d)' = {}
      BY <2>1, <2>2, IdleTyped DEF Working
    <3> QED BY <2>2, <3>1 DEF Seats
  <2>3. CASE job'[j].d = d
    <3>1. Working(d)' = {j}
      BY <2>1, <2>3 DEF Working
    <3> QED BY <3>1 DEF Seats
  <2> QED BY <2>2, <2>3
<1>4. Within(d)'
  <2>1. posts[d] + Ahead(rows[d], job[j], Waiting(d)) <= Allowed(d)
    BY <1>0, <1>2 DEF Within
  <2>2. Unused(d)' = Unused(d)
    BY DEF Unused
  <2>3. /\ posts[d] \in Nat /\ faults \in Nat /\ Unused(d) \in Int /\ Granted(resets) \in Int
        /\ Ahead(rows[d], job[j], Waiting(d)) \in Nat
        /\ Allowed(d) = Granted(resets) + faults - Unused(d)
    <3>1. /\ posts[d] \in Nat /\ faults \in Nat /\ Unused(d) \in {0, MaxAttempts}
          /\ Granted(resets) \in Nat /\ rows[d] \in Rows \cup {None} /\ Waiting(d) \in Nat
          /\ Allowed(d) = Granted(resets) + faults - Unused(d)
      BY <1>0 DEF BudgetTypes
    <3>2. Ahead(rows[d], job[j], Waiting(d)) \in Nat
      BY <1>0, <3>1, AheadNatural
    <3> QED BY <3>1, <3>2, WebhookAssumption
  <2>5. /\ posts'[d] \in Nat /\ faults' \in Nat
        /\ rows'[d] \in Rows \cup {None} /\ Waiting(d)' \in Nat
        /\ Allowed(d)' = Granted(resets') + faults' - Unused(d)'
    BY <1>0 DEF BudgetTypes
  <2>6. Ahead(rows'[d], job'[j], Waiting(d)') \in Nat
    BY <1>0, <2>5, AheadNatural
  <2>4. posts'[d] + Ahead(rows'[d], job'[j], Waiting(d)') <= Allowed(d)'
    BY <2>1, <2>2, <2>3, <2>5, <2>6
  <2> QED BY <1>3, <2>4 DEF Within
<1>5. Uncalled(d)'
  BY <1>1 DEF Uncalled
<1>6. NextCount(d)'
  BY <1>3 DEF NextCount
<1> QED BY <1>4, <1>5, <1>6 DEF Budget

LEMMA StepsCount ==
  ASSUME Typed, NEW j \in Handlers, NEW step, Goto(j, step)
  PROVE  job'[j].count = job[j].count
BY DEF Typed, TypeOK, Jobs, Goto, Become

LEMMA Faulting == Fault => faults' = faults + 1
BY DEF Fault

LEMMA SendingCounts ==
  ASSUME TypeOK, NEW d \in Deliveries, Send(d)
  PROVE  \/ copies'[d] = copies[d] + 1 /\ faults' = faults
         \/ copies'[d] = copies[d] /\ faults' = faults + 1
BY DEF Send, Enqueue, Fault, TypeOK

\* A step of the handler of d that calls nobody.
LEMMA OwnQuiet ==
  ASSUME Inv, Typed', NEW d \in Deliveries, Budget(d), d \notin disturbed,
         NEW j \in Handlers, job[j].d = d, \A k \in Handlers \ {j} : job'[k] = job[k],
         job'[j] = Idle \/ job'[j].d = d,
         UNCHANGED <<author, retry, resets>>, posts'[d] = posts[d],
         NEW e \in {0, 1}, faults' >= faults + e,
         rows[d] = None => rows'[d] = None,
         rows[d] # None /\ rows'[d] # None => rows'[d].attempts = rows[d].attempts,
         job'[j].step \in {"hook", "count", "write"} /\ rows'[d] = None
           => job[j].step \in {"hook", "count", "write", "post"},
         job'[j].step = "post" => job[j].step = "post",
         copies'[d] + (IF MaySendOn(job'[j]) THEN 1 ELSE 0)
           <= copies[d] + (IF MaySendOn(job[j]) THEN 1 ELSE 0) + e,
         job'[j].step = "write" /\ rows'[d] # None => job'[j].count = rows[d].attempts + 1
  PROVE  Budget(d)'
<1>0. /\ BudgetTypes /\ BudgetTypes' /\ job[j] \in Jobs /\ job'[j] \in Jobs
  BY BudgetTyped, BudgetTypedNext DEF Inv, Typed, TypeOK
<1>1. /\ rows[d] \in Rows \cup {None} /\ rows'[d] \in Rows \cup {None}
      /\ copies[d] \in Nat /\ copies'[d] \in Nat /\ posts[d] \in Nat
      /\ faults \in Nat /\ faults' \in Nat
      /\ Waiting(d) \in Nat /\ Waiting(d)' \in Nat
  BY <1>0 DEF BudgetTypes
<1> DEFINE r == IF retry = [step |-> "send", d |-> d] THEN 1 ELSE 0
<1>2. Waiting(d) = copies[d] + r /\ Waiting(d)' = copies'[d] + r /\ r \in {0, 1}
  BY DEF Waiting
<1> HIDE DEF r
<1>3. Waiting(d)' + (IF MaySendOn(job'[j]) THEN 1 ELSE 0)
        <= Waiting(d) + (IF MaySendOn(job[j]) THEN 1 ELSE 0) + e
  <2> DEFINE m == IF MaySendOn(job[j]) THEN 1 ELSE 0
             n == IF MaySendOn(job'[j]) THEN 1 ELSE 0
  <2>1. m \in Nat /\ n \in Nat /\ copies'[d] + n <= copies[d] + m + e
    OBVIOUS
  <2> HIDE DEF m, n
  <2>2. Waiting(d)' + n <= Waiting(d) + m + e
    BY <1>1, <1>2, <2>1
  <2> QED BY <2>2 DEF m, n
<1>4. Ahead(rows'[d], job'[j], Waiting(d)') <= Ahead(rows[d], job[j], Waiting(d)) + e
  BY <1>0, <1>1, <1>3, AheadLess
<1>5. Ahead(rows[d], job[j], Waiting(d)) \in Nat /\ Ahead(rows'[d], job'[j], Waiting(d)') \in Nat
  BY <1>0, <1>1, AheadNatural
<1>6. posts'[d] + Ahead(rows'[d], job'[j], Waiting(d)') + faults
        <= posts[d] + Ahead(rows[d], job[j], Waiting(d)) + faults'
  BY <1>1, <1>4, <1>5
<1> QED BY <1>6, OwnBudget

\* What creates a delivery keeps its budget.
LEMMA BudgetOfAuthor ==
  ASSUME Inv, Typed', NEW d \in Deliveries, Budget(d), d \notin disturbed', NEW b \in Deliveries,
         \/ \E for \in {"event", "test"} : Create(b, for)
         \/ InsertRow(b) \/ QueueEvent(b) \/ Test(b) \/ CountTest(b) \/ AuthorDies(b)
  PROVE  Budget(d)'
<1>0. /\ Typed /\ TypeOK /\ Fresh(d) /\ BudgetTypes /\ BudgetTypes'
      /\ UNCHANGED <<job, retry, resets, posts, disturbed>> /\ d \notin disturbed
      /\ Within(d) /\ Uncalled(d)
      /\ faults \in Nat
  <2>1. UNCHANGED <<job, retry, resets, posts, disturbed>>
    BY DEF Create, InsertRow, QueueEvent, Test, CountTest, AuthorDies, history
  <2> QED BY <2>1, BudgetTyped, BudgetTypedNext DEF Inv, Good, Typed, Budget, BudgetTypes
<1>1. faults' \in {faults, faults + 1}
  BY <1>0, SendingCounts, Faulting DEF Create, InsertRow, QueueEvent, Test, CountTest, AuthorDies
<1>2. CASE b # d
  <2>1. rows'[d] = rows[d]
    BY <1>0, <1>2, SettingStatus, SettingCount
       DEF Create, InsertRow, QueueEvent, Test, CountTest, AuthorDies, world, TypeOK
  <2>2. copies'[d] = copies[d]
    BY <1>0, <1>2, Sending DEF Create, InsertRow, QueueEvent, Test, CountTest, AuthorDies, world
  <2>3. author'[d] = author[d]
    BY <1>0, <1>2 DEF Create, InsertRow, QueueEvent, Test, CountTest, AuthorDies, TypeOK
  <2>4. faults' >= faults
    BY <1>0, <1>1
  <2> QED BY <1>0, <2>1, <2>2, <2>3, <2>4, BudgetElsewhere
<1>3. CASE b = d /\ author[d] \in {"none", "event", "test", "queueing", "testing"}
  <2>1. /\ Working(d) = {} /\ Working(d)' = {} /\ retry.d # d /\ copies[d] = 0
        /\ posts[d] = 0 /\ (rows[d] # None => rows[d].attempts = 0)
    BY <1>0, <1>3 DEF Fresh, Uncalled, Working
  <2>2. rows'[d] # None => rows'[d].attempts = 0
    <3>1. CASE UNCHANGED rows
      BY <2>1, <3>1
    <3>2. CASE rows' = [rows EXCEPT ![d] = [status |-> "pending", attempts |-> 0]]
      BY <1>0, <3>2 DEF TypeOK
    <3>3. ASSUME NEW s, SetStatus(d, s) PROVE rows'[d] # None => rows'[d].attempts = 0
      BY <1>0, <2>1, <3>3 DEF SetStatus, Update, TypeOK, Rows
    <3> QED BY <1>3, <3>1, <3>2, <3>3
            DEF Create, InsertRow, QueueEvent, Test, CountTest, AuthorDies, world
  <2>3. copies'[d] \in {0, 1} /\ (author'[d] = "counting" => copies'[d] = 0)
    BY <1>0, <1>3, <2>1, SendingCounts
       DEF Create, InsertRow, QueueEvent, Test, CountTest, AuthorDies, world, TypeOK
  <2>4. Waiting(d)' <= 1 /\ Unused(d)' = 0
    BY <1>0, <2>1, <2>3 DEF Waiting, Unused
  <2>5. Within(d)'
    BY <1>0, <2>1, <2>2, <2>4, FirstCalls
  <2>6. Uncalled(d)'
    BY <1>0, <2>1, <2>2, <2>3 DEF Uncalled
  <2>7. NextCount(d)'
    BY <2>1 DEF NextCount
  <2> QED BY <2>5, <2>6, <2>7 DEF Budget
<1>4. CASE b = d /\ author[d] \notin {"none", "event", "test", "queueing", "testing"}
  <2>1. /\ CountTest(d) \/ AuthorDies(d)
        /\ author[d] = "counting"
    BY <1>0, <1>4 DEF Create, InsertRow, QueueEvent, Test, CountTest, AuthorDies, TypeOK
  <2>2. /\ Working(d) = {} /\ Working(d)' = {} /\ author'[d] = "done" /\ copies' = copies
    BY <1>0, <2>1 DEF Uncalled, Working, CountTest, AuthorDies, world, TypeOK
  <2>3. Waiting(d)' = Waiting(d) /\ Unused(d)' = Unused(d)
    BY <1>0, <2>2 DEF Waiting, Unused
  <2>4. Allowed(d)' >= Allowed(d) + 0
    <3>1. /\ Allowed(d) = Granted(resets) + faults - Unused(d) /\ Granted(resets) \in Nat
          /\ Unused(d) \in {0, MaxAttempts}
      BY <1>0 DEF BudgetTypes
    <3>2. Allowed(d)' = Granted(resets) + faults' - Unused(d)
      BY <1>0, <2>3 DEF Allowed
    <3> QED BY <1>0, <1>1, <3>1, <3>2, WebhookAssumption
  <2>5. Ahead(rows'[d], Idle, Waiting(d)) <= Ahead(rows[d], Idle, Waiting(d))
    <3>0. /\ rows[d] \in Rows \cup {None} /\ Waiting(d) \in Nat
      BY <1>0 DEF BudgetTypes
    <3>1. CASE rows'[d] = rows[d]
      <4>1. Ahead(rows[d], Idle, Waiting(d)) \in Nat
        BY <3>0, IdleTyped, AheadNatural
      <4> QED BY <3>1, <4>1
    <3>2. CASE rows[d] # None /\ rows'[d] = [rows[d] EXCEPT !.attempts = 1]
      <4>1. rows[d].attempts = 0 /\ rows'[d].attempts = 1
        <5>1. [rows[d] EXCEPT !.attempts = 1].attempts = 1
          BY <3>0, <3>2 DEF Rows
        <5> QED BY <1>0, <2>1, <3>2, <5>1 DEF Uncalled
      <4>2. Idle.step = "idle" /\ ~MaySendOn(Idle)
        BY DEF Idle, MaySendOn
      <4>3. /\ Ahead(rows[d], Idle, Waiting(d)) = 0 + Left(0, Waiting(d) + 0)
            /\ \/ Ahead(rows'[d], Idle, Waiting(d)) = 0 + Left(1, Waiting(d) + 0)
               \/ Ahead(rows'[d], Idle, Waiting(d)) = 0
        BY <3>2, <4>1, <4>2 DEF Ahead
      <4>4. Left(1, Waiting(d) + 0) <= Left(0, Waiting(d) + 0)
            /\ Left(1, Waiting(d) + 0) \in Nat /\ Left(0, Waiting(d) + 0) \in Nat
        BY <3>0, WebhookAssumption DEF Left
      <4> QED BY <4>3, <4>4
    <3> QED BY <1>0, <2>1, <3>1, <3>2 DEF CountTest, AuthorDies, world, Update, TypeOK
  <2>6. Seats(d) = {Idle}
    BY <2>2 DEF Seats
  <2>7. Within(d)'
    <3>1. Ahead(rows'[d], Idle, Waiting(d)') <= Ahead(rows[d], Idle, Waiting(d)) + 0
      <4>1. Ahead(rows[d], Idle, Waiting(d)) \in Nat
        BY <1>0, IdleTyped, AheadNatural DEF BudgetTypes
      <4> QED BY <2>3, <2>5, <4>1
    <3> QED BY <1>0, <2>4, <2>6, <3>1, WithinKept
  <2>8. Uncalled(d)' /\ NextCount(d)'
    BY <2>2 DEF Uncalled, NextCount
  <2> QED BY <2>7, <2>8 DEF Budget
<1> QED BY <1>2, <1>3, <1>4

\* A step of nobody's handler after which no more copies wait, no more rows are
\* there, and no less is allowed.
LEMMA BudgetWithout ==
  ASSUME Typed, Typed', NEW d \in Deliveries, Budget(d), UNCHANGED <<job, author>>,
         disturbed \subseteq disturbed', posts'[d] = posts[d],
         rows'[d] = rows[d] \/ rows'[d] = None,
         Waiting(d)' <= Waiting(d), Allowed(d)' >= Allowed(d),
         author[d] = "counting" => copies'[d] = 0 /\ retry' # [step |-> "send", d |-> d]
  PROVE  Budget(d)'
<1> SUFFICES ASSUME d \notin disturbed' PROVE Within(d)' /\ Uncalled(d)' /\ NextCount(d)'
    BY DEF Budget
<1>0. /\ Within(d) /\ Uncalled(d) /\ NextCount(d)
      /\ BudgetTypes /\ BudgetTypes'
  BY BudgetTyped, BudgetTypedNext DEF Budget
<1>1. /\ Seats(d) \subseteq Jobs /\ Waiting(d) \in Nat /\ Waiting(d)' \in Nat
      /\ rows[d] \in Rows \cup {None} /\ rows'[d] \in Rows \cup {None}
      /\ Allowed(d) \in Int
  BY <1>0 DEF BudgetTypes
<1>2. ASSUME NEW s \in Seats(d)
      PROVE  Ahead(rows'[d], s, Waiting(d)') <= Ahead(rows[d], s, Waiting(d)) + 0
  <2>1. Waiting(d)' + (IF MaySendOn(s) THEN 1 ELSE 0)
          <= Waiting(d) + (IF MaySendOn(s) THEN 1 ELSE 0) + 0
    BY <1>1
  <2> QED BY <1>1, <2>1, AheadLess
<1>3. Within(d)'
  <2>1. Allowed(d)' >= Allowed(d) + 0 /\ 0 \in Int
    BY <1>1
  <2> QED BY <1>0, <1>2, <2>1, WithinKept
<1>4. Uncalled(d)' /\ NextCount(d)'
  BY <1>0 DEF Uncalled, NextCount, Working
<1> QED BY <1>3, <1>4

\* What is allowed grows with the faults, while nothing else changes.
LEMMA AllowedGrows ==
  ASSUME Typed, NEW d \in Deliveries, faults' \in {faults, faults + 1},
         resets' = resets, Unused(d)' = Unused(d) \/ Unused(d)' = 0
  PROVE  Allowed(d)' >= Allowed(d)
<1>1. BudgetTypes
  BY BudgetTyped
<1>2. /\ Granted(resets) \in Nat /\ faults \in Nat /\ Unused(d) \in {0, MaxAttempts}
      /\ Allowed(d) = Granted(resets) + faults - Unused(d)
  BY <1>1 DEF BudgetTypes
<1>3. Allowed(d)' = Granted(resets) + faults' - Unused(d)'
  BY DEF Allowed
<1> QED BY <1>2, <1>3, WebhookAssumption

\* Administrators and the queue keep the budget.
LEMMA BudgetOfOthers ==
  ASSUME Inv, Typed', NEW d \in Deliveries, Budget(d), d \notin disturbed',
         \/ \E b \in Deliveries : GiveUp(b) \/ StartRetry(b) \/ Cleanup(b)
         \/ CheckHook \/ Reset \/ SendRetry \/ RetryDies \/ DeleteHook \/ UNCHANGED vars
         \/ \E to \in {"enabled", "disabled"} : Switch(to)
  PROVE  Budget(d)'
<1>0. /\ Typed /\ TypeOK /\ Fresh(d) /\ BudgetTypes /\ BudgetTypes'
      /\ faults \in Nat /\ resets \in Nat /\ copies[d] \in Nat
      /\ UNCHANGED <<job, author, posts>> /\ disturbed \subseteq disturbed' /\ d \notin disturbed
      /\ Within(d) /\ Uncalled(d) /\ NextCount(d)
  <2>1. UNCHANGED <<job, author, posts>> /\ disturbed \subseteq disturbed'
    BY DEF GiveUp, StartRetry, Cleanup, CheckHook, Reset, SendRetry, RetryDies, DeleteHook, Switch,
           vars, history
  <2> QED BY <2>1, BudgetTyped, BudgetTypedNext DEF Inv, Good, Typed, Budget, BudgetTypes
<1>1. ASSUME NEW b \in Deliveries, GiveUp(b) PROVE Budget(d)'
  <2>1. /\ copies'[d] \in Nat /\ copies'[d] <= copies[d] /\ rows' = rows /\ retry' = retry
        /\ resets' = resets /\ faults' = faults + 1
    BY <1>0, <1>1, Faulting DEF GiveUp, TypeOK
  <2>2. Waiting(d)' <= Waiting(d) /\ Unused(d)' = Unused(d)
    BY <1>0, <2>1 DEF Waiting, Unused
  <2>3. Allowed(d)' >= Allowed(d)
    BY <1>0, <2>1, <2>2, AllowedGrows
  <2>4. author[d] = "counting" => copies'[d] = 0 /\ retry' # [step |-> "send", d |-> d]
    BY <1>0, <2>1 DEF Uncalled
  <2> QED BY <1>0, <2>1, <2>2, <2>3, <2>4, BudgetWithout
<1>2. ASSUME NEW b \in Deliveries, StartRetry(b) PROVE Budget(d)'
  <2>1. /\ retry = NoRetry /\ retry' = [step |-> "hook", d |-> b] /\ resets' = resets + 1
        /\ UNCHANGED <<rows, copies, faults>> /\ retry.d # d
    BY <1>2, WebhookAssumption DEF StartRetry, world, NoRetry
  <2>2. Waiting(d)' = Waiting(d) /\ Unused(d) = 0 /\ Unused(d)' \in {0, MaxAttempts}
    BY <2>1 DEF Waiting, Unused, NoRetry
  <2>3. Allowed(d)' >= Allowed(d)
    <3>1. /\ Granted(resets) \in Nat /\ Granted(resets') = Granted(resets) + MaxAttempts
          /\ MaxAttempts \in Nat
      BY <1>0, <2>1, Granting
    <3>2. Allowed(d) = Granted(resets) + faults - Unused(d)
          /\ Allowed(d)' = Granted(resets') + faults - Unused(d)'
      BY <2>1 DEF Allowed
    <3> QED BY <1>0, <2>2, <3>1, <3>2
  <2>4. author[d] = "counting" => copies'[d] = 0 /\ retry' # [step |-> "send", d |-> d]
    BY <1>0, <2>1 DEF Uncalled
  <2>5. Waiting(d)' <= Waiting(d)
    BY <1>0, <2>2 DEF BudgetTypes
  <2> QED BY <1>0, <2>1, <2>3, <2>4, <2>5, BudgetWithout
<1>3. CASE \/ \E b \in Deliveries : Cleanup(b)
           \/ DeleteHook \/ UNCHANGED vars \/ \E to \in {"enabled", "disabled"} : Switch(to)
  <2>1. /\ UNCHANGED <<copies, retry, faults, resets>>
        /\ rows'[d] = rows[d] \/ rows'[d] = None
    BY <1>0, <1>3 DEF Cleanup, DeleteHook, Switch, vars, world, TypeOK
  <2>2. Waiting(d)' = Waiting(d) /\ Unused(d)' = Unused(d)
    BY <2>1 DEF Waiting, Unused
  <2>3. Allowed(d)' >= Allowed(d)
    BY <1>0, <2>1, <2>2, AllowedGrows
  <2>4. author[d] = "counting" => copies'[d] = 0 /\ retry' # [step |-> "send", d |-> d]
    BY <1>0, <2>1 DEF Uncalled
  <2>5. Waiting(d)' <= Waiting(d)
    BY <1>0, <2>2 DEF BudgetTypes
  <2> QED BY <1>0, <2>1, <2>3, <2>4, <2>5, BudgetWithout
<1>4. CASE CheckHook \/ RetryDies
  <2>1. /\ UNCHANGED <<copies, rows, resets>> /\ faults' \in {faults, faults + 1}
        /\ retry' = NoRetry \/ (retry.step = "hook" /\ retry' = [retry EXCEPT !.step = "reset"])
    BY <1>4, Faulting DEF CheckHook, RetryDies, world
  <2>2. /\ retry' # [step |-> "send", d |-> d]
        /\ Unused(d)' = Unused(d) \/ Unused(d)' = 0
    <3>1. CASE retry' = NoRetry
      BY <3>1 DEF NoRetry, Unused
    <3>2. CASE retry.step = "hook" /\ retry' = [retry EXCEPT !.step = "reset"]
      <4>1. retry'.step = "reset" /\ retry'.d = retry.d
        BY <1>0, <3>2 DEF TypeOK
      <4> QED BY <3>2, <4>1 DEF Unused
    <3> QED BY <2>1, <3>1, <3>2
  <2>3. Waiting(d)' <= Waiting(d)
    BY <1>0, <2>1, <2>2 DEF Waiting
  <2>4. Allowed(d)' >= Allowed(d)
    BY <1>0, <2>1, <2>2, AllowedGrows
  <2>5. author[d] = "counting" => copies'[d] = 0 /\ retry' # [step |-> "send", d |-> d]
    BY <1>0, <2>1, <2>2 DEF Uncalled
  <2> QED BY <1>0, <2>1, <2>3, <2>4, <2>5, BudgetWithout
<1>5. CASE SendRetry
  <2>1. /\ retry.step = "send" /\ retry.d \in Deliveries /\ retry' = NoRetry
        /\ UNCHANGED <<rows, resets>> /\ faults' \in {faults, faults + 1}
        /\ retry.d # d => copies'[d] = copies[d]
        /\ retry.d = d => copies'[d] \in {copies[d], copies[d] + 1}
    BY <1>0, <1>5, Sending, SendingCounts DEF SendRetry, Typed, RetryShape, NoRetry
  <2>2. /\ Unused(d)' = 0 /\ retry' # [step |-> "send", d |-> d]
        /\ retry.d = d => retry = [step |-> "send", d |-> d]
    BY <1>0, <2>1 DEF NoRetry, Unused, TypeOK
  <2>3. Waiting(d)' <= Waiting(d)
    BY <1>0, <2>1, <2>2 DEF Waiting
  <2>4. Allowed(d)' >= Allowed(d)
    BY <1>0, <2>1, <2>2, AllowedGrows
  <2>5. author[d] = "counting" => copies'[d] = 0 /\ retry' # [step |-> "send", d |-> d]
    BY <1>0, <2>1, <2>2 DEF Uncalled
  <2> QED BY <1>0, <2>1, <2>3, <2>4, <2>5, BudgetWithout
\* A reset gives the delivery a new share, and one copy to use it.
<1>6. CASE Reset
  <2>1. /\ retry.step = "reset" /\ retry.d \in Deliveries
        /\ retry' = [step |-> "send", d |-> retry.d]
        /\ UNCHANGED <<copies, faults, resets>>
    BY <1>0, <1>6 DEF Reset, Typed, RetryShape, NoRetry, TypeOK
  <2>2. CASE retry.d # d
    <3>1. rows'[d] = rows[d] /\ retry'.d # d
      BY <1>6, <2>1, <2>2 DEF Reset, Update
    <3> QED BY <1>0, <2>1, <2>2, <3>1, BudgetElsewhere
  <2>3. CASE retry.d = d
    <3>1. /\ copies[d] = 0 /\ Working(d) = {} /\ author[d] = "done"
          /\ rows'[d] = None \/ (rows[d] # None /\ rows'[d].attempts = 0)
      BY <1>0, <1>6, <2>1, <2>3 DEF Reset, Update, TypeOK
    <3>2. /\ Waiting(d) = 0 /\ Waiting(d)' = 1 /\ Unused(d) = MaxAttempts /\ Unused(d)' = 0
          /\ Seats(d) = {Idle}
      BY <2>1, <2>3, <3>1 DEF Waiting, Unused, Seats
    <3>3. Ahead(rows'[d], Idle, 1) <= Ahead(rows[d], Idle, 0) + MaxAttempts
      <4>0. /\ Idle.step = "idle" /\ ~MaySendOn(Idle) /\ MaxAttempts \in Nat \ {0}
            /\ rows[d] \in Rows \cup {None}
        BY <1>0, WebhookAssumption DEF Idle, MaySendOn, BudgetTypes
      <4>1. Ahead(rows[d], Idle, 0) \in Nat
        BY <4>0, IdleTyped, AheadNatural
      <4>2. CASE rows'[d] = None
        BY <4>0, <4>1, <4>2 DEF Ahead
      <4>3. CASE rows'[d] # None
        <5>1. Ahead(rows'[d], Idle, 1) = 0 + Left(0, 1 + 0)
          BY <3>1, <4>0, <4>3 DEF Ahead
        <5>2. Left(0, 1 + 0) = MaxAttempts
          BY <4>0 DEF Left
        <5> QED BY <4>0, <4>1, <5>1, <5>2
      <4> QED BY <4>2, <4>3
    <3>4. Allowed(d)' >= Allowed(d) + MaxAttempts /\ MaxAttempts \in Int
      <4>1. Allowed(d) = Granted(resets) + faults - MaxAttempts
            /\ Allowed(d)' = Granted(resets) + faults - 0
        BY <2>1, <3>2 DEF Allowed
      <4> QED BY <1>0, <4>1, Granting
    <3>5. Within(d)'
      <4>1. \A s \in Seats(d) :
              Ahead(rows'[d], s, Waiting(d)') <= Ahead(rows[d], s, Waiting(d)) + MaxAttempts
        BY <3>2, <3>3
      <4> QED BY <1>0, <3>4, <4>1, WithinKept
    <3>6. Uncalled(d)' /\ NextCount(d)'
      BY <1>0, <3>1 DEF Uncalled, NextCount, Working
    <3> QED BY <3>5, <3>6 DEF Budget
  <2> QED BY <2>2, <2>3
<1> QED BY <1>1, <1>2, <1>3, <1>4, <1>5, <1>6

\* A handler that starts takes the place of the copy it is called for.
LEMMA BudgetOfStart ==
  ASSUME Inv, Typed', NEW d \in Deliveries, Budget(d), d \notin disturbed',
         NEW j \in Handlers, NEW b \in Deliveries, Start(j, b)
  PROVE  Budget(d)'
<1> DEFINE s == [step |-> "row", d |-> b, count |-> 0, held |-> TRUE]
<1>0. /\ Typed /\ TypeOK /\ Fresh(d) /\ BudgetTypes /\ BudgetTypes'
      /\ UNCHANGED <<rows, author, retry, faults, resets, posts>>
      /\ disturbed \subseteq disturbed' /\ d \notin disturbed
      /\ Within(d) /\ Uncalled(d) /\ job[j] = Idle
      /\ faults' >= faults
  <2>1. /\ UNCHANGED <<rows, author, retry, faults, resets, posts>>
        /\ disturbed \subseteq disturbed' /\ job[j] = Idle
    BY DEF Start
  <2> QED BY <2>1, BudgetTyped, BudgetTypedNext DEF Inv, Good, Typed, Budget, BudgetTypes
<1>1. /\ s \in Jobs /\ s.step = "row" /\ s.d = b /\ job'[j] = s
      /\ \A k \in Handlers \ {j} : job'[k] = job[k]
  <2>1. s \in Jobs
    BY DEF Jobs
  <2> QED BY <1>0, <2>1, Becoming DEF Start
<1> HIDE DEF s
<1>2. CASE b # d
  <2>1. copies'[d] = copies[d]
    BY <1>0, <1>2 DEF Start, TypeOK
  <2> QED BY <1>0, <1>1, <1>2, <2>1, IdleTyped, BudgetElsewhere
<1>3. CASE b = d
  <2>1. /\ Working(d) = {} /\ copies[d] > 0 /\ copies'[d] = copies[d] - 1
    BY <1>0, <1>3 DEF Start, TypeOK
  <2>2. Working(d)' = {j} /\ Seats(d) = {Idle} /\ Seats(d)' = {s}
    <3>1. Working(d)' = {j}
      BY <1>1, <1>3, <2>1 DEF Working
    <3> QED BY <1>1, <2>1, <3>1 DEF Seats
  <2>3. /\ Waiting(d) \in Nat /\ Waiting(d)' \in Nat /\ Waiting(d)' + 1 = Waiting(d)
        /\ rows[d] \in Rows \cup {None} /\ posts[d] \in Nat
        /\ Allowed(d)' = Allowed(d) /\ Allowed(d) \in Int
    <3>1. /\ copies[d] \in Nat /\ copies'[d] \in Nat
          /\ rows[d] \in Rows \cup {None} /\ posts[d] \in Nat /\ Allowed(d) \in Int
      BY <1>0 DEF BudgetTypes
    <3>2. Allowed(d)' = Allowed(d)
      BY <1>0 DEF Allowed, Unused
    <3> QED BY <1>0, <2>1, <3>1, <3>2 DEF Waiting
  <2>4. Ahead(rows[d], s, Waiting(d)') <= Ahead(rows[d], Idle, Waiting(d)) + 0
    <3>1. Waiting(d)' + (IF MaySendOn(s) THEN 1 ELSE 0)
            <= Waiting(d) + (IF MaySendOn(Idle) THEN 1 ELSE 0) + 0
      BY <2>3
    <3> QED BY <1>1, <2>3, <3>1, IdleTyped, AheadLess
  <2>5. posts[d] + Ahead(rows[d], Idle, Waiting(d)) <= Allowed(d)
    BY <1>0, <2>2 DEF Within
  <2>6. Ahead(rows[d], s, Waiting(d)') \in Nat /\ Ahead(rows[d], Idle, Waiting(d)) \in Nat
    BY <1>1, <2>3, IdleTyped, AheadNatural
  <2>7. posts[d] + Ahead(rows[d], s, Waiting(d)') <= Allowed(d)'
    BY <2>3, <2>4, <2>5, <2>6
  <2>8. Within(d)'
    BY <1>0, <2>2, <2>7 DEF Within
  <2>9. Uncalled(d)'
    BY <1>0, <2>1 DEF Uncalled, Fresh
  <2>10. NextCount(d)'
    BY <1>1, <2>2 DEF NextCount
  <2> QED BY <2>8, <2>9, <2>10 DEF Budget
<1> QED BY <1>2, <1>3

\* A call that is about to be made is one more that is ahead, at most.
LEMMA AheadOfCall ==
  ASSUME NEW row \in Rows \cup {None}, NEW w \in Nat, NEW s \in Jobs, NEW s2 \in Jobs,
         s.step \in {"count", "write"}, s2.step = "post"
  PROVE  /\ Ahead(row, s2, w) <= Ahead(row, s, w) + 1
         /\ row = None => Ahead(row, s2, w) = Ahead(row, s, w)
<1>1. MaySendOn(s) /\ s.step # "post"
  BY DEF MaySendOn
<1>2. CASE row = None
  BY <1>2 DEF Ahead
<1>3. CASE row # None
  <2> DEFINE t == w + (IF MaySendOn(s2) THEN 1 ELSE 0)
  <2>1. t \in Nat /\ t <= w + 1 /\ row.attempts \in Nat
    BY <1>3 DEF Rows
  <2>2. Ahead(row, s2, w) = 1 + Left(row.attempts, t) /\ Ahead(row, s, w) = 0 + Left(row.attempts, w + 1)
    BY <1>1, <1>3 DEF Ahead
  <2> HIDE DEF t
  <2>3. Left(row.attempts, t) <= Left(row.attempts, w + 1)
        /\ Left(row.attempts, t) \in Int /\ Left(row.attempts, w + 1) \in Int
    BY <2>1, Granting DEF Left
  <2> QED BY <1>3, <2>2, <2>3
<1> QED BY <1>2, <1>3

\* When the count is written the call is one of those that were ahead.
LEMMA AheadOfCounted ==
  ASSUME NEW row \in Rows \cup {None}, NEW row2 \in Rows \cup {None}, NEW w \in Nat,
         NEW s \in Jobs, NEW s2 \in Jobs, row # None,
         s.step = "write", s2.step = "post", s2.count = row.attempts + 1,
         row2 # None => row2.attempts = row.attempts + 1
  PROVE  Ahead(row2, s2, w) <= Ahead(row, s, w)
<1>1. MaySendOn(s) /\ s.step # "post" /\ row.attempts \in Nat
  BY DEF MaySendOn, Rows
<1>2. Ahead(row, s, w) = 0 + Left(row.attempts, w + 1)
  BY <1>1 DEF Ahead
<1>3. Left(row.attempts, w + 1) \in Nat /\ Left(row.attempts, w + 1) >= 1
  BY <1>1, Granting DEF Left
<1>4. CASE row2 = None
  BY <1>2, <1>3, <1>4 DEF Ahead
<1>5. CASE row2 # None
  <2>1. MaySendOn(s2) <=> row.attempts + 1 < MaxAttempts
    BY DEF MaySendOn
  <2>2. Ahead(row2, s2, w) =
          1 + Left(row.attempts + 1, w + (IF row.attempts + 1 < MaxAttempts THEN 1 ELSE 0))
    BY <1>5, <2>1 DEF Ahead
  <2>3. 1 + Left(row.attempts + 1, w + (IF row.attempts + 1 < MaxAttempts THEN 1 ELSE 0))
          <= 0 + Left(row.attempts, w + 1)
    BY <1>1, Granting DEF Left
  <2> QED BY <1>2, <2>2, <2>3
<1> QED BY <1>4, <1>5

\* A call that was made is no longer ahead.
LEMMA AheadOfOutcome ==
  ASSUME NEW row \in Rows \cup {None}, NEW w \in Nat, NEW s \in Jobs, NEW s2 \in Jobs,
         s.step = "post", s2.step \in Outcomes, s2.count = s.count
  PROVE  Ahead(row, s2, w) + 1 <= Ahead(row, s, w)
<1>1. (MaySendOn(s2) => MaySendOn(s)) /\ s2.step \notin {"hook", "count", "write", "post"}
  BY DEF MaySendOn, Outcomes
<1>2. CASE row = None
  BY <1>1, <1>2 DEF Ahead
<1>3. CASE row # None
  <2> DEFINE t == w + (IF MaySendOn(s) THEN 1 ELSE 0)
             t2 == w + (IF MaySendOn(s2) THEN 1 ELSE 0)
  <2>1. t \in Nat /\ t2 \in Nat /\ t2 <= t /\ row.attempts \in Nat
    BY <1>1, <1>3 DEF Rows
  <2>2. Ahead(row, s, w) = 1 + Left(row.attempts, t) /\ Ahead(row, s2, w) = 0 + Left(row.attempts, t2)
    BY <1>1, <1>3 DEF Ahead
  <2> HIDE DEF t, t2
  <2>3. Left(row.attempts, t2) <= Left(row.attempts, t)
        /\ Left(row.attempts, t) \in Int /\ Left(row.attempts, t2) \in Int
    BY <2>1, Granting DEF Left
  <2> QED BY <2>2, <2>3
<1> QED BY <1>2, <1>3

\* The steps of a handler that call nobody, and its call.
LEMMA BudgetOfHandler ==
  ASSUME Inv, Typed', NEW d \in Deliveries, Budget(d), d \notin disturbed',
         NEW j \in Handlers,
         Handle(j) \/ AnswerFirst(j) \/ TimeOut(j) \/ HandlerDies(j) \/ Throw(j)
  PROVE  Budget(d)'
<1>0. /\ Typed /\ TypeOK /\ BudgetTypes /\ BudgetTypes' /\ faults \in Nat
      /\ UNCHANGED <<author, retry, resets>>
      /\ disturbed \subseteq disturbed' /\ d \notin disturbed
      /\ Within(d) /\ NextCount(d)
      /\ rows[d] \in Rows \cup {None} /\ posts[d] \in Nat /\ copies[d] \in Nat
  <2>1. /\ UNCHANGED <<author, retry, resets>> /\ disturbed \subseteq disturbed'
    BY DEF Handle, ReadRow, ReadHook, ReadCount, WriteCount, Post, StoreResult, Reschedule, QueueRetry,
           MarkFailed, Disable, AnswerFirst, TimeOut, HandlerDies, Throw, history
  <2> QED BY <2>1, BudgetTyped, BudgetTypedNext DEF Inv, Typed, Budget, BudgetTypes
<1>1. /\ job[j].d \in Deliveries /\ job[j].step # "idle" /\ job[j] \in Jobs
  <2>1. job[j].step # "idle"
    <3>1. CASE Handle(j) \/ AnswerFirst(j)
      BY <3>1 DEF Handle, ReadRow, ReadHook, ReadCount, WriteCount, Post, StoreResult, Reschedule,
             QueueRetry, MarkFailed, Disable, AnswerFirst, Outcomes
    <3>2. CASE TimeOut(j) \/ HandlerDies(j) \/ Throw(j)
      <4>1. job[j] # Idle
        BY <3>2 DEF TimeOut, HandlerDies, Throw, Idle
      <4> QED BY <1>0, <4>1 DEF Typed, Shape
    <3> QED BY <3>1, <3>2
  <2> QED BY <1>0, <2>1, Busy
\* The next state of the handler: idle, or at another step for the same delivery.
<1>2. ASSUME NEW step, Goto(j, step), step # "idle",
             step \in {"row", "hook", "count", "write", "post",
                       "reschedule", "enqueue", "fail", "disable"} \cup Outcomes
      PROVE  /\ job'[j].step = step /\ job'[j].d = job[j].d /\ job'[j].count = job[j].count
             /\ \A k \in Handlers \ {j} : job'[k] = job[k]
             /\ job'[j] \in Jobs
  BY <1>0, <1>1, <1>2, Steps, StepsCount DEF Typed, TypeOK
<1>3. ASSUME Become(j, Idle)
      PROVE  /\ job'[j] = Idle /\ job'[j].step = "idle" /\ ~MaySendOn(job'[j]) /\ job'[j].d # d
             /\ \A k \in Handlers \ {j} : job'[k] = job[k]
  BY <1>0, <1>3, Stops, IdleTyped DEF MaySendOn
\* A step for another delivery.
<1>4. ASSUME job[j].d # d, job'[j].d # d, \A k \in Handlers \ {j} : job'[k] = job[k],
             rows'[d] = rows[d], copies'[d] = copies[d], posts'[d] = posts[d],
             faults' \in {faults, faults + 1}
      PROVE  Budget(d)'
  <2>1. faults' >= faults
    BY <1>0, <1>4
  <2> QED BY <1>0, <1>4, <2>1, BudgetElsewhere DEF Inv
\* A step for d that calls nobody and leaves no more copies than before.
<1>5. ASSUME job[j].d = d, \A k \in Handlers \ {j} : job'[k] = job[k],
             job'[j] = Idle \/ job'[j].d = d, posts'[d] = posts[d],
             faults' \in {faults, faults + 1},
             rows[d] = None => rows'[d] = None,
             rows[d] # None /\ rows'[d] # None => rows'[d].attempts = rows[d].attempts,
             job'[j].step \in {"hook", "count", "write"} =>
               job[j].step \in {"hook", "count", "write", "post"} \/ rows'[d] # None,
             job'[j].step # "post" \/ job[j].step = "post",
             copies'[d] + (IF MaySendOn(job'[j]) THEN 1 ELSE 0)
               <= copies[d] + (IF MaySendOn(job[j]) THEN 1 ELSE 0) + (faults' - faults),
             job'[j].step = "write" /\ rows'[d] # None => job'[j].count = rows'[d].attempts + 1
      PROVE  Budget(d)'
  <2>1. PICK e \in {0, 1} : faults' = faults + e /\ faults' - faults = e
    BY <1>0, <1>5
  <2>2. faults' >= faults + e
    BY <1>0, <2>1
  <2>3. copies'[d] + (IF MaySendOn(job'[j]) THEN 1 ELSE 0)
          <= copies[d] + (IF MaySendOn(job[j]) THEN 1 ELSE 0) + e
    BY <1>5, <2>1
  <2> QED BY <1>0, <1>5, <2>2, <2>3, OwnQuiet
\* A row keeps its count when its status is written.
<1>6. ASSUME NEW b \in Deliveries, NEW status, SetStatus(b, status)
      PROVE  /\ b # d => rows'[d] = rows[d]
             /\ rows[d] = None => rows'[d] = None
             /\ rows[d] # None /\ rows'[d] # None => rows'[d].attempts = rows[d].attempts
  BY <1>0, <1>6 DEF SetStatus, Update, TypeOK, Rows
<1>7. CASE ReadRow(j) \/ ReadHook(j)
  <2>1. /\ UNCHANGED <<rows, copies, posts, faults>>
        /\ job[j].step \in {"row", "hook"}
        /\ \/ Become(j, Idle)
           \/ Goto(j, "hook") /\ (job[j].d = d => rows[d] # None)
           \/ Goto(j, "count") /\ job[j].step = "hook"
    BY <1>7 DEF ReadRow, ReadHook, NothingToDo, world, history
  <2>2. /\ \A k \in Handlers \ {j} : job'[k] = job[k]
        /\ \/ job'[j] = Idle /\ job'[j].step = "idle" /\ job'[j].d # d
           \/ job'[j].step = "hook" /\ job'[j].d = job[j].d /\ (job[j].d = d => rows[d] # None)
           \/ job'[j].step = "count" /\ job'[j].d = job[j].d /\ job[j].step = "hook"
    BY <1>2, <1>3, <2>1
  <2>3. CASE job[j].d # d
    BY <1>4, <2>1, <2>2, <2>3
  <2>4. CASE job[j].d = d
    <3>1. MaySendOn(job[j])
      BY <2>1 DEF MaySendOn
    <3> QED BY <1>0, <1>5, <2>1, <2>2, <2>4, <3>1
  <2> QED BY <2>3, <2>4
<1>8. CASE ReadCount(j) /\ ~Goto(j, "post")
  <2> DEFINE n == Counted(rows[job[j].d].attempts)
             s == [job[j] EXCEPT !.step = "write", !.count = n]
  <2>1. /\ UNCHANGED <<rows, copies, posts, faults>> /\ job[j].step = "count"
        /\ Become(j, s) /\ rows[job[j].d] # None
    BY <1>8 DEF ReadCount, world, history
  <2>2. s \in Jobs /\ s.step = "write" /\ s.count = n /\ s.d = job[j].d
    <3>1. n \in Nat
      BY <1>0, <1>1, <2>1 DEF TypeOK, Rows, Counted
    <3> QED BY <1>1, <3>1 DEF Jobs
  <2>3. job'[j] = s /\ \A k \in Handlers \ {j} : job'[k] = job[k]
    BY <1>0, <2>1, <2>2, Becoming
  <2> HIDE DEF s
  <2>4. CASE job[j].d # d
    BY <1>4, <2>1, <2>2, <2>3, <2>4
  <2>5. CASE job[j].d = d
    <3>1. MaySendOn(job[j])
      BY <2>1 DEF MaySendOn
    <3>2. job'[j].step = "write" /\ job'[j].count = rows'[d].attempts + 1 /\ job'[j].d = d
      BY <2>1, <2>2, <2>3, <2>5 DEF Counted
    <3> QED BY <1>0, <1>5, <2>1, <2>3, <2>5, <3>1, <3>2
  <2> QED BY <2>4, <2>5
\* The call is ahead now: one of those that were, or one that a fault allows.
<1>9. ASSUME job[j].d = d, job[j].step \in {"count", "write"}, Goto(j, "post"),
             UNCHANGED <<rows, copies, posts>>,
             (faults' = faults /\ rows[d] = None) \/ faults' = faults + 1
      PROVE  Budget(d)'
  <2>1. /\ job'[j].step = "post" /\ job'[j].d = d /\ job'[j] \in Jobs
        /\ \A k \in Handlers \ {j} : job'[k] = job[k]
    BY <1>2, <1>9
  <2>2. Waiting(d)' = Waiting(d) /\ Waiting(d) \in Nat
    BY <1>0, <1>9 DEF Waiting, BudgetTypes
  <2>3. /\ Ahead(rows[d], job'[j], Waiting(d)) <= Ahead(rows[d], job[j], Waiting(d)) + 1
        /\ rows[d] = None => Ahead(rows[d], job'[j], Waiting(d)) = Ahead(rows[d], job[j], Waiting(d))
    BY <1>0, <1>1, <1>9, <2>1, <2>2, AheadOfCall
  <2>4. Ahead(rows[d], job'[j], Waiting(d)) \in Nat /\ Ahead(rows[d], job[j], Waiting(d)) \in Nat
    BY <1>0, <1>1, <2>1, <2>2, AheadNatural
  <2>5. posts'[d] + Ahead(rows'[d], job'[j], Waiting(d)') + faults
          <= posts[d] + Ahead(rows[d], job[j], Waiting(d)) + faults'
    <3>1. posts'[d] = posts[d] /\ rows'[d] = rows[d]
      BY <1>9
    <3> QED BY <1>0, <1>9, <2>2, <2>3, <2>4, <3>1
  <2> QED BY <1>0, <1>9, <2>1, <2>5, OwnBudget
<1>10. CASE ReadCount(j) /\ Goto(j, "post")
  <2>1. /\ UNCHANGED <<rows, copies, posts>> /\ job[j].step = "count"
        /\ (faults' = faults /\ rows[job[j].d] = None) \/ faults' = faults + 1
    <3>1. ASSUME NEW n, Become(j, [job[j] EXCEPT !.step = "write", !.count = n]) PROVE FALSE
      <4>1. job'[j].step = "write"
        BY <1>0, <1>1, <3>1 DEF Become, TypeOK, Jobs
      <4> QED BY <1>2, <1>10, <4>1
    <3> QED BY <1>10, <3>1, Faulting DEF ReadCount, world, history
  <2>2. CASE job[j].d # d
    BY <1>0, <1>2, <1>4, <1>10, <2>1, <2>2
  <2> QED BY <1>9, <1>10, <2>1, <2>2
<1>11. CASE WriteCount(j)
  <2>1. /\ Goto(j, "post") /\ UNCHANGED <<copies, posts>> /\ job[j].step = "write"
        /\ job'[j].step = "post" /\ job'[j].d = job[j].d /\ job'[j].count = job[j].count
        /\ job'[j] \in Jobs /\ \A k \in Handlers \ {j} : job'[k] = job[k]
        /\ \/ Update(job[j].d, [rows[job[j].d] EXCEPT !.attempts = job[j].count]) /\ faults' = faults
           \/ rows' = rows /\ faults' = faults + 1
    BY <1>2, <1>11, Faulting DEF WriteCount, history
  <2>2. CASE job[j].d # d
    <3>1. rows'[d] = rows[d]
      BY <1>0, <2>1, <2>2 DEF Update, TypeOK
    <3> QED BY <1>0, <1>4, <2>1, <2>2, <3>1
  <2>3. CASE job[j].d = d /\ (rows[d] = None \/ faults' # faults)
    <3>1. UNCHANGED rows /\ ((faults' = faults /\ rows[d] = None) \/ faults' = faults + 1)
      BY <1>0, <2>1, <2>3 DEF Update
    <3> QED BY <1>9, <2>1, <2>3, <3>1
  <2>4. CASE job[j].d = d /\ rows[d] # None /\ faults' = faults
    <3>1. /\ job[j].count = rows[d].attempts + 1
          /\ rows'[d] = [rows[d] EXCEPT !.attempts = job[j].count]
          /\ rows'[d].attempts = job[j].count
      <4>1. job[j].count = rows[d].attempts + 1
        BY <1>0, <2>1, <2>4 DEF NextCount, Working
      <4>2. Update(d, [rows[d] EXCEPT !.attempts = job[j].count])
        BY <1>0, <2>1, <2>4
      <4>3. rows'[d] = [rows[d] EXCEPT !.attempts = job[j].count]
        BY <1>0, <2>4, <4>2 DEF Update, TypeOK
      <4> QED BY <1>0, <2>4, <4>1, <4>3 DEF Rows
    <3>2. Waiting(d)' = Waiting(d) /\ Waiting(d) \in Nat /\ rows'[d] \in Rows \cup {None}
      BY <1>0, <2>1 DEF Waiting, BudgetTypes
    <3>3. Ahead(rows'[d], job'[j], Waiting(d)) <= Ahead(rows[d], job[j], Waiting(d))
      BY <1>0, <1>1, <2>1, <2>4, <3>1, <3>2, AheadOfCounted
    <3>4. Ahead(rows'[d], job'[j], Waiting(d)) \in Nat /\ Ahead(rows[d], job[j], Waiting(d)) \in Nat
      BY <1>0, <1>1, <2>1, <3>2, AheadNatural
    <3>5. posts'[d] + Ahead(rows'[d], job'[j], Waiting(d)') + faults
            <= posts[d] + Ahead(rows[d], job[j], Waiting(d)) + faults'
      BY <1>0, <2>1, <2>4, <3>2, <3>3, <3>4
    <3> QED BY <1>0, <2>1, <2>4, <3>5, OwnBudget
  <2> QED BY <2>2, <2>3, <2>4
<1>12. ASSUME NEW outcome \in Outcomes, Post(j, outcome) PROVE Budget(d)'
  <2>1. /\ UNCHANGED <<rows, copies, faults>> /\ job[j].step = "post"
        /\ posts' = [posts EXCEPT ![job[j].d] = OneMore(@)]
        /\ job'[j].step = outcome /\ job'[j].d = job[j].d /\ job'[j].count = job[j].count
        /\ job'[j] \in Jobs /\ \A k \in Handlers \ {j} : job'[k] = job[k]
        /\ outcome \notin {"idle", "write"}
    BY <1>2, <1>12 DEF Post, world, Outcomes
  <2>2. CASE job[j].d # d
    <3>1. posts'[d] = posts[d]
      BY <1>0, <2>1, <2>2 DEF TypeOK
    <3> QED BY <1>0, <1>4, <2>1, <2>2, <3>1
  <2>3. CASE job[j].d = d
    <3>1. posts'[d] \in Nat /\ posts[d] \in Nat /\ posts'[d] <= posts[d] + 1
      BY <1>0, <2>1, <2>3, OneMoreTyped DEF TypeOK
    <3>2. Waiting(d)' = Waiting(d) /\ Waiting(d) \in Nat
      BY <1>0, <2>1 DEF Waiting, BudgetTypes
    <3>3. Ahead(rows[d], job'[j], Waiting(d)) + 1 <= Ahead(rows[d], job[j], Waiting(d))
      BY <1>0, <1>1, <2>1, <3>2, AheadOfOutcome
    <3>4. Ahead(rows[d], job'[j], Waiting(d)) \in Nat /\ Ahead(rows[d], job[j], Waiting(d)) \in Nat
      BY <1>0, <1>1, <2>1, <3>2, AheadNatural
    <3>5. posts'[d] + Ahead(rows'[d], job'[j], Waiting(d)') + faults
            <= posts[d] + Ahead(rows[d], job[j], Waiting(d)) + faults'
      <4>1. rows'[d] = rows[d] /\ faults' = faults
        BY <2>1
      <4> QED BY <1>0, <3>1, <3>2, <3>3, <3>4, <4>1
    <3> QED BY <1>0, <2>1, <2>3, <3>5, OwnBudget
  <2> QED BY <2>2, <2>3
\* What the handler writes after its call.  It sends the delivery on only if the
\* endpoint refused it and attempts are left.
<1>13. CASE \/ \E outcome \in Outcomes : StoreResult(j, outcome)
            \/ Reschedule(j) \/ MarkFailed(j) \/ Disable(j)
  <2>1. /\ UNCHANGED <<copies, posts>> /\ faults' \in {faults, faults + 1}
        /\ rows' = rows \/ \E status : SetStatus(job[j].d, status)
    BY <1>13, Faulting DEF StoreResult, Reschedule, MarkFailed, Disable, history
  <2>2. /\ \A k \in Handlers \ {j} : job'[k] = job[k]
        /\ \/ job'[j] = Idle
           \/ job'[j].d = job[j].d
        /\ job'[j].step \notin {"hook", "count", "write", "post"}
        /\ MaySendOn(job'[j]) => MaySendOn(job[j])
    <3>1. CASE Disable(j)
      BY <1>3, <3>1 DEF Disable
    <3>2. CASE MarkFailed(j)
      <4>1. /\ job'[j].step = "disable" /\ job'[j].d = job[j].d
            /\ \A k \in Handlers \ {j} : job'[k] = job[k]
        BY <1>2, <3>2 DEF MarkFailed
      <4> QED BY <4>1 DEF MaySendOn
    <3>3. CASE Reschedule(j)
      <4>1. /\ job'[j].step = "enqueue" /\ job'[j].d = job[j].d /\ job[j].step = "reschedule"
            /\ \A k \in Handlers \ {j} : job'[k] = job[k]
        BY <1>2, <3>3 DEF Reschedule
      <4> QED BY <4>1 DEF MaySendOn
    <3>4. ASSUME NEW outcome \in Outcomes, StoreResult(j, outcome)
          PROVE  /\ \A k \in Handlers \ {j} : job'[k] = job[k]
                 /\ job'[j] = Idle \/ job'[j].d = job[j].d
                 /\ job'[j].step \notin {"hook", "count", "write", "post"}
                 /\ MaySendOn(job'[j]) => MaySendOn(job[j])
      <4>1. CASE After(outcome, job[j].count) = "idle"
        <5>1. Become(j, Idle)
          BY <3>4, <4>1 DEF StoreResult
        <5> QED BY <1>3, <5>1
      <4>2. CASE After(outcome, job[j].count) = "fail"
        <5>1. Goto(j, "fail")
          BY <3>4, <4>2 DEF StoreResult
        <5>2. /\ job'[j].step = "fail" /\ job'[j].d = job[j].d
              /\ \A k \in Handlers \ {j} : job'[k] = job[k]
          BY <1>2, <5>1
        <5> QED BY <5>2 DEF MaySendOn
      <4>3. CASE After(outcome, job[j].count) = "reschedule"
        <5>1. Goto(j, "reschedule") /\ job[j].step = "refused" /\ job[j].count < MaxAttempts
          BY <3>4, <4>3 DEF StoreResult, After
        <5>2. /\ job'[j].step = "reschedule" /\ job'[j].d = job[j].d
              /\ \A k \in Handlers \ {j} : job'[k] = job[k]
          BY <1>2, <5>1
        <5> QED BY <5>1, <5>2 DEF MaySendOn
      <4> QED BY <4>1, <4>2, <4>3 DEF After
    <3> QED BY <1>13, <3>1, <3>2, <3>3, <3>4
  <2>3. CASE job[j].d # d
    <3>1. rows'[d] = rows[d]
      BY <1>1, <1>6, <2>1, <2>3
    <3>2. job'[j].d # d
      BY <2>2, <2>3, IdleTyped
    <3> QED BY <1>4, <2>1, <2>2, <2>3, <3>1, <3>2
  <2>4. CASE job[j].d = d
    <3>1. /\ rows[d] = None => rows'[d] = None
          /\ rows[d] # None /\ rows'[d] # None => rows'[d].attempts = rows[d].attempts
      BY <1>1, <1>6, <2>1, <2>4
    <3>2. copies'[d] + (IF MaySendOn(job'[j]) THEN 1 ELSE 0)
            <= copies[d] + (IF MaySendOn(job[j]) THEN 1 ELSE 0) + (faults' - faults)
      BY <1>0, <2>1, <2>2
    <3>3. posts'[d] = posts[d] /\ (job'[j] = Idle \/ job'[j].d = d)
      BY <2>1, <2>2, <2>4
    <3> QED BY <1>5, <2>1, <2>2, <2>4, <3>1, <3>2, <3>3
  <2> QED BY <2>3, <2>4
\* The copy a handler sends, and the one that comes back when it was waited for.
<1>14. CASE QueueRetry(j)
  <2>1. /\ UNCHANGED <<rows, posts>> /\ job[j].step = "enqueue" /\ job'[j] = Idle
        /\ job'[j].step = "idle" /\ ~MaySendOn(job'[j]) /\ job'[j].d # d
        /\ \A k \in Handlers \ {j} : job'[k] = job[k]
        /\ MaySendOn(job[j])
    BY <1>3, <1>14 DEF QueueRetry, MaySendOn
  <2>2. \/ copies'[job[j].d] = copies[job[j].d] + 1 /\ faults' = faults
        \/ copies'[job[j].d] = copies[job[j].d] /\ faults' = faults + 1
    BY <1>0, <1>1, <1>14, SendingCounts DEF QueueRetry
  <2>3. CASE job[j].d # d
    <3>1. copies'[d] = copies[d]
      BY <1>0, <1>1, <1>14, <2>3, Sending DEF QueueRetry
    <3> QED BY <1>4, <2>1, <2>2, <2>3, <3>1
  <2>4. CASE job[j].d = d
    BY <1>0, <1>5, <2>1, <2>2, <2>4
  <2> QED BY <2>3, <2>4
<1>15. CASE AnswerFirst(j) \/ TimeOut(j)
  <2> DEFINE s == [job[j] EXCEPT !.held = FALSE]
  <2>1. /\ s \in Jobs /\ s.step = job[j].step /\ s.d = job[j].d /\ s.count = job[j].count
    BY <1>1 DEF Jobs
  <2>2. job'[j] = s /\ \A k \in Handlers \ {j} : job'[k] = job[k]
    BY <1>0, <1>15, <2>1, Becoming DEF AnswerFirst, TimeOut
  <2>3. /\ UNCHANGED <<rows, posts>>
        /\ \/ copies' = copies /\ faults' = faults
           \/ copies' = [copies EXCEPT ![job[j].d] = @ + 1] /\ faults' = faults + 1
    BY <1>15, Faulting DEF AnswerFirst, TimeOut, world, history
  <2> HIDE DEF s
  <2>4. MaySendOn(s) <=> MaySendOn(job[j])
    BY <2>1 DEF MaySendOn
  <2>5. CASE job[j].d # d
    <3>1. copies'[d] = copies[d]
      BY <1>0, <2>3, <2>5 DEF TypeOK
    <3> QED BY <1>4, <2>1, <2>2, <2>3, <2>5, <3>1
  <2>6. CASE job[j].d = d
    <3>1. \/ copies'[d] = copies[d] /\ faults' = faults /\ faults' - faults = 0
          \/ copies'[d] = copies[d] + 1 /\ faults' = faults + 1 /\ faults' - faults = 1
      <4>1. copies' = [copies EXCEPT ![job[j].d] = @ + 1] => copies'[d] = copies[d] + 1
        BY <1>0, <2>6 DEF TypeOK
      <4> QED BY <1>0, <2>3, <4>1
    <3>2. copies'[d] + (IF MaySendOn(s) THEN 1 ELSE 0)
            <= copies[d] + (IF MaySendOn(job[j]) THEN 1 ELSE 0) + (faults' - faults)
      BY <1>0, <2>4, <3>1
    <3>3. s.step = "write" /\ rows[d] # None => s.count = rows[d].attempts + 1
      BY <1>0, <2>1, <2>6 DEF NextCount, Working
    <3>4. /\ rows[d] = None => s.step \notin {"hook", "count", "write"} \/ job[j].step \in {"hook", "count", "write"}
          /\ s.step # "post" \/ job[j].step = "post"
      BY <2>1
    <3>5. rows'[d] = rows[d] /\ posts'[d] = posts[d] /\ faults' \in {faults, faults + 1}
      BY <2>3
    <3> QED BY <1>5, <2>1, <2>2, <2>6, <3>2, <3>3, <3>4, <3>5
  <2> QED BY <2>5, <2>6
<1>16. CASE HandlerDies(j) \/ Throw(j)
  <2>1. /\ UNCHANGED <<rows, posts>> /\ faults' = faults + 1 /\ job'[j] = Idle
        /\ job'[j].step = "idle" /\ ~MaySendOn(job'[j]) /\ job'[j].d # d
        /\ \A k \in Handlers \ {j} : job'[k] = job[k]
        /\ copies' = copies \/ copies' = [copies EXCEPT ![job[j].d] = @ + 1]
    BY <1>3, <1>16, Faulting DEF HandlerDies, Throw, world
  <2>2. CASE job[j].d # d
    <3>1. copies'[d] = copies[d]
      BY <1>0, <2>1, <2>2 DEF TypeOK
    <3> QED BY <1>4, <2>1, <2>2, <3>1
  <2>3. CASE job[j].d = d
    <3>1. copies'[d] \in {copies[d], copies[d] + 1} /\ faults' - faults = 1
      BY <1>0, <2>1, <2>3 DEF TypeOK
    <3>2. copies'[d] + (IF MaySendOn(job'[j]) THEN 1 ELSE 0)
            <= copies[d] + (IF MaySendOn(job[j]) THEN 1 ELSE 0) + (faults' - faults)
      BY <1>0, <2>1, <3>1
    <3> QED BY <1>5, <2>1, <2>3, <3>2
  <2> QED BY <2>2, <2>3
<1> QED BY <1>7, <1>8, <1>10, <1>11, <1>12, <1>13, <1>14, <1>15, <1>16 DEF Handle

LEMMA BudgetInit == Init => BudgetInv
<1> SUFFICES ASSUME Init PROVE BudgetInv
    OBVIOUS
<1>1. Inv
  BY InvInit
<1>2. ASSUME NEW d \in Deliveries PROVE Budget(d)
  <2>1. /\ rows[d] = None /\ copies[d] = 0 /\ posts[d] = 0 /\ retry = NoRetry
        /\ author[d] = "none" /\ faults = 0 /\ resets = 0
    BY <1>2 DEF Init
  <2>2. Working(d) = {} /\ Seats(d) = {Idle}
    BY WebhookAssumption DEF Init, Working, Seats, Idle
  <2>3. Ahead(None, Idle, 0) = 0
    BY DEF Ahead, Idle
  <2>4. Waiting(d) = 0 /\ Unused(d) = 0
    BY <2>1 DEF Waiting, Unused, NoRetry
  <2>5. Within(d)
    <3>1. Granted(0) \in Nat
      BY Granting
    <3>2. Allowed(d) = Granted(0) + 0 - 0
      BY <2>1, <2>4 DEF Allowed
    <3> QED BY <2>1, <2>2, <2>3, <2>4, <3>1, <3>2 DEF Within
  <2> QED BY <2>1, <2>2, <2>5 DEF Budget, Uncalled, NextCount
<1> QED BY <1>1, <1>2 DEF BudgetInv

LEMMA BudgetStep == BudgetInv /\ [Next]_vars => BudgetInv'
<1> SUFFICES ASSUME BudgetInv, [Next]_vars PROVE BudgetInv'
    OBVIOUS
<1>1. Inv /\ Inv' /\ Typed'
  BY InvStep DEF BudgetInv, Inv
<1>2. ASSUME NEW d \in Deliveries PROVE Budget(d)'
  <2>1. Budget(d)
    BY DEF BudgetInv
  <2>2. CASE d \in disturbed'
    BY <2>2 DEF Budget
  <2>3. CASE d \notin disturbed'
    <3>1. ASSUME NEW b \in Deliveries,
                 \/ \E for \in {"event", "test"} : Create(b, for)
                 \/ Author(b) \/ AuthorDies(b)
          PROVE  Budget(d)'
      BY <1>1, <2>1, <2>3, <3>1, BudgetOfAuthor DEF Author
    <3>2. ASSUME NEW b \in Deliveries, NEW j \in Handlers, Start(j, b) PROVE Budget(d)'
      BY <1>1, <2>1, <2>3, <3>2, BudgetOfStart
    <3>3. ASSUME NEW j \in Handlers,
                 Handle(j) \/ AnswerFirst(j) \/ TimeOut(j) \/ HandlerDies(j) \/ Throw(j)
          PROVE  Budget(d)'
      BY <1>1, <2>1, <2>3, <3>3, BudgetOfHandler
    <3>4. CASE \/ \E b \in Deliveries : GiveUp(b) \/ StartRetry(b) \/ Cleanup(b)
               \/ Retry \/ RetryDies \/ DeleteHook \/ UNCHANGED vars
               \/ \E to \in {"enabled", "disabled"} : Switch(to)
      BY <1>1, <2>1, <2>3, <3>4, BudgetOfOthers DEF Retry
    <3> QED BY <3>1, <3>2, <3>3, <3>4 DEF Next
  <2> QED BY <2>2, <2>3
<1> QED BY <1>1, <1>2 DEF BudgetInv

\* The endpoint is called at most MaxAttempts times for a delivery that nobody
\* disturbed, as often again after each retry an administrator asked for, and
\* once more for every fault at most: what bounds the calls is what is still
\* ahead.  Nothing is said of a delivery two have worked on at a time.
THEOREM CallsBounded == Spec => []AttemptsBounded
<1>1. BudgetInv => AttemptsBounded
  <2> SUFFICES ASSUME BudgetInv, NEW d \in Deliveries, d \notin disturbed
               PROVE  posts[d] <= MaxAttempts * (1 + resets) + faults
      BY DEF AttemptsBounded
  <2>1. Within(d) /\ BudgetTypes /\ Seats(d) # {}
    BY BudgetTyped DEF BudgetInv, Budget, Inv, Seats
  <2>2. PICK s \in Seats(d) : posts[d] + Ahead(rows[d], s, Waiting(d)) <= Allowed(d)
    BY <2>1 DEF Within
  <2>3. /\ posts[d] \in Nat /\ faults \in Nat /\ Unused(d) \in Nat /\ Granted(resets) \in Nat
        /\ Allowed(d) = Granted(resets) + faults - Unused(d)
    BY <2>1, WebhookAssumption DEF BudgetTypes
  <2>4. Ahead(rows[d], s, Waiting(d)) \in Nat
    BY <2>1, AheadNatural DEF BudgetTypes
  <2>5. posts[d] <= Granted(resets) + faults
    BY <2>2, <2>3, <2>4
  <2> QED BY <2>5 DEF Granted
<1>2. Spec => []BudgetInv
  BY BudgetInit, BudgetStep, PTL DEF Spec
<1> QED BY <1>1, <1>2, PTL
=============================================================================
