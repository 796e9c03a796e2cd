------------------------- MODULE WebhookDeliveries -------------------------
(***************************************************************************)
(* One webhook and its deliveries: the dispatcher and the test route that  *)
(* create a delivery, the handler of the webhook_delivery queue that posts *)
(* it and decides on a retry (triggers/webhook_delivery.ts), and the       *)
(* administrators who retry failed deliveries, switch the webhook or       *)
(* delete it.                                                              *)
(*                                                                         *)
(* The queue is the one of QueueConsumer seen from a handler: copies of a  *)
(* delivery wait in it; a handler that works for one is waited for; when   *)
(* the consumer stops waiting the copy returns while the handler goes on,  *)
(* and a copy read too often is given up.  A handler answers 200 whatever  *)
(* happens to it.  What goes wrong is counted by `faults`.                 *)
(***************************************************************************)
EXTENDS Naturals

CONSTANTS
  Deliveries,   \* deliveries of the webhook, each for one event or test
  Handlers,     \* concurrent runs of the delivery handler
  MaxAttempts,  \* max_attempts of a delivery
  MaxFaults,    \* bound on what goes wrong
  MaxResets,    \* bound on the retries an administrator asks for
  None          \* no row; no delivery

ASSUME WebhookAssumption ==
  /\ None \notin Deliveries
  /\ MaxAttempts \in Nat \ {0}
  /\ {MaxFaults, MaxResets} \subseteq Nat

VARIABLES
  hook,       \* the webhook: enabled, disabled or deleted
  rows,       \* webhook_deliveries
  copies,     \* copies of a delivery that wait in the queue
  author,     \* the state of the request that creates a delivery
  job,        \* the state of every handler
  retry,      \* the state of an administrator's retryDelivery
  faults,     \* what went wrong so far
  resets,     \* retries an administrator asked for
  posts,      \* history: calls of the endpoint by handlers, up to MostCalls
  accepted,   \* history: deliveries the endpoint answered with success
  lost,       \* history: deliveries with a send, a write or a handler lost
  disturbed   \* history: deliveries two actors worked on at a time, or whose
              \* handler died with the endpoint's acceptance

world == <<hook, rows, copies>>
history == <<posts, accepted, lost, disturbed>>
vars == <<world, author, job, retry, faults, resets, history>>

Outcomes == {"ok", "gone", "refused"}

Jobs ==
  [step  : {"idle", "row", "hook", "count", "write", "post",
            "reschedule", "enqueue", "fail", "disable"} \cup Outcomes,
   d     : Deliveries \cup {None},
   count : Nat,
   held  : BOOLEAN]  \* the consumer waits for this handler

Idle == [step |-> "idle", d |-> None, count |-> 0, held |-> FALSE]
NoRetry == [step |-> "idle", d |-> None]

Fault == faults < MaxFaults /\ faults' = faults + 1

Become(j, state) == job' = [job EXCEPT ![j] = state]
Goto(j, step) == Become(j, [job[j] EXCEPT !.step = step])
Working(d) == {j \in Handlers : job[j].d = d}

\* An UPDATE that finds no row changes nothing.
Update(d, row) == rows' = IF rows[d] = None THEN rows ELSE [rows EXCEPT ![d] = row]
SetStatus(d, status) == Update(d, [rows[d] EXCEPT !.status = status])

\* As if the message were built and never sent.
Unsent(d) == copies' = copies

Enqueue(d) == copies' = [copies EXCEPT ![d] = @ + 1]

\* A failed pgmq.send is logged and forgotten.
Send(d) ==
  \/ Enqueue(d) /\ UNCHANGED <<faults, lost>>
  \/ Fault /\ lost' = lost \cup {d} /\ UNCHANGED copies

-----------------------------------------------------------------------------
(* Creating a delivery *)

\* The dispatcher finds the webhooks that are enabled, the test route any.
Create(d, for) ==
  /\ author[d] = "none"
  /\ hook = "enabled" \/ (for = "test" /\ hook = "disabled")
  /\ author' = [author EXCEPT ![d] = for]
  /\ UNCHANGED <<world, job, retry, faults, resets, history>>

InsertRow(d) ==
  /\ author[d] \in {"event", "test"}
  /\ IF hook = "deleted"
     THEN author' = [author EXCEPT ![d] = "done"] /\ UNCHANGED rows
     ELSE /\ rows' = [rows EXCEPT ![d] = [status |-> "pending", attempts |-> 0]]
          /\ author' = [author EXCEPT ![d] = IF @ = "event" THEN "queueing" ELSE "testing"]
  /\ UNCHANGED <<hook, copies, job, retry, faults, resets, history>>

\* A URL that is no longer valid fails the delivery, any other is queued.
QueueEvent(d) ==
  /\ author[d] = "queueing"
  /\ \/ Send(d) /\ UNCHANGED rows
     \/ SetStatus(d, "failed") /\ UNCHANGED <<copies, faults, lost>>
  /\ author' = [author EXCEPT ![d] = "done"]
  /\ UNCHANGED <<hook, job, retry, resets, posts, accepted, disturbed>>

\* The test route posts at once and stores what it got.
Test(d) ==
  /\ author[d] = "testing"
  /\ author' = [author EXCEPT ![d] = "counting"]
  /\ \/ SetStatus(d, "success") /\ accepted' = accepted \cup {d}
     \/ SetStatus(d, "failed") /\ UNCHANGED accepted
  /\ UNCHANGED <<hook, copies, job, retry, faults, resets, posts, lost, disturbed>>

CountTest(d) ==
  /\ author[d] = "counting"
  /\ Update(d, [rows[d] EXCEPT !.attempts = 1])
  /\ author' = [author EXCEPT ![d] = "done"]
  /\ UNCHANGED <<hook, copies, job, retry, faults, resets, history>>

AuthorDies(d) ==
  /\ author[d] \notin {"none", "done"}
  /\ Fault
  /\ author' = [author EXCEPT ![d] = "done"]
  /\ lost' = lost \cup {d}
  /\ UNCHANGED <<world, job, retry, resets, posts, accepted, disturbed>>

-----------------------------------------------------------------------------
(* The delivery handler *)

Start(j, d) ==
  /\ job[j] = Idle
  /\ copies[d] > 0
  /\ copies' = [copies EXCEPT ![d] = @ - 1]
  /\ Become(j, [step |-> "row", d |-> d, count |-> 0, held |-> TRUE])
  /\ disturbed' = IF Working(d) = {} THEN disturbed ELSE disturbed \cup {d}
  /\ UNCHANGED <<hook, rows, author, retry, faults, resets, posts, accepted, lost>>

\* getDeliveryById finds nothing, or a delivery that has succeeded.
NothingToDo(d) == rows[d] = None \/ rows[d].status = "success"

ReadRow(j) ==
  /\ job[j].step = "row"
  /\ IF NothingToDo(job[j].d) THEN Become(j, Idle) ELSE Goto(j, "hook")
  /\ UNCHANGED <<world, author, retry, faults, resets, history>>

ReadHook(j) ==
  /\ job[j].step = "hook"
  /\ IF hook = "deleted" THEN Become(j, Idle) ELSE Goto(j, "count")
  /\ UNCHANGED <<world, author, retry, faults, resets, history>>

\* As if an attempt did not count.
Uncounted(attempts) == attempts

Counted(attempts) == attempts + 1

\* incrementAttemptCount reads the count; when that fails it answers 0.
ReadCount(j) ==
  /\ job[j].step = "count"
  /\ \/ /\ rows[job[j].d] # None
        /\ Become(j, [job[j] EXCEPT !.step = "write", !.count = Counted(rows[job[j].d].attempts)])
        /\ UNCHANGED faults
     \/ /\ rows[job[j].d] = None
        /\ Goto(j, "post")
        /\ UNCHANGED faults
     \/ Fault /\ Goto(j, "post")
  /\ UNCHANGED <<world, author, retry, resets, history>>

WriteCount(j) ==
  /\ job[j].step = "write"
  /\ \/ Update(job[j].d, [rows[job[j].d] EXCEPT !.attempts = job[j].count]) /\ UNCHANGED faults
     \/ Fault /\ UNCHANGED rows
  /\ Goto(j, "post")
  /\ UNCHANGED <<hook, copies, author, retry, resets, history>>

\* Calls beyond what AttemptsBounded ever allows are not told apart.
MostCalls == MaxAttempts * (1 + MaxResets) + MaxFaults + 1
OneMore(calls) == IF calls < MostCalls THEN calls + 1 ELSE calls

Post(j, outcome) ==
  /\ job[j].step = "post"
  /\ posts' = [posts EXCEPT ![job[j].d] = OneMore(@)]
  /\ accepted' = IF outcome = "ok" THEN accepted \cup {job[j].d} ELSE accepted
  /\ Goto(j, outcome)
  /\ UNCHANGED <<world, author, retry, faults, resets, lost, disturbed>>

\* As if an endpoint that opted out had accepted the delivery.
NotRefused(outcome) == IF outcome = "refused" THEN "failed" ELSE "success"

\* As if the endpoint's answer were stored as it came.
AsAnswered(outcome) == outcome

StatusOf(outcome) == IF outcome = "ok" THEN "success" ELSE "failed"

\* As if the attempt after the last were still made.
OneMoreAttempt(outcome, count) ==
  CASE outcome = "ok" -> "idle"
    [] outcome = "refused" /\ count <= MaxAttempts -> "reschedule"
    [] OTHER -> "fail"

\* What the handler does after it has stored the result; 410 Gone is an opt-out.
After(outcome, count) ==
  CASE outcome = "ok" -> "idle"
    [] outcome = "refused" /\ count < MaxAttempts -> "reschedule"
    [] OTHER -> "fail"

\* updateDeliveryResult; a write that fails is logged.
StoreResult(j, outcome) ==
  /\ job[j].step = outcome
  /\ \/ SetStatus(job[j].d, StatusOf(outcome)) /\ UNCHANGED <<faults, lost>>
     \/ Fault /\ lost' = lost \cup {job[j].d} /\ UNCHANGED rows
  /\ LET next == After(outcome, job[j].count)
     IN  IF next = "idle" THEN Become(j, Idle) ELSE Goto(j, next)
  /\ UNCHANGED <<hook, copies, author, retry, resets, posts, accepted, disturbed>>

\* scheduleRetry
Reschedule(j) ==
  /\ job[j].step = "reschedule"
  /\ \/ SetStatus(job[j].d, "pending") /\ UNCHANGED <<faults, lost>>
     \/ Fault /\ lost' = lost \cup {job[j].d} /\ UNCHANGED rows
  /\ Goto(j, "enqueue")
  /\ UNCHANGED <<hook, copies, author, retry, resets, posts, accepted, disturbed>>

\* The handler answers, and the next copy is sent behind its answer.
AnswerFirst(j) ==
  /\ job[j].step = "enqueue"
  /\ job[j].held
  /\ Become(j, [job[j] EXCEPT !.held = FALSE])
  /\ UNCHANGED <<world, author, retry, faults, resets, history>>

QueueRetry(j) ==
  /\ job[j].step = "enqueue"
  /\ Send(job[j].d)
  /\ Become(j, Idle)
  /\ UNCHANGED <<hook, rows, author, retry, resets, posts, accepted, disturbed>>

\* markDeliveryFailed
MarkFailed(j) ==
  /\ job[j].step = "fail"
  /\ \/ SetStatus(job[j].d, "failed") /\ UNCHANGED faults
     \/ Fault /\ UNCHANGED rows
  /\ Goto(j, "disable")
  /\ UNCHANGED <<hook, copies, author, retry, resets, history>>

\* disableWebhook
Disable(j) ==
  /\ job[j].step = "disable"
  /\ \/ /\ hook' = IF hook = "enabled" THEN "disabled" ELSE hook
        /\ UNCHANGED faults
     \/ Fault /\ UNCHANGED hook
  /\ Become(j, Idle)
  /\ UNCHANGED <<rows, copies, author, retry, resets, posts, accepted, lost, disturbed>>

\* The consumer waits 15 s, the handler 20 s for the endpoint alone: the copy
\* returns to the queue and the handler goes on.
TimeOut(j) ==
  /\ job[j].held
  /\ Fault
  /\ copies' = [copies EXCEPT ![job[j].d] = @ + 1]
  /\ Become(j, [job[j] EXCEPT !.held = FALSE])
  /\ UNCHANGED <<hook, rows, author, retry, resets, history>>

\* A handler that dies is called again if the consumer still waited for it.
HandlerDies(j) ==
  /\ job[j] # Idle
  /\ Fault
  /\ copies' = IF job[j].held THEN [copies EXCEPT ![job[j].d] = @ + 1] ELSE copies
  /\ lost' = IF job[j].held THEN lost ELSE lost \cup {job[j].d}
  /\ disturbed' = IF job[j].step = "ok" THEN disturbed \cup {job[j].d} ELSE disturbed
  /\ Become(j, Idle)
  /\ UNCHANGED <<hook, rows, author, retry, resets, posts, accepted>>

\* Whatever is thrown is caught and answered with success.
Throw(j) ==
  /\ job[j] # Idle
  /\ Fault
  /\ lost' = lost \cup {job[j].d}
  /\ Become(j, Idle)
  /\ UNCHANGED <<world, author, retry, resets, posts, accepted, disturbed>>

\* The queue gives a copy up (QueueConsumer!GivenUpAfterBudget).
GiveUp(d) ==
  /\ copies[d] > 0
  /\ Fault
  /\ copies' = [copies EXCEPT ![d] = @ - 1]
  /\ lost' = lost \cup {d}
  /\ UNCHANGED <<hook, rows, author, job, retry, resets, posts, accepted, disturbed>>

-----------------------------------------------------------------------------
(* Administrators *)

\* retryDelivery reads a delivery that must have failed ...
StartRetry(d) ==
  /\ retry = NoRetry
  /\ resets < MaxResets
  /\ rows[d] # None
  /\ rows[d].status = "failed"
  /\ retry' = [step |-> "hook", d |-> d]
  /\ resets' = resets + 1
  /\ UNCHANGED <<world, author, job, faults, history>>

\* ... then the webhook, which must be enabled ...
CheckHook ==
  /\ retry.step = "hook"
  /\ retry' = IF hook = "enabled" THEN [retry EXCEPT !.step = "reset"] ELSE NoRetry
  /\ UNCHANGED <<world, author, job, faults, resets, history>>

\* ... then resets the delivery, whatever has become of it ...
Reset ==
  /\ retry.step = "reset"
  /\ Update(retry.d, [status |-> "pending", attempts |-> 0])
  /\ retry' = [retry EXCEPT !.step = "send"]
  /\ disturbed' = IF copies[retry.d] > 0 \/ Working(retry.d) # {} \/ author[retry.d] # "done"
                     \/ (rows[retry.d] # None /\ rows[retry.d].status # "failed")
                  THEN disturbed \cup {retry.d} ELSE disturbed
  /\ UNCHANGED <<hook, copies, author, job, faults, resets, posts, accepted, lost>>

\* ... and queues it.
SendRetry ==
  /\ retry.step = "send"
  /\ Send(retry.d)
  /\ retry' = NoRetry
  /\ UNCHANGED <<hook, rows, author, job, resets, posts, accepted, disturbed>>

RetryDies ==
  /\ retry # NoRetry
  /\ Fault
  /\ lost' = IF retry.step = "send" THEN lost \cup {retry.d} ELSE lost
  /\ retry' = NoRetry
  /\ UNCHANGED <<world, author, job, resets, posts, accepted, disturbed>>

\* PUT /webhooks writes `enabled`.
Switch(to) ==
  /\ hook # "deleted"
  /\ hook' = to
  /\ UNCHANGED <<rows, copies, author, job, retry, faults, resets, posts, accepted, lost, disturbed>>

\* Its deliveries go with the webhook.
DeleteHook ==
  /\ hook' = "deleted"
  /\ rows' = [d \in Deliveries |-> None]
  /\ UNCHANGED <<copies, author, job, retry, faults, resets, history>>

\* cleanup_webhook_deliveries drops what is older than seven days.
Cleanup(d) ==
  /\ rows[d] # None
  /\ rows' = [rows EXCEPT ![d] = None]
  /\ UNCHANGED <<hook, copies, author, job, retry, faults, resets, history>>

-----------------------------------------------------------------------------

Init ==
  /\ hook = "enabled"
  /\ rows = [d \in Deliveries |-> None]
  /\ copies = [d \in Deliveries |-> 0]
  /\ author = [d \in Deliveries |-> "none"]
  /\ job = [j \in Handlers |-> Idle]
  /\ retry = NoRetry
  /\ faults = 0
  /\ resets = 0
  /\ posts = [d \in Deliveries |-> 0]
  /\ accepted = {}
  /\ lost = {}
  /\ disturbed = {}

Author(d) == InsertRow(d) \/ QueueEvent(d) \/ Test(d) \/ CountTest(d)

Handle(j) ==
  \/ ReadRow(j) \/ ReadHook(j) \/ ReadCount(j) \/ WriteCount(j)
  \/ \E outcome \in Outcomes : Post(j, outcome) \/ StoreResult(j, outcome)
  \/ Reschedule(j) \/ QueueRetry(j) \/ MarkFailed(j) \/ Disable(j)

Retry == CheckHook \/ Reset \/ SendRetry

Next ==
  \/ \E d \in Deliveries :
       \/ \E for \in {"event", "test"} : Create(d, for)
       \/ Author(d) \/ AuthorDies(d) \/ GiveUp(d) \/ StartRetry(d) \/ Cleanup(d)
       \/ \E j \in Handlers : Start(j, d)
  \/ \E j \in Handlers :
       Handle(j) \/ AnswerFirst(j) \/ TimeOut(j) \/ HandlerDies(j) \/ Throw(j)
  \/ Retry \/ RetryDies \/ DeleteHook
  \/ \E to \in {"enabled", "disabled"} : Switch(to)

Spec == Init /\ [][Next]_vars

\* Requests and handlers go on until they end, and the consumer keeps calling
\* handlers for what waits (QueueConsumer!ImplementsQueue).
Fairness ==
  /\ \A d \in Deliveries :
       /\ WF_vars(Author(d))
       /\ WF_vars(\E j \in Handlers : Start(j, d))
  /\ \A j \in Handlers : WF_vars(Handle(j))
  /\ WF_vars(Retry)

FairSpec == Spec /\ Fairness

-----------------------------------------------------------------------------
(* Properties *)

Rows == [status : {"pending", "success", "failed"}, attempts : Nat]

TypeOK ==
  /\ hook \in {"enabled", "disabled", "deleted"}
  /\ rows \in [Deliveries -> Rows \cup {None}]
  /\ copies \in [Deliveries -> Nat]
  /\ author \in [Deliveries ->
                   {"none", "event", "test", "queueing", "testing", "counting", "done"}]
  /\ job \in [Handlers -> Jobs]
  /\ retry \in [step : {"idle", "hook", "reset", "send"}, d : Deliveries \cup {None}]
  /\ faults \in 0 .. MaxFaults
  /\ resets \in 0 .. MaxResets
  /\ posts \in [Deliveries -> Nat]
  /\ accepted \cup lost \cup disturbed \subseteq Deliveries

Has(d, status) == rows[d] # None /\ rows[d].status = status

\* Somebody is about to write the result of the delivery or to queue it.
InHand(d) ==
  \/ copies[d] > 0
  \/ Working(d) # {}
  \/ author[d] \in {"queueing", "testing"}
  \/ retry = [step |-> "send", d |-> d]

\* A delivery shown as pending waits in the queue or is being worked on, unless
\* a send, a write or a handler was lost: retryDelivery refuses pending
\* deliveries, so one that nobody holds stays so for ever.
PendingIsInHand ==
  \A d \in Deliveries : Has(d, "pending") => InHand(d) \/ d \in lost

\* When nobody works on a delivery any more, its row tells whether the endpoint
\* accepted it.  A success is never claimed without one.  An acceptance is not
\* shown only if the write that stores it was lost, its handler died with it, or
\* a second handler or an administrator worked on the delivery at the same time
\* and wrote over it.
OutcomeTold ==
  \A d \in Deliveries :
    /\ Has(d, "success") => d \in accepted
    /\ d \in accepted /\ ~InHand(d) /\ rows[d] # None =>
         Has(d, "success") \/ d \in lost \cup disturbed

\* The endpoint is called at most MaxAttempts times for a delivery, as often
\* again after each retry an administrator asked for, and once more for each
\* fault: a count that is not read or not written, or a copy that returns to the
\* queue and is handled after the first handler has ended.  Not when two work on
\* a delivery at a time: both may write the same count and both send a copy on,
\* which is four calls where three are allowed.  Settles is about those, too.
AttemptsBounded ==
  \A d \in Deliveries :
    d \notin disturbed => posts[d] <= MaxAttempts * (1 + resets) + faults

\* With faults that end, retries end: some time after a delivery is pending,
\* nobody holds it, no copy of it waits and its row shows success or failure (or
\* is gone), unless a send, a write or a handler was lost.  The failure between
\* two retries is no such time, for its handler is still at work.  This is also
\* so when a count was lost, or two handlers have counted one attempt.
Settles ==
  \A d \in Deliveries :
    Has(d, "pending") ~> (~Has(d, "pending") /\ ~InHand(d)) \/ d \in lost
=============================================================================
