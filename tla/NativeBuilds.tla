---------------------------- MODULE NativeBuilds ----------------------------
(***************************************************************************)
(* The native builds of one organization: the row of a build in            *)
(* build_requests, its job at the external builder, and the requests that  *)
(* bring one in line with the other.  POST /build/start reserves one of    *)
(* the plan's slots and starts the job; GET /build/status and the cron     *)
(* cron_reconcile_build_status read the row, ask the builder, cancel what  *)
(* ran too long, write the row if its status is still the one they read,   *)
(* and record the build time; POST /build/cancel only reaches the builder. *)
(*                                                                         *)
(* The builder is outside of the repository.  As its callers expect, it    *)
(* starts a job once: it refuses a job that has ended, answers a second    *)
(* start with the job's status or with an error, and shows a started job   *)
(* as pending until it has found a runner.  "cancelled" stands for every   *)
(* terminal status but succeeded and failed.  Deleting an application,     *)
(* which drops its rows, is left out, and so is the batch limit of the     *)
(* cron: it takes the oldest stale rows first and gets to all of them.     *)
(***************************************************************************)
EXTENDS Naturals, FiniteSets

CONSTANTS
  Builds,      \* the builds that requests are about
  Requests,    \* concurrent client requests
  Limit,       \* native_build_concurrency of its plan
  MaxStarts,   \* bound on the start requests of a build
  MaxAtOnce,   \* bound on the requests and cron tasks at work at a time
  MaxFaults,   \* bound on what goes wrong
  None         \* no row; no build; no status

\* The cron works on all stale rows at once: a build is its own cron task.
Workers == Requests \cup Builds

Over == {"succeeded", "failed", "cancelled"}
Statuses == {"pending", "starting", "running"} \cup Over

ASSUME BuildsAssumption ==
  /\ IsFiniteSet(Builds)
  /\ Requests \cap Builds = {}
  /\ None \notin Builds \cup Statuses
  /\ Limit \in Nat \ {0}
  /\ {MaxStarts, MaxAtOnce, MaxFaults} \subseteq Nat

VARIABLES
  row,       \* the status of a build in build_requests
  stale,     \* builds whose row was last updated more than five minutes ago
  job,       \* a build's job at the builder
  others,    \* slots the organization's other builds hold
  work,      \* the state of every request and cron task
  starts,    \* start requests of a build so far
  faults,    \* what went wrong so far
  billed,    \* builds whose time was recorded in build_logs, or failed to be
  ends,      \* history: "succeeded", "failed" and "timed out" events of a build
  takenBack, \* history: how often its row went from a terminal status to another
  reopened,  \* history: builds whose slot a poll gave back while they held it
  givenUp,   \* history: builds a start has marked as failed
  unpaid     \* history: builds whose cancellation was stored by a poll

told == <<ends, takenBack>>
history == <<told, reopened, givenUp, unpaid>>
bounds == <<starts, faults>>
rest == <<others, billed, history>>
vars == <<row, stale, job, work, bounds, rest>>

\* A queued job was started and waits for a runner; a job that fails by itself
\* goes the way of one that succeeds.  A runtime is overdue from the greatest
\* timeout on that an application can set.
Jobs == [status : {"pending", "queued", "running", "succeeded", "cancelled"},
         time   : {"none", "some", "overdue"}]

\* As if the builder told of its queue.
Told(status) == status

Shown(status) == IF status = "queued" THEN "pending" ELSE status

Work ==
  [kind : {"none", "start", "poll", "cron"},
   step : {"idle", "reserve", "call", "fail", "failStore", "get", "cancel", "store", "bill"},
   b    : Builds \cup {None},
   seen : Statuses \cup {None},  \* previousStatus
   got  : Statuses \cup {None},  \* effectiveStatus
   late : BOOLEAN]               \* timeoutApplied

Idle == [kind |-> "none", step |-> "idle", b |-> None, seen |-> None, got |-> None, late |-> FALSE]

Become(w, state) == work' = [work EXCEPT ![w] = state]
Goto(w, step) == Become(w, [work[w] EXCEPT !.step = step])
Fault == faults < MaxFaults /\ faults' = faults + 1

\* Another one can begin to work.
Free(w) ==
  /\ work[w] = Idle
  /\ Cardinality({v \in Workers : work[v] # Idle}) < MaxAtOnce

SetRow(b, status) ==
  /\ row' = [row EXCEPT ![b] = status]
  /\ stale' = stale \ {b}

-----------------------------------------------------------------------------
(* The transition every writer shares *)

\* As if a transition from a terminal status were reported too.
AnyChange(previous, next, late) ==
  IF late THEN "timed_out" ELSE IF previous = next THEN "none" ELSE next

\* classifyBuildTransition
Transition(previous, next, late) ==
  IF previous \in Over THEN "none" ELSE AnyChange(previous, next, late)

\* As if the row were written whatever its status.
Overwrite(b, previous) == TRUE

\* The guard .eq('status', previousStatus) of every update.
Unchanged(b, previous) == row[b] = previous

\* Write the status unless another writer was first, and emit its event.
Store(b, previous, next, late) ==
  IF Unchanged(b, previous)
  THEN /\ SetRow(b, next)
       /\ ends' = IF Transition(previous, next, late) \in {"succeeded", "failed", "timed_out"}
                  THEN [ends EXCEPT ![b] = @ + 1] ELSE ends
       /\ takenBack' = IF row[b] \in Over /\ next \notin Over
                       THEN [takenBack EXCEPT ![b] = @ + 1] ELSE takenBack
  ELSE UNCHANGED <<row, stale, told>>

-----------------------------------------------------------------------------
(* POST /build/request and POST /build/start *)

Request(b) ==
  /\ row[b] = None
  /\ SetRow(b, "pending")
  /\ UNCHANGED <<job, work, bounds, rest>>

Start(w, b) ==
  /\ Free(w)
  /\ row[b] # None
  /\ starts[b] < MaxStarts
  /\ starts' = [starts EXCEPT ![b] = @ + 1]
  /\ Become(w, [Idle EXCEPT !.kind = "start", !.step = "reserve", !.b = b, !.seen = row[b]])
  /\ UNCHANGED <<row, stale, job, faults, rest>>

\* As if only builds that run took a slot.
Running(b) == row[b] = "running"

\* Not pending and not terminal.
HoldsSlot(b) == row[b] \in {"starting", "running"}

\* reserveNativeBuildSlot, one transaction under a lock on the organization.
Reserve(w) ==
  LET b == work[w].b
      free == others + Cardinality({o \in Builds \ {b} : HoldsSlot(o)}) < Limit
  IN  /\ work[w].step = "reserve"
      /\ IF free /\ row[b] \notin Over
         THEN /\ SetRow(b, IF row[b] = "pending" THEN "starting" ELSE row[b])
              /\ Goto(w, "call")
         ELSE Become(w, Idle) /\ UNCHANGED <<row, stale>>
      /\ UNCHANGED <<job, bounds, rest>>

\* Another build takes a slot, or gives it back.
OtherStarts ==
  /\ others + Cardinality({b \in Builds : HoldsSlot(b)}) < Limit
  /\ others' = others + 1
  /\ UNCHANGED <<row, stale, job, work, bounds, billed, history>>

OtherEnds ==
  /\ others > 0
  /\ others' = others - 1
  /\ UNCHANGED <<row, stale, job, work, bounds, billed, history>>

\* normalizeStartedBuildStatus
Started(status) == IF Shown(status) = "pending" THEN "running" ELSE status

Accept(b) ==
  IF job[b].status = "pending"
  THEN \/ job' = [job EXCEPT ![b].status = "queued"]
       \/ job' = [job EXCEPT ![b] = [status |-> "running", time |-> "some"]]
  ELSE UNCHANGED job

\* The builder starts the job, or tells the status of one it has started.
CallAccepted(w) ==
  LET b == work[w].b
  IN  /\ work[w].step = "call"
      /\ job[b].status \notin Over
      /\ Accept(b)
      /\ Become(w, [work[w] EXCEPT !.step = "store", !.got = Started(job'[b].status)])
      /\ UNCHANGED <<row, stale, bounds, rest>>

\* It refuses a job it has started before, or one it cannot take.
CallRefused(w) ==
  /\ work[w].step = "call"
  /\ \/ job[work[w].b].status # "pending" /\ UNCHANGED faults
     \/ Fault
  /\ Become(w, [Idle EXCEPT !.step = "fail", !.b = work[w].b])
  /\ UNCHANGED <<row, stale, job, starts, rest>>

\* Its answer is lost, whether the job started or not.
CallLost(w) ==
  /\ work[w].step = "call"
  /\ Fault
  /\ UNCHANGED job \/ (job[work[w].b].status \notin Over /\ Accept(work[w].b))
  /\ Become(w, [Idle EXCEPT !.step = "fail", !.b = work[w].b])
  /\ UNCHANGED <<row, stale, starts, rest>>

\* The status the row had before the reservation must still be there.
StoreStarted(w) ==
  /\ work[w].kind = "start"
  /\ work[w].step = "store"
  /\ \/ Store(work[w].b, work[w].seen, work[w].got, FALSE) /\ UNCHANGED faults
     \/ Fault /\ UNCHANGED <<row, stale, told>>
  /\ Become(w, Idle)
  /\ UNCHANGED <<job, starts, others, billed, reopened, givenUp, unpaid>>

\* markBuildAsFailed reads the row; if it cannot, it writes all the same.
MarkAsFailed(w) ==
  /\ work[w].step = "fail"
  /\ \/ /\ Become(w, [work[w] EXCEPT !.step = "failStore", !.seen = row[work[w].b]])
        /\ UNCHANGED <<row, stale, faults, givenUp>>
     \/ /\ Fault
        /\ SetRow(work[w].b, "failed")
        /\ givenUp' = givenUp \cup {work[w].b}
        /\ Become(w, Idle)
  /\ UNCHANGED <<job, starts, others, billed, told, reopened, unpaid>>

StoreFailed(w) ==
  /\ work[w].step = "failStore"
  /\ \/ /\ Store(work[w].b, work[w].seen, "failed", FALSE)
        /\ givenUp' = IF Unchanged(work[w].b, work[w].seen)
                      THEN givenUp \cup {work[w].b} ELSE givenUp
        /\ UNCHANGED faults
     \/ Fault /\ UNCHANGED <<row, stale, told, givenUp>>
  /\ Become(w, Idle)
  /\ UNCHANGED <<job, starts, others, billed, reopened, unpaid>>

-----------------------------------------------------------------------------
(* GET /build/status and the cron *)

Poll(w, b, kind) ==
  /\ Free(w)
  /\ row[b] # None
  /\ Become(w, [Idle EXCEPT !.kind = kind, !.step = "get", !.b = b, !.seen = row[b]])
  /\ UNCHANGED <<row, stale, job, bounds, rest>>

\* As if the cron looked after builds that are known to run.
RunningAndStale(b) == b \in stale /\ row[b] = "running"

NeedsCron(b) == b \in stale /\ row[b] \notin Over

Reconcile(b) == NeedsCron(b) /\ Poll(b, b, "cron")

\* shouldApplyBuildTimeout.  Its owners set the timeout of an application at any
\* time, a request has read it before it asks the builder, and a change counts for
\* the jobs that end after it: a job is late or not, unless it never ran or still
\* runs after the greatest timeout.
TimedOut(j) ==
  CASE j.time = "none" -> {FALSE}
    [] j.time = "overdue" /\ j.status \notin Over -> {TRUE}
    [] OTHER -> BOOLEAN

\* A late job that has ended is failed, another one has to be cancelled first.
Get(w) ==
  LET j == job[work[w].b]
      over == j.status \in Over
  IN  /\ work[w].step = "get"
      /\ \E late \in TimedOut(j) :
           Become(w, [work[w] EXCEPT
                        !.step = IF late /\ ~over THEN "cancel" ELSE "store",
                        !.got = IF late /\ over THEN "failed" ELSE Shown(j.status),
                        !.late = late /\ over])
      /\ UNCHANGED <<row, stale, job, bounds, rest>>

CancelJob(b) ==
  job' = [job EXCEPT ![b].status = IF @ \in Over THEN @ ELSE "cancelled"]

\* As if the timeout applied before the builder agreed.
Hasty(state) == [state EXCEPT !.step = "store", !.got = "failed", !.late = TRUE]

\* What a poll goes on with when the builder does not cancel the job.
NotCancelled(state) == [state EXCEPT !.step = "store"]

\* cancelTimedOutBuilderJob
CancelLate(w) ==
  /\ work[w].step = "cancel"
  /\ \/ /\ CancelJob(work[w].b)
        /\ Become(w, [work[w] EXCEPT !.step = "store", !.got = "failed", !.late = TRUE])
        /\ UNCHANGED faults
     \/ /\ \/ job[work[w].b].status \in Over /\ UNCHANGED faults
           \/ Fault
        /\ Become(w, NotCancelled(work[w]))
        /\ UNCHANGED job
  /\ UNCHANGED <<row, stale, starts, rest>>

\* The statuses a poll, and those the cron, records the time of.
Paid(kind) == IF kind = "cron" THEN Over ELSE {"succeeded", "failed"}

\* As if a build cancelled for its timeout cost nothing.
ToBillInTime(w) == ~work[w].late /\ work[w].got \in Paid(work[w].kind)

ToBill(w) ==
  /\ job[work[w].b].time # "none"
  /\ work[w].late \/ work[w].got \in Paid(work[w].kind)

\* A poll goes on when the update fails, a cron task does not (Die).
StorePolled(w) ==
  LET b == work[w].b
  IN  /\ work[w].kind \in {"poll", "cron"}
      /\ work[w].step = "store"
      /\ \/ /\ Store(b, work[w].seen, work[w].got, work[w].late)
            /\ UNCHANGED faults
         \/ /\ work[w].kind = "poll"
            /\ Fault
            /\ UNCHANGED <<row, stale, told>>
      /\ unpaid' = IF work[w].kind = "poll" /\ row'[b] = "cancelled" /\ row[b] # "cancelled"
                   THEN unpaid \cup {b} ELSE unpaid
      /\ reopened' = IF HoldsSlot(b) /\ row'[b] = "pending" THEN reopened \cup {b} ELSE reopened
      /\ Become(w, IF ToBill(w) THEN [Idle EXCEPT !.step = "bill", !.b = b] ELSE Idle)
      /\ UNCHANGED <<job, starts, others, billed, givenUp>>

\* recordBuildTime, an upsert.  What fails is only logged, and record_build_time
\* fails when the user who polls, or who requested the build, may not write.
Bill(w) ==
  /\ work[w].step = "bill"
  /\ billed' = billed \cup {work[w].b}
  /\ Become(w, Idle)
  /\ UNCHANGED <<row, stale, job, others, bounds, history>>

\* A request or a cron task ends early: the database refused it, the builder
\* gave no status, or the function was stopped.
Die(w) ==
  /\ work[w] # Idle
  /\ Fault
  /\ billed' = IF work[w].step = "bill" THEN billed \cup {work[w].b} ELSE billed
  /\ Become(w, Idle)
  /\ UNCHANGED <<row, stale, job, starts, others, history>>

-----------------------------------------------------------------------------
(* The builder, the client's cancellation and the clock *)

\* POST /build/cancel.  The policies on build_requests let its client change no
\* row, so that the row is left to the next poll.
Cancel(b) ==
  /\ row[b] # None
  /\ job[b].status \notin Over
  /\ CancelJob(b)
  /\ UNCHANGED <<row, stale, work, bounds, rest>>

Run(b) ==
  /\ job[b].status = "queued"
  /\ job' = [job EXCEPT ![b] = [status |-> "running", time |-> "some"]]
  /\ UNCHANGED <<row, stale, work, bounds, rest>>

End(b) ==
  /\ job[b].status = "running"
  /\ job' = [job EXCEPT ![b].status = "succeeded"]
  /\ UNCHANGED <<row, stale, work, bounds, rest>>

RunOn(b) ==
  /\ job[b].status = "running"
  /\ job[b].time = "some"
  /\ job' = [job EXCEPT ![b].time = "overdue"]
  /\ UNCHANGED <<row, stale, work, bounds, rest>>

\* Five minutes pass over a row the cron may be interested in; that is longer
\* than a request takes.
Age(b) ==
  /\ row[b] \notin Over \cup {None}
  /\ b \notin stale
  /\ \A w \in Workers : work[w].b # b
  /\ stale' = stale \cup {b}
  /\ UNCHANGED <<row, job, work, bounds, rest>>

-----------------------------------------------------------------------------

Init ==
  /\ row = [b \in Builds |-> None]
  /\ stale = {}
  /\ job = [b \in Builds |-> [status |-> "pending", time |-> "none"]]
  /\ work = [w \in Workers |-> Idle]
  /\ others = 0
  /\ starts = [b \in Builds |-> 0]
  /\ faults = 0
  /\ billed = {}
  /\ ends = [b \in Builds |-> 0]
  /\ takenBack = [b \in Builds |-> 0]
  /\ reopened = {}
  /\ givenUp = {}
  /\ unpaid = {}

Steps(w) ==
  \/ Reserve(w) \/ CallAccepted(w) \/ CallRefused(w) \/ StoreStarted(w)
  \/ MarkAsFailed(w) \/ StoreFailed(w)
  \/ Get(w) \/ CancelLate(w) \/ StorePolled(w) \/ Bill(w)

Next ==
  \/ \E b \in Builds :
       \/ Request(b) \/ Reconcile(b) \/ Cancel(b) \/ Age(b)
       \/ Run(b) \/ RunOn(b) \/ End(b)
       \/ \E w \in Requests :
            Start(w, b) \/ Poll(w, b, "poll")
  \/ \E w \in Workers : Steps(w) \/ CallLost(w) \/ Die(w)
  \/ OtherStarts \/ OtherEnds

Spec == Init /\ [][Next]_vars

\* One or another request goes on, the cron is called every few minutes, and time
\* passes.
Fairness ==
  /\ WF_vars(\E w \in Workers : Steps(w))
  /\ \A b \in Builds : WF_vars(Reconcile(b)) /\ WF_vars(Age(b)) /\ WF_vars(RunOn(b))

FairSpec == Spec /\ Fairness

-----------------------------------------------------------------------------
(* Properties *)

TypeOK ==
  /\ row \in [Builds -> Statuses \cup {None}]
  /\ stale \subseteq Builds
  /\ job \in [Builds -> Jobs]
  /\ work \in [Workers -> Work]
  /\ others \in 0 .. Limit
  /\ starts \in [Builds -> 0 .. MaxStarts]
  /\ faults \in 0 .. MaxFaults
  /\ ends \in [Builds -> Nat]
  /\ takenBack \in [Builds -> Nat]
  /\ billed \cup reopened \cup givenUp \cup unpaid \subseteq Builds

Active(b) == job[b].status \in {"queued", "running"}

\* The builder never works on more builds than the plan allows, apart from
\* those whose row went back to pending or to failed while they held a slot: a
\* poll that asked the builder before the start reached it, or before the job
\* found a runner, gives the slot back, and so does a start that failed to hear
\* of its success.
WithinPlan ==
  others + Cardinality({b \in Builds : Active(b)} \ (reopened \cup givenUp)) <= Limit

\* A start that was refused, or that did not hear the builder's answer, marks
\* its build as failed whatever the job does.  The next poll that reads "failed"
\* writes what it hears of the builder; without one the row stays as it is, for the
\* cron leaves it alone.
GivenUp(b) == row[b] = "failed" /\ b \in givenUp

\* A build is shown as over only when the builder is done with it, though polls
\* judge by what the builder said a while ago and cancel jobs on their own; but a
\* build that a start gave up is shown as failed though its job may well run.
OverMeansOver ==
  \A b \in Builds : row[b] \in Over => ~Active(b) \/ GivenUp(b)

\* An end, once shown, is not taken back: a poll that is late with an older
\* answer of the builder finds that the row is no longer the one it read.  Only
\* the failure of a build that a start gave up is, when its job still runs.
EndsStand ==
  [][\A b \in Builds : row[b] \in Over => row'[b] \in Over \/ GivenUp(b)]_vars

\* The end of a build is announced once for every time it comes to be shown: once
\* and for all, but for the builds whose end was taken back in between, however
\* many polls, starts and cron tasks see it and however its timeout is changed
\* before or after the job has ended.
AnnouncedOnce == \A b \in Builds : ends[b] <= 1 + takenBack[b]

\* A build that ran and is shown as over has its time recorded when nobody works
\* on it any more, unless recording failed.  The cron never looks at it again, so
\* that two kinds of builds may go unbilled: those that a start gave up, and those
\* whose cancellation was seen first by a poll, which records no such time.
EndIsBilled ==
  \A b \in Builds :
    /\ row[b] \in Over
    /\ job[b].time # "none"
    /\ \A w \in Workers : work[w].b # b
    => \/ b \in billed
       \/ GivenUp(b)
       \/ row[b] = "cancelled" /\ b \in unpaid

\* A slot is given back in the end, if only by the cron when the start died
\* before it reached the builder, or when the job ran for too long.
SlotGivenBack == \A b \in Builds : HoldsSlot(b) ~> ~HoldsSlot(b)
=============================================================================
