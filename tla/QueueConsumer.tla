--------------------------- MODULE QueueConsumer ---------------------------
(***************************************************************************)
(* The consumer of the work queues (triggers/queue_consumer.ts).  Cron     *)
(* calls /sync for every queue that holds messages, whether or not an      *)
(* earlier run has ended; a run reads a batch, archives what was read too  *)
(* often, calls the handler of every other message and deletes those that  *)
(* were answered with success.  The queue itself is the pgmq extension.    *)
(*                                                                         *)
(* A batch of 950 messages with 25 calls at a time and 15 s for each takes *)
(* longer than the 120 s for which a read hides its messages: Expire may   *)
(* come at any time.  No sender of the repository writes a message that    *)
(* messagesArraySchema refuses.  The cf_ids a run notes in the messages    *)
(* are never read, and the health checks and alerts are left out.          *)
(***************************************************************************)
EXTENDS Naturals, FiniteSets

CONSTANTS
  Messages,     \* message ids, in the order they are sent
  Runs,         \* concurrent runs of processQueue
  BatchSize,    \* finalBatchSize
  Concurrency,  \* getQueueHttpConcurrency
  MaxReads      \* MAX_QUEUE_READS, which cleanup_queue_messages repeats

ASSUME QueueAssumption ==
  /\ Messages \subseteq Nat
  /\ IsFiniteSet(Messages)
  /\ IsFiniteSet(Runs)
  /\ {BatchSize, Concurrency, MaxReads} \subseteq Nat \ {0}

VARIABLES
  place,   \* where a message is
  hidden,  \* messages whose visibility timeout has not passed
  reads,   \* read_ct, where more than MaxReads is all the same
  run,     \* the state of every run
  calls,   \* history: calls of a message's handler
  worked,  \* history: messages a handler has done the work of
  burnt    \* history: reads whose run ended before it called the handler

queue == <<place, hidden, reads>>
history == <<calls, worked, burnt>>
vars == <<queue, run, history>>

Left == {"deleted", "archived", "swept"}
Places == {"unsent", "queued"} \cup Left

RunStates ==
  [step : {"idle", "archive", "dispatch"},
   skip : SUBSET Messages,  \* messagesToSkip
   todo : SUBSET Messages,  \* of messagesToProcess, those not called yet
   sent : SUBSET Messages,  \* those called and not answered
   ok   : SUBSET Messages]  \* those answered with success

Idle == [step |-> "idle", skip |-> {}, todo |-> {}, sent |-> {}, ok |-> {}]

Become(r, state) == run' = [run EXCEPT ![r] = state]
Move(M, to) == place' = [m \in Messages |-> IF m \in M THEN to ELSE place[m]]
Queued == {m \in Messages : place[m] = "queued"}

-----------------------------------------------------------------------------
(* The queue (pgmq) and its daily cleanup *)

Send(m) ==
  /\ place[m] = "unsent"
  /\ \A k \in Messages : k < m => place[k] # "unsent"
  /\ Move({m}, "queued")
  /\ UNCHANGED <<hidden, reads, run, history>>

\* The visibility timeout passes, although the run may not have ended.
Expire(m) ==
  /\ m \in hidden
  /\ hidden' = hidden \ {m}
  /\ UNCHANGED <<place, reads, run, history>>

Exhausted == {m \in Queued : reads[m] > MaxReads}

\* cleanup_queue_messages: once a day, for want of an archived copy.
Sweep ==
  /\ Exhausted # {}
  /\ Move(Exhausted, "swept")
  /\ hidden' = hidden \ Exhausted
  /\ UNCHANGED <<reads, run, history>>

-----------------------------------------------------------------------------
(* A run of processQueue *)

\* The visible messages with the lowest ids.
Batch ==
  LET visible == Queued \ hidden
  IN  {m \in visible : Cardinality({k \in visible : k < m}) < BatchSize}

\* As if the limit were one read higher, one read lower, or missing.
OneReadMore(n) == n <= MaxReads + 1
OneReadLess(n) == n < MaxReads
Always(n) == TRUE

\* As if a read did not know when to stop counting.
OneMore(m) == reads[m] + 1

ReadsAfter(m) == IF reads[m] > MaxReads THEN reads[m] ELSE reads[m] + 1

\* Whether a message read for the n-th time is still processed.
InBudget(n) == n <= MaxReads

Read(r) ==
  /\ run[r].step = "idle"
  /\ Batch # {}
  /\ hidden' = hidden \cup Batch
  /\ reads' = [m \in Messages |-> IF m \in Batch THEN ReadsAfter(m) ELSE reads[m]]
  /\ LET todo == {m \in Batch : InBudget(reads'[m])}
     IN  Become(r, [Idle EXCEPT !.step = IF todo = Batch THEN "dispatch" ELSE "archive",
                                !.skip = Batch \ todo, !.todo = todo])
  /\ UNCHANGED <<place, history>>

Archive(r) ==
  /\ run[r].step = "archive"
  /\ Move(run[r].skip \cap Queued, "archived")
  /\ hidden' = hidden \ run[r].skip
  /\ Become(r, [run[r] EXCEPT !.step = "dispatch", !.skip = {}])
  /\ UNCHANGED <<reads, history>>

Dispatch(r, m) ==
  /\ run[r].step = "dispatch"
  /\ m \in run[r].todo
  /\ Cardinality(run[r].sent) < Concurrency
  /\ Become(r, [run[r] EXCEPT !.todo = @ \ {m}, !.sent = @ \cup {m}])
  /\ calls' = [calls EXCEPT ![m] = @ + 1]
  /\ UNCHANGED <<queue, worked, burnt>>

\* What comes of a call: the handler's answer, or none within QUEUE_HTTP_TIMEOUT.
Answers == {"success", "error", "none"}

\* As if whatever the handler answers were a success.
IsAnswer(a) == a # "none"

IsSuccess(a) == a = "success"

\* A handler that is not heard of may still have done its work.
Answer(r, m, a) ==
  /\ m \in run[r].sent
  /\ Become(r, [run[r] EXCEPT !.sent = @ \ {m},
                              !.ok = IF IsSuccess(a) THEN @ \cup {m} ELSE @])
  /\ CASE a = "success" -> worked' = worked \cup {m}
       [] a = "error" -> worked' = worked
       [] a = "none" -> worked' \in {worked, worked \cup {m}}
  /\ UNCHANGED <<queue, calls, burnt>>

\* The whole batch is answered: delete what succeeded, leave the rest to expire.
Finish(r) ==
  /\ run[r].step = "dispatch"
  /\ run[r].todo \cup run[r].sent = {}
  /\ Move(run[r].ok \cap Queued, "deleted")
  /\ hidden' = hidden \ run[r].ok
  /\ Become(r, Idle)
  /\ UNCHANGED <<reads, history>>

\* A run ends early: the answer to the read, the archive or the delete failed,
\* or the process went away.  The handlers it called go on.
Abort(r) ==
  /\ run[r].step # "idle"
  /\ Become(r, Idle)
  /\ burnt' = [m \in Messages |-> IF m \in run[r].todo THEN burnt[m] + 1 ELSE burnt[m]]
  /\ worked' \in {worked \cup M : M \in SUBSET run[r].sent}
  /\ UNCHANGED <<queue, calls>>

-----------------------------------------------------------------------------

Init ==
  /\ place = [m \in Messages |-> "unsent"]
  /\ hidden = {}
  /\ reads = [m \in Messages |-> 0]
  /\ run = [r \in Runs |-> Idle]
  /\ calls = [m \in Messages |-> 0]
  /\ worked = {}
  /\ burnt = [m \in Messages |-> 0]

Steps(r) ==
  \/ Archive(r) \/ Finish(r)
  \/ \E m \in Messages : Dispatch(r, m) \/ \E a \in Answers : Answer(r, m, a)

Next ==
  \/ \E m \in Messages : Send(m) \/ Expire(m)
  \/ Sweep
  \/ \E r \in Runs : Read(r) \/ Steps(r) \/ Abort(r)

Spec == Init /\ [][Next]_vars

\* Cron goes on starting runs and sweeping, runs go on (every call they wait
\* for has a timeout), and time passes.
Fairness ==
  /\ WF_vars(Sweep)
  /\ \A m \in Messages : WF_vars(Expire(m))
  /\ \A r \in Runs : WF_vars(Read(r)) /\ WF_vars(Steps(r))

FairSpec == Spec /\ Fairness

-----------------------------------------------------------------------------
(* Properties *)

TypeOK ==
  /\ place \in [Messages -> Places]
  /\ hidden \subseteq Messages
  /\ reads \in [Messages -> 0 .. MaxReads + 1]
  /\ run \in [Runs -> RunStates]
  /\ calls \in [Messages -> Nat]
  /\ worked \subseteq Messages
  /\ burnt \in [Messages -> Nat]

\* The runs that hold a message and have not called its handler.
Holders(m) == {r \in Runs : m \in run[r].todo}

\* However runs overlap, die and read again what expired in the hands of
\* another, the handler of a message is called at most MaxReads times in all
\* (MAX_QUEUE_READS bounds the reads of a row, not the calls).
CallsWithinBudget ==
  \A m \in Messages : calls[m] + Cardinality(Holders(m)) <= MaxReads

\* A message given up, by a run or by the daily cleanup, has used its whole
\* budget: each of MaxReads reads was a call, is about to be one, or belonged
\* to a run that ended before the call.
GivenUpAfterBudget ==
  \A m \in Messages :
    place[m] \in {"archived", "swept"} =>
      calls[m] + burnt[m] + Cardinality(Holders(m)) = MaxReads

\* What a run deletes has been worked on, though it may be deleted under the
\* eyes of a second run that is about to call its handler again.
DeletedAfterWork ==
  \A m \in Messages : place[m] = "deleted" => m \in worked

\* The consumer implements the promise of an at-least-once queue, that every
\* message leaves in the end included.
Queue == INSTANCE AtLeastOnce WITH
  MaxCalls <- MaxReads,
  place <- [m \in Messages |->
              CASE place[m] = "deleted" -> "done"
                [] place[m] \in {"archived", "swept"} -> "given_up"
                [] OTHER -> place[m]]

ImplementsQueue == Queue!Spec
=============================================================================
