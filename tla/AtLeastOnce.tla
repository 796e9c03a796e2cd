---------------------------- MODULE AtLeastOnce ----------------------------
(***************************************************************************)
(* What the work queues promise to those who send to them: a message stays *)
(* until its handler has done its work or until more than MaxCalls reads   *)
(* have tried it; its handler is called at most MaxCalls times, possibly   *)
(* after the message is gone; and no message stays for ever.               *)
(* QueueConsumer implements this, WebhookDeliveries relies on it.          *)
(***************************************************************************)
EXTENDS Naturals

CONSTANTS Messages, MaxCalls

VARIABLES place, reads, calls, worked

vars == <<place, reads, calls, worked>>

Init ==
  /\ place = [m \in Messages |-> "unsent"]
  /\ reads = [m \in Messages |-> 0]
  /\ calls = [m \in Messages |-> 0]
  /\ worked = {}

Send(m) ==
  /\ place[m] = "unsent"
  /\ place' = [place EXCEPT ![m] = "queued"]
  /\ UNCHANGED <<reads, calls, worked>>

\* A worker reads messages; more than MaxCalls reads are all the same.
Read(M) ==
  /\ M # {}
  /\ \A m \in M : place[m] = "queued"
  /\ reads' = [m \in Messages |->
                 IF m \in M /\ reads[m] <= MaxCalls THEN reads[m] + 1 ELSE reads[m]]
  /\ UNCHANGED <<place, calls, worked>>

Call(m) ==
  /\ calls[m] < reads[m]
  /\ calls[m] < MaxCalls
  /\ calls' = [calls EXCEPT ![m] = @ + 1]
  /\ UNCHANGED <<place, reads, worked>>

Work(M) ==
  /\ \A m \in M : calls[m] > 0
  /\ worked' = worked \cup M
  /\ UNCHANGED <<place, reads, calls>>

\* Messages leave together; each has been worked on or read too often.
Leave(M, to) ==
  /\ M # {}
  /\ \A m \in M : /\ place[m] = "queued"
                  /\ IF to = "done" THEN m \in worked ELSE reads[m] > MaxCalls
  /\ place' = [m \in Messages |-> IF m \in M THEN to ELSE place[m]]
  /\ UNCHANGED <<reads, calls, worked>>

Next ==
  \/ \E m \in Messages : Send(m) \/ Call(m)
  \/ \E M \in SUBSET Messages : Read(M) \/ Work(M) \/ Leave(M, "done") \/ Leave(M, "given_up")

Leaves == \A m \in Messages : (place[m] = "queued") ~> (place[m] # "queued")

\* What the queue never does, without the promise that every message leaves.
Safety == Init /\ [][Next]_vars

Spec == Safety /\ Leaves
=============================================================================
