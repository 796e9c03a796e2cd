------------------------ MODULE QueueConsumer_proofs ------------------------
(***************************************************************************)
(* For every number of messages and concurrent runs, every batch size and  *)
(* every limit: the types of QueueConsumer, how often a handler is called  *)
(* before and after its message is given up, that what is deleted has been *)
(* worked on, and that the consumer implements the steps of AtLeastOnce.   *)
(***************************************************************************)
EXTENDS QueueConsumer, FiniteSetTheorems, TLAPS

\* What a run knows of the messages it holds.
Known(r) ==
  /\ run[r].step = "idle" => run[r] = Idle
  /\ \A m \in run[r].skip : reads[m] > MaxReads
  /\ \A m \in run[r].sent : calls[m] > 0
  /\ run[r].ok \subseteq worked

\* Why a message that is gone has left.
Excused(m) ==
  /\ place[m] \in {"archived", "swept"} => reads[m] > MaxReads
  /\ place[m] = "deleted" => m \in worked

RunInv == (\A r \in Runs : Known(r)) /\ (\A m \in Messages : Excused(m))

\* Every read within the budget was a call, is about to be one, or was burnt
\* by a run that ended.
Budget(n) == IF n <= MaxReads THEN n ELSE MaxReads
Accounted(m) == calls[m] + burnt[m] + Cardinality(Holders(m)) = Budget(reads[m])

QueueInv == TypeOK /\ RunInv /\ \A m \in Messages : Accounted(m)

-----------------------------------------------------------------------------
(* Helpers *)

\* A run's new state types run and leaves the other runs alone.
LEMMA Becoming ==
  ASSUME NEW r \in Runs, NEW s \in RunStates, run \in [Runs -> RunStates], Become(r, s)
  PROVE  /\ run' \in [Runs -> RunStates]
         /\ run'[r] = s
         /\ \A q \in Runs \ {r} : run'[q] = run[q]
BY DEF Become

\* Moving messages types place, moves exactly those, and no other.
LEMMA Moving ==
  ASSUME NEW M, NEW to \in Places, place \in [Messages -> Places], Move(M, to)
  PROVE  /\ place' \in [Messages -> Places]
         /\ \A m \in Messages : place'[m] = IF m \in M THEN to ELSE place[m]
BY DEF Move

\* The runs that hold a message are finitely many, so they can be counted.
LEMMA HoldersFinite ==
  ASSUME NEW m \in Messages
  PROVE  IsFiniteSet(Holders(m)) /\ Cardinality(Holders(m)) \in Nat
BY FS_Subset, FS_CardinalityType, QueueAssumption DEF Holders

LEMMA HoldersFiniteNext ==
  ASSUME NEW m \in Messages
  PROVE  IsFiniteSet(Holders(m)') /\ Cardinality(Holders(m)') \in Nat
BY FS_Subset, FS_CardinalityType, QueueAssumption DEF Holders

\* A step of r that leaves the messages it holds uncalled alone, or takes one
\* away, or adds one, changes the number of holders by none or by one.
LEMMA HoldersSame ==
  ASSUME NEW m \in Messages, NEW r \in Runs,
         \A q \in Runs \ {r} : run'[q] = run[q],
         m \in run[r].todo <=> m \in run'[r].todo
  PROVE  Holders(m)' = Holders(m)
BY DEF Holders

LEMMA HolderGone ==
  ASSUME NEW m \in Messages, NEW r \in Runs,
         \A q \in Runs \ {r} : run'[q] = run[q],
         m \in run[r].todo, m \notin run'[r].todo
  PROVE  Cardinality(Holders(m)) = Cardinality(Holders(m)') + 1
<1>1. Holders(m)' = Holders(m) \ {r} /\ r \in Holders(m)
  BY DEF Holders
<1>2. Cardinality(Holders(m) \ {r}) = Cardinality(Holders(m)) - 1
  BY <1>1, HoldersFinite, FS_RemoveElement
<1>3. Cardinality(Holders(m)') = Cardinality(Holders(m)) - 1
  BY <1>1, <1>2
<1> QED BY <1>3, HoldersFinite

LEMMA HolderNew ==
  ASSUME NEW m \in Messages, NEW r \in Runs,
         \A q \in Runs \ {r} : run'[q] = run[q],
         m \notin run[r].todo, m \in run'[r].todo
  PROVE  Cardinality(Holders(m)') = Cardinality(Holders(m)) + 1
<1>1. Holders(m)' = Holders(m) \cup {r} /\ r \notin Holders(m)
  BY DEF Holders
<1>2. Cardinality(Holders(m) \cup {r}) = Cardinality(Holders(m)) + 1
  BY <1>1, HoldersFinite, FS_AddElement
<1> QED BY <1>1, <1>2

\* What a message's read count becomes.
LEMMA ReadsTyped ==
  ASSUME NEW m \in Messages, reads[m] \in 0 .. MaxReads + 1
  PROVE  /\ ReadsAfter(m) \in 0 .. MaxReads + 1
         /\ Budget(ReadsAfter(m)) =
              IF InBudget(ReadsAfter(m)) THEN Budget(reads[m]) + 1 ELSE Budget(reads[m])
         /\ reads[m] > MaxReads => ReadsAfter(m) > MaxReads
         /\ ~InBudget(ReadsAfter(m)) => ReadsAfter(m) > MaxReads
BY QueueAssumption DEF ReadsAfter, InBudget, Budget

-----------------------------------------------------------------------------
(* Types *)

LEMMA TypeInit == Init => TypeOK
BY QueueAssumption DEF Init, TypeOK, Places, Left, Idle, RunStates

\* Every step keeps the types.
LEMMA TypeStep == TypeOK /\ [Next]_vars => TypeOK'
<1> SUFFICES ASSUME TypeOK, [Next]_vars PROVE TypeOK'
    OBVIOUS
<1> USE DEF TypeOK
<1>1. ASSUME NEW m \in Messages, Send(m) PROVE TypeOK'
  <2>1. Move({m}, "queued") /\ "queued" \in Places
    BY <1>1 DEF Send, Places
  <2> QED BY <1>1, <2>1, Moving DEF Send, history
<1>2. ASSUME NEW m \in Messages, Expire(m) PROVE TypeOK'
  BY <1>2 DEF Expire, history
<1>3. ASSUME Sweep PROVE TypeOK'
  <2>1. Move(Exhausted, "swept") /\ "swept" \in Places
    BY <1>3 DEF Sweep, Places, Left
  <2> QED BY <1>3, <2>1, Moving DEF Sweep, history
<1>4. ASSUME NEW r \in Runs, Read(r) PROVE TypeOK'
  <2> DEFINE todo == {m \in Batch : InBudget(reads'[m])}
             s == [Idle EXCEPT !.step = IF todo = Batch THEN "dispatch" ELSE "archive",
                               !.skip = Batch \ todo, !.todo = todo]
  <2>1. Batch \subseteq Messages
    BY DEF Batch, Queued
  <2>2. s \in RunStates
    BY <2>1 DEF RunStates, Idle
  <2>3. Become(r, s)
    BY <1>4 DEF Read
  <2>4. run' \in [Runs -> RunStates]
    BY <2>2, <2>3, Becoming
  <2>5. reads' \in [Messages -> 0 .. MaxReads + 1]
    <3>1. \A m \in Messages : reads[m] \in 0 .. MaxReads + 1
      OBVIOUS
    <3>2. \A m \in Messages :
            (IF m \in Batch THEN ReadsAfter(m) ELSE reads[m]) \in 0 .. MaxReads + 1
      BY <3>1, ReadsTyped
    <3> QED BY <1>4, <3>2 DEF Read
  <2> QED BY <1>4, <2>1, <2>4, <2>5 DEF Read, history
<1>5. ASSUME NEW r \in Runs, Archive(r) PROVE TypeOK'
  <2> DEFINE s == [run[r] EXCEPT !.step = "dispatch", !.skip = {}]
  <2>1. s \in RunStates /\ Become(r, s)
    BY <1>5 DEF Archive, RunStates
  <2>2. run' \in [Runs -> RunStates]
    BY <2>1, Becoming
  <2>3. Move(run[r].skip \cap Queued, "archived") /\ "archived" \in Places
    BY <1>5 DEF Archive, Places, Left
  <2> QED BY <1>5, <2>2, <2>3, Moving DEF Archive, history
<1>6. ASSUME NEW r \in Runs, NEW m \in Messages, Dispatch(r, m) PROVE TypeOK'
  <2> DEFINE s == [run[r] EXCEPT !.todo = @ \ {m}, !.sent = @ \cup {m}]
  <2>1. s \in RunStates /\ Become(r, s)
    BY <1>6 DEF Dispatch, RunStates
  <2>2. run' \in [Runs -> RunStates]
    BY <2>1, Becoming
  <2>3. calls' \in [Messages -> Nat]
    BY <1>6 DEF Dispatch
  <2> QED BY <1>6, <2>2, <2>3 DEF Dispatch, queue
<1>7. ASSUME NEW r \in Runs, NEW m \in Messages, NEW a \in Answers, Answer(r, m, a)
      PROVE  TypeOK'
  <2> DEFINE s == [run[r] EXCEPT !.sent = @ \ {m},
                                 !.ok = IF IsSuccess(a) THEN @ \cup {m} ELSE @]
  <2>1. s \in RunStates /\ Become(r, s)
    BY <1>7 DEF Answer, RunStates
  <2>2. run' \in [Runs -> RunStates]
    BY <2>1, Becoming
  <2>3. worked' \in {worked, worked \cup {m}}
    BY <1>7 DEF Answer, Answers
  <2> QED BY <1>7, <2>2, <2>3 DEF Answer, queue
<1>8. ASSUME NEW r \in Runs, Finish(r) PROVE TypeOK'
  <2>1. run' \in [Runs -> RunStates]
    BY <1>8, Becoming DEF Finish, RunStates, Idle
  <2>2. Move(run[r].ok \cap Queued, "deleted") /\ "deleted" \in Places
    BY <1>8 DEF Finish, Places, Left
  <2> QED BY <1>8, <2>1, <2>2, Moving DEF Finish, history
<1>9. ASSUME NEW r \in Runs, Abort(r) PROVE TypeOK'
  <2>1. run' \in [Runs -> RunStates]
    BY <1>9, Becoming DEF Abort, RunStates, Idle
  <2>2. burnt' \in [Messages -> Nat]
    BY <1>9 DEF Abort
  <2>3. PICK M \in SUBSET run[r].sent : worked' = worked \cup M
    BY <1>9 DEF Abort
  <2>4. run[r].sent \subseteq Messages
    BY DEF RunStates
  <2> QED BY <1>9, <2>1, <2>2, <2>3, <2>4 DEF Abort, queue
<1>10. CASE UNCHANGED vars
  BY <1>10 DEF vars, queue, history
<1> QED BY <1>1, <1>2, <1>3, <1>4, <1>5, <1>6, <1>7, <1>8, <1>9, <1>10 DEF Next, Steps

\* TypeOK: places, read counts, what runs hold and the histories keep their types.
THEOREM TypeCorrect == Spec => []TypeOK
BY TypeInit, TypeStep, PTL DEF Spec

-----------------------------------------------------------------------------
(* What a run knows, and why messages leave *)

\* The messages the runs other than r know about are known as well when counts
\* and work only grow.
LEMMA OthersKnow ==
  ASSUME TypeOK, NEW r \in Runs, \A q \in Runs : Known(q),
         \A q \in Runs \ {r} : run'[q] = run[q],
         \A m \in Messages : reads[m] > MaxReads => reads'[m] > MaxReads,
         \A m \in Messages : calls[m] > 0 => calls'[m] > 0,
         worked \subseteq worked'
  PROVE  \A q \in Runs \ {r} : Known(q)'
<1> TAKE q \in Runs \ {r}
<1>1. run'[q] = run[q] /\ Known(q)
  OBVIOUS
<1>2. run[q].skip \subseteq Messages /\ run[q].sent \subseteq Messages
  BY DEF TypeOK, RunStates
<1> QED BY <1>1, <1>2 DEF Known

LEMMA RunInit == Init => RunInv
BY DEF Init, RunInv, Known, Excused, Idle

\* Every step keeps them.
LEMMA RunStep == TypeOK /\ RunInv /\ [Next]_vars => RunInv'
<1> SUFFICES ASSUME TypeOK, RunInv, [Next]_vars PROVE RunInv'
    OBVIOUS
<1>t. TypeOK'
  BY TypeStep
<1>k. (\A q \in Runs : Known(q)) /\ (\A m \in Messages : Excused(m))
  BY DEF RunInv
<1>1. ASSUME NEW m \in Messages, Send(m) PROVE RunInv'
  <2>1. Move({m}, "queued") /\ "queued" \in Places
    BY <1>1 DEF Send, Places
  <2>2. \A k \in Messages : place'[k] \in {place[k], "queued"}
    BY <2>1, Moving DEF TypeOK
  <2> QED BY <1>1, <1>k, <2>2 DEF Send, history, RunInv, Known, Excused
<1>2. ASSUME NEW m \in Messages, Expire(m) PROVE RunInv'
  BY <1>2, <1>k DEF Expire, history, RunInv, Known, Excused
<1>3. ASSUME Sweep PROVE RunInv'
  <2>1. Move(Exhausted, "swept") /\ "swept" \in Places
    BY <1>3 DEF Sweep, Places, Left
  <2>2. \A m \in Messages :
          place'[m] = place[m] \/ (place'[m] = "swept" /\ reads[m] > MaxReads)
    BY <2>1, Moving DEF TypeOK, Exhausted
  <2> QED BY <1>3, <1>k, <2>2 DEF Sweep, history, RunInv, Known, Excused
<1>4. ASSUME NEW r \in Runs, Read(r) PROVE RunInv'
  <2> DEFINE todo == {m \in Batch : InBudget(reads'[m])}
             s == [Idle EXCEPT !.step = IF todo = Batch THEN "dispatch" ELSE "archive",
                               !.skip = Batch \ todo, !.todo = todo]
  <2>1. Batch \subseteq Messages
    BY DEF Batch, Queued
  <2>2. s \in RunStates /\ s.step # "idle" /\ s.skip = Batch \ todo /\ s.sent = {} /\ s.ok = {}
    BY <2>1 DEF RunStates, Idle
  <2> HIDE DEF s
  <2>3. Become(r, s)
    BY <1>4 DEF Read, s
  <2>4. run'[r] = s /\ \A q \in Runs \ {r} : run'[q] = run[q]
    BY <2>2, <2>3, Becoming DEF TypeOK
  <2>5. \A m \in Messages : reads'[m] = IF m \in Batch THEN ReadsAfter(m) ELSE reads[m]
    BY <1>4 DEF Read
  <2>6. \A m \in Messages : reads[m] \in 0 .. MaxReads + 1
    BY DEF TypeOK
  <2>7. \A m \in Messages : reads[m] > MaxReads => reads'[m] > MaxReads
    BY <2>5, <2>6, ReadsTyped
  <2>8. \A m \in run'[r].skip : reads'[m] > MaxReads
    BY <2>1, <2>2, <2>4, <2>5, <2>6, ReadsTyped
  <2>9. UNCHANGED <<place, calls, worked, burnt>>
    BY <1>4 DEF Read, history
  <2>10. Known(r)'
    BY <2>2, <2>4, <2>8 DEF Known
  <2>11. \A q \in Runs \ {r} : Known(q)'
    BY <2>4, <2>7, <2>9, <1>k, OthersKnow
  <2>12. \A m \in Messages : Excused(m)'
    BY <2>7, <2>9, <1>k DEF Excused
  <2> QED BY <2>10, <2>11, <2>12 DEF RunInv
<1>5. ASSUME NEW r \in Runs, Archive(r) PROVE RunInv'
  <2> DEFINE s == [run[r] EXCEPT !.step = "dispatch", !.skip = {}]
  <2>1. s \in RunStates /\ Become(r, s)
        /\ s.step # "idle" /\ s.skip = {} /\ s.sent = run[r].sent /\ s.ok = run[r].ok
    BY <1>5 DEF Archive, RunStates, TypeOK
  <2> HIDE DEF s
  <2>2. run'[r] = s /\ \A q \in Runs \ {r} : run'[q] = run[q]
    BY <2>1, Becoming DEF TypeOK
  <2>3. Move(run[r].skip \cap Queued, "archived") /\ "archived" \in Places
    BY <1>5 DEF Archive, Places, Left
  <2>4. UNCHANGED <<reads, calls, worked, burnt>>
    BY <1>5 DEF Archive, history
  <2>5. Known(r)'
    BY <2>1, <2>2, <2>4, <1>k DEF Known
  <2>6. \A q \in Runs \ {r} : Known(q)'
    BY <2>2, <2>4, <1>k, OthersKnow
  <2>7. \A m \in Messages :
          place'[m] = place[m] \/ (place'[m] = "archived" /\ m \in run[r].skip)
    BY <2>3, Moving DEF TypeOK
  <2>8. \A m \in Messages : Excused(m)'
    BY <2>4, <2>7, <1>k DEF Excused, Known
  <2> QED BY <2>5, <2>6, <2>8 DEF RunInv
<1>6. ASSUME NEW r \in Runs, NEW m \in Messages, Dispatch(r, m) PROVE RunInv'
  <2> DEFINE s == [run[r] EXCEPT !.todo = @ \ {m}, !.sent = @ \cup {m}]
  <2>1. s \in RunStates /\ Become(r, s)
        /\ s.step # "idle" /\ s.skip = run[r].skip /\ s.sent = run[r].sent \cup {m}
        /\ s.ok = run[r].ok
    BY <1>6 DEF Dispatch, RunStates, TypeOK
  <2> HIDE DEF s
  <2>2. run'[r] = s /\ \A q \in Runs \ {r} : run'[q] = run[q]
    BY <2>1, Becoming DEF TypeOK
  <2>3. \A k \in Messages : calls'[k] = IF k = m THEN calls[k] + 1 ELSE calls[k]
    BY <1>6 DEF Dispatch, TypeOK
  <2>4. \A k \in Messages : calls[k] \in Nat
    BY DEF TypeOK
  <2>5. \A k \in Messages : calls[k] > 0 => calls'[k] > 0
    BY <2>3, <2>4
  <2>6. UNCHANGED <<place, reads, worked, burnt>>
    BY <1>6 DEF Dispatch, queue
  <2>7. run[r].sent \subseteq Messages
    BY DEF TypeOK, RunStates
  <2>8. \A k \in run[r].sent \cup {m} : calls'[k] > 0
    BY <2>3, <2>4, <2>5, <2>7, <1>k DEF Known
  <2>9. Known(r)'
    BY <2>1, <2>2, <2>6, <2>8, <1>k DEF Known
  <2>10. \A q \in Runs \ {r} : Known(q)'
    BY <2>2, <2>5, <2>6, <1>k, OthersKnow
  <2> QED BY <2>6, <2>9, <2>10, <1>k DEF RunInv, Excused
<1>7. ASSUME NEW r \in Runs, NEW m \in Messages, NEW a \in Answers, Answer(r, m, a)
      PROVE  RunInv'
  <2> DEFINE s == [run[r] EXCEPT !.sent = @ \ {m},
                                 !.ok = IF IsSuccess(a) THEN @ \cup {m} ELSE @]
  <2>1. s \in RunStates /\ Become(r, s)
        /\ s.step = run[r].step /\ s.skip = run[r].skip /\ s.sent = run[r].sent \ {m}
        /\ s.ok = IF IsSuccess(a) THEN run[r].ok \cup {m} ELSE run[r].ok
    BY <1>7 DEF Answer, RunStates, TypeOK
  <2> HIDE DEF s
  <2>2. run'[r] = s /\ \A q \in Runs \ {r} : run'[q] = run[q]
    BY <2>1, Becoming DEF TypeOK
  <2>3. worked \subseteq worked' /\ (IsSuccess(a) => m \in worked')
    BY <1>7 DEF Answer, Answers, IsSuccess
  <2>4. UNCHANGED <<place, reads, calls, burnt>>
    BY <1>7 DEF Answer, queue
  <2>5. run[r].step # "idle"
    BY <1>7, <1>k DEF Answer, Known, Idle
  <2>6. Known(r)'
    BY <2>1, <2>2, <2>3, <2>4, <2>5, <1>k DEF Known
  <2>7. \A q \in Runs \ {r} : Known(q)'
    BY <2>2, <2>3, <2>4, <1>k, OthersKnow
  <2> QED BY <2>3, <2>4, <2>6, <2>7, <1>k DEF RunInv, Excused
<1>8. ASSUME NEW r \in Runs, Finish(r) PROVE RunInv'
  <2>1. Become(r, Idle) /\ Idle \in RunStates
    BY <1>8 DEF Finish, Idle, RunStates
  <2>2. run'[r] = Idle /\ \A q \in Runs \ {r} : run'[q] = run[q]
    BY <2>1, Becoming DEF TypeOK
  <2>3. Move(run[r].ok \cap Queued, "deleted") /\ "deleted" \in Places
    BY <1>8 DEF Finish, Places, Left
  <2>4. UNCHANGED <<reads, calls, worked, burnt>>
    BY <1>8 DEF Finish, history
  <2>5. Known(r)'
    BY <2>2 DEF Known, Idle
  <2>6. \A q \in Runs \ {r} : Known(q)'
    BY <2>2, <2>4, <1>k, OthersKnow
  <2>7. \A m \in Messages :
          place'[m] = place[m] \/ (place'[m] = "deleted" /\ m \in run[r].ok)
    BY <2>3, Moving DEF TypeOK
  <2>8. \A m \in Messages : Excused(m)'
    BY <2>4, <2>7, <1>k DEF Excused, Known
  <2> QED BY <2>5, <2>6, <2>8 DEF RunInv
<1>9. ASSUME NEW r \in Runs, Abort(r) PROVE RunInv'
  <2>1. Become(r, Idle) /\ Idle \in RunStates
    BY <1>9 DEF Abort, Idle, RunStates
  <2>2. run'[r] = Idle /\ \A q \in Runs \ {r} : run'[q] = run[q]
    BY <2>1, Becoming DEF TypeOK
  <2>3. UNCHANGED <<place, reads, calls>> /\ worked \subseteq worked'
    BY <1>9 DEF Abort, queue
  <2>4. Known(r)'
    BY <2>2 DEF Known, Idle
  <2>5. \A q \in Runs \ {r} : Known(q)'
    BY <2>2, <2>3, <1>k, OthersKnow
  <2> QED BY <2>3, <2>4, <2>5, <1>k DEF RunInv, Excused
<1>10. CASE UNCHANGED vars
  BY <1>10, <1>k DEF vars, queue, history, RunInv, Known, Excused
<1> QED BY <1>1, <1>2, <1>3, <1>4, <1>5, <1>6, <1>7, <1>8, <1>9, <1>10 DEF Next, Steps

LEMMA RunAlways == Spec => [](TypeOK /\ RunInv)
<1>1. Init => TypeOK /\ RunInv
  BY TypeInit, RunInit
<1>2. (TypeOK /\ RunInv) /\ [Next]_vars => (TypeOK /\ RunInv)'
  BY TypeStep, RunStep
<1> QED BY <1>1, <1>2, PTL DEF Spec

\* DeletedAfterWork: what a run deletes has been worked on.
THEOREM DeletionsAfterWork == Spec => []DeletedAfterWork
<1>1. TypeOK /\ RunInv => DeletedAfterWork
  BY DEF RunInv, Excused, DeletedAfterWork
<1> QED BY <1>1, RunAlways, PTL

-----------------------------------------------------------------------------
(* The budget *)

\* A step that leaves the counts and what runs have still to call alone.
LEMMA BudgetUntouched ==
  ASSUME \A m \in Messages : Accounted(m), NEW r \in Runs,
         \A q \in Runs \ {r} : run'[q] = run[q], run'[r].todo = run[r].todo,
         UNCHANGED <<reads, calls, burnt>>
  PROVE  \A m \in Messages : Accounted(m)'
<1> TAKE m \in Messages
<1>1. Holders(m)' = Holders(m)
  BY HoldersSame
<1> QED BY <1>1 DEF Accounted

LEMMA BudgetInit == Init => \A m \in Messages : Accounted(m)
<1> SUFFICES ASSUME Init, NEW m \in Messages PROVE Accounted(m)
    OBVIOUS
<1>1. Holders(m) = {}
  BY DEF Init, Holders, Idle
<1>2. Cardinality(Holders(m)) = 0
  BY <1>1, FS_EmptySet
<1> QED BY <1>2, QueueAssumption DEF Init, Accounted, Budget

\* Every step keeps the account of every message.
LEMMA BudgetStep == QueueInv /\ [Next]_vars => \A m \in Messages : Accounted(m)'
<1> SUFFICES ASSUME QueueInv, [Next]_vars PROVE \A m \in Messages : Accounted(m)'
    OBVIOUS
<1>t. TypeOK /\ (\A r \in Runs : Known(r)) /\ (\A m \in Messages : Accounted(m))
  BY DEF QueueInv, RunInv
<1>c. \A m \in Messages : /\ calls[m] \in Nat /\ burnt[m] \in Nat
                          /\ reads[m] \in 0 .. MaxReads + 1
                          /\ Cardinality(Holders(m)) \in Nat
  BY <1>t, HoldersFinite DEF TypeOK
<1>0. ASSUME UNCHANGED <<run, reads, calls, burnt>> PROVE \A m \in Messages : Accounted(m)'
  BY <1>0, <1>t DEF Accounted, Holders
<1>1. ASSUME NEW m \in Messages, Send(m) \/ Expire(m)
      PROVE  \A k \in Messages : Accounted(k)'
  BY <1>0, <1>1 DEF Send, Expire, history
<1>3. ASSUME Sweep PROVE \A m \in Messages : Accounted(m)'
  BY <1>0, <1>3 DEF Sweep, history
<1>4. ASSUME NEW r \in Runs, Read(r) PROVE \A m \in Messages : Accounted(m)'
  <2> DEFINE todo == {m \in Batch : InBudget(reads'[m])}
             s == [Idle EXCEPT !.step = IF todo = Batch THEN "dispatch" ELSE "archive",
                               !.skip = Batch \ todo, !.todo = todo]
  <2>1. Batch \subseteq Messages
    BY DEF Batch, Queued
  <2>2. s \in RunStates /\ s.todo = todo
    BY <2>1 DEF RunStates, Idle
  <2> HIDE DEF s
  <2>3. Become(r, s)
    BY <1>4 DEF Read, s
  <2>4. run'[r].todo = todo /\ \A q \in Runs \ {r} : run'[q] = run[q]
    BY <2>2, <2>3, <1>t, Becoming DEF TypeOK
  <2>5. run[r].todo = {}
    BY <1>4, <1>t DEF Read, Known, Idle
  <2>6. \A m \in Messages : reads'[m] = IF m \in Batch THEN ReadsAfter(m) ELSE reads[m]
    BY <1>4 DEF Read
  <2>7. UNCHANGED <<calls, burnt>>
    BY <1>4 DEF Read, history
  <2> TAKE m \in Messages
  <2>8. CASE m \in todo
    <3>1. m \notin run[r].todo /\ m \in run'[r].todo
      BY <2>4, <2>5, <2>8
    <3>2. Cardinality(Holders(m)') = Cardinality(Holders(m)) + 1
      BY <2>4, <3>1, HolderNew
    <3>3. reads'[m] = ReadsAfter(m) /\ InBudget(ReadsAfter(m))
      BY <2>6, <2>8
    <3>4. Budget(reads'[m]) = Budget(reads[m]) + 1
      BY <3>3, <1>c, ReadsTyped
    <3> QED BY <3>2, <3>4, <2>7, <1>c, <1>t DEF Accounted
  <2>9. CASE m \notin todo
    <3>1. Holders(m)' = Holders(m)
      BY <2>4, <2>5, <2>9, HoldersSame
    <3>2. Budget(reads'[m]) = Budget(reads[m])
      <4>1. CASE m \in Batch
        BY <4>1, <2>6, <2>9, <1>c, ReadsTyped
      <4>2. CASE m \notin Batch
        BY <4>2, <2>6
      <4> QED BY <4>1, <4>2
    <3> QED BY <3>1, <3>2, <2>7, <1>t DEF Accounted
  <2> QED BY <2>8, <2>9
<1>5. ASSUME NEW r \in Runs, Archive(r) PROVE \A m \in Messages : Accounted(m)'
  <2> DEFINE s == [run[r] EXCEPT !.step = "dispatch", !.skip = {}]
  <2>1. s \in RunStates /\ Become(r, s) /\ s.todo = run[r].todo
    BY <1>5, <1>t DEF Archive, RunStates, TypeOK
  <2>2. run'[r].todo = run[r].todo /\ \A q \in Runs \ {r} : run'[q] = run[q]
    BY <2>1, <1>t, Becoming DEF TypeOK
  <2>3. UNCHANGED <<reads, calls, burnt>>
    BY <1>5 DEF Archive, history
  <2> QED BY <2>2, <2>3, <1>t, BudgetUntouched
<1>6. ASSUME NEW r \in Runs, NEW k \in Messages, Dispatch(r, k)
      PROVE  \A m \in Messages : Accounted(m)'
  <2> DEFINE s == [run[r] EXCEPT !.todo = @ \ {k}, !.sent = @ \cup {k}]
  <2>1. s \in RunStates /\ Become(r, s) /\ s.todo = run[r].todo \ {k} /\ k \in run[r].todo
    BY <1>6, <1>t DEF Dispatch, RunStates, TypeOK
  <2>2. run'[r].todo = run[r].todo \ {k} /\ \A q \in Runs \ {r} : run'[q] = run[q]
    BY <2>1, <1>t, Becoming DEF TypeOK
  <2>3. UNCHANGED <<reads, burnt>> /\ calls' = [calls EXCEPT ![k] = @ + 1]
    BY <1>6 DEF Dispatch, queue
  <2> TAKE m \in Messages
  <2>4. CASE m = k
    <3>1. m \in run[r].todo /\ m \notin run'[r].todo
      BY <2>1, <2>2, <2>4
    <3>2. Cardinality(Holders(m)) = Cardinality(Holders(m)') + 1
      BY <2>2, <3>1, HolderGone
    <3>3. calls'[m] = calls[m] + 1
      BY <2>3, <2>4, <1>t DEF TypeOK
    <3>4. Cardinality(Holders(m)') \in Nat
      BY HoldersFiniteNext
    <3> QED BY <2>3, <3>2, <3>3, <3>4, <1>c, <1>t DEF Accounted
  <2>5. CASE m # k
    <3>1. Holders(m)' = Holders(m)
      BY <2>2, <2>5, HoldersSame
    <3>2. calls'[m] = calls[m]
      BY <2>3, <2>5, <1>t DEF TypeOK
    <3> QED BY <2>3, <3>1, <3>2, <1>t DEF Accounted
  <2> QED BY <2>4, <2>5
<1>7. ASSUME NEW r \in Runs, NEW k \in Messages, NEW a \in Answers, Answer(r, k, a)
      PROVE  \A m \in Messages : Accounted(m)'
  <2> DEFINE s == [run[r] EXCEPT !.sent = @ \ {k},
                                 !.ok = IF IsSuccess(a) THEN @ \cup {k} ELSE @]
  <2>1. s \in RunStates /\ Become(r, s) /\ s.todo = run[r].todo
    BY <1>7, <1>t DEF Answer, RunStates, TypeOK
  <2>2. run'[r].todo = run[r].todo /\ \A q \in Runs \ {r} : run'[q] = run[q]
    BY <2>1, <1>t, Becoming DEF TypeOK
  <2>3. UNCHANGED <<reads, calls, burnt>>
    BY <1>7 DEF Answer, queue
  <2> QED BY <2>2, <2>3, <1>t, BudgetUntouched
<1>8. ASSUME NEW r \in Runs, Finish(r) PROVE \A m \in Messages : Accounted(m)'
  <2>1. Become(r, Idle) /\ Idle \in RunStates /\ run[r].todo = {} /\ Idle.todo = {}
    BY <1>8 DEF Finish, Idle, RunStates
  <2>2. run'[r].todo = run[r].todo /\ \A q \in Runs \ {r} : run'[q] = run[q]
    BY <2>1, <1>t, Becoming DEF TypeOK
  <2>3. UNCHANGED <<reads, calls, burnt>>
    BY <1>8 DEF Finish, history
  <2> QED BY <2>2, <2>3, <1>t, BudgetUntouched
<1>9. ASSUME NEW r \in Runs, Abort(r) PROVE \A m \in Messages : Accounted(m)'
  <2>1. Become(r, Idle) /\ Idle \in RunStates /\ Idle.todo = {}
    BY <1>9 DEF Abort, Idle, RunStates
  <2>2. run'[r].todo = {} /\ \A q \in Runs \ {r} : run'[q] = run[q]
    BY <2>1, <1>t, Becoming DEF TypeOK
  <2>3. UNCHANGED <<reads, calls>>
    BY <1>9 DEF Abort, queue
  <2>4. \A m \in Messages : burnt'[m] = IF m \in run[r].todo THEN burnt[m] + 1 ELSE burnt[m]
    BY <1>9 DEF Abort
  <2> TAKE m \in Messages
  <2>5. CASE m \in run[r].todo
    <3>1. Cardinality(Holders(m)) = Cardinality(Holders(m)') + 1
      BY <2>2, <2>5, HolderGone
    <3>2. burnt'[m] = burnt[m] + 1
      BY <2>4, <2>5
    <3>3. Cardinality(Holders(m)') \in Nat
      BY HoldersFiniteNext
    <3> QED BY <2>3, <3>1, <3>2, <3>3, <1>c, <1>t DEF Accounted
  <2>6. CASE m \notin run[r].todo
    <3>1. Holders(m)' = Holders(m)
      BY <2>2, <2>6, HoldersSame
    <3> QED BY <2>3, <2>4, <2>6, <3>1, <1>t DEF Accounted
  <2> QED BY <2>5, <2>6
<1>10. CASE UNCHANGED vars
  BY <1>0, <1>10 DEF vars, queue, history
<1> QED BY <1>1, <1>3, <1>4, <1>5, <1>6, <1>7, <1>8, <1>9, <1>10 DEF Next, Steps

LEMMA QueueAlways == Spec => []QueueInv
<1>1. Init => QueueInv
  BY TypeInit, RunInit, BudgetInit DEF QueueInv
<1>2. QueueInv /\ [Next]_vars => QueueInv'
  BY TypeStep, RunStep, BudgetStep DEF QueueInv
<1> QED BY <1>1, <1>2, PTL DEF Spec

\* What the account of a message says of its calls.
LEMMA BudgetKept ==
  ASSUME QueueInv, NEW m \in Messages
  PROVE  /\ calls[m] + Cardinality(Holders(m)) <= MaxReads
         /\ calls[m] + Cardinality(Holders(m)) <= reads[m]
         /\ reads[m] > MaxReads => calls[m] + burnt[m] + Cardinality(Holders(m)) = MaxReads
<1>1. Cardinality(Holders(m)) \in Nat
  BY HoldersFinite
<1> QED BY <1>1, QueueAssumption DEF QueueInv, TypeOK, Accounted, Budget

\* CallsWithinBudget: a handler is called at most MaxReads times, however runs
\* overlap.
THEOREM CallsBounded == Spec => []CallsWithinBudget
<1>1. QueueInv => CallsWithinBudget
  BY BudgetKept DEF CallsWithinBudget
<1> QED BY <1>1, QueueAlways, PTL

\* GivenUpAfterBudget: a message that is given up has used its whole budget.
THEOREM GiveUpsEarned == Spec => []GivenUpAfterBudget
<1>1. QueueInv => GivenUpAfterBudget
  BY BudgetKept DEF QueueInv, RunInv, Excused, GivenUpAfterBudget
<1> QED BY <1>1, QueueAlways, PTL

-----------------------------------------------------------------------------
(* The refinement of AtLeastOnce *)

\* Where senders see a message; place under the refinement mapping.
Seen(m) ==
  CASE place[m] = "deleted" -> "done"
    [] place[m] \in {"archived", "swept"} -> "given_up"
    [] OTHER -> place[m]
SeenPlace == [m \in Messages |-> Seen(m)]

LEMMA RefineInit == Init => Queue!Init
BY DEF Init, Queue!Init

\* Messages that move out of the queue are seen to leave it, or nothing is.
LEMMA Leaving ==
  ASSUME TypeOK, NEW M \in SUBSET Queued, NEW to \in Left, Move(M, to),
         UNCHANGED <<reads, calls, worked>>,
         to = "deleted" => M \subseteq worked,
         to # "deleted" => \A m \in M : reads[m] > MaxReads
  PROVE  [Queue!Next]_(Queue!vars)
<1> DEFINE seen == IF to = "deleted" THEN "done" ELSE "given_up"
<1>1. M \subseteq Messages /\ \A m \in M : place[m] = "queued"
  BY DEF Queued
<1>2. to \in Places
  BY DEF Places, Left
<1>3. \A m \in Messages : place'[m] = IF m \in M THEN to ELSE place[m]
  BY <1>2, Moving DEF TypeOK
<1>4. \A m \in Messages : Seen(m)' = IF m \in M THEN seen ELSE Seen(m)
  BY <1>3 DEF Seen, Left
<1>5. \A m \in M : Seen(m) = "queued"
  BY <1>1 DEF Seen
<1>6. CASE M = {}
  <2>1. SeenPlace' = SeenPlace
    BY <1>4, <1>6 DEF SeenPlace
  <2> QED BY <2>1 DEF SeenPlace, Seen, Queue!vars
<1>7. CASE M # {}
  <2>1. SeenPlace' = [m \in Messages |-> IF m \in M THEN seen ELSE SeenPlace[m]]
    BY <1>4 DEF SeenPlace
  <2>2. \A m \in M : SeenPlace[m] = "queued"
    BY <1>1, <1>5 DEF SeenPlace
  <2>3. Queue!Leave(M, seen)
    BY <1>7, <2>1, <2>2 DEF SeenPlace, Seen, Queue!Leave
  <2> QED BY <1>1, <2>3 DEF Queue!Next
<1> QED BY <1>6, <1>7

\* Every step of the consumer is one of the queue or changes nothing senders see.
LEMMA RefineStep == QueueInv /\ [Next]_vars => [Queue!Next]_(Queue!vars)
<1> SUFFICES ASSUME QueueInv, [Next]_vars PROVE [Queue!Next]_(Queue!vars)
    OBVIOUS
<1>t. TypeOK /\ (\A r \in Runs : Known(r)) /\ (\A m \in Messages : Excused(m))
  BY DEF QueueInv, RunInv
<1>0. ASSUME UNCHANGED <<place, reads, calls, worked>> PROVE [Queue!Next]_(Queue!vars)
  BY <1>0 DEF Queue!vars
<1>1. ASSUME NEW m \in Messages, Send(m) PROVE [Queue!Next]_(Queue!vars)
  <2>1. \A k \in Messages : place'[k] = IF k = m THEN "queued" ELSE place[k]
    BY <1>1 DEF Send, Move
  <2>2. \A k \in Messages : Seen(k)' = IF k = m THEN "queued" ELSE Seen(k)
    BY <2>1 DEF Seen
  <2>3. SeenPlace' = [SeenPlace EXCEPT ![m] = "queued"] /\ SeenPlace[m] = "unsent"
    BY <1>1, <2>2 DEF SeenPlace, Seen, Send
  <2>4. Queue!Send(m)
    BY <1>1, <2>3 DEF SeenPlace, Seen, Queue!Send, Send, history
  <2> QED BY <2>4 DEF Queue!Next
<1>2. ASSUME NEW m \in Messages, Expire(m) PROVE [Queue!Next]_(Queue!vars)
  BY <1>0, <1>2 DEF Expire, history
<1>3. ASSUME Sweep PROVE [Queue!Next]_(Queue!vars)
  <2>1. Exhausted \in SUBSET Queued /\ Move(Exhausted, "swept") /\ "swept" \in Left
        /\ \A m \in Exhausted : reads[m] > MaxReads
    BY <1>3 DEF Sweep, Exhausted, Left
  <2> QED BY <1>3, <2>1, <1>t, Leaving DEF Sweep, history
<1>4. ASSUME NEW r \in Runs, Read(r) PROVE [Queue!Next]_(Queue!vars)
  <2>1. Batch \subseteq Messages /\ Batch # {} /\ \A m \in Batch : place[m] = "queued"
    BY <1>4 DEF Read, Batch, Queued
  <2>2. \A m \in Batch : SeenPlace[m] = "queued"
    BY <2>1 DEF SeenPlace, Seen
  <2>3. \A m \in Messages : reads[m] \in 0 .. MaxReads + 1
    BY <1>t DEF TypeOK
  <2>4. reads' = [m \in Messages |->
                    IF m \in Batch /\ reads[m] <= MaxReads THEN reads[m] + 1 ELSE reads[m]]
    BY <1>4, <2>3, QueueAssumption DEF Read, ReadsAfter
  <2>5. Queue!Read(Batch)
    BY <1>4, <2>1, <2>2, <2>4 DEF Read, history, SeenPlace, Seen, Queue!Read
  <2> QED BY <2>1, <2>5 DEF Queue!Next
<1>5. ASSUME NEW r \in Runs, Archive(r) PROVE [Queue!Next]_(Queue!vars)
  <2> DEFINE M == run[r].skip \cap Queued
  <2>1. M \in SUBSET Queued /\ Move(M, "archived") /\ "archived" \in Left
        /\ \A m \in M : reads[m] > MaxReads
    BY <1>5, <1>t DEF Archive, Left, Known
  <2> HIDE DEF M
  <2> QED BY <1>5, <2>1, <1>t, Leaving DEF Archive, history
<1>6. ASSUME NEW r \in Runs, NEW m \in Messages, Dispatch(r, m)
      PROVE  [Queue!Next]_(Queue!vars)
  <2>1. r \in Holders(m)
    BY <1>6 DEF Dispatch, Holders
  <2>2. Cardinality(Holders(m)) > 0
    BY <2>1, HoldersFinite, FS_EmptySet
  <2>3. calls[m] \in Nat /\ reads[m] \in Nat /\ Cardinality(Holders(m)) \in Nat
    BY <1>t, HoldersFinite DEF TypeOK
  <2>4. calls[m] < reads[m] /\ calls[m] < MaxReads
    BY <2>2, <2>3, BudgetKept, QueueAssumption
  <2>5. Queue!Call(m)
    BY <1>6, <2>4 DEF Dispatch, queue, Queue!Call
  <2> QED BY <2>5 DEF Queue!Next
<1>7. ASSUME NEW r \in Runs, NEW m \in Messages, NEW a \in Answers, Answer(r, m, a)
      PROVE  [Queue!Next]_(Queue!vars)
  <2>1. calls[m] > 0
    BY <1>7, <1>t DEF Answer, Known
  <2>2. worked' \in {worked, worked \cup {m}}
    BY <1>7 DEF Answer, Answers
  <2>3. CASE worked' = worked
    BY <1>0, <1>7, <2>3 DEF Answer, queue
  <2>4. CASE worked' = worked \cup {m}
    <3>1. Queue!Work({m})
      BY <1>7, <2>1, <2>4 DEF Answer, queue, Queue!Work
    <3> QED BY <3>1 DEF Queue!Next
  <2> QED BY <2>2, <2>3, <2>4
<1>8. ASSUME NEW r \in Runs, Finish(r) PROVE [Queue!Next]_(Queue!vars)
  <2> DEFINE M == run[r].ok \cap Queued
  <2>1. M \in SUBSET Queued /\ Move(M, "deleted") /\ "deleted" \in Left /\ M \subseteq worked
    BY <1>8, <1>t DEF Finish, Left, Known
  <2> HIDE DEF M
  <2> QED BY <1>8, <2>1, <1>t, Leaving DEF Finish, history
<1>9. ASSUME NEW r \in Runs, Abort(r) PROVE [Queue!Next]_(Queue!vars)
  <2>1. PICK M \in SUBSET run[r].sent : worked' = worked \cup M
    BY <1>9 DEF Abort
  <2>2. M \subseteq Messages /\ \A m \in M : calls[m] > 0
    BY <1>t DEF TypeOK, RunStates, Known
  <2>3. Queue!Work(M)
    BY <1>9, <2>1, <2>2 DEF Abort, queue, Queue!Work
  <2> QED BY <2>2, <2>3 DEF Queue!Next
<1>10. CASE UNCHANGED vars
  BY <1>0, <1>10 DEF vars, queue, history
<1> QED BY <1>1, <1>2, <1>3, <1>4, <1>5, <1>6, <1>7, <1>8, <1>9, <1>10 DEF Next, Steps

\* Apart from its liveness, ImplementsQueue: whatever runs, handlers and the
\* sweep do is a step of the at-least-once queue.
THEOREM ConsumerIsQueue == Spec => Queue!Safety
<1>1. QueueInv /\ [Next]_vars => [Queue!Next]_(Queue!vars)
  BY RefineStep
<1> QED BY <1>1, RefineInit, QueueAlways, PTL DEF Spec, Queue!Safety
=============================================================================
