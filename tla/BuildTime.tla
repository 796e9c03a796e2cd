----------------------------- MODULE BuildTime -----------------------------
(***************************************************************************)
(* The accounting of native build time of one organization: the table      *)
(* build_logs with one row per build, and daily_build_time with one row    *)
(* per application and day, which recordBuildTime (storage.ts) recomputes  *)
(* after every report and the plan limit of /build/request reads.          *)
(*                                                                         *)
(* A report (POST /build/time) writes the log, then for each day it        *)
(* affects reads an aggregate and upserts it, in separate statements.  A   *)
(* day's total is modelled by the log entries it was summed over: the      *)
(* properties ask whether these are the right ones, not what they add to.  *)
(***************************************************************************)
EXTENDS Integers

CONSTANTS
  Requests,  \* concurrent reports
  Apps,      \* applications of the organization
  Builds,    \* build ids
  Amounts,   \* billable seconds a report can name
  LastDay,   \* bound on the days that pass
  None       \* no log for this build

Days == 1 .. LastDay
Logs == [app : Apps, day : Days, amount : Amounts]
Keys == [app : Apps, day : Days]
Entries == [build : Builds, amount : Amounts]

ASSUME BuildTimeAssumption == LastDay \in Nat \ {0} /\ None \notin Logs

VARIABLES
  today,      \* the date
  logs,       \* build_logs, by build id
  daily,      \* daily_build_time: the entries the row was summed over
  req,        \* the state of every report
  moved,      \* history: keys left by a build reported again for another application
  torn,       \* history: requests that computed a key at the same time as another
  unsettled   \* history: keys whose last computation overlapped or was cut short

vars == <<today, logs, daily, req, moved, torn, unsettled>>

RequestStates ==
  [step    : {"idle", "read", "write", "sum", "upsert"},
   app     : Apps \cup {None},
   build   : Builds \cup {None},
   amount  : Amounts \cup {None},
   now     : Days \cup {None},        \* the date when the report arrived
   day     : Days \cup {None},        \* created_at of the log it found; then the date it sums
   left    : SUBSET Days,             \* affected dates still to recompute
   entries : SUBSET Entries]          \* the aggregate of the next of them

Idle == [step |-> "idle", app |-> None, build |-> None, amount |-> None, now |-> None,
         day |-> None, left |-> {}, entries |-> {}]

At(r, step) == req[r].step = step
Become(r, state) == req' = [req EXCEPT ![r] = state]
Key(a, d) == [app |-> a, day |-> d]

-----------------------------------------------------------------------------
\* The aggregate query of recomputeDailyBuildTime.
Summed(k) ==
  {e \in Entries : logs[e.build] = [app |-> k.app, day |-> k.day, amount |-> e.amount]}

\* As if only the day of the report were recomputed.
TodayAffected(created, now) == {now}

\* As if the day after the report were recomputed.
TomorrowAffected(created, now) == {created, now + 1}

\* affectedDates: the day of the log that was found, and the day of the report.
Affected(created, now) == {created, now}

\* The upsert of a log: created_at is that of the row it replaces.
Logged(b, app, now, amount) ==
  [app |-> app, day |-> IF logs[b] = None THEN now ELSE logs[b].day, amount |-> amount]

\* The day r recomputes besides its own: of the log it found, or of the present.
Found(r) == IF req[r].day = None THEN today ELSE req[r].day

\* The keys r is going to recompute, from the write of its log on.
Owed(r) ==
  IF req[r].step \in {"sum", "upsert"} THEN {Key(req[r].app, d) : d \in req[r].left} ELSE {}

\* The requests whose recomputation of k is not finished.
Busy(k) == {r \in Requests : k \in Owed(r)}

\* The row r is about to write.
Written(r) == Logged(req[r].build, req[r].app, req[r].now, req[r].amount)

\* The key of another application the build is taken from.
Left(r) ==
  LET old == logs[req[r].build] IN
  IF old = None \/ old.app = req[r].app THEN {} ELSE {Key(old.app, old.day)}

\* The key of a day r knows nothing of: another report of the build dated it
\* after r had read that there was none.
Missed(r) ==
  {Key(req[r].app, Written(r).day)} \ {Key(req[r].app, d) : d \in {Found(r), req[r].now}}

\* The keys r is about to change or to recompute.
Concerned(r) ==
  {Key(req[r].app, d) : d \in Affected(Found(r), req[r].now)} \cup Left(r) \cup Missed(r)

\* The other requests that are recomputing one of them.
Overlapping(r) == {s \in Requests \ {r} : Owed(s) \cap Concerned(r) # {}}

Init ==
  /\ today = 1
  /\ logs = [b \in Builds |-> None]
  /\ daily = [k \in Keys |-> {}]
  /\ req = [r \in Requests |-> Idle]
  /\ moved = {} /\ torn = {} /\ unsettled = {}

Report(r) ==
  /\ At(r, "idle")
  /\ \E a \in Apps, b \in Builds, x \in Amounts :
       Become(r, [Idle EXCEPT !.step = "read", !.app = a, !.build = b, !.amount = x, !.now = today])
  /\ UNCHANGED <<today, logs, daily, moved, torn, unsettled>>

Read(r) ==
  LET found == logs[req[r].build] IN
  /\ At(r, "read")
  /\ Become(r, [req[r] EXCEPT !.step = "write",
                              !.day = IF found = None THEN None ELSE found.day])
  /\ UNCHANGED <<today, logs, daily, moved, torn, unsettled>>

Write(r) ==
  /\ At(r, "write")
  /\ logs' = [logs EXCEPT ![req[r].build] = Written(r)]
  /\ moved' = moved \cup Left(r)
  /\ unsettled' = unsettled \cup Missed(r)
  /\ torn' = IF Overlapping(r) = {} THEN torn ELSE torn \cup Overlapping(r) \cup {r}
  /\ Become(r, [req[r] EXCEPT !.step = "sum", !.left = Affected(Found(r), req[r].now)])
  /\ UNCHANGED <<today, daily>>

Sum(r) ==
  /\ At(r, "sum")
  /\ \E d \in req[r].left :
       Become(r, [req[r] EXCEPT !.step = "upsert", !.day = d, !.entries = Summed(Key(req[r].app, d))])
  /\ UNCHANGED <<today, logs, daily, moved, torn, unsettled>>

Upsert(r) ==
  LET k    == Key(req[r].app, req[r].day)
      left == req[r].left \ {req[r].day}
  IN
  /\ At(r, "upsert")
  /\ daily' = [daily EXCEPT ![k] = req[r].entries]
  /\ unsettled' = IF r \in torn THEN unsettled \cup {k} ELSE unsettled \ {k}
  /\ moved' = IF r \in torn THEN moved ELSE moved \ {k}
  /\ torn' = IF left = {} THEN torn \ {r} ELSE torn
  /\ Become(r, IF left = {} THEN Idle
               ELSE [req[r] EXCEPT !.step = "sum", !.left = left, !.entries = {}])
  /\ UNCHANGED <<today, logs>>

\* The isolate is evicted, or the next statement throws.
Interrupt(r) ==
  /\ ~At(r, "idle")
  /\ unsettled' = unsettled \cup Owed(r)
  /\ torn' = torn \ {r}
  /\ Become(r, Idle)
  /\ UNCHANGED <<today, logs, daily, moved>>

Midnight ==
  /\ today < LastDay
  /\ today' = today + 1
  /\ UNCHANGED <<logs, daily, req, moved, torn, unsettled>>

Step(r) == Report(r) \/ Read(r) \/ Write(r) \/ Sum(r) \/ Upsert(r) \/ Interrupt(r)

Next == Midnight \/ \E r \in Requests : Step(r)

Spec == Init /\ [][Next]_vars

-----------------------------------------------------------------------------
(* Properties *)

TypeOK ==
  /\ today \in Days
  /\ logs \in [Builds -> Logs \cup {None}]
  /\ daily \in [Keys -> SUBSET Entries]
  /\ req \in [Requests -> RequestStates]
  /\ moved \subseteq Keys /\ torn \subseteq Requests /\ unsettled \subseteq Keys

\* A day's total is the sum of exactly the builds logged for the application
\* on that day, whichever day they are reported again on.  Exceptions: reports
\* that compute the same day at once or stop before they have, and a build
\* reported again for another application, whose old total nobody recomputes
\* (recordBuildTime, recomputeDailyBuildTime).
DailyTotalsMatch ==
  \A k \in Keys \ (unsettled \cup moved) : Busy(k) = {} => daily[k] = Summed(k)
=============================================================================
