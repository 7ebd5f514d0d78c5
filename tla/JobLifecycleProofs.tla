------------------------- MODULE JobLifecycleProofs -------------------------
(***************************************************************************)
(* Theorems of JobLifecycle that hold for any numbers of jobs, workers,    *)
(* schedulers and requests.  The argument: among all the writers, only a   *)
(* claim counts an attempt, names a worker or puts a token into a row.     *)
(* Everybody else merges columns that leave those three alone or clear the *)
(* token (QuietStep), and RecordExecution changes nothing but the state of *)
(* an execution.  That split needs no knowledge of which snapshots are     *)
(* stale, which is why the lease invariants survive every race.            *)
(***************************************************************************)
EXTENDS JobLifecycle, TLAPS

\* What a coroutine and a request carry while they are at work.
AtWork ==
  /\ \A t \in Tokens : Alive(t) => task[t].job \in Jobs /\ task[t].worker \in Workers
  /\ \A u \in Requests : req[u].op # "idle" => req[u].job \in Jobs /\ req[u].snap \in Rows

TypeInv == TypeOK /\ AtWork

\* An assignment that leaves the lease columns alone or gives the lease up.
Keeps(s, r) == /\ r \in Rows
               /\ r.attempts = s.attempts
               /\ r.owner = s.owner
               /\ r.token \in {s.token, None}

LeasesOnlyCleared ==
  \A i \in Jobs : /\ job'[i].attempts = job[i].attempts
                  /\ job'[i].owner = job[i].owner
                  /\ job'[i].token \in {job[i].token, None}

SameAttempt(e, f) == /\ e.job = f.job /\ e.attempt = f.attempt
                     /\ e.token = f.token /\ e.worker = f.worker

HistoryKept ==
  \E g \in [executions -> Executions] :
    /\ executions' = {g[e] : e \in executions}
    /\ \A e \in executions : SameAttempt(g[e], e)

QuietStep == LeasesOnlyCleared /\ HistoryKept /\ issued' = issued
-----------------------------------------------------------------------------
(* The unit of work *)

\* The flush of such an assignment over any committed row.
LEMMA FlushKeeps ==
  ASSUME NEW row \in Rows, NEW s \in Rows, NEW r, Keeps(s, r)
  PROVE  /\ Flush(row, s, r) \in Rows
         /\ Flush(row, s, r).attempts = row.attempts
         /\ Flush(row, s, r).owner = row.owner
         /\ Flush(row, s, r).token \in {row.token, None}
  BY DEF Flush, Column, Keeps, Rows

\* A commit of such an assignment, seen from every job.
LEMMA CommitEffect ==
  ASSUME TypeOK, NEW j \in Jobs, NEW s \in Rows, NEW r, Keeps(s, r), Commit(j, s, r)
  PROVE  /\ job' \in [Jobs -> Rows]
         /\ clobbered' \in [Jobs -> BOOLEAN]
         /\ LeasesOnlyCleared
<1>1. job[j] \in Rows
  BY DEF TypeOK
<1>2. /\ Flush(job[j], s, r) \in Rows
      /\ Flush(job[j], s, r).attempts = job[j].attempts
      /\ Flush(job[j], s, r).owner = job[j].owner
      /\ Flush(job[j], s, r).token \in {job[j].token, None}
  BY <1>1, FlushKeeps
<1>3. job' = [job EXCEPT ![j] = Flush(job[j], s, r)]
  BY DEF Commit
<1>4. job' \in [Jobs -> Rows]
  BY <1>2, <1>3 DEF TypeOK
<1>5. clobbered' \in [Jobs -> BOOLEAN]
  BY DEF Commit, TypeOK, Stale
<1>6. LeasesOnlyCleared
  BY <1>2, <1>3 DEF LeasesOnlyCleared, TypeOK
<1> QED BY <1>4, <1>5, <1>6

\* Recording an outcome touches only the state of executions.
LEMMA RecordKeepsHistory ==
  ASSUME TypeOK, NEW j, NEW s, NEW st \in States, RecordExecution(j, s, st)
  PROVE  HistoryKept /\ executions' \in SUBSET Executions
<1> DEFINE g == [e \in executions |->
                   IF e.job = j /\ e.attempt = s.attempts
                   THEN [e EXCEPT !.state = st] ELSE e]
<1>1. executions' = {g[e] : e \in executions}
  BY DEF RecordExecution
<1>2. \A e \in executions : g[e] \in Executions /\ SameAttempt(g[e], e)
  BY DEF TypeOK, Executions, SameAttempt
<1>3. g \in [executions -> Executions]
  BY <1>2
<1> HIDE DEF g
<1> QED BY <1>1, <1>2, <1>3 DEF HistoryKept

\* A step that leaves the executions alone keeps the history.
LEMMA UnchangedKeepsHistory ==
  ASSUME TypeOK, executions' = executions
  PROVE  HistoryKept /\ executions' \in SUBSET Executions
<1> DEFINE g == [e \in executions |-> e]
<1>1. /\ g \in [executions -> Executions]
      /\ executions' = {g[e] : e \in executions}
      /\ \A e \in executions : SameAttempt(g[e], e)
  BY DEF TypeOK, SameAttempt
<1> HIDE DEF g
<1> QED BY <1>1 DEF HistoryKept, TypeOK

\* Where a failed attempt goes is a state of the machine.
LEMMA FinalStateType ==
  ASSUME NEW s, NEW category
  PROVE  FinalState(s, category) \in States
  BY DEF FinalState, States

\* Every assignment the operations make leaves the lease columns alone or
\* gives the lease up.
LEMMA AssignmentsKeep ==
  ASSUME NEW s \in Rows
  PROVE  /\ \A category : Keeps(s, Failed(s, category))
         /\ Keeps(s, Completed(s))
         /\ Keeps(s, [s EXCEPT !.state = "CANCELLED", !.token = None])
         /\ Keeps(s, [s EXCEPT !.state = "RUNNING", !.timer = "running"])
         /\ Keeps(s, Cancelled(s))
         /\ Keeps(s, Retried(s))
         /\ \A q \in Queues : Keeps(s, Replayed(s, q))
<1>1. ASSUME NEW category PROVE Keeps(s, Failed(s, category))
  BY FinalStateType DEF Keeps, Failed, Rows
<1>2. Keeps(s, Completed(s))
  BY DEF Keeps, Completed, Rows, States
<1>3. Keeps(s, [s EXCEPT !.state = "CANCELLED", !.token = None])
  BY DEF Keeps, Rows, States
<1>4. Keeps(s, [s EXCEPT !.state = "RUNNING", !.timer = "running"])
  BY DEF Keeps, Rows, States
<1>5. Keeps(s, Cancelled(s))
  BY DEF Keeps, Cancelled, Rows, States
<1>6. OneMoreAttempt(s) \in Nat
  BY DEF OneMoreAttempt, Rows
<1>7. Keeps(s, Retried(s))
  BY <1>6 DEF Keeps, Retried, Rows, States
<1>8. ASSUME NEW q \in Queues PROVE Keeps(s, Replayed(s, q))
  BY <1>6 DEF Keeps, Replayed, Rows, States
<1> QED BY <1>1, <1>2, <1>3, <1>4, <1>5, <1>7, <1>8

\* The commit shared by a worker's failure report and the reapers.
LEMMA CommitFailureEffect ==
  ASSUME TypeOK, NEW j \in Jobs, NEW s \in Rows, NEW category,
         CommitFailure(j, s, category)
  PROVE  /\ job' \in [Jobs -> Rows]
         /\ clobbered' \in [Jobs -> BOOLEAN]
         /\ dlq' \in [Jobs -> Nat \cup {None}]
         /\ executions' \in SUBSET Executions
         /\ LeasesOnlyCleared
         /\ HistoryKept
<1>1. Commit(j, s, Failed(s, category))
  BY DEF CommitFailure
<1>2. Keeps(s, Failed(s, category))
  BY AssignmentsKeep
<1>3. /\ job' \in [Jobs -> Rows]
      /\ clobbered' \in [Jobs -> BOOLEAN]
      /\ LeasesOnlyCleared
  BY <1>1, <1>2, CommitEffect
<1>4. dlq' \in [Jobs -> Nat \cup {None}]
  BY DEF CommitFailure, TypeOK, Rows
<1>5. (IF category = "timeout" THEN "TIMED_OUT" ELSE FinalState(s, category)) \in States
  BY FinalStateType DEF States
<1>6. HistoryKept /\ executions' \in SUBSET Executions
  BY <1>5, RecordKeepsHistory DEF CommitFailure
<1> QED BY <1>3, <1>4, <1>6
-----------------------------------------------------------------------------
(* The actions, one lemma each: a claim keeps the types, every other action  *)
(* keeps the types and is a quiet step                                       *)

\* A step that does not write the jobs table.
LEMMA SameLeases ==
  ASSUME TypeInv, job' = job
  PROVE  LeasesOnlyCleared
  BY DEF TypeInv, TypeOK, Rows, LeasesOnlyCleared

\* The two records of a coroutine that is not at work.
LEMMA TaskTypes ==
  ASSUME TypeInv
  PROVE  /\ Unborn \in Tasks /\ Gone \in Tasks
         /\ Unborn.pc = "unborn" /\ Gone.pc = "gone"
  BY DEF Unborn, Gone, Tasks, Outcomes

\* Giving a slot back keeps the counters natural numbers.
LEMMA FreedType ==
  ASSUME TypeInv, NEW w
  PROVE  Freed(w) \in [Workers -> Nat]
  BY DEF TypeInv, TypeOK, Freed

\* Raising an error inside a coroutine.
LEMMA RaiseType ==
  ASSUME TypeInv, NEW t \in Tokens, NEW pc, Alive(t), Raise(t, pc)
  PROVE  /\ task' \in [Tokens -> Tasks]
         /\ \A u \in Tokens : task'[u].pc \notin {"unborn", "gone"} =>
              task'[u].job \in Jobs /\ task'[u].worker \in Workers
<1>1. task[t] \in Tasks /\ task[t].job \in Jobs /\ task[t].worker \in Workers
  BY DEF TypeInv, TypeOK, AtWork
<1> DEFINE r == IF pc = "rescue" THEN Gone
                ELSE [task[t] EXCEPT !.pc = "rescue", !.snap = None,
                                     !.outcome = "retryable"]
<1>2. task' = [task EXCEPT ![t] = r]
  BY DEF Raise
<1>3. /\ r \in Tasks
      /\ r.pc \notin {"unborn", "gone"} => r.job \in Jobs /\ r.worker \in Workers
  BY <1>1, TaskTypes DEF Tasks, Outcomes
<1> HIDE DEF r
<1> QED BY <1>2, <1>3 DEF TypeInv, TypeOK, AtWork, Alive

\* Replacing the record of one coroutine by a well-typed one.
LEMMA TaskUpdate ==
  ASSUME TypeInv, NEW t \in Tokens, NEW r \in Tasks,
         r.pc \notin {"unborn", "gone"} => r.job \in Jobs /\ r.worker \in Workers,
         task' = [task EXCEPT ![t] = r]
  PROVE  /\ task' \in [Tokens -> Tasks]
         /\ \A u \in Tokens : task'[u].pc \notin {"unborn", "gone"} =>
              task'[u].job \in Jobs /\ task'[u].worker \in Workers
  BY DEF TypeInv, TypeOK, AtWork, Alive

\* The row the claim's UPDATE leaves is a row.
LEMMA ClaimedType ==
  ASSUME NEW row \in Rows, NEW w \in Workers, NEW t \in Tokens
  PROVE  Claimed(row, w, t) \in Rows
<1>1. row.attempts + 1 \in Nat
  BY DEF Rows
<1> DEFINE n == row.attempts + 1
<1>2. Claimed(row, w, t) = [row EXCEPT !.state = "CLAIMED", !.token = t, !.lease = "live",
                                       !.owner = w, !.attempts = n]
  BY DEF Claimed
<1> HIDE DEF n
<1> QED BY <1>1, <1>2 DEF Rows, States, n

\* claim_next_job keeps the types: it is the one action that is not quiet.
LEMMA ClaimType ==
  ASSUME TypeInv, NEW w \in Workers, NEW j \in Jobs, Claim(w, j)
  PROVE  TypeInv'
<1>1. issued + 1 \in Tokens /\ issued' \in 0..MaxClaims
  BY BoundAssumption DEF Claim, TypeInv, TypeOK, Tokens
<1>0. job[j] \in Rows
  BY DEF TypeInv, TypeOK
<1>2. Claimed(job[j], w, issued + 1) \in Rows
  BY <1>0, <1>1, ClaimedType
<1>3. job' \in [Jobs -> Rows]
  BY <1>2 DEF Claim, TypeInv, TypeOK
<1>4. executions' \in SUBSET Executions
  BY <1>1 DEF Claim, TypeInv, TypeOK, Executions, Rows, States
<1> DEFINE r == [Unborn EXCEPT !.pc = "claimed", !.job = j, !.worker = w]
<1>5. r \in Tasks /\ r.job \in Jobs /\ r.worker \in Workers
  BY DEF Unborn, Tasks, Outcomes
<1>6. task' = [task EXCEPT ![issued + 1] = r]
  BY DEF Claim
<1> HIDE DEF r
<1>7. /\ task' \in [Tokens -> Tasks]
      /\ \A u \in Tokens : task'[u].pc \notin {"unborn", "gone"} =>
           task'[u].job \in Jobs /\ task'[u].worker \in Workers
  BY <1>1, <1>5, <1>6, TaskUpdate
<1>8. UNCHANGED <<dlq, sweep, req, asked, clobbered>>
  BY DEF Claim
<1>9. slots' \in [Workers -> Nat]
  BY DEF Claim, TypeInv, TypeOK
<1> QED BY <1>1, <1>3, <1>4, <1>7, <1>8, <1>9 DEF TypeInv, TypeOK, AtWork, Alive

\* renew_lease moves the lease and nothing else.
LEMMA RenewStep ==
  ASSUME TypeInv, NEW t \in Tokens, Renew(t)
  PROVE  QuietStep /\ TypeInv'
<1>1. task[t].job \in Jobs
  BY DEF Renew, TypeInv, AtWork
<1>2. job' \in [Jobs -> Rows] /\ LeasesOnlyCleared
  BY <1>1 DEF Renew, TypeInv, TypeOK, Rows, LeasesOnlyCleared
<1>3. UNCHANGED <<executions, dlq, slots, issued, task, sweep, req, asked, clobbered>>
  BY DEF Renew
<1>4. HistoryKept
  BY <1>3, UnchangedKeepsHistory DEF TypeInv
<1> QED BY <1>2, <1>3, <1>4 DEF QuietStep, TypeInv, TypeOK, AtWork, Alive

\* The actions on one row that involve no coroutine, batch or request.
LEMMA TimePassesStep ==
  ASSUME TypeInv, NEW j \in Jobs, Lapse(j) \/ Overrun(j) \/ Promote(j) \/ DeleteEntry(j)
  PROVE  QuietStep /\ TypeInv'
<1>1. job' \in [Jobs -> Rows] /\ LeasesOnlyCleared
  <2>1. job \in [Jobs -> Rows]
    BY DEF TypeInv, TypeOK
  <2>2. CASE Lapse(j) \/ Overrun(j)
    BY <2>1, <2>2 DEF Lapse, Overrun, Rows, LeasesOnlyCleared
  <2>3. CASE Promote(j)
    BY <2>1, <2>3 DEF Promote, Rows, States, LeasesOnlyCleared
  <2>4. CASE DeleteEntry(j)
    BY <2>4, SameLeases DEF DeleteEntry, TypeInv, TypeOK
  <2> QED BY <2>2, <2>3, <2>4
<1>2. dlq' \in [Jobs -> Nat \cup {None}]
  BY DEF Lapse, Overrun, Promote, DeleteEntry, TypeInv, TypeOK
<1>3. UNCHANGED <<executions, slots, issued, task, sweep, req, asked, clobbered>>
  BY DEF Lapse, Overrun, Promote, DeleteEntry
<1>4. HistoryKept
  BY <1>3, UnchangedKeepsHistory DEF TypeInv
<1> QED BY <1>1, <1>2, <1>3, <1>4 DEF QuietStep, TypeInv, TypeOK, AtWork, Alive

\* What a transaction loads is the row, the age of its lease aside.
LEMMA LoadedRow ==
  ASSUME job \in [Jobs -> Rows], NEW j \in Jobs
  PROVE  /\ Loaded(j) \in Rows
         /\ Loaded(j).state = job[j].state /\ Loaded(j).token = job[j].token
         /\ Loaded(j).attempts = job[j].attempts /\ Loaded(j).max = job[j].max
         /\ Loaded(j).cancel = job[j].cancel /\ Loaded(j).owner = job[j].owner
         /\ Loaded(j).queue = job[j].queue
BY DEF Loaded, Rows

\* What reading the row for a report does to the coroutine.
LEMMA ReadReportType ==
  ASSUME TypeInv, NEW t \in Tokens, NEW pc \in {"reporting", "rescue"},
         NEW outcome \in Outcomes, Alive(t), ReadReport(t, pc, outcome)
  PROVE  /\ task' \in [Tokens -> Tasks]
         /\ \A u \in Tokens : task'[u].pc \notin {"unborn", "gone"} =>
              task'[u].job \in Jobs /\ task'[u].worker \in Workers
<1>1. /\ task[t] \in Tasks /\ task \in [Tokens -> Tasks]
      /\ task[t].job \in Jobs /\ task[t].worker \in Workers /\ Loaded(task[t].job) \in Rows
  BY LoadedRow DEF Alive, TypeInv, TypeOK, AtWork
<1> DEFINE r == [task[t] EXCEPT !.pc = pc, !.outcome = outcome, !.snap = Loaded(task[t].job)]
<1>2. r \in Tasks /\ r.job \in Jobs /\ r.worker \in Workers
  BY <1>1 DEF Tasks
<1>3. \/ Raise(t, pc)
      \/ task' = [task EXCEPT ![t] = Gone]
      \/ task' = [task EXCEPT ![t] = r]
  BY <1>1 DEF ReadReport
<1> HIDE DEF r
<1>4. CASE Raise(t, pc)
  BY <1>4, RaiseType
<1>5. CASE task' = [task EXCEPT ![t] = Gone]
  BY <1>5, TaskTypes, TaskUpdate
<1>6. CASE task' = [task EXCEPT ![t] = r]
  BY <1>2, <1>6, TaskUpdate
<1> QED BY <1>3, <1>4, <1>5, <1>6

\* The steps of a coroutine that write no table.
LEMMA PrivateStep ==
  ASSUME TypeInv, NEW t \in Tokens, ReadStart(t) \/ HandlerEnds(t) \/ Rescue(t)
  PROVE  QuietStep /\ TypeInv'
<1>1. /\ Alive(t) /\ task[t] \in Tasks
      /\ task[t].job \in Jobs /\ task[t].worker \in Workers /\ Loaded(task[t].job) \in Rows
  BY LoadedRow DEF ReadStart, HandlerEnds, Rescue, Alive, TypeInv, TypeOK, AtWork
<1>2. /\ task' \in [Tokens -> Tasks]
      /\ \A u \in Tokens : task'[u].pc \notin {"unborn", "gone"} =>
           task'[u].job \in Jobs /\ task'[u].worker \in Workers
  <2>1. CASE ReadStart(t)
    <3>1. [task[t] EXCEPT !.snap = Loaded(task[t].job)] \in Tasks
      BY <1>1 DEF Tasks
    <3>2. \/ Raise(t, task[t].pc)
          \/ task' = [task EXCEPT ![t] = Gone]
          \/ task' = [task EXCEPT ![t] = [task[t] EXCEPT !.snap = Loaded(task[t].job)]]
      BY <2>1 DEF ReadStart
    <3> QED BY <1>1, <3>1, <3>2, TaskTypes, RaiseType, TaskUpdate DEF Tasks
  <2>2. CASE HandlerEnds(t)
    <3>1. \E pc \in {"reporting", "rescue"}, o \in Outcomes : ReadReport(t, pc, o)
      BY <2>2 DEF HandlerEnds, Outcomes
    <3> QED BY <1>1, <3>1, ReadReportType
  <2>3. CASE Rescue(t)
    <3>1. task[t].outcome \in Outcomes
      BY <1>1 DEF Tasks
    <3> QED BY <1>1, <2>3, <3>1, ReadReportType DEF Rescue
  <2> QED BY <2>1, <2>2, <2>3
<1>3. UNCHANGED <<job, executions, dlq, slots, issued, sweep, req, asked, clobbered>>
  BY DEF ReadStart, HandlerEnds, Rescue, ReadReport
<1>4. LeasesOnlyCleared /\ HistoryKept
  BY <1>3, SameLeases, UnchangedKeepsHistory DEF TypeInv
<1> QED BY <1>2, <1>3, <1>4 DEF QuietStep, TypeInv, TypeOK, AtWork, Alive

\* start_job's commit: the lease is kept, or given up by a cancelled attempt.
LEMMA CommitStartStep ==
  ASSUME TypeInv, NEW t \in Tokens, CommitStart(t)
  PROVE  QuietStep /\ TypeInv'
<1> DEFINE s == task[t].snap
           j == task[t].job
<1>1. /\ Alive(t) /\ task[t] \in Tasks /\ s \in Rows /\ j \in Jobs
      /\ task[t].worker \in Workers
  BY DEF CommitStart, Alive, TypeInv, TypeOK, AtWork, Tasks
<1>2. StartTarget(s) \in States
  BY DEF StartTarget, States
<1>3. HistoryKept /\ executions' \in SUBSET Executions
  BY <1>2, RecordKeepsHistory DEF CommitStart, TypeInv
<1>4. \E r : Keeps(s, r) /\ Commit(j, s, r)
  BY <1>1, AssignmentsKeep DEF CommitStart
<1>5. /\ job' \in [Jobs -> Rows]
      /\ clobbered' \in [Jobs -> BOOLEAN]
      /\ LeasesOnlyCleared
  BY <1>1, <1>4, CommitEffect DEF TypeInv
<1>6. [task[t] EXCEPT !.pc = "running", !.snap = None] \in Tasks
  BY <1>1 DEF Tasks
<1>7. \/ task' = [task EXCEPT ![t] = Gone]
      \/ task' = [task EXCEPT ![t] = [task[t] EXCEPT !.pc = "running", !.snap = None]]
  BY <1>1 DEF CommitStart, TypeInv, TypeOK, Tasks
<1>8. /\ task' \in [Tokens -> Tasks]
      /\ \A u \in Tokens : task'[u].pc \notin {"unborn", "gone"} =>
           task'[u].job \in Jobs /\ task'[u].worker \in Workers
  BY <1>1, <1>6, <1>7, TaskTypes, TaskUpdate DEF Tasks
<1>9. UNCHANGED <<dlq, issued, sweep, req, asked>>
  BY DEF CommitStart
<1>10. slots' \in [Workers -> Nat]
  BY FreedType DEF CommitStart, TypeInv, TypeOK
<1> QED BY <1>3, <1>5, <1>8, <1>9, <1>10 DEF QuietStep, TypeInv, TypeOK, AtWork, Alive

\* complete_job's and fail_job's commits, or the error they raise.
LEMMA CommitReportStep ==
  ASSUME TypeInv, NEW t \in Tokens, CommitComplete(t) \/ CommitFail(t)
  PROVE  QuietStep /\ TypeInv'
<1> DEFINE s == task[t].snap
           j == task[t].job
<1>1. Alive(t) /\ s \in Rows /\ j \in Jobs
  BY DEF CommitComplete, CommitFail, Alive, TypeInv, TypeOK, AtWork, Tasks
<1>2. task' = [task EXCEPT ![t] = Gone] \/ Raise(t, task[t].pc)
  BY DEF CommitComplete, CommitFail
<1>3. /\ task' \in [Tokens -> Tasks]
      /\ \A u \in Tokens : task'[u].pc \notin {"unborn", "gone"} =>
           task'[u].job \in Jobs /\ task'[u].worker \in Workers
  BY <1>1, <1>2, TaskTypes, TaskUpdate, RaiseType
<1>4. /\ job' \in [Jobs -> Rows]
      /\ clobbered' \in [Jobs -> BOOLEAN]
      /\ dlq' \in [Jobs -> Nat \cup {None}]
      /\ executions' \in SUBSET Executions
      /\ LeasesOnlyCleared
      /\ HistoryKept
  <2>1. CASE CommitComplete(t)
    <3>1. Commit(j, s, Completed(s)) /\ RecordExecution(j, s, "COMPLETED") /\ dlq' = dlq
      BY <2>1 DEF CommitComplete
    <3>2. "COMPLETED" \in States
      BY DEF States
    <3>3. HistoryKept /\ executions' \in SUBSET Executions
      BY <3>1, <3>2, RecordKeepsHistory DEF TypeInv
    <3> QED BY <1>1, <3>1, <3>3, AssignmentsKeep, CommitEffect DEF TypeInv, TypeOK
  <2>2. CASE CommitFail(t)
    <3>1. CASE CommitFailure(j, s, task[t].outcome)
      BY <1>1, <3>1, CommitFailureEffect DEF TypeInv
    <3>2. CASE UNCHANGED <<job, executions, dlq, clobbered>>
      BY <3>2, SameLeases, UnchangedKeepsHistory DEF TypeInv, TypeOK
    <3> QED BY <2>2, <3>1, <3>2 DEF CommitFail
  <2> QED BY <2>1, <2>2
<1>5. UNCHANGED <<issued, sweep, req, asked>>
  BY DEF CommitComplete, CommitFail
<1>6. slots' \in [Workers -> Nat]
  BY FreedType DEF CommitComplete, CommitFail, TypeInv, TypeOK
<1> QED BY <1>3, <1>4, <1>5, <1>6 DEF QuietStep, TypeInv, TypeOK, AtWork, Alive

\* A coroutine that dies writes nothing.
LEMMA DieStep ==
  ASSUME TypeInv, NEW t \in Tokens, Die(t)
  PROVE  QuietStep /\ TypeInv'
<1>1. task' = [task EXCEPT ![t] = Gone]
  BY DEF Die
<1>2. /\ task' \in [Tokens -> Tasks]
      /\ \A u \in Tokens : task'[u].pc \notin {"unborn", "gone"} =>
           task'[u].job \in Jobs /\ task'[u].worker \in Workers
  BY <1>1, TaskTypes, TaskUpdate
<1>3. UNCHANGED <<job, executions, dlq, slots, issued, sweep, req, asked, clobbered>>
  BY DEF Die
<1>4. LeasesOnlyCleared /\ HistoryKept
  BY <1>3, SameLeases, UnchangedKeepsHistory DEF TypeInv
<1> QED BY <1>2, <1>3, <1>4 DEF QuietStep, TypeInv, TypeOK, AtWork, Alive

\* A deadlock makes a report raise or a sweep start over, and writes nothing.
LEMMA DeadlockStep ==
  ASSUME TypeInv, NEW c \in Schedulers, NEW t \in Tokens, Deadlock(c, t)
  PROVE  QuietStep /\ TypeInv'
<1>1. Alive(t)
  BY DEF Deadlock, Alive
<1>2. /\ task' \in [Tokens -> Tasks]
      /\ \A u \in Tokens : task'[u].pc \notin {"unborn", "gone"} =>
           task'[u].job \in Jobs /\ task'[u].worker \in Workers
  BY <1>1, RaiseType DEF Deadlock, TypeInv, TypeOK, AtWork, Alive
<1>3. sweep' \in [Schedulers -> Sweeps]
  <2>1. NoBatch \in [Jobs -> Rows \cup {None}]
    BY DEF NoBatch
  <2>2. sweep[c] \in Sweeps => [sweep[c] EXCEPT !.batch = NoBatch] \in Sweeps
    BY <2>1 DEF Sweeps
  <2> QED BY <2>2 DEF Deadlock, TypeInv, TypeOK
<1>4. UNCHANGED <<job, executions, dlq, slots, issued, req, asked, clobbered>>
  BY DEF Deadlock
<1>5. LeasesOnlyCleared /\ HistoryKept
  BY <1>4, SameLeases, UnchangedKeepsHistory DEF TypeInv
<1> QED BY <1>2, <1>3, <1>4, <1>5 DEF QuietStep, TypeInv, TypeOK, AtWork, Alive

\* The head of a sweep: a batch of well-typed rows.
LEMMA SelectBatchStep ==
  ASSUME TypeInv, NEW c \in Schedulers, SelectBatch(c)
  PROVE  QuietStep /\ TypeInv'
<1>1. sweep' \in [Schedulers -> Sweeps]
  BY LoadedRow DEF SelectBatch, TypeInv, TypeOK, Sweeps
<1>2. UNCHANGED <<job, executions, dlq, slots, issued, task, req, asked, clobbered>>
  BY DEF SelectBatch
<1>3. LeasesOnlyCleared /\ HistoryKept
  BY <1>2, SameLeases, UnchangedKeepsHistory DEF TypeInv
<1> QED BY <1>1, <1>2, <1>3 DEF QuietStep, TypeInv, TypeOK, AtWork, Alive

\* One row of a sweep, written from the batch read earlier, or the abort.
LEMMA ReapOneStep ==
  ASSUME TypeInv, NEW c \in Schedulers, NEW j \in Jobs, ReapOne(c, j)
  PROVE  QuietStep /\ TypeInv'
<1> DEFINE s == sweep[c].batch[j]
<1>1. s \in Rows
  BY DEF ReapOne, TypeInv, TypeOK, Sweeps
<1>2. sweep' \in [Schedulers -> Sweeps]
  <2>1. /\ sweep \in [Schedulers -> Sweeps] /\ sweep[c] \in Sweeps
        /\ sweep[c].batch \in [Jobs -> Rows \cup {None}]
    BY DEF TypeInv, TypeOK, Sweeps
  <2>2. /\ [sweep[c].batch EXCEPT ![j] = None] \in [Jobs -> Rows \cup {None}]
        /\ NoBatch \in [Jobs -> Rows \cup {None}]
    BY <2>1 DEF NoBatch
  <2>3. \A b \in [Jobs -> Rows \cup {None}] : [sweep[c] EXCEPT !.batch = b] \in Sweeps
    BY <2>1 DEF Sweeps
  <2>4. \E b \in [Jobs -> Rows \cup {None}] :
          sweep' = [sweep EXCEPT ![c] = [sweep[c] EXCEPT !.batch = b]]
    BY <2>1, <2>2 DEF ReapOne
  <2> QED BY <2>1, <2>3, <2>4
<1>3. CommitFailure(j, s, Category(c)) \/ UNCHANGED <<job, executions, dlq, clobbered>>
  BY DEF ReapOne
<1>4. /\ job' \in [Jobs -> Rows]
      /\ clobbered' \in [Jobs -> BOOLEAN]
      /\ dlq' \in [Jobs -> Nat \cup {None}]
      /\ executions' \in SUBSET Executions
      /\ LeasesOnlyCleared
      /\ HistoryKept
  <2>1. CASE CommitFailure(j, s, Category(c))
    BY <1>1, <2>1, CommitFailureEffect DEF TypeInv
  <2>2. CASE UNCHANGED <<job, executions, dlq, clobbered>>
    BY <2>2, SameLeases, UnchangedKeepsHistory DEF TypeInv, TypeOK
  <2> QED BY <1>3, <2>1, <2>2
<1>5. UNCHANGED <<issued, task, req, asked>>
  BY DEF ReapOne
<1>6. slots' \in [Workers -> Nat]
  BY FreedType DEF ReapOne, TypeInv, TypeOK
<1> QED BY <1>2, <1>4, <1>5, <1>6 DEF QuietStep, TypeInv, TypeOK, AtWork, Alive

\* An accepted request holds a well-typed snapshot.
LEMMA ReadRequestStep ==
  ASSUME TypeInv, NEW u \in Requests, NEW op \in {"cancel", "retry", "replay"},
         NEW j \in Jobs, ReadRequest(u, op, j)
  PROVE  QuietStep /\ TypeInv'
<1>1. /\ Loaded(j) \in Rows
      /\ [op |-> op, job |-> j, snap |-> Loaded(j),
          entry |-> IF op = "replay" THEN dlq[j] ELSE None] \in Reqs
  BY LoadedRow DEF Reqs, TypeInv, TypeOK
<1>2. /\ req' \in [Requests -> Reqs]
      /\ \A v \in Requests : req'[v].op # "idle" => req'[v].job \in Jobs /\ req'[v].snap \in Rows
  BY <1>1 DEF ReadRequest, TypeInv, TypeOK, AtWork
<1>3. asked' \in 0..MaxRequests
  BY BoundAssumption DEF ReadRequest, TypeInv, TypeOK
<1>4. UNCHANGED <<job, executions, dlq, slots, issued, task, sweep, clobbered>>
  BY DEF ReadRequest
<1>5. LeasesOnlyCleared /\ HistoryKept
  BY <1>4, SameLeases, UnchangedKeepsHistory DEF TypeInv
<1> QED BY <1>2, <1>3, <1>4, <1>5 DEF QuietStep, TypeInv, TypeOK, AtWork, Alive

\* cancel, retry and replay give a lease up at most.
LEMMA CommitRequestStep ==
  ASSUME TypeInv, NEW u \in Requests, CommitCancelOrRetry(u) \/ CommitReplay(u)
  PROVE  QuietStep /\ TypeInv'
<1> DEFINE s == req[u].snap
           j == req[u].job
<1>1. s \in Rows /\ j \in Jobs
  BY DEF CommitCancelOrRetry, CommitReplay, TypeInv, AtWork
<1>2. (\E r : Keeps(s, r) /\ Commit(j, s, r)) \/ UNCHANGED <<job, clobbered>>
  BY <1>1, AssignmentsKeep DEF CommitCancelOrRetry, CommitReplay
<1>3. /\ job' \in [Jobs -> Rows]
      /\ clobbered' \in [Jobs -> BOOLEAN]
      /\ LeasesOnlyCleared
  BY <1>1, <1>2, CommitEffect, SameLeases DEF TypeInv, TypeOK
<1>4. IdleReq \in Reqs /\ IdleReq.op = "idle"
  BY DEF IdleReq, Reqs
<1>5. /\ req' \in [Requests -> Reqs]
      /\ \A v \in Requests : req'[v].op # "idle" => req'[v].job \in Jobs /\ req'[v].snap \in Rows
  BY <1>4 DEF CommitCancelOrRetry, CommitReplay, TypeInv, TypeOK, AtWork
<1>6. UNCHANGED <<executions, dlq, slots, issued, task, sweep, asked>>
  BY DEF CommitCancelOrRetry, CommitReplay
<1>7. HistoryKept
  BY <1>6, UnchangedKeepsHistory DEF TypeInv
<1> QED BY <1>3, <1>5, <1>6, <1>7 DEF QuietStep, TypeInv, TypeOK, AtWork, Alive

\* A stuttering step.
LEMMA StutterStep ==
  ASSUME TypeInv, UNCHANGED vars
  PROVE  QuietStep /\ TypeInv'
<1>1. LeasesOnlyCleared /\ HistoryKept
  BY SameLeases, UnchangedKeepsHistory DEF TypeInv, vars
<1> QED BY <1>1 DEF QuietStep, TypeInv, TypeOK, AtWork, Alive, vars

\* Every step is a claim or quiet, and keeps the types.
LEMMA EveryStep ==
  ASSUME TypeInv, [Next]_vars
  PROVE  /\ TypeInv'
         /\ QuietStep \/ \E w \in Workers, j \in Jobs : Claim(w, j)
<1>1. CASE \E w \in Workers, j \in Jobs : Claim(w, j)
  BY <1>1, ClaimType
<1>2. CASE \E t \in Tokens : WorkerStep(t) \/ Renew(t) \/ Die(t)
  BY <1>2, RenewStep, PrivateStep, CommitStartStep, CommitReportStep, DieStep
     DEF WorkerStep
<1>3. CASE \E c \in Schedulers, t \in Tokens : Deadlock(c, t)
  BY <1>3, DeadlockStep
<1>4. CASE \E j \in Jobs : Lapse(j) \/ Overrun(j) \/ Promote(j) \/ DeleteEntry(j)
  BY <1>4, TimePassesStep
<1>5. CASE \E c \in Schedulers : SelectBatch(c) \/ \E j \in Jobs : ReapOne(c, j)
  BY <1>5, SelectBatchStep, ReapOneStep
<1>6. CASE \E u \in Requests, op \in {"cancel", "retry", "replay"}, j \in Jobs :
             ReadRequest(u, op, j)
  BY <1>6, ReadRequestStep
<1>7. CASE \E u \in Requests : CommitCancelOrRetry(u) \/ CommitReplay(u)
  BY <1>7, CommitRequestStep
<1>8. CASE UNCHANGED vars
  BY <1>8, StutterStep
<1> QED BY <1>1, <1>2, <1>3, <1>4, <1>5, <1>6, <1>7, <1>8 DEF Next
-----------------------------------------------------------------------------
(* The theorems *)

\* The tokens in the history have been issued, so the next one is fresh.
TokensAreIssued == \A e \in executions : e.token \in 1..issued

LeaseInv == LeaseNamesCurrentAttempt /\ AttemptsAreRecorded /\ TokensAreIssued

\* The initial rows are unleased and have no history.
LEMMA InitInv ==
  ASSUME Init PROVE TypeInv /\ LeaseInv
<1>0. \A st \in {"QUEUED", "SCHEDULED"}, q \in Queues : NewRow(st, q) \in Rows
  BY BoundAssumption DEF NewRow, Rows, States
<1>1. job \in [Jobs -> Rows]
  BY <1>0 DEF Init
<1>2. sweep \in [Schedulers -> Sweeps] /\ req \in [Requests -> Reqs]
  BY DEF Init, NoBatch, Sweeps, IdleReq, Reqs
<1>3. task \in [Tokens -> Tasks]
  BY DEF Init, Unborn, Tasks, Outcomes
<1>4. \A j \in Jobs : job[j].token = None /\ job[j].attempts = 0
  BY DEF Init, NewRow
<1>5. /\ executions \in SUBSET Executions /\ dlq \in [Jobs -> Nat \cup {None}]
      /\ slots \in [Workers -> Nat] /\ issued \in 0..MaxClaims /\ asked \in 0..MaxRequests
      /\ clobbered \in [Jobs -> BOOLEAN]
  BY BoundAssumption DEF Init
<1>6. TypeOK
  BY <1>1, <1>2, <1>3, <1>5 DEF TypeOK
<1>7. AtWork
  BY DEF Init, AtWork, Alive, Unborn, IdleReq
<1>8. LeaseInv
  BY <1>4 DEF Init, LeaseInv, LeaseNamesCurrentAttempt, AttemptsAreRecorded,
              TokensAreIssued
<1> QED BY <1>6, <1>7, <1>8 DEF TypeInv

\* A quiet step: every row keeps its attempt number, and a token that is still
\* there is the one that was there.
LEMMA QuietKeepsLeaseInv ==
  ASSUME TypeInv, LeaseInv, QuietStep
  PROVE  LeaseInv'
<1>1. PICK g \in [executions -> Executions] :
        /\ executions' = {g[e] : e \in executions}
        /\ \A e \in executions : SameAttempt(g[e], e)
  BY DEF QuietStep, HistoryKept
<1>2. \A e \in executions : e.job \in Jobs /\ g[e] \in executions'
  BY <1>1 DEF TypeInv, TypeOK, Executions
<1>3. \A e \in executions' : \E f \in executions : e = g[f] /\ SameAttempt(e, f)
  BY <1>1
<1>4. LeaseNamesCurrentAttempt'
  <2> SUFFICES ASSUME NEW j \in Jobs, job'[j].token # None
               PROVE  \E e \in executions' :
                        /\ e.job = j /\ e.attempt = job'[j].attempts
                        /\ e.token = job'[j].token /\ e.worker = job'[j].owner
    BY DEF LeaseNamesCurrentAttempt
  <2>1. /\ job'[j].token = job[j].token /\ job'[j].attempts = job[j].attempts
        /\ job'[j].owner = job[j].owner
    BY DEF QuietStep, LeasesOnlyCleared
  <2>2. PICK e \in executions : /\ e.job = j /\ e.attempt = job[j].attempts
                                /\ e.token = job[j].token /\ e.worker = job[j].owner
    BY <2>1 DEF LeaseInv, LeaseNamesCurrentAttempt
  <2> QED BY <1>1, <1>2, <2>1, <2>2 DEF SameAttempt
<1>5. AttemptsAreRecorded'
  <2>1. ASSUME NEW e \in executions' PROVE e.attempt \in 1..job'[e.job].attempts
    BY <1>2, <1>3 DEF SameAttempt, QuietStep, LeasesOnlyCleared, LeaseInv, AttemptsAreRecorded
  <2>2. ASSUME NEW j \in Jobs, NEW n \in 1..job'[j].attempts
        PROVE  \E e \in executions' : e.job = j /\ e.attempt = n
    <3>1. n \in 1..job[j].attempts
      BY DEF QuietStep, LeasesOnlyCleared
    <3>2. PICK e \in executions : e.job = j /\ e.attempt = n
      BY <3>1 DEF LeaseInv, AttemptsAreRecorded
    <3> QED BY <1>1, <1>2, <3>2 DEF SameAttempt
  <2>3. ASSUME NEW e \in executions', NEW f \in executions',
               (e.job = f.job /\ e.attempt = f.attempt) \/ e.token = f.token
        PROVE  e = f
    <3>1. PICK d \in executions : e = g[d] /\ SameAttempt(e, d)
      BY <1>3
    <3>2. PICK h \in executions : f = g[h] /\ SameAttempt(f, h)
      BY <1>3
    <3>3. d = h
      BY <2>3, <3>1, <3>2 DEF SameAttempt, LeaseInv, AttemptsAreRecorded
    <3> QED BY <3>1, <3>2, <3>3
  <2> QED BY <2>1, <2>2, <2>3 DEF AttemptsAreRecorded
<1>6. TokensAreIssued'
  BY <1>3 DEF SameAttempt, QuietStep, LeaseInv, TokensAreIssued
<1> QED BY <1>4, <1>5, <1>6 DEF LeaseInv

\* A claim: the new execution has the next number and a token nobody holds.
LEMMA ClaimKeepsLeaseInv ==
  ASSUME TypeInv, LeaseInv, NEW w \in Workers, NEW j \in Jobs, Claim(w, j)
  PROVE  LeaseInv'
<1> DEFINE n == job[j].attempts + 1
           x == [job |-> j, attempt |-> n, worker |-> w, token |-> issued + 1,
                 state |-> "CLAIMED"]
<1>1. job[j].attempts \in Nat /\ issued \in Nat /\ job \in [Jobs -> Rows]
  BY DEF TypeInv, TypeOK, Rows
<1>2. /\ job'[j].token = issued + 1 /\ job'[j].owner = w
      /\ job'[j].attempts = n
      /\ \A i \in Jobs \ {j} : job'[i] = job[i]
      /\ issued' = issued + 1
      /\ executions' = executions \cup {x}
  BY <1>1 DEF Claim, Claimed, Rows
<1>3. /\ x \in executions' /\ x.job = j /\ x.attempt = n /\ x.worker = w
      /\ x.token = issued + 1
  BY <1>2
<1>4. \A e \in executions : /\ e.job \in Jobs /\ e.token \in 1..issued
                            /\ e.attempt \in 1..job[e.job].attempts
                            /\ e \in executions'
  BY <1>2 DEF TypeInv, TypeOK, Executions, LeaseInv, TokensAreIssued, AttemptsAreRecorded
<1> HIDE DEF x
<1>5. LeaseNamesCurrentAttempt'
  <2> SUFFICES ASSUME NEW i \in Jobs, job'[i].token # None
               PROVE  \E e \in executions' :
                        /\ e.job = i /\ e.attempt = job'[i].attempts
                        /\ e.token = job'[i].token /\ e.worker = job'[i].owner
    BY DEF LeaseNamesCurrentAttempt
  <2>1. CASE i = j
    BY <1>2, <1>3, <2>1
  <2>2. CASE i # j
    BY <1>2, <1>4, <2>2 DEF LeaseInv, LeaseNamesCurrentAttempt
  <2> QED BY <2>1, <2>2
<1>6. AttemptsAreRecorded'
  <2>1. ASSUME NEW e \in executions' PROVE e.attempt \in 1..job'[e.job].attempts
    <3>1. CASE e = x
      BY <1>1, <1>2, <1>3, <3>1
    <3>2. CASE e \in executions
      BY <1>1, <1>2, <1>4, <3>2
    <3> QED BY <1>2, <3>1, <3>2
  <2>2. ASSUME NEW i \in Jobs, NEW m \in 1..job'[i].attempts
        PROVE  \E e \in executions' : e.job = i /\ e.attempt = m
    <3>1. CASE i = j /\ m = n
      BY <1>3, <3>1
    <3>2. CASE ~(i = j /\ m = n)
      <4>1. m \in 1..job[i].attempts
        BY <1>1, <1>2, <3>2
      <4> QED BY <1>4, <4>1 DEF LeaseInv, AttemptsAreRecorded
    <3> QED BY <3>1, <3>2
  <2>3. ASSUME NEW e \in executions', NEW f \in executions',
               (e.job = f.job /\ e.attempt = f.attempt) \/ e.token = f.token
        PROVE  e = f
    <3>1. ASSUME NEW h \in executions
          PROVE  ~(h.job = j /\ h.attempt = n) /\ h.token # issued + 1
      BY <1>1, <1>4
    <3>2. CASE e \in executions /\ f \in executions
      BY <2>3, <3>2 DEF LeaseInv, AttemptsAreRecorded
    <3>3. CASE e = x \/ f = x
      BY <1>2, <1>3, <2>3, <3>1, <3>3
    <3> QED BY <1>2, <3>2, <3>3
  <2> QED BY <2>1, <2>2, <2>3 DEF AttemptsAreRecorded
<1>7. TokensAreIssued'
  BY <1>1, <1>2, <1>3, <1>4 DEF TokensAreIssued
<1> QED BY <1>5, <1>6, <1>7 DEF LeaseInv

\* The invariant is inductive: a quiet step and a claim both keep it.
LEMMA InvStep ==
  ASSUME TypeInv, LeaseInv, [Next]_vars PROVE TypeInv' /\ LeaseInv'
  BY EveryStep, QuietKeepsLeaseInv, ClaimKeepsLeaseInv

\* The types, the lease invariants and the freshness of tokens, together: the
\* inductive invariant the theorems below follow from.
THEOREM Invariance == Spec => [](TypeInv /\ LeaseInv)
<1>1. Init => TypeInv /\ LeaseInv
  BY InitInv
<1>2. TypeInv /\ LeaseInv /\ [Next]_vars => (TypeInv /\ LeaseInv)'
  BY InvStep
<1> QED BY <1>1, <1>2, PTL DEF Spec

\* Every variable keeps its type, whatever the numbers of actors.
THEOREM TypeCorrect == Spec => []TypeOK
<1>1. TypeInv /\ LeaseInv => TypeOK
  BY DEF TypeInv
<1> QED BY <1>1, Invariance, PTL

\* A leased row is leased to its current attempt and that attempt's worker,
\* although complete, fail, start, reap, cancel, retry and replay all write
\* from snapshots that may be stale.
THEOREM LeaseSafe == Spec => []LeaseNamesCurrentAttempt
<1>1. TypeInv /\ LeaseInv => LeaseNamesCurrentAttempt
  BY DEF LeaseInv
<1> QED BY <1>1, Invariance, PTL

\* Attempts are numbered without gap or repetition and tokens are unique: the
\* unique constraint on (job_id, attempt_number) never makes a claim fail.
THEOREM HistorySafe == Spec => []AttemptsAreRecorded
<1>1. TypeInv /\ LeaseInv => AttemptsAreRecorded
  BY DEF LeaseInv
<1> QED BY <1>1, Invariance, PTL

\* What one step can do to the lease columns.
LEMMA LeaseStep ==
  ASSUME TypeInv, [Next]_vars
  PROVE  \A j \in Jobs :
           /\ job'[j].token # job[j].token => job'[j].token \in {None, issued + 1}
           /\ job'[j].attempts >= job[j].attempts
<1>1. \A j \in Jobs : job[j].attempts \in Nat /\ job[j] \in Rows
  BY DEF TypeInv, TypeOK, Rows
<1>2. CASE QuietStep
  BY <1>1, <1>2 DEF QuietStep, LeasesOnlyCleared
<1>3. CASE \E w \in Workers, i \in Jobs : Claim(w, i)
  <2>1. PICK w \in Workers, i \in Jobs : Claim(w, i)
    BY <1>3
  <2>2. /\ job'[i].token = issued + 1 /\ job'[i].attempts = job[i].attempts + 1
        /\ \A j \in Jobs \ {i} : job'[j] = job[j]
    BY <1>1, <2>1 DEF Claim, Claimed, Rows, TypeInv, TypeOK
  <2> QED BY <1>1, <2>2
<1> QED BY <1>2, <1>3, EveryStep

\* A lease that was lost stays lost and attempts are never uncounted.
THEOREM LostLeaseSafe == Spec => LostLeaseStaysLost
<1>1. TypeInv /\ LeaseInv /\ [Next]_vars =>
        [\A j \in Jobs :
           /\ job'[j].token # job[j].token => job'[j].token \in {None, issued + 1}
           /\ job'[j].attempts >= job[j].attempts]_vars
  BY LeaseStep
<1> QED BY <1>1, Invariance, PTL DEF Spec, LostLeaseStaysLost
-----------------------------------------------------------------------------
(* The leases implement the fencing specification *)

GrantOf(e) == [job |-> e.job, number |-> e.attempt, worker |-> e.worker, token |-> e.token]

\* The grants, counts and holders of the refinement mapping.
GrantsNow == {[job |-> e.job, number |-> e.attempt, worker |-> e.worker,
               token |-> e.token] : e \in executions}
CountNow  == [j \in Jobs |-> job[j].attempts]
HolderNow == [j \in Jobs |-> job[j].token]

\* No execution, no attempt and no token: the abstract initial state.
LEMMA FencedInit ==
  ASSUME Init PROVE Leases!Init
<1>1. \A j \in Jobs : job[j].token = None /\ job[j].attempts = 0
  BY DEF Init, NewRow
<1> QED BY <1>1 DEF Init, Leases!Init

\* A quiet step revokes the leases of the rows whose token it clears.
LEMMA QuietRevokes ==
  ASSUME TypeInv, QuietStep
  PROVE  Leases!Revoke({j \in Jobs : job'[j].token # job[j].token})
<1>1. PICK g \in [executions -> Executions] :
        /\ executions' = {g[e] : e \in executions}
        /\ \A e \in executions : SameAttempt(g[e], e)
  BY DEF QuietStep, HistoryKept
<1>2. GrantsNow' = GrantsNow
  <2>1. \A e \in executions : GrantOf(g[e]) = GrantOf(e)
    BY <1>1 DEF SameAttempt, GrantOf
  <2>2. GrantsNow = {GrantOf(e) : e \in executions}
    BY DEF GrantsNow, GrantOf
  <2>3. GrantsNow' = {GrantOf(e) : e \in executions'}
    BY DEF GrantsNow, GrantOf
  <2> HIDE DEF GrantOf
  <2>4. {GrantOf(e) : e \in executions'} = {GrantOf(g[e]) : e \in executions}
    BY <1>1
  <2> QED BY <2>1, <2>2, <2>3, <2>4
<1>3. CountNow' = CountNow
  BY DEF CountNow, QuietStep, LeasesOnlyCleared
<1>4. HolderNow' = [j \in Jobs |-> IF j \in {i \in Jobs : job'[i].token # job[i].token}
                                  THEN None ELSE HolderNow[j]]
  BY DEF HolderNow, QuietStep, LeasesOnlyCleared
<1> QED BY <1>2, <1>3, <1>4 DEF Leases!Revoke, GrantsNow, CountNow, HolderNow

\* A claim grants the next number with a token nobody holds.
LEMMA ClaimGrants ==
  ASSUME TypeInv, LeaseInv, NEW w \in Workers, NEW j \in Jobs, Claim(w, j)
  PROVE  issued + 1 \in Tokens /\ Leases!Grant(j, w, issued + 1)
<1>1. /\ job[j].attempts \in Nat /\ issued \in 0..MaxClaims /\ job \in [Jobs -> Rows]
      /\ issued < MaxClaims
  BY DEF TypeInv, TypeOK, Rows, Claim
<1>2. issued + 1 \in Tokens
  BY <1>1, BoundAssumption DEF Tokens
<1>3. \A e \in executions : e.token # issued + 1
  BY <1>1 DEF LeaseInv, TokensAreIssued
<1>4. \A e \in GrantsNow : e.token # issued + 1
  BY <1>3 DEF GrantsNow
<1> DEFINE x == [job |-> j, attempt |-> job[j].attempts + 1, worker |-> w,
                 token |-> issued + 1, state |-> "CLAIMED"]
           y == [job |-> j, number |-> job[j].attempts + 1, worker |-> w,
                 token |-> issued + 1]
<1>5. executions' = executions \cup {x}
  BY DEF Claim
<1>6. GrantsNow' = GrantsNow \cup {y}
  <2>1. /\ GrantsNow = {GrantOf(e) : e \in executions}
        /\ GrantsNow' = {GrantOf(e) : e \in executions'}
    BY DEF GrantsNow, GrantOf
  <2>2. GrantOf(x) = y
    BY DEF GrantOf
  <2> HIDE DEF GrantOf, x, y
  <2> QED BY <1>5, <2>1, <2>2
<1>7. /\ job'[j].token = issued + 1 /\ job'[j].attempts = job[j].attempts + 1
      /\ \A i \in Jobs \ {j} : job'[i] = job[i]
  BY <1>1 DEF Claim, Claimed, Rows
<1>8. CountNow' = [CountNow EXCEPT ![j] = @ + 1]
  BY <1>7 DEF CountNow
<1>9. HolderNow' = [HolderNow EXCEPT ![j] = issued + 1]
  BY <1>7 DEF HolderNow
<1>10. CountNow[j] = job[j].attempts
  BY DEF CountNow
<1> QED BY <1>2, <1>4, <1>6, <1>8, <1>9, <1>10
        DEF Leases!Grant, GrantsNow, CountNow, HolderNow

\* Whatever races, every lease was granted once, with a token nobody had held,
\* and a revoked one never comes back: the writers of the row implement Fencing.
THEOREM Fenced == Spec => FencedLeases
<1>1. Init => Leases!Init
  BY FencedInit
<1>2. TypeInv /\ LeaseInv /\ [Next]_vars => [Leases!Next]_(Leases!vars)
  <2> SUFFICES ASSUME TypeInv, LeaseInv, [Next]_vars PROVE Leases!Next
    OBVIOUS
  <2>1. CASE QuietStep
    <3> DEFINE js == {j \in Jobs : job'[j].token # job[j].token}
    <3>1. js \in SUBSET Jobs /\ Leases!Revoke(js)
      BY <2>1, QuietRevokes
    <3> HIDE DEF js
    <3> QED BY <3>1 DEF Leases!Next, Leases!Revoke
  <2>2. CASE \E w \in Workers, j \in Jobs : Claim(w, j)
    <3>1. PICK w \in Workers, j \in Jobs : Claim(w, j)
      BY <2>2
    <3>2. issued + 1 \in Tokens /\ Leases!Grant(j, w, issued + 1)
      BY <3>1, ClaimGrants
    <3> QED BY <3>2 DEF Leases!Next, Leases!Grant
  <2> QED BY <2>1, <2>2, EveryStep
<1> QED BY <1>1, <1>2, Invariance, PTL DEF Spec, FencedLeases, Leases!Spec
=============================================================================
