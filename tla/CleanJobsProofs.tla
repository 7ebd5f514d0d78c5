--------------------------- MODULE CleanJobsProofs ---------------------------
(***************************************************************************)
(* Theorems of JobLifecycle about jobs no stale commit has touched, for    *)
(* any numbers of jobs, workers, schedulers and requests.  The argument: a *)
(* commit that was not stale assigned to the row that was there, so the    *)
(* operation can be read as one atomic step on it.  Such a step leaves the *)
(* row at work or at rest (Stays), or ends the attempt, records its        *)
(* outcome and gives the slot of its worker back (Ends).  What has to be   *)
(* known of a snapshot is little: a coroutine's carries its own token, a   *)
(* reaper's was active and names the owner of its attempt, a request's was *)
(* in a state the request accepts.                                         *)
(***************************************************************************)
EXTENDS JobLifecycleProofs, FiniteSetTheorems

Busy(row) == row.state \in Active

\* The states a row is committed in.
Committed == {"QUEUED", "SCHEDULED", "CLAIMED", "RUNNING", "RETRY_SCHEDULED",
              "CANCEL_REQUESTED", "FAILED", "DEAD_LETTERED", "COMPLETED", "CANCELLED"}

Shape(row) ==
  /\ row.state \in Committed
  /\ row.token # None <=> Busy(row)
  /\ row.attempts <= row.max
  /\ row.state \in {"QUEUED", "SCHEDULED", "RETRY_SCHEDULED"} => row.attempts < row.max
  /\ row.cancel => row.state \in {"CLAIMED", "CANCEL_REQUESTED", "CANCELLED", "COMPLETED"}

RowInv(row) == Shape(row) /\ (Busy(row) => row.lease # "none")

ExecInv(e, row) ==
  /\ e.state \in {"CLAIMED", "RUNNING"} => Busy(row) /\ e.attempt = row.attempts
  /\ e.state = "COMPLETED" => row.state = "COMPLETED" /\ e.attempt = row.attempts

JobInv(j) ==
  Clean(j) => RowInv(job[j]) /\ \A e \in executions : e.job = j => ExecInv(e, job[j])

\* A row read earlier names the owner of its attempt.
NamesOwner(j, s) ==
  s.attempts <= job[j].attempts /\ (s.attempts = job[j].attempts => s.owner = job[j].owner)

\* The row a coroutine has read allows the move it is about to write.
Checked(r) ==
  /\ r.pc = "claimed" => Validate(r.snap.state, StartTarget(r.snap))
  /\ r.pc = "reporting" /\ r.outcome = "ok" => Validate(r.snap.state, "COMPLETED")

\* What is left to report after an exception is a failure of the attempt.
Rescues(r) == r.pc = "rescue" => r.outcome \in {"retryable", "non_retryable"}

TaskInv(t) ==
  /\ Rescues(task[t])
  /\ Alive(t) => \E e \in executions : /\ e.token = t /\ e.job = task[t].job
                                       /\ e.worker = task[t].worker
  /\ task[t].snap # None => Alive(t) /\ task[t].snap.token = t /\ Checked(task[t])

\* A row the WHERE clause of a reaper matches.
Picked(loop, row) == Busy(row) /\ (loop = "timeouts" => row.state # "CLAIMED")

BatchInv(c, j) ==
  sweep[c].batch[j] # None =>
    Picked(sweep[c].loop, sweep[c].batch[j]) /\ NamesOwner(j, sweep[c].batch[j])

ReqInv(u) ==
  /\ req[u].op = "cancel" => req[u].snap.state \notin Terminal \cup {"FAILED"}
  /\ req[u].op = "retry" =>
       req[u].snap.state \in {"FAILED", "DEAD_LETTERED", "TIMED_OUT", "CANCELLED"}

SnapInv ==
  /\ \A t \in Tokens : TaskInv(t)
  /\ \A c \in Schedulers, j \in Jobs : BatchInv(c, j)
  /\ \A u \in Requests : ReqInv(u)

BusyAt(w) == {j \in Jobs : Busy(job[j]) /\ job[j].owner = w}

SlotInv ==
  (\A j \in Jobs : Clean(j)) =>
    \A w \in Workers : IsFiniteSet(BusyAt(w)) /\ slots[w] = Cardinality(BusyAt(w))

CleanInv ==
  TypeInv /\ LeaseInv /\ SnapInv /\ SlotInv /\ \A j \in Jobs : JobInv(j)
-----------------------------------------------------------------------------
(* What a step can do to a clean job                                         *)

\* One of the steps of SerialJobs but a claim, from row a to row b.
Moves(a, b) ==
  \/ /\ b.max = a.max /\ b.cancel = a.cancel
     /\ \/ b.state = a.state
        \/ a.state \in {"SCHEDULED", "RETRY_SCHEDULED"} /\ b.state = "QUEUED"
        \/ a.state = "CLAIMED" /\ ~a.cancel /\ b.state = "RUNNING"
        \/ a.state \in {"RUNNING", "CANCEL_REQUESTED"} /\ b.state = "COMPLETED"
        \/ /\ Busy(a)
           /\ b.state \in {"CANCELLED", "RETRY_SCHEDULED", "FAILED", "DEAD_LETTERED"}
           /\ b.state = "CANCELLED" <=> a.cancel
           /\ b.state = "RETRY_SCHEDULED" => a.attempts < a.max
  \/ /\ b.max = a.max /\ b.cancel = TRUE
     /\ \/ a.state \in {"QUEUED", "SCHEDULED", "RETRY_SCHEDULED"} /\ b.state = "CANCELLED"
        \/ a.state = "RUNNING" /\ b.state = "CANCEL_REQUESTED"
        \/ a.state \in {"CLAIMED", "CANCEL_REQUESTED"} /\ b.state = a.state
  \/ /\ a.state \in {"FAILED", "DEAD_LETTERED", "CANCELLED"} /\ b.state = "QUEUED"
     /\ b.cancel = FALSE /\ b.max = OneMoreAttempt(a)

Stays(j) ==
  /\ RowInv(job'[j]) /\ (Busy(job'[j]) <=> Busy(job[j]))
  /\ job[j].state = "COMPLETED" => job'[j].state = "COMPLETED"
  /\ slots' = slots
  /\ \/ executions' = executions
     \/ Busy(job[j]) /\ RecordExecution(j, job[j], "RUNNING")

Ends(j) ==
  /\ RowInv(job'[j]) /\ Busy(job[j]) /\ ~Busy(job'[j])
  /\ slots' = Freed(job[j].owner)
  /\ \E st \in States \ {"CLAIMED", "RUNNING"} :
       /\ RecordExecution(j, job[j], st)
       /\ st = "COMPLETED" => job'[j].state = "COMPLETED"

\* A step that writes the row of j and executions of j only.
Effect(j) ==
  /\ \A i \in Jobs \ {j} : job'[i] = job[i] /\ clobbered'[i] = clobbered[i]
  /\ \A e \in executions' : e.job # j => e \in executions
  /\ clobbered'[j] \/ (Clean(j) /\ Moves(job[j], job'[j]) /\ (Stays(j) \/ Ends(j)))

NoEffect == UNCHANGED <<job, executions, slots, clobbered>>

\* A commit that is not stale: what was assigned is in the row.
LEMMA FreshCommit ==
  ASSUME TypeOK, NEW j \in Jobs, NEW s \in Rows, NEW r \in Rows, Commit(j, s, r),
         ~clobbered'[j]
  PROVE  /\ Clean(j)
         /\ job[j].state = s.state /\ job[j].token = s.token /\ job[j].cancel = s.cancel
         /\ job[j].attempts = s.attempts /\ job[j].max = s.max
         /\ job'[j].state = r.state /\ job'[j].token = r.token /\ job'[j].cancel = r.cancel
         /\ job'[j].attempts = r.attempts /\ job'[j].max = r.max
         /\ r.lease = s.lease => job'[j].lease = job[j].lease
<1>1. job'[j] = Flush(job[j], s, r) /\ ~(clobbered[j] \/ Stale(job[j], s))
  BY DEF Commit, TypeOK
<1>2. /\ job[j].state = s.state /\ job[j].token = s.token /\ job[j].cancel = s.cancel
      /\ job[j].attempts = s.attempts /\ job[j].max = s.max
  BY <1>1 DEF Stale
<1>3. /\ job'[j].state = r.state /\ job'[j].token = r.token /\ job'[j].cancel = r.cancel
      /\ job'[j].attempts = r.attempts /\ job'[j].max = r.max
      /\ r.lease = s.lease => job'[j].lease = job[j].lease
  BY <1>1, <1>2 DEF Flush, Column
<1> QED BY <1>1, <1>2, <1>3 DEF Clean

\* A commit leaves the other jobs alone.
LEMMA CommitElsewhere ==
  ASSUME TypeOK, NEW j \in Jobs, NEW s, NEW r, Commit(j, s, r)
  PROVE  \A i \in Jobs \ {j} : job'[i] = job[i] /\ clobbered'[i] = clobbered[i]
  BY DEF Commit, TypeOK

\* Recording the state of an execution leaves those of other jobs alone.
LEMMA RecordElsewhere ==
  ASSUME NEW j, NEW s, NEW st, TypeOK,
         RecordExecution(j, s, st) \/ executions' = executions
  PROVE  \A e \in executions' : e.job # j => e \in executions
<1>1. CASE RecordExecution(j, s, st)
  <2> SUFFICES ASSUME NEW e \in executions', e.job # j PROVE e \in executions
    OBVIOUS
  <2>1. PICK f \in executions : e = IF f.job = j /\ f.attempt = s.attempts
                                    THEN [f EXCEPT !.state = st] ELSE f
    BY <1>1 DEF RecordExecution
  <2>2. f \in Executions
    BY DEF TypeOK
  <2> QED BY <2>1, <2>2 DEF Executions
<1> QED BY <1>1
-----------------------------------------------------------------------------
(* Effects keep the rows, the history and the slots                          *)

\* A step with a known effect on one job keeps what is known of every job.
LEMMA EffectKeepsJobs ==
  ASSUME CleanInv, QuietStep, NEW j \in Jobs, Effect(j)
  PROVE  \A i \in Jobs : JobInv(i)'
<1>1. ASSUME NEW i \in Jobs \ {j} PROVE JobInv(i)'
  <2>1. job'[i] = job[i] /\ clobbered'[i] = clobbered[i] /\ JobInv(i)
    BY DEF Effect, CleanInv
  <2>2. \A e \in executions' : e.job = i => e \in executions
    BY DEF Effect
  <2> QED BY <2>1, <2>2 DEF JobInv, Clean
<1>2. JobInv(j)'
  <2> SUFFICES ASSUME ~clobbered'[j]
               PROVE  /\ RowInv(job'[j])
                      /\ \A e \in executions' : e.job = j => ExecInv(e, job'[j])
    BY DEF JobInv, Clean
  <2>1. /\ Stays(j) \/ Ends(j)
        /\ \A e \in executions : e.job = j => ExecInv(e, job[j])
    BY DEF Effect, CleanInv, JobInv
  <2>2. job'[j].attempts = job[j].attempts
    BY DEF QuietStep, LeasesOnlyCleared
  <2>3. \A e \in executions : e \in Executions
    BY DEF CleanInv, TypeInv, TypeOK
  <2>4. ASSUME NEW st, RecordExecution(j, job[j], st), NEW e \in executions', e.job = j
        PROVE  \E f \in executions : /\ f.job = j /\ e.attempt = f.attempt
                                     /\ \/ f.attempt = job[j].attempts /\ e.state = st
                                        \/ f.attempt # job[j].attempts /\ e.state = f.state
    <3>1. PICK f \in executions : e = IF f.job = j /\ f.attempt = job[j].attempts
                                      THEN [f EXCEPT !.state = st] ELSE f
      BY <2>4 DEF RecordExecution
    <3> QED BY <2>3, <2>4, <3>1 DEF Executions
  <2>5. CASE Stays(j) /\ executions' = executions
    BY <2>1, <2>2, <2>5 DEF Stays, ExecInv
  <2>6. CASE Stays(j) /\ Busy(job[j]) /\ RecordExecution(j, job[j], "RUNNING")
    <3>1. Busy(job'[j]) /\ RowInv(job'[j])
      BY <2>6 DEF Stays
    <3>2. ASSUME NEW e \in executions', e.job = j PROVE ExecInv(e, job'[j])
      <4>1. PICK f \in executions : /\ f.job = j /\ e.attempt = f.attempt
                                    /\ \/ f.attempt = job[j].attempts /\ e.state = "RUNNING"
                                       \/ f.attempt # job[j].attempts /\ e.state = f.state
        BY <2>4, <2>6, <3>2
      <4>2. ExecInv(f, job[j])
        BY <2>1, <4>1
      <4> QED BY <2>2, <3>1, <4>1, <4>2 DEF ExecInv
    <3> QED BY <3>1, <3>2
  <2>7. CASE Ends(j)
    <3>1. PICK st \in States \ {"CLAIMED", "RUNNING"} :
            /\ RecordExecution(j, job[j], st)
            /\ st = "COMPLETED" => job'[j].state = "COMPLETED"
      BY <2>7 DEF Ends
    <3>2. ASSUME NEW e \in executions', e.job = j PROVE ExecInv(e, job'[j])
      <4>1. PICK f \in executions : /\ f.job = j /\ e.attempt = f.attempt
                                    /\ \/ f.attempt = job[j].attempts /\ e.state = st
                                       \/ f.attempt # job[j].attempts /\ e.state = f.state
        BY <2>4, <3>1, <3>2
      <4>2. ExecInv(f, job[j])
        BY <2>1, <4>1
      <4> QED BY <2>2, <3>1, <4>1, <4>2 DEF ExecInv
    <3> QED BY <2>7, <3>2 DEF Ends
  <2> QED BY <2>1, <2>5, <2>6, <2>7 DEF Stays
<1> QED BY <1>1, <1>2

\* A step with a known effect on one job keeps the slots balanced.
LEMMA EffectKeepsSlots ==
  ASSUME CleanInv, QuietStep, NEW j \in Jobs, Effect(j)
  PROVE  SlotInv'
<1> SUFFICES ASSUME \A i \in Jobs : ~clobbered'[i], NEW w \in Workers
             PROVE  /\ IsFiniteSet(BusyAt(w)') /\ slots'[w] = Cardinality(BusyAt(w)')
  BY DEF SlotInv, Clean
<1>1. \A i \in Jobs : Clean(i)
  BY DEF Effect, Clean
<1>2. IsFiniteSet(BusyAt(w)) /\ slots[w] = Cardinality(BusyAt(w)) /\ slots \in [Workers -> Nat]
  BY <1>1 DEF CleanInv, SlotInv, TypeInv, TypeOK
<1>3. \A i \in Jobs \ {j} : job'[i] = job[i]
  BY DEF Effect
<1>4. job'[j].owner = job[j].owner
  BY DEF QuietStep, LeasesOnlyCleared
<1>5. CASE Stays(j)
  <2>1. BusyAt(w)' = BusyAt(w)
    BY <1>3, <1>4, <1>5 DEF BusyAt, Stays
  <2> QED BY <1>2, <1>5, <2>1 DEF Stays
<1>6. CASE Ends(j)
  <2>1. BusyAt(w)' = BusyAt(w) \ {j}
    BY <1>3, <1>6 DEF BusyAt, Ends
  <2>2. /\ IsFiniteSet(BusyAt(w) \ {j})
        /\ Cardinality(BusyAt(w) \ {j}) = IF j \in BusyAt(w) THEN Cardinality(BusyAt(w)) - 1
                                          ELSE Cardinality(BusyAt(w))
    BY <1>2, FS_RemoveElement
  <2>3. slots'[w] = IF w = job[j].owner /\ slots[w] > 0 THEN slots[w] - 1 ELSE slots[w]
    BY <1>6 DEF Ends, Freed
  <2>4. j \in BusyAt(w) <=> job[j].owner = w
    BY <1>6 DEF BusyAt, Ends
  <2>5. j \in BusyAt(w) => slots[w] > 0
    BY <1>2, FS_EmptySet
  <2> QED BY <1>2, <2>1, <2>2, <2>3, <2>4, <2>5
<1> QED BY <1>5, <1>6 DEF Effect
-----------------------------------------------------------------------------
(* The effect of each action                                                 *)

\* The commit of an attempt's end.
LEMMA EndEffect ==
  ASSUME CleanInv, NEW j \in Jobs, NEW s \in Rows, NEW r \in Rows, Commit(j, s, r),
         NEW st \in States \ {"CLAIMED", "RUNNING"}, RecordExecution(j, s, st),
         st = "COMPLETED" => r.state = "COMPLETED",
         r.state \in {"CANCELLED", "RETRY_SCHEDULED", "DEAD_LETTERED", "FAILED", "COMPLETED"},
         r.token = None, r.cancel = s.cancel, r.attempts = s.attempts, r.max = s.max,
         r.state = "RETRY_SCHEDULED" => r.attempts < r.max,
         r.state = "COMPLETED" => s.state \in {"RUNNING", "CANCEL_REQUESTED"},
         r.state # "COMPLETED" => (r.state = "CANCELLED" <=> s.cancel),
         ~clobbered'[j] => Busy(job[j]) /\ slots' = Freed(job[j].owner)
  PROVE  Effect(j)
<1>1. TypeOK /\ JobInv(j)
  BY DEF CleanInv, TypeInv
<1>2. /\ \A i \in Jobs \ {j} : job'[i] = job[i] /\ clobbered'[i] = clobbered[i]
      /\ \A e \in executions' : e.job # j => e \in executions
  BY <1>1, CommitElsewhere, RecordElsewhere
<1>3. ASSUME ~clobbered'[j] PROVE Clean(j) /\ Moves(job[j], job'[j]) /\ Ends(j)
  <2>1. /\ Clean(j)
        /\ job[j].attempts = s.attempts /\ job[j].max = s.max
        /\ job[j].state = s.state /\ job[j].cancel = s.cancel
        /\ job'[j].state = r.state /\ job'[j].token = r.token /\ job'[j].cancel = s.cancel
        /\ job'[j].attempts = r.attempts /\ job'[j].max = r.max
    BY <1>1, <1>3, FreshCommit
  <2>2. RowInv(job[j]) /\ Busy(job[j]) /\ slots' = Freed(job[j].owner)
    BY <1>1, <1>3, <2>1 DEF JobInv
  <2>3. ~Busy(job'[j])
    BY <2>1 DEF Busy, Active
  <2>4. RowInv(job'[j])
    <3>1. job'[j].token = None /\ job'[j].state \in Committed /\ job'[j].attempts <= job'[j].max
      BY <2>1, <2>2 DEF Committed, RowInv, Shape
    <3>2. job'[j].state \in {"QUEUED", "SCHEDULED", "RETRY_SCHEDULED"}
            => job'[j].attempts < job'[j].max
      BY <2>1
    <3>3. job'[j].cancel => job'[j].state \in {"CLAIMED", "CANCEL_REQUESTED", "CANCELLED", "COMPLETED"}
      BY <2>1
    <3> QED BY <2>3, <3>1, <3>2, <3>3 DEF RowInv, Shape
  <2>5. RecordExecution(j, job[j], st)
    BY <2>1 DEF RecordExecution
  <2>6. Moves(job[j], job'[j])
    BY <2>1, <2>2 DEF Moves
  <2> QED BY <2>1, <2>2, <2>3, <2>4, <2>5, <2>6 DEF Ends
<1> QED BY <1>2, <1>3 DEF Effect

\* A row leased to a coroutine is owned by the coroutine's worker.
LEMMA OwnerIsReporter ==
  ASSUME CleanInv, NEW t \in Tokens, Alive(t), task[t].job \in Jobs,
         job[task[t].job].token = t
  PROVE  job[task[t].job].owner = task[t].worker
<1> DEFINE j == task[t].job
<1>1. t # None
  BY BoundAssumption DEF Tokens
<1>2. PICK e \in executions : e.job = j /\ e.token = t /\ e.worker = job[j].owner
  BY <1>1 DEF CleanInv, LeaseInv, LeaseNamesCurrentAttempt
<1>3. PICK f \in executions : f.token = t /\ f.worker = task[t].worker
  BY DEF CleanInv, SnapInv, TaskInv
<1>4. e = f
  BY <1>2, <1>3 DEF CleanInv, LeaseInv, AttemptsAreRecorded
<1> QED BY <1>2, <1>3, <1>4

\* The snapshot of a coroutine that is about to write: if it is not stale, the
\* job is active and counted for the coroutine's worker.
LEMMA ReporterKnows ==
  ASSUME CleanInv, NEW t \in Tokens, task[t].snap # None,
         NEW r \in Rows, Commit(task[t].job, task[t].snap, r)
  PROVE  /\ Alive(t) /\ task[t].job \in Jobs /\ task[t].snap \in Rows
         /\ task[t].worker \in Workers
         /\ ~clobbered'[task[t].job] =>
              Busy(job[task[t].job]) /\ job[task[t].job].owner = task[t].worker
<1> DEFINE j == task[t].job
           s == task[t].snap
<1>1. TypeOK /\ Alive(t) /\ s.token = t
  BY DEF CleanInv, SnapInv, TaskInv, TypeInv
<1>2. j \in Jobs /\ task[t].worker \in Workers /\ s \in Rows
  BY <1>1 DEF CleanInv, TypeInv, AtWork, TypeOK, Tasks
<1>3. ASSUME ~clobbered'[j] PROVE Busy(job[j]) /\ job[j].owner = task[t].worker
  <2>1. Clean(j) /\ job[j].token = t
    BY <1>1, <1>2, <1>3, FreshCommit
  <2>2. t # None
    BY BoundAssumption DEF Tokens
  <2>3. Busy(job[j])
    BY <1>2, <2>1, <2>2 DEF CleanInv, JobInv, RowInv, Shape
  <2> QED BY <1>1, <1>2, <2>1, <2>3, OwnerIsReporter
<1> QED BY <1>1, <1>2, <1>3

\* Where a failed attempt goes.
LEMMA FailedRow ==
  ASSUME NEW s \in Rows, NEW category
  PROVE  LET r == Failed(s, category)
             st == IF category = "timeout" THEN "TIMED_OUT" ELSE FinalState(s, category) IN
         /\ r \in Rows /\ st \in States \ {"CLAIMED", "RUNNING", "COMPLETED"}
         /\ r.state \in {"CANCELLED", "RETRY_SCHEDULED", "DEAD_LETTERED", "FAILED"}
         /\ r.token = None /\ r.cancel = s.cancel /\ r.attempts = s.attempts /\ r.max = s.max
         /\ r.state = "RETRY_SCHEDULED" => r.attempts < r.max
         /\ r.state = "CANCELLED" <=> s.cancel
<1> DEFINE r == Failed(s, category)
           f == FinalState(s, category)
<1>1. /\ f \in {"CANCELLED", "RETRY_SCHEDULED", "DEAD_LETTERED", "FAILED"}
      /\ f = "RETRY_SCHEDULED" => s.attempts < s.max
      /\ f = "CANCELLED" <=> s.cancel
  BY DEF FinalState
<1> HIDE DEF f
<1>2. /\ r.state = f /\ r.token = None /\ r.cancel = s.cancel /\ r.attempts = s.attempts
      /\ r.max = s.max
  BY DEF Failed, Rows, f
<1>3. r \in Rows
  BY AssignmentsKeep DEF Keeps
<1>4. (IF category = "timeout" THEN "TIMED_OUT" ELSE f) \in States \ {"CLAIMED", "RUNNING", "COMPLETED"}
  BY <1>1 DEF States
<1> QED BY <1>1, <1>2, <1>3, <1>4 DEF f

\* The commit of a failure: retry, dead letter or end, as the budget says.
LEMMA FailureEffect ==
  ASSUME CleanInv, NEW j \in Jobs, NEW s \in Rows, NEW category,
         CommitFailure(j, s, category),
         ~clobbered'[j] => Busy(job[j]) /\ slots' = Freed(job[j].owner)
  PROVE  Effect(j)
<1> DEFINE r == Failed(s, category)
           st == IF category = "timeout" THEN "TIMED_OUT" ELSE FinalState(s, category)
<1>1. Commit(j, s, r) /\ RecordExecution(j, s, st)
  BY DEF CommitFailure
<1>2. /\ r \in Rows /\ st \in States \ {"CLAIMED", "RUNNING", "COMPLETED"}
      /\ r.state \in {"CANCELLED", "RETRY_SCHEDULED", "DEAD_LETTERED", "FAILED"}
      /\ r.token = None /\ r.cancel = s.cancel /\ r.attempts = s.attempts /\ r.max = s.max
      /\ r.state = "RETRY_SCHEDULED" => r.attempts < r.max
      /\ r.state = "CANCELLED" <=> s.cancel
  BY FailedRow
<1> HIDE DEF r, st
<1> QED BY <1>1, <1>2, EndEffect

\* The commit of start_job starts the attempt or cancels it.
LEMMA CommitStartEffect ==
  ASSUME CleanInv, NEW t \in Tokens, CommitStart(t)
  PROVE  Effect(task[t].job)
<1> DEFINE s == task[t].snap
           j == task[t].job
<1>1. TypeOK /\ s # None /\ s \in Rows /\ j \in Jobs
      /\ Validate(s.state, StartTarget(s))
  BY DEF CommitStart, CleanInv, SnapInv, TaskInv, Checked, TypeInv, TypeOK, Tasks, AtWork
<1>2. CASE /\ s.cancel /\ Commit(j, s, [s EXCEPT !.state = "CANCELLED", !.token = None])
           /\ slots' = Freed(task[t].worker)
  <2> DEFINE r == [s EXCEPT !.state = "CANCELLED", !.token = None]
  <2>1. /\ r \in Rows /\ r.state = "CANCELLED" /\ r.token = None /\ r.cancel = s.cancel
        /\ r.attempts = s.attempts /\ r.max = s.max /\ s.cancel
    BY <1>1, <1>2 DEF Rows, States
  <2>2. RecordExecution(j, s, "CANCELLED") /\ "CANCELLED" \in States \ {"CLAIMED", "RUNNING"}
    BY <1>2 DEF CommitStart, StartTarget, States
  <2>3. Commit(j, s, r)
    BY <1>2
  <2> HIDE DEF r
  <2>4. ~clobbered'[j] => Busy(job[j]) /\ slots' = Freed(job[j].owner)
    BY <1>1, <1>2, <2>1, <2>3, ReporterKnows
  <2> HIDE DEF s, j
  <2>5. Effect(j)
    BY <1>1, <2>1, <2>2, <2>3, <2>4, EndEffect
  <2> QED BY <2>5 DEF j
<1>3. CASE /\ ~s.cancel /\ Commit(j, s, [s EXCEPT !.state = "RUNNING", !.timer = "running"])
           /\ slots' = slots
  <2> DEFINE r == [s EXCEPT !.state = "RUNNING", !.timer = "running"]
  <2>1. /\ r \in Rows /\ r.state = "RUNNING" /\ r.token = s.token /\ r.cancel = s.cancel
        /\ r.attempts = s.attempts /\ r.max = s.max /\ r.lease = s.lease
    BY <1>1 DEF Rows, States
  <2>2. RecordExecution(j, s, "RUNNING")
    BY <1>3 DEF CommitStart, StartTarget
  <2>3. Commit(j, s, r)
    BY <1>3
  <2> HIDE DEF r
  <2>4. /\ \A i \in Jobs \ {j} : job'[i] = job[i] /\ clobbered'[i] = clobbered[i]
        /\ \A e \in executions' : e.job # j => e \in executions
    BY <1>1, <2>2, <2>3, CommitElsewhere, RecordElsewhere
  <2>5. ASSUME ~clobbered'[j] PROVE Clean(j) /\ Moves(job[j], job'[j]) /\ Stays(j)
    <3>1. Busy(job[j])
      BY <1>1, <2>1, <2>3, <2>5, ReporterKnows
    <3>2. /\ Clean(j)
          /\ job[j].attempts = s.attempts /\ job[j].max = s.max /\ job[j].token = s.token
          /\ job[j].state = s.state /\ job[j].cancel = s.cancel
          /\ job'[j].state = "RUNNING" /\ job'[j].token = s.token /\ job'[j].cancel = s.cancel
          /\ job'[j].attempts = s.attempts /\ job'[j].max = s.max
          /\ job'[j].lease = job[j].lease
      BY <1>1, <2>1, <2>3, <2>5, FreshCommit
    <3>3. RowInv(job[j])
      BY <1>1, <3>2 DEF CleanInv, JobInv
    <3>4. Busy(job'[j])
      BY <3>2 DEF Busy, Active
    <3>5. ~job'[j].cancel
      BY <1>3, <3>2
    <3>6. RowInv(job'[j])
      BY <3>1, <3>2, <3>3, <3>4, <3>5 DEF RowInv, Shape, Committed
    <3>7. RecordExecution(j, job[j], "RUNNING")
      BY <2>2, <3>2 DEF RecordExecution
    <3>8. job[j].state # "COMPLETED"
      BY <3>1 DEF Busy, Active
    <3>9. s.state = "CLAIMED"
      BY <1>1, <1>3 DEF StartTarget, Validate, Allowed, Rows, States
    <3>10. Moves(job[j], job'[j])
      BY <1>3, <3>2, <3>9 DEF Moves
    <3> QED BY <1>3, <3>1, <3>2, <3>4, <3>6, <3>7, <3>8, <3>10 DEF Stays
  <2> QED BY <2>4, <2>5 DEF Effect
<1> QED BY <1>2, <1>3 DEF CommitStart

\* The commit of a report ends the attempt, or raises and changes nothing.
LEMMA CommitReportEffect ==
  ASSUME CleanInv, NEW t \in Tokens, CommitComplete(t) \/ CommitFail(t)
  PROVE  NoEffect \/ Effect(task[t].job)
<1> DEFINE s == task[t].snap
           j == task[t].job
<1>1. s # None /\ s \in Rows /\ j \in Jobs
  BY DEF CommitComplete, CommitFail, CleanInv, SnapInv, TaskInv, TypeInv, TypeOK, Tasks, AtWork
<1>2. CASE CommitComplete(t)
  <2> DEFINE r == Completed(s)
  <2>1. /\ r \in Rows /\ r.state = "COMPLETED" /\ r.token = None /\ r.cancel = s.cancel
        /\ r.attempts = s.attempts /\ r.max = s.max
    BY <1>1 DEF Rows, States, Completed
  <2>2. RecordExecution(j, s, "COMPLETED") /\ "COMPLETED" \in States \ {"CLAIMED", "RUNNING"}
    BY <1>2 DEF CommitComplete, States
  <2>3. Commit(j, s, r) /\ slots' = Freed(task[t].worker)
    BY <1>2 DEF CommitComplete
  <2>p. s.state \in {"RUNNING", "CANCEL_REQUESTED"}
    <3>1. Validate(s.state, "COMPLETED")
      BY <1>1, <1>2 DEF CommitComplete, CleanInv, SnapInv, TaskInv, Checked
    <3> QED BY <1>1, <3>1 DEF Validate, Allowed, Rows, States
  <2> HIDE DEF r
  <2>4. ~clobbered'[j] => Busy(job[j]) /\ slots' = Freed(job[j].owner)
    BY <1>1, <2>1, <2>3, ReporterKnows
  <2> HIDE DEF s, j
  <2>5. Effect(j)
    BY <1>1, <2>1, <2>2, <2>3, <2>p, <2>4, EndEffect
  <2> QED BY <2>5 DEF j
<1>3. CASE CommitFail(t) /\ ~NoEffect
  <2> DEFINE c == task[t].outcome
  <2>1. CommitFailure(j, s, c) /\ slots' = Freed(task[t].worker)
    BY <1>3 DEF CommitFail, NoEffect
  <2>2. Failed(s, c) \in Rows /\ Commit(j, s, Failed(s, c))
    BY <1>1, <2>1, FailedRow DEF CommitFailure
  <2>3. ~clobbered'[j] => Busy(job[j]) /\ slots' = Freed(job[j].owner)
    BY <1>1, <2>1, <2>2, ReporterKnows
  <2> HIDE DEF s, j, c
  <2>4. Effect(j)
    BY <1>1, <2>1, <2>3, FailureEffect
  <2> QED BY <2>4 DEF j
<1> QED BY <1>2, <1>3

\* A reaper ends the attempt it has selected, or raises and changes nothing.
LEMMA ReapOneEffect ==
  ASSUME CleanInv, NEW c \in Schedulers, NEW j \in Jobs, ReapOne(c, j)
  PROVE  NoEffect \/ Effect(j)
<1> DEFINE s == sweep[c].batch[j]
<1>1. s # None /\ s \in Rows /\ Busy(s) /\ NamesOwner(j, s)
  BY DEF ReapOne, CleanInv, SnapInv, BatchInv, Picked, TypeInv, TypeOK, Sweeps
<1>2. CASE CommitFailure(j, s, Category(c)) /\ slots' = Freed(s.owner)
  <2>1. Failed(s, Category(c)) \in Rows /\ Commit(j, s, Failed(s, Category(c)))
    BY <1>1, <1>2, FailedRow DEF CommitFailure
  <2>2. ASSUME ~clobbered'[j] PROVE Busy(job[j]) /\ slots' = Freed(job[j].owner)
    <3>1. job[j].state = s.state /\ job[j].attempts = s.attempts
      BY <1>1, <2>1, <2>2, FreshCommit DEF CleanInv, TypeInv
    <3> QED BY <1>1, <1>2, <3>1 DEF Busy, NamesOwner
  <2> QED BY <1>1, <1>2, <2>2, FailureEffect
<1>3. CASE NoEffect
  BY <1>3
<1> QED BY <1>2, <1>3 DEF ReapOne, NoEffect

\* A commit that leaves an active row active and a resting one at rest.
LEMMA StayEffect ==
  ASSUME CleanInv, NEW j \in Jobs, NEW s \in Rows, NEW r \in Rows, Commit(j, s, r),
         UNCHANGED <<executions, slots>>,
         Shape(s) => Shape(r) /\ (Busy(r) <=> Busy(s)) /\ Moves(s, r),
         s.state = "COMPLETED" => r.state = "COMPLETED", r.lease = s.lease
  PROVE  Effect(j)
<1>1. TypeOK /\ JobInv(j)
  BY DEF CleanInv, TypeInv
<1>2. \A i \in Jobs \ {j} : job'[i] = job[i] /\ clobbered'[i] = clobbered[i]
  BY <1>1, CommitElsewhere
<1>3. ASSUME ~clobbered'[j] PROVE Clean(j) /\ Moves(job[j], job'[j]) /\ Stays(j)
  <2>1. /\ Clean(j)
        /\ job[j].state = s.state /\ job[j].token = s.token /\ job[j].cancel = s.cancel
        /\ job[j].attempts = s.attempts /\ job[j].max = s.max
        /\ job'[j].state = r.state /\ job'[j].token = r.token /\ job'[j].cancel = r.cancel
        /\ job'[j].attempts = r.attempts /\ job'[j].max = r.max
        /\ job'[j].lease = job[j].lease
    BY <1>1, <1>3, FreshCommit
  <2>2. RowInv(job[j])
    BY <1>1, <2>1 DEF JobInv
  <2>3. Shape(s) /\ (Busy(job[j]) <=> Busy(s))
    BY <2>1, <2>2 DEF RowInv, Shape, Busy
  <2>4. Shape(r) /\ (Busy(r) <=> Busy(s)) /\ Moves(s, r)
    BY <2>3
  <2>5. Shape(job'[j]) /\ (Busy(job'[j]) <=> Busy(r))
    BY <2>1, <2>4 DEF Shape, Busy
  <2>6. Moves(job[j], job'[j])
    BY <2>1, <2>4 DEF Moves, Busy, OneMoreAttempt
  <2> QED BY <2>1, <2>2, <2>3, <2>4, <2>5, <2>6 DEF Stays, RowInv
<1> QED BY <1>2, <1>3 DEF Effect

\* What a cancellation, a retry and a replay make of a clean row.
LEMMA CancelledRow ==
  ASSUME NEW s \in Rows, s.state \notin Terminal \cup {"FAILED"}, Shape(s)
  PROVE  Shape(Cancelled(s)) /\ (Busy(Cancelled(s)) <=> Busy(s)) /\ Moves(s, Cancelled(s))
<1>1. s.state \in {"QUEUED", "SCHEDULED", "CLAIMED", "RUNNING", "RETRY_SCHEDULED",
                   "CANCEL_REQUESTED"}
  BY DEF Shape, Committed, Terminal
<1> DEFINE r == Cancelled(s)
<1>2. r.cancel = TRUE /\ r.attempts = s.attempts /\ r.max = s.max
  BY DEF Cancelled, Rows
<1>3. s.attempts <= s.max
  BY DEF Shape
<1>4. /\ r.state \in Committed /\ (r.token # None <=> Busy(r)) /\ (Busy(r) <=> Busy(s))
      /\ r.state \in {"CLAIMED", "CANCEL_REQUESTED", "CANCELLED"}
      /\ Moves(s, r)
  <2> USE DEF Moves
  <2>1. CASE s.state \in CancellableDirect
    <3>1. r.state = "CANCELLED" /\ r.token = None
      BY <2>1 DEF Cancelled, Rows
    <3> HIDE DEF r
    <3> QED BY <1>1, <1>2, <2>1, <3>1 DEF Busy, Active, CancellableDirect, Committed
  <2>2. CASE s.state = "RUNNING"
    <3>1. r.state = "CANCEL_REQUESTED" /\ r.token = s.token
      BY <2>2 DEF Cancelled, Rows, CancellableDirect
    <3> HIDE DEF r
    <3> QED BY <1>2, <2>2, <3>1 DEF Shape, Busy, Active, Committed
  <2>3. CASE s.state \in {"CLAIMED", "CANCEL_REQUESTED"}
    <3>1. r.state = s.state /\ r.token = s.token
      BY <2>3 DEF Cancelled, Rows, CancellableDirect
    <3> HIDE DEF r
    <3> QED BY <1>2, <2>3, <3>1 DEF Shape, Busy, Active, Committed
  <2> QED BY <1>1, <2>1, <2>2, <2>3 DEF CancellableDirect
<1> HIDE DEF r
<1>5. Shape(r) /\ (Busy(r) <=> Busy(s)) /\ Moves(s, r)
  <2>1. r.attempts <= r.max
    BY <1>2, <1>3
  <2>2. r.state \notin {"QUEUED", "SCHEDULED", "RETRY_SCHEDULED"}
    BY <1>4
  <2> QED BY <1>4, <2>1, <2>2 DEF Shape
<1> QED BY <1>5 DEF r

\* The row a manual retry makes has the shape of a queued job.
LEMMA RetriedRow ==
  ASSUME NEW s \in Rows, s.state \in {"FAILED", "DEAD_LETTERED", "TIMED_OUT", "CANCELLED"},
         Shape(s)
  PROVE  Shape(Retried(s)) /\ (Busy(Retried(s)) <=> Busy(s)) /\ Moves(s, Retried(s))
<1> DEFINE r == Retried(s)
<1>1. s.attempts \in Nat /\ s.attempts < OneMoreAttempt(s) /\ OneMoreAttempt(s) \in Nat
  BY DEF OneMoreAttempt, Rows
<1>2. /\ r.cancel = FALSE /\ r.attempts = s.attempts
      /\ r.max = OneMoreAttempt(s) /\ r.state = "QUEUED" /\ r.token = s.token
  BY DEF Retried, Rows
<1>3. ~Busy(s)
  BY DEF Busy, Active
<1> HIDE DEF r
<1>4. ~Busy(r) /\ r.state \in Committed /\ r.token = None
  BY <1>2, <1>3 DEF Shape, Busy, Active, Committed
<1>5. r.attempts <= r.max /\ r.attempts < r.max
  BY <1>1, <1>2
<1>6. Shape(r)
  BY <1>2, <1>4, <1>5 DEF Shape
<1>7. Moves(s, r)
  BY <1>2 DEF Moves, Shape, Committed
<1> QED BY <1>3, <1>4, <1>6, <1>7 DEF r

\* The row a replay makes has the shape of a queued job with an attempt left.
LEMMA ReplayedRow ==
  ASSUME NEW s \in Rows, NEW q \in Queues, Shape(s)
  PROVE  Shape(Replayed(s, q)) /\ (Busy(Replayed(s, q)) <=> Busy(s)) /\ Moves(s, Replayed(s, q))
<1> DEFINE r == Replayed(s, q)
<1>1. s.attempts \in Nat /\ s.attempts < OneMoreAttempt(s) /\ OneMoreAttempt(s) \in Nat
  BY DEF OneMoreAttempt, Rows
<1>2. r.cancel = s.cancel /\ r.attempts = s.attempts /\ r.token = s.token
  BY DEF Replayed, Rows
<1>3. ASSUME s.state = "DEAD_LETTERED" PROVE Shape(r) /\ (Busy(r) <=> Busy(s)) /\ Moves(s, r)
  <2>1. r.state = "QUEUED" /\ r.max = OneMoreAttempt(s)
    BY <1>3 DEF Replayed, Rows
  <2>2. ~s.cancel /\ ~Busy(s) /\ s.token = None
    BY <1>3 DEF Shape, Busy, Active
  <2> HIDE DEF r
  <2>3. ~Busy(r) /\ r.state \in Committed /\ r.token = None /\ ~r.cancel
    BY <1>2, <2>1, <2>2 DEF Busy, Active, Committed
  <2>4. r.attempts <= r.max /\ r.attempts < r.max
    BY <1>1, <1>2, <2>1
  <2>5. s.cancel = FALSE
    BY <2>2 DEF Rows
  <2>6. Moves(s, r)
    BY <1>2, <1>3, <2>1, <2>5 DEF Moves
  <2> QED BY <2>2, <2>3, <2>4, <2>6 DEF Shape
<1>4. ASSUME s.state # "DEAD_LETTERED" PROVE Shape(r) /\ (Busy(r) <=> Busy(s)) /\ Moves(s, r)
  <2>1. r.state = s.state /\ r.max = s.max
    BY <1>4 DEF Replayed, Rows
  <2> HIDE DEF r
  <2> QED BY <1>2, <2>1 DEF Shape, Busy, Moves
<1> QED BY <1>3, <1>4

\* What a request makes of a row is a row.
LEMMA RequestRows ==
  ASSUME NEW s \in Rows
  PROVE  /\ Cancelled(s) \in Rows /\ Retried(s) \in Rows
         /\ \A q \in Queues : Replayed(s, q) \in Rows
<1>1. Keeps(s, Cancelled(s)) /\ Keeps(s, Retried(s)) /\ \A q \in Queues : Keeps(s, Replayed(s, q))
  BY AssignmentsKeep
<1> QED BY <1>1 DEF Keeps

\* The commit of a request changes one job, or is refused.
LEMMA CommitRequestEffect ==
  ASSUME CleanInv, NEW u \in Requests, CommitCancelOrRetry(u) \/ CommitReplay(u)
  PROVE  NoEffect \/ Effect(req[u].job)
<1> DEFINE s == req[u].snap
           j == req[u].job
<1>1. s \in Rows /\ j \in Jobs
  BY DEF CommitCancelOrRetry, CommitReplay, CleanInv, TypeInv, AtWork
<1>2. ReqInv(u) /\ UNCHANGED <<executions, slots>>
  BY DEF CommitCancelOrRetry, CommitReplay, CleanInv, SnapInv
<1>3. CASE req[u].op = "cancel" /\ Commit(j, s, Cancelled(s))
  <2>1. Cancelled(s) \in Rows
    BY <1>1, RequestRows
  <2>2. s.state \notin Terminal \cup {"FAILED"}
    BY <1>2, <1>3 DEF ReqInv
  <2>3. Shape(s) => /\ Shape(Cancelled(s)) /\ (Busy(Cancelled(s)) <=> Busy(s))
                    /\ Moves(s, Cancelled(s))
    BY <1>1, <2>2, CancelledRow
  <2>4. Cancelled(s).lease = s.lease
    BY <1>1 DEF Cancelled, Rows
  <2>5. s.state # "COMPLETED"
    BY <2>2 DEF Terminal
  <2> HIDE DEF s, j
  <2>6. Effect(j)
    BY <1>1, <1>2, <1>3, <2>1, <2>3, <2>4, <2>5, StayEffect
  <2> QED BY <2>6 DEF j
<1>4. CASE req[u].op = "retry" /\ Commit(j, s, Retried(s))
  <2>1. Retried(s) \in Rows
    BY <1>1, RequestRows
  <2>2. s.state \in {"FAILED", "DEAD_LETTERED", "TIMED_OUT", "CANCELLED"}
    BY <1>2, <1>4 DEF ReqInv
  <2>3. Shape(s) => /\ Shape(Retried(s)) /\ (Busy(Retried(s)) <=> Busy(s))
                    /\ Moves(s, Retried(s))
    BY <1>1, <2>2, RetriedRow
  <2>4. Retried(s).lease = s.lease
    BY <1>1 DEF Retried, Rows
  <2>5. s.state # "COMPLETED"
    BY <2>2
  <2> HIDE DEF s, j
  <2>6. Effect(j)
    BY <1>1, <1>2, <1>4, <2>1, <2>3, <2>4, <2>5, StayEffect
  <2> QED BY <2>6 DEF j
<1>5. ASSUME NEW q \in Queues, Commit(j, s, Replayed(s, q)) PROVE Effect(j)
  <2>1. Replayed(s, q) \in Rows
    BY <1>1, RequestRows
  <2>2. Shape(s) => /\ Shape(Replayed(s, q)) /\ (Busy(Replayed(s, q)) <=> Busy(s))
                    /\ Moves(s, Replayed(s, q))
    BY <1>1, ReplayedRow
  <2>3. Replayed(s, q).lease = s.lease
    BY <1>1 DEF Replayed, Rows
  <2>4. s.state = "COMPLETED" => Replayed(s, q).state = "COMPLETED"
    BY <1>1 DEF Replayed, Rows
  <2> HIDE DEF s, j
  <2> QED BY <1>1, <1>2, <1>5, <2>1, <2>2, <2>3, <2>4, StayEffect
<1>6. CASE UNCHANGED <<job, clobbered>>
  BY <1>2, <1>6 DEF NoEffect
<1>7. CASE CommitCancelOrRetry(u)
  <2>1. req[u].op = "cancel" \/ req[u].op = "retry"
    BY <1>7 DEF CommitCancelOrRetry
  <2>2. Commit(j, s, IF req[u].op = "cancel" THEN Cancelled(s) ELSE Retried(s))
    BY <1>7 DEF CommitCancelOrRetry
  <2>3. CASE req[u].op = "cancel"
    BY <1>3, <2>2, <2>3
  <2>4. CASE req[u].op = "retry"
    BY <1>4, <2>2, <2>4
  <2> QED BY <2>1, <2>3, <2>4
<1>8. CASE CommitReplay(u)
  BY <1>5, <1>6, <1>8 DEF CommitReplay
<1> QED BY <1>7, <1>8

\* Renewals, the passing of time and promotions: no attempt ends by them.
LEMMA OneColumn ==
  ASSUME CleanInv, NEW j \in Jobs, NEW r \in Rows, job' = [job EXCEPT ![j] = r],
         UNCHANGED <<executions, slots, clobbered>>,
         RowInv(job[j]) => RowInv(r) /\ (Busy(r) <=> Busy(job[j])),
         Moves(job[j], r),
         job[j].state = "COMPLETED" => r.state = "COMPLETED"
  PROVE  Effect(j)
<1>1. job'[j] = r /\ \A i \in Jobs \ {j} : job'[i] = job[i]
  BY DEF CleanInv, TypeInv, TypeOK
<1>2. JobInv(j) /\ clobbered[j] \in BOOLEAN
  BY DEF CleanInv, TypeInv, TypeOK
<1> QED BY <1>1, <1>2 DEF Effect, Stays, JobInv, Clean

\* A renewal changes no more than the lease.
LEMMA RenewEffect ==
  ASSUME CleanInv, NEW t \in Tokens, Renew(t)
  PROVE  Effect(task[t].job)
<1> DEFINE j == task[t].job
           r == [job[j] EXCEPT !.lease = "live"]
<1>1. j \in Jobs /\ job[j] \in Rows
  BY DEF Renew, CleanInv, TypeInv, TypeOK, AtWork
<1>2. /\ r \in Rows /\ r.state = job[j].state /\ r.token = job[j].token /\ r.lease = "live"
      /\ r.cancel = job[j].cancel /\ r.attempts = job[j].attempts /\ r.max = job[j].max
  BY <1>1 DEF Rows
<1>3. job' = [job EXCEPT ![j] = r] /\ UNCHANGED <<executions, slots, clobbered>>
  BY DEF Renew
<1> HIDE DEF r, j
<1>4. RowInv(job[j]) => RowInv(r) /\ (Busy(r) <=> Busy(job[j]))
  BY <1>2 DEF RowInv, Shape, Busy
<1>5. Moves(job[j], r)
  BY <1>2 DEF Moves
<1>6. Effect(j)
  BY <1>1, <1>2, <1>3, <1>4, <1>5, OneColumn
<1> QED BY <1>6 DEF j

\* A lapse, an overrun and a promotion change one job as they should.
LEMMA TimePassesEffect ==
  ASSUME CleanInv, NEW j \in Jobs, Lapse(j) \/ Overrun(j) \/ Promote(j)
  PROVE  Effect(j)
<1>1. job[j] \in Rows
  BY DEF CleanInv, TypeInv, TypeOK
<1>2. CASE Lapse(j)
  <2> DEFINE r == [job[j] EXCEPT !.lease = "lapsed"]
  <2>1. /\ r \in Rows /\ r.state = job[j].state /\ r.token = job[j].token /\ r.lease = "lapsed"
        /\ r.cancel = job[j].cancel /\ r.attempts = job[j].attempts /\ r.max = job[j].max
    BY <1>1 DEF Rows
  <2>2. job' = [job EXCEPT ![j] = r] /\ UNCHANGED <<executions, slots, clobbered>>
    BY <1>2 DEF Lapse
  <2> HIDE DEF r
  <2>3. RowInv(job[j]) => RowInv(r) /\ (Busy(r) <=> Busy(job[j]))
    BY <2>1 DEF RowInv, Shape, Busy
  <2>4. Moves(job[j], r)
    BY <2>1 DEF Moves
  <2> QED BY <2>1, <2>2, <2>3, <2>4, OneColumn
<1>3. CASE Overrun(j)
  <2> DEFINE r == [job[j] EXCEPT !.timer = "over"]
  <2>1. /\ r \in Rows /\ r.state = job[j].state /\ r.token = job[j].token
        /\ r.lease = job[j].lease
        /\ r.cancel = job[j].cancel /\ r.attempts = job[j].attempts /\ r.max = job[j].max
    BY <1>1 DEF Rows
  <2>2. job' = [job EXCEPT ![j] = r] /\ UNCHANGED <<executions, slots, clobbered>>
    BY <1>3 DEF Overrun
  <2> HIDE DEF r
  <2>3. RowInv(job[j]) => RowInv(r) /\ (Busy(r) <=> Busy(job[j]))
    BY <2>1 DEF RowInv, Shape, Busy
  <2>4. Moves(job[j], r)
    BY <2>1 DEF Moves
  <2> QED BY <2>1, <2>2, <2>3, <2>4, OneColumn
<1>4. CASE Promote(j)
  <2> DEFINE r == [job[j] EXCEPT !.state = "QUEUED"]
  <2>1. /\ r \in Rows /\ r.state = "QUEUED" /\ r.token = job[j].token
        /\ r.lease = job[j].lease
        /\ r.cancel = job[j].cancel /\ r.attempts = job[j].attempts /\ r.max = job[j].max
    BY <1>1 DEF Rows, States
  <2>2. /\ job' = [job EXCEPT ![j] = r] /\ UNCHANGED <<executions, slots, clobbered>>
        /\ job[j].state \in {"SCHEDULED", "RETRY_SCHEDULED"}
    BY <1>4 DEF Promote
  <2> HIDE DEF r
  <2>3. RowInv(job[j]) => RowInv(r) /\ (Busy(r) <=> Busy(job[j]))
    BY <2>1, <2>2 DEF RowInv, Shape, Busy, Active, Committed
  <2>4. job[j].state # "COMPLETED"
    BY <2>2
  <2>5. Moves(job[j], r)
    BY <2>1, <2>2 DEF Moves
  <2> QED BY <2>1, <2>2, <2>3, <2>4, <2>5, OneColumn
<1> QED BY <1>2, <1>3, <1>4
-----------------------------------------------------------------------------
(* Every step is a claim or has one of these effects                         *)

\* Every step is a claim, has no effect, or has a known effect on one job.
LEMMA StepEffect ==
  ASSUME CleanInv, [Next]_vars
  PROVE  \/ \E w \in Workers, j \in Jobs : Claim(w, j)
         \/ QuietStep /\ (NoEffect \/ \E j \in Jobs : Effect(j))
<1>1. TypeInv /\ (QuietStep \/ \E w \in Workers, j \in Jobs : Claim(w, j))
  BY EveryStep DEF CleanInv
<1>2. ASSUME NEW t \in Tokens, WorkerStep(t) \/ Renew(t) \/ Die(t)
      PROVE  NoEffect \/ \E j \in Jobs : Effect(j)
  <2>1. CASE ReadStart(t) \/ Die(t)
    BY <2>1 DEF ReadStart, Die, NoEffect
  <2>2. CASE HandlerEnds(t) \/ Rescue(t)
    BY <2>2 DEF HandlerEnds, Rescue, ReadReport, NoEffect
  <2>3. CASE CommitStart(t)
    <3>1. task[t].job \in Jobs
      BY <1>1, <2>3 DEF CommitStart, TypeInv, AtWork, Alive
    <3> QED BY <2>3, <3>1, CommitStartEffect
  <2>4. CASE CommitComplete(t) \/ CommitFail(t)
    <3>1. task[t].job \in Jobs
      BY <1>1, <2>4 DEF CommitComplete, CommitFail, TypeInv, AtWork, Alive
    <3> QED BY <2>4, <3>1, CommitReportEffect
  <2>5. CASE Renew(t)
    <3>1. task[t].job \in Jobs
      BY <1>1, <2>5 DEF Renew, TypeInv, AtWork
    <3> QED BY <2>5, <3>1, RenewEffect
  <2> QED BY <1>2, <2>1, <2>2, <2>3, <2>4, <2>5 DEF WorkerStep
<1>3. ASSUME NEW j \in Jobs, Lapse(j) \/ Overrun(j) \/ Promote(j) \/ DeleteEntry(j)
      PROVE  NoEffect \/ Effect(j)
  BY <1>3, TimePassesEffect DEF DeleteEntry, NoEffect
<1>4. ASSUME NEW c \in Schedulers, SelectBatch(c) \/ \E j \in Jobs : ReapOne(c, j)
      PROVE  NoEffect \/ \E j \in Jobs : Effect(j)
  BY <1>4, ReapOneEffect DEF SelectBatch, NoEffect
<1>5. ASSUME NEW c \in Schedulers, NEW t \in Tokens, Deadlock(c, t) PROVE NoEffect
  BY <1>5 DEF Deadlock, NoEffect
<1>6. ASSUME NEW u \in Requests, NEW op, NEW j, ReadRequest(u, op, j) PROVE NoEffect
  BY <1>6 DEF ReadRequest, NoEffect
<1>7. ASSUME NEW u \in Requests, CommitCancelOrRetry(u) \/ CommitReplay(u)
      PROVE  NoEffect \/ \E j \in Jobs : Effect(j)
  <2>1. req[u].job \in Jobs
    BY <1>1, <1>7 DEF CommitCancelOrRetry, CommitReplay, TypeInv, AtWork
  <2> QED BY <1>7, <2>1, CommitRequestEffect
<1>8. CASE UNCHANGED vars
  BY <1>1, <1>8 DEF vars, NoEffect
<1> QED BY <1>1, <1>2, <1>3, <1>4, <1>5, <1>6, <1>7, <1>8 DEF Next
-----------------------------------------------------------------------------
(* A claim *)

\* The row a claim makes, and what it leaves alone.
LEMMA ClaimedRow ==
  ASSUME CleanInv, NEW w \in Workers, NEW j \in Jobs, Claim(w, j)
  PROVE  /\ job'[j].state = "CLAIMED" /\ job'[j].token = issued + 1
         /\ job'[j].owner = w /\ job'[j].lease = "live"
         /\ job'[j].attempts = job[j].attempts + 1
         /\ job'[j].max = job[j].max /\ job'[j].cancel = job[j].cancel
         /\ \A i \in Jobs \ {j} : job'[i] = job[i]
<1>1. job[j] \in Rows /\ job \in [Jobs -> Rows] /\ job[j].attempts \in Nat
  BY DEF CleanInv, TypeInv, TypeOK, Rows
<1>2. job'[j] = Claimed(job[j], w, issued + 1) /\ \A i \in Jobs \ {j} : job'[i] = job[i]
  BY <1>1 DEF Claim
<1> QED BY <1>1, <1>2 DEF Claimed, Rows

\* A claim keeps what is known of every job.
LEMMA ClaimKeepsJobs ==
  ASSUME CleanInv, NEW w \in Workers, NEW j \in Jobs, Claim(w, j)
  PROVE  \A i \in Jobs : JobInv(i)'
<1> DEFINE x == [job |-> j, attempt |-> job[j].attempts + 1, worker |-> w,
                 token |-> issued + 1, state |-> "CLAIMED"]
<1>1. /\ executions' = executions \cup {x} /\ clobbered' = clobbered
      /\ job[j].state = "QUEUED" /\ ~job[j].cancel
  BY DEF Claim
<1>2. x.job = j /\ x.attempt = job[j].attempts + 1 /\ x.state = "CLAIMED"
  OBVIOUS
<1> HIDE DEF x
<1>3. ASSUME NEW i \in Jobs \ {j} PROVE JobInv(i)'
  BY <1>1, <1>2, <1>3, ClaimedRow DEF CleanInv, JobInv, Clean
<1>4. JobInv(j)'
  <2> SUFFICES ASSUME Clean(j)
               PROVE  /\ RowInv(job'[j])
                      /\ \A e \in executions' : e.job = j => ExecInv(e, job'[j])
    BY <1>1 DEF JobInv, Clean
  <2>1. /\ RowInv(job[j]) /\ ~Busy(job[j])
        /\ \A e \in executions : e.job = j => ExecInv(e, job[j])
    BY <1>1 DEF CleanInv, JobInv, Busy, Active
  <2>2. /\ job[j].attempts \in Nat /\ job[j].max \in Nat /\ issued + 1 \in Nat
        /\ job[j].attempts < job[j].max
    BY <1>1, <2>1 DEF CleanInv, TypeInv, TypeOK, Rows, RowInv, Shape
  <2>3. Busy(job'[j]) /\ job'[j].state = "CLAIMED"
    BY ClaimedRow DEF Busy, Active
  <2>4. job'[j].attempts <= job'[j].max
    BY <2>2, ClaimedRow
  <2>5. job'[j].token # None /\ ~job'[j].cancel /\ job'[j].lease = "live"
    BY <1>1, <2>2, ClaimedRow, BoundAssumption
  <2>6. RowInv(job'[j])
    BY <2>3, <2>4, <2>5 DEF RowInv, Shape, Committed
  <2>7. ASSUME NEW e \in executions, e.job = j PROVE ExecInv(e, job'[j])
    BY <1>1, <2>1, <2>7 DEF ExecInv
  <2>8. ExecInv(x, job'[j])
    BY <1>2, <2>3, ClaimedRow DEF ExecInv
  <2> QED BY <1>1, <2>6, <2>7, <2>8
<1> QED BY <1>3, <1>4

\* A claim takes one slot of one worker.
LEMMA ClaimKeepsSlots ==
  ASSUME CleanInv, NEW w \in Workers, NEW j \in Jobs, Claim(w, j)
  PROVE  SlotInv'
<1> SUFFICES ASSUME \A i \in Jobs : Clean(i), NEW v \in Workers
             PROVE  IsFiniteSet(BusyAt(v)') /\ slots'[v] = Cardinality(BusyAt(v)')
  BY DEF SlotInv, Clean, Claim
<1>1. IsFiniteSet(BusyAt(v)) /\ slots[v] = Cardinality(BusyAt(v)) /\ slots \in [Workers -> Nat]
  BY DEF CleanInv, SlotInv, TypeInv, TypeOK
<1>2. ~Busy(job[j]) /\ Busy(job'[j]) /\ job'[j].owner = w
  BY ClaimedRow DEF Claim, Busy, Active
<1>3. \A i \in Jobs \ {j} : job'[i] = job[i]
  BY ClaimedRow
<1>4. slots' = [slots EXCEPT ![w] = @ + 1]
  BY DEF Claim
<1>5. CASE v = w
  <2>1. BusyAt(v)' = BusyAt(v) \cup {j} /\ j \notin BusyAt(v)
    BY <1>2, <1>3, <1>5 DEF BusyAt
  <2> QED BY <1>1, <1>4, <1>5, <2>1, FS_AddElement
<1>6. CASE v # w
  <2>1. BusyAt(v)' = BusyAt(v)
    BY <1>2, <1>3, <1>6 DEF BusyAt
  <2> QED BY <1>1, <1>4, <1>6, <2>1
<1> QED BY <1>5, <1>6

\* Every step keeps what is known of jobs and slots.
LEMMA KeepsJobsAndSlots ==
  ASSUME CleanInv, [Next]_vars
  PROVE  SlotInv' /\ \A i \in Jobs : JobInv(i)'
<1>1. CASE \E w \in Workers, j \in Jobs : Claim(w, j)
  BY <1>1, ClaimKeepsJobs, ClaimKeepsSlots
<1>2. CASE QuietStep /\ \E j \in Jobs : Effect(j)
  BY <1>2, EffectKeepsJobs, EffectKeepsSlots
<1>3. CASE NoEffect
  <2>1. \A i \in Jobs : JobInv(i)'
    BY <1>3 DEF CleanInv, JobInv, NoEffect, Clean
  <2>2. \A w \in Workers : BusyAt(w)' = BusyAt(w)
    BY <1>3 DEF BusyAt, NoEffect
  <2>3. SlotInv'
    BY <1>3, <2>2 DEF CleanInv, SlotInv, NoEffect, Clean
  <2> QED BY <2>1, <2>3
<1> QED BY <1>1, <1>2, <1>3, StepEffect
-----------------------------------------------------------------------------
(* Snapshots: what a step does to the rows held outside the tables           *)

\* The coroutine of t is left alone, ends, goes on, or starts.
TaskMove(t) ==
  \/ task'[t] = task[t]
  \/ task'[t] = Gone
  \/ /\ Alive(t) /\ task'[t].pc # "gone"
     /\ task'[t].pc # "unborn" /\ task'[t].job = task[t].job /\ task'[t].worker = task[t].worker
     /\ task'[t].snap # None => task'[t].snap.token = t /\ Checked(task'[t])
     /\ Rescues(task[t]) => Rescues(task'[t])
  \/ /\ task'[t].snap = None /\ task'[t].pc = "claimed"
     /\ \E e \in executions' : /\ e.token = t /\ e.job = task'[t].job
                               /\ e.worker = task'[t].worker

BatchMove(c, j) ==
  \/ sweep'[c].batch[j] = None
  \/ sweep'[c].batch[j] = sweep[c].batch[j] /\ sweep'[c].loop = sweep[c].loop
  \/ sweep'[c].batch[j] = Loaded(j) /\ Picked(sweep'[c].loop, Loaded(j)) /\ job' = job

\* The step moves the coroutine of t only, and to record r.
LEMMA OneTask ==
  ASSUME TypeInv, NEW t \in Tokens, NEW r, task' = [task EXCEPT ![t] = r],
         \/ r = Gone
         \/ /\ Alive(t) /\ r.pc # "gone" /\ r.pc # "unborn"
            /\ r.job = task[t].job /\ r.worker = task[t].worker
            /\ r.snap # None => r.snap.token = t /\ Checked(r)
            /\ Rescues(task[t]) => Rescues(r)
  PROVE  \A u \in Tokens : TaskMove(u)
<1>1. task'[t] = r /\ \A u \in Tokens \ {t} : task'[u] = task[u]
  BY DEF TypeInv, TypeOK
<1> QED BY <1>1 DEF TaskMove

\* An exception moves the coroutine it is raised in, and no other.
LEMMA RaiseMoves ==
  ASSUME TypeInv, NEW t \in Tokens, NEW pc, Alive(t), Raise(t, pc)
  PROVE  \A u \in Tokens : TaskMove(u)
<1>1. task[t] \in Tasks
  BY DEF TypeInv, TypeOK
<1> DEFINE r == [task[t] EXCEPT !.pc = "rescue", !.snap = None, !.outcome = "retryable"]
<1>2. /\ r.pc = "rescue" /\ r.snap = None /\ r.job = task[t].job /\ r.worker = task[t].worker
      /\ Rescues(r)
  BY <1>1 DEF Tasks, Rescues
<1>3. task' = [task EXCEPT ![t] = Gone] \/ task' = [task EXCEPT ![t] = r]
  BY DEF Raise
<1> HIDE DEF r
<1>4. CASE task' = [task EXCEPT ![t] = Gone]
  BY <1>4, OneTask
<1>5. CASE task' = [task EXCEPT ![t] = r]
  BY <1>2, <1>5, OneTask
<1> QED BY <1>3, <1>4, <1>5

\* The row a coroutine has read carries the token it was read with.
LEMMA LoadedToken ==
  ASSUME TypeInv, NEW t \in Tokens, Alive(t)
  PROVE  Owned(t) => Loaded(task[t].job).token = t
BY LoadedRow DEF TypeInv, TypeOK, AtWork, Alive, Owned

\* The row a coroutine reads is still leased to it.
LEMMA ReadReportMoves ==
  ASSUME TypeInv, NEW t \in Tokens, NEW pc \in {"reporting", "rescue"}, NEW outcome,
         Alive(t), ReadReport(t, pc, outcome),
         pc = "rescue" /\ Rescues(task[t]) => outcome \in {"retryable", "non_retryable"}
  PROVE  \A u \in Tokens : TaskMove(u)
<1>1. task[t] \in Tasks /\ task \in [Tokens -> Tasks]
  BY DEF TypeInv, TypeOK
<1> DEFINE r == [task[t] EXCEPT !.pc = pc, !.outcome = outcome, !.snap = Loaded(task[t].job)]
<1>2. /\ r.pc = pc /\ r.snap = Loaded(task[t].job) /\ r.job = task[t].job
      /\ r.worker = task[t].worker /\ r.outcome = outcome
  BY <1>1 DEF Tasks
<1>3. \/ Raise(t, pc)
      \/ task' = [task EXCEPT ![t] = Gone]
      \/ /\ Owned(t) /\ task' = [task EXCEPT ![t] = r]
         /\ ReportIsLegal(Loaded(task[t].job), outcome)
  BY <1>1 DEF ReadReport
<1> HIDE DEF r
<1>4. CASE Raise(t, pc)
  BY <1>4, RaiseMoves
<1>5. CASE task' = [task EXCEPT ![t] = Gone]
  BY <1>5, OneTask
<1>6. CASE /\ Owned(t) /\ task' = [task EXCEPT ![t] = r]
           /\ ReportIsLegal(Loaded(task[t].job), outcome)
  <2>1. r.snap.token = t /\ Checked(r) /\ (Rescues(task[t]) => Rescues(r))
    BY LoadedToken, <1>2, <1>6 DEF Owned, ReportIsLegal, Checked, Rescues
  <2> QED BY <1>2, <1>6, <2>1, OneTask
<1> QED BY <1>3, <1>4, <1>5, <1>6

\* A step of a coroutine, or its death, moves that coroutine alone.
LEMMA WorkerMoves ==
  ASSUME TypeInv, NEW t \in Tokens, WorkerStep(t) \/ Die(t)
  PROVE  \A u \in Tokens : TaskMove(u)
<1>1. Alive(t) /\ task[t] \in Tasks
  BY DEF WorkerStep, ReadStart, CommitStart, HandlerEnds, Rescue, CommitComplete, CommitFail,
         Die, Alive, TypeInv, TypeOK
<1>2. CASE ReadStart(t)
  <2> DEFINE r == [task[t] EXCEPT !.snap = Loaded(task[t].job)]
  <2>1. /\ r.pc = "claimed" /\ r.snap = Loaded(task[t].job) /\ r.job = task[t].job
        /\ r.worker = task[t].worker
    BY <1>1, <1>2 DEF Tasks, ReadStart
  <2>2. \/ Raise(t, task[t].pc)
        \/ task' = [task EXCEPT ![t] = Gone]
        \/ /\ Owned(t) /\ task' = [task EXCEPT ![t] = r]
           /\ Validate(Loaded(task[t].job).state, StartTarget(Loaded(task[t].job)))
    BY <1>2 DEF ReadStart
  <2> HIDE DEF r
  <2>3. CASE Raise(t, task[t].pc)
    BY <1>1, <2>3, RaiseMoves
  <2>4. CASE task' = [task EXCEPT ![t] = Gone]
    BY <2>4, OneTask
  <2>5. CASE /\ Owned(t) /\ task' = [task EXCEPT ![t] = r]
             /\ Validate(Loaded(task[t].job).state, StartTarget(Loaded(task[t].job)))
    <3>1. r.snap.token = t /\ Checked(r) /\ Rescues(r)
      BY LoadedToken, <1>1, <1>2, <2>1, <2>5 DEF Owned, Checked, ReadStart, Rescues
    <3> QED BY <1>1, <2>1, <2>5, <3>1, OneTask
  <2> QED BY <2>2, <2>3, <2>4, <2>5
<1>3. CASE CommitStart(t)
  <2> DEFINE r == [task[t] EXCEPT !.pc = "running", !.snap = None]
  <2>1. /\ r.pc = "running" /\ r.snap = None /\ r.job = task[t].job /\ r.worker = task[t].worker
        /\ Rescues(r)
    BY <1>1 DEF Tasks, Rescues
  <2>2. task' = [task EXCEPT ![t] = Gone] \/ task' = [task EXCEPT ![t] = r]
    BY <1>3 DEF CommitStart, TypeInv, TypeOK
  <2> HIDE DEF r
  <2>3. CASE task' = [task EXCEPT ![t] = Gone]
    BY <2>3, OneTask
  <2>4. CASE task' = [task EXCEPT ![t] = r]
    BY <1>1, <2>1, <2>4, OneTask
  <2> QED BY <2>2, <2>3, <2>4
<1>4. CASE HandlerEnds(t) \/ Rescue(t)
  <2>1. \E pc \in {"reporting", "rescue"} : \E o :
          /\ ReadReport(t, pc, o)
          /\ pc = "rescue" /\ Rescues(task[t]) => o \in {"retryable", "non_retryable"}
    BY <1>4 DEF HandlerEnds, Rescue, Rescues
  <2> QED BY <1>1, <2>1, ReadReportMoves
<1>5. CASE CommitComplete(t) \/ CommitFail(t) \/ Die(t)
  <2>1. task' = [task EXCEPT ![t] = Gone] \/ Raise(t, task[t].pc)
    BY <1>5 DEF CommitComplete, CommitFail, Die
  <2>2. CASE task' = [task EXCEPT ![t] = Gone]
    BY <2>2, OneTask
  <2> QED BY <1>1, <2>1, <2>2, RaiseMoves
<1> QED BY <1>2, <1>3, <1>4, <1>5 DEF WorkerStep

\* A claim starts one coroutine.
LEMMA ClaimMoves ==
  ASSUME TypeInv, NEW w \in Workers, NEW j \in Jobs, Claim(w, j)
  PROVE  \A u \in Tokens : TaskMove(u)
<1> DEFINE r == [Unborn EXCEPT !.pc = "claimed", !.job = j, !.worker = w]
           x == [job |-> j, attempt |-> job[j].attempts + 1, worker |-> w,
                 token |-> issued + 1, state |-> "CLAIMED"]
<1>1. /\ r.snap = None /\ r.job = j /\ r.worker = w /\ r.pc = "claimed"
      /\ x.token = issued + 1 /\ x.job = j /\ x.worker = w
  BY DEF Unborn
<1>2. task' = [task EXCEPT ![issued + 1] = r] /\ x \in executions'
  BY DEF Claim
<1>3. task \in [Tokens -> Tasks]
  BY DEF TypeInv, TypeOK
<1> HIDE DEF r, x
<1> QED BY <1>1, <1>2, <1>3 DEF TaskMove

\* Every step moves every coroutine in one of the ways of TaskMove.
LEMMA TasksMove ==
  ASSUME TypeInv, [Next]_vars
  PROVE  \A u \in Tokens : TaskMove(u)
<1>1. ASSUME NEW t \in Tokens, WorkerStep(t) \/ Renew(t) \/ Die(t)
      PROVE  \A u \in Tokens : TaskMove(u)
  BY <1>1, WorkerMoves DEF Renew, TaskMove
<1>2. ASSUME NEW j \in Jobs, Lapse(j) \/ Overrun(j) \/ Promote(j) \/ DeleteEntry(j)
      PROVE  \A u \in Tokens : TaskMove(u)
  BY <1>2 DEF Lapse, Overrun, Promote, DeleteEntry, TaskMove
<1>3. ASSUME NEW c \in Schedulers, SelectBatch(c) \/ \E j \in Jobs : ReapOne(c, j)
      PROVE  \A u \in Tokens : TaskMove(u)
  BY <1>3 DEF SelectBatch, ReapOne, TaskMove
<1>4. ASSUME NEW c \in Schedulers, NEW t \in Tokens, Deadlock(c, t)
      PROVE  \A u \in Tokens : TaskMove(u)
  <2>1. Alive(t) /\ (task' = task \/ Raise(t, task[t].pc))
    BY <1>4 DEF Deadlock, Alive
  <2> QED BY <2>1, RaiseMoves DEF TaskMove
<1>5. ASSUME NEW u \in Requests, NEW op, NEW j, ReadRequest(u, op, j)
      PROVE  \A v \in Tokens : TaskMove(v)
  BY <1>5 DEF ReadRequest, TaskMove
<1>6. ASSUME NEW u \in Requests, CommitCancelOrRetry(u) \/ CommitReplay(u)
      PROVE  \A v \in Tokens : TaskMove(v)
  BY <1>6 DEF CommitCancelOrRetry, CommitReplay, TaskMove
<1>7. CASE UNCHANGED vars
  BY <1>7 DEF vars, TaskMove
<1> QED BY <1>1, <1>2, <1>3, <1>4, <1>5, <1>6, <1>7, ClaimMoves DEF Next

\* Executions are only added, and keep what they are numbered and named by.
LEMMA ExecutionsPersist ==
  ASSUME TypeInv, [Next]_vars
  PROVE  \A e \in executions : \E f \in executions' : SameAttempt(f, e)
<1>1. CASE QuietStep
  BY <1>1 DEF QuietStep, HistoryKept
<1>2. CASE \E w \in Workers, j \in Jobs : Claim(w, j)
  BY <1>2 DEF Claim, SameAttempt
<1> QED BY <1>1, <1>2, EveryStep

\* Whatever a coroutine has read of a clean row is still so.
LEMMA TasksKept ==
  ASSUME TypeInv, [Next]_vars, NEW t \in Tokens, TaskInv(t)
  PROVE  TaskInv(t)'
<1>1. TaskMove(t)
  BY TasksMove
<1>2. Alive(t) => \E f \in executions' : /\ f.token = t /\ f.job = task[t].job
                                         /\ f.worker = task[t].worker
  BY ExecutionsPersist DEF TaskInv, SameAttempt
<1>3. CASE task'[t] = task[t]
  BY <1>2, <1>3 DEF TaskInv, Alive
<1>4. CASE task'[t] = Gone
  BY <1>4 DEF TaskInv, Alive, Gone, Unborn, Rescues
<1>5. CASE /\ Alive(t) /\ task'[t].pc # "gone"
           /\ task'[t].pc # "unborn" /\ task'[t].job = task[t].job /\ task'[t].worker = task[t].worker
           /\ task'[t].snap # None => task'[t].snap.token = t /\ Checked(task'[t])
           /\ Rescues(task[t]) => Rescues(task'[t])
  BY <1>2, <1>5 DEF TaskInv, Alive
<1>6. CASE /\ task'[t].snap = None /\ task'[t].pc = "claimed"
           /\ \E e \in executions' : /\ e.token = t /\ e.job = task'[t].job
                                     /\ e.worker = task'[t].worker
  BY <1>6 DEF TaskInv, Alive, Rescues
<1> QED BY <1>1, <1>3, <1>4, <1>5, <1>6 DEF TaskMove

\* A batch is read from the table, row by row used up, or dropped.
LEMMA OneBatch ==
  ASSUME TypeInv, NEW d \in Schedulers, NEW b,
         \/ sweep' = sweep
         \/ sweep'[d].batch = b /\ \A c \in Schedulers \ {d} : sweep'[c] = sweep[c],
         \A j \in Jobs : \/ b[j] = None
                         \/ b[j] = sweep[d].batch[j] /\ sweep'[d].loop = sweep[d].loop
                         \/ b[j] = Loaded(j) /\ Picked(sweep'[d].loop, Loaded(j)) /\ job' = job
  PROVE  \A c \in Schedulers, j \in Jobs : BatchMove(c, j)
  BY DEF BatchMove

\* A sweep moves its own batch alone.
LEMMA SweepMoves ==
  ASSUME TypeInv, NEW d \in Schedulers,
         SelectBatch(d) \/ (\E j \in Jobs : ReapOne(d, j)) \/ \E t \in Tokens : Deadlock(d, t)
  PROVE  \A c \in Schedulers, j \in Jobs : BatchMove(c, j)
<1>1. /\ sweep \in [Schedulers -> Sweeps] /\ sweep[d].batch \in [Jobs -> Rows \cup {None}]
      /\ \A l, b : [loop |-> l, batch |-> b].batch = b /\ [loop |-> l, batch |-> b].loop = l
      /\ \A b : /\ [sweep[d] EXCEPT !.batch = b].batch = b
               /\ [sweep[d] EXCEPT !.batch = b].loop = sweep[d].loop
  BY DEF TypeInv, TypeOK, Sweeps
<1>2. CASE SelectBatch(d)
  <2>1. PICK l : sweep' = [sweep EXCEPT ![d] =
           [loop  |-> l, batch |-> [j \in Jobs |-> IF Sweepable(job[j], l) THEN Loaded(j) ELSE None]]]
    BY <1>2 DEF SelectBatch
  <2> DEFINE b == [j \in Jobs |-> IF Sweepable(job[j], l) THEN Loaded(j) ELSE None]
  <2>2. /\ sweep'[d].batch = b /\ sweep'[d].loop = l
        /\ \A c \in Schedulers \ {d} : sweep'[c] = sweep[c]
    BY <1>1, <2>1
  <2>3. \A j \in Jobs : Sweepable(job[j], l) => Picked(l, Loaded(j))
    BY LoadedRow DEF TypeInv, TypeOK, Sweepable, Picked, Busy, Active
  <2>4. \A j \in Jobs : b[j] = None \/ (b[j] = Loaded(j) /\ Picked(sweep'[d].loop, Loaded(j)) /\ job' = job)
    BY <1>2, <2>2, <2>3 DEF SelectBatch
  <2> HIDE DEF b
  <2> QED BY <2>2, <2>4, OneBatch
<1>3. ASSUME NEW i \in Jobs, ReapOne(d, i)
      PROVE  \A c \in Schedulers, j \in Jobs : BatchMove(c, j)
  <2>1. \/ sweep' = [sweep EXCEPT ![d] = [sweep[d] EXCEPT !.batch = [sweep[d].batch EXCEPT ![i] = None]]]
        \/ sweep' = [sweep EXCEPT ![d] = [sweep[d] EXCEPT !.batch = NoBatch]]
    BY <1>1, <1>3 DEF ReapOne
  <2> DEFINE b == [sweep[d].batch EXCEPT ![i] = None]
  <2>2. CASE sweep' = [sweep EXCEPT ![d] = [sweep[d] EXCEPT !.batch = b]]
    <3>1. \A j \in Jobs : b[j] = None \/ b[j] = sweep[d].batch[j]
      BY <1>1
    <3>2. /\ sweep'[d].batch = b /\ sweep'[d].loop = sweep[d].loop
          /\ \A c \in Schedulers \ {d} : sweep'[c] = sweep[c]
      BY <1>1, <2>2
    <3> HIDE DEF b
    <3> QED BY <3>1, <3>2, OneBatch
  <2>3. CASE sweep' = [sweep EXCEPT ![d] = [sweep[d] EXCEPT !.batch = NoBatch]]
    <3>1. \A j \in Jobs : NoBatch[j] = None
      BY DEF NoBatch
    <3>2. sweep'[d].batch = NoBatch /\ \A c \in Schedulers \ {d} : sweep'[c] = sweep[c]
      BY <1>1, <2>3
    <3> QED BY <3>1, <3>2, OneBatch
  <2> QED BY <2>1, <2>2, <2>3
<1>4. ASSUME NEW t \in Tokens, Deadlock(d, t)
      PROVE  \A c \in Schedulers, j \in Jobs : BatchMove(c, j)
  <2>1. sweep' = sweep \/ sweep' = [sweep EXCEPT ![d] = [sweep[d] EXCEPT !.batch = NoBatch]]
    BY <1>4 DEF Deadlock
  <2>2. CASE sweep' = sweep
    BY <2>2 DEF BatchMove
  <2>3. CASE sweep' = [sweep EXCEPT ![d] = [sweep[d] EXCEPT !.batch = NoBatch]]
    <3>1. \A j \in Jobs : NoBatch[j] = None
      BY DEF NoBatch
    <3>2. sweep'[d].batch = NoBatch /\ \A c \in Schedulers \ {d} : sweep'[c] = sweep[c]
      BY <1>1, <2>3
    <3> QED BY <3>1, <3>2, OneBatch
  <2> QED BY <2>1, <2>2, <2>3
<1> QED BY <1>2, <1>3, <1>4

\* Every step moves every batch in one of the ways of BatchMove.
LEMMA BatchesMove ==
  ASSUME TypeInv, [Next]_vars
  PROVE  \A c \in Schedulers, j \in Jobs : BatchMove(c, j)
<1> USE DEF BatchMove
<1>1. ASSUME NEW w \in Workers, NEW j \in Jobs, Claim(w, j) PROVE sweep' = sweep
  BY <1>1 DEF Claim
<1>2. ASSUME NEW t \in Tokens, WorkerStep(t) PROVE sweep' = sweep
  BY <1>2 DEF WorkerStep, ReadStart, CommitStart, HandlerEnds, Rescue, ReadReport,
              CommitComplete, CommitFail
<1>3. ASSUME NEW t \in Tokens, Renew(t) \/ Die(t) PROVE sweep' = sweep
  BY <1>3 DEF Renew, Die
<1>4. ASSUME NEW j \in Jobs, Lapse(j) \/ Overrun(j) \/ Promote(j) \/ DeleteEntry(j)
      PROVE  sweep' = sweep
  BY <1>4 DEF Lapse, Overrun, Promote, DeleteEntry
<1>5. ASSUME NEW u \in Requests, NEW op, NEW j, ReadRequest(u, op, j) PROVE sweep' = sweep
  BY <1>5 DEF ReadRequest
<1>6. ASSUME NEW u \in Requests, CommitCancelOrRetry(u) \/ CommitReplay(u)
      PROVE  sweep' = sweep
  BY <1>6 DEF CommitCancelOrRetry, CommitReplay
<1>7. CASE sweep' = sweep
  BY <1>7
<1>8. CASE UNCHANGED vars
  BY <1>8 DEF vars
<1> QED BY <1>1, <1>2, <1>3, <1>4, <1>5, <1>6, <1>7, <1>8, SweepMoves DEF Next

\* An attempt keeps its owner until the next one is counted.
LEMMA OwnersKept ==
  ASSUME CleanInv, [Next]_vars, NEW j \in Jobs, NEW s \in Rows, NamesOwner(j, s)
  PROVE  NamesOwner(j, s)'
<1>1. s.attempts \in Nat /\ job[j].attempts \in Nat
  BY DEF CleanInv, TypeInv, TypeOK, Rows
<1>2. CASE QuietStep
  BY <1>2 DEF QuietStep, LeasesOnlyCleared, NamesOwner
<1>3. ASSUME NEW w \in Workers, NEW i \in Jobs, Claim(w, i) PROVE NamesOwner(j, s)'
  <2>1. CASE i = j
    BY <1>1, <1>3, <2>1, ClaimedRow DEF NamesOwner
  <2>2. CASE i # j
    BY <1>3, <2>2, ClaimedRow DEF NamesOwner
  <2> QED BY <2>1, <2>2
<1> QED BY <1>2, <1>3, EveryStep DEF CleanInv

\* Whatever a reaper has selected of a clean row is still so.
LEMMA BatchesKept ==
  ASSUME CleanInv, [Next]_vars, NEW c \in Schedulers, NEW j \in Jobs
  PROVE  BatchInv(c, j)'
<1>1. BatchMove(c, j) /\ BatchInv(c, j)
  BY BatchesMove DEF CleanInv, SnapInv
<1>2. /\ job[j] \in Rows /\ sweep[c].batch[j] \in Rows \cup {None}
      /\ job[j].attempts \in Nat
  BY DEF CleanInv, TypeInv, TypeOK, Sweeps, Rows
<1>3. CASE sweep'[c].batch[j] = None
  BY <1>3 DEF BatchInv
<1>4. CASE /\ sweep[c].batch[j] # None /\ sweep'[c].batch[j] = sweep[c].batch[j]
           /\ sweep'[c].loop = sweep[c].loop
  <2>1. Picked(sweep[c].loop, sweep[c].batch[j]) /\ NamesOwner(j, sweep[c].batch[j])
    BY <1>1, <1>4 DEF BatchInv
  <2> DEFINE s == sweep[c].batch[j]
  <2>2. s \in Rows
    BY <1>2, <1>4
  <2> HIDE DEF s
  <2>3. NamesOwner(j, s) => s.attempts <= job'[j].attempts
                            /\ (s.attempts = job'[j].attempts => s.owner = job'[j].owner)
    BY <2>2, OwnersKept DEF NamesOwner
  <2> QED BY <1>4, <2>1, <2>3 DEF s, BatchInv, NamesOwner
<1>5. CASE sweep'[c].batch[j] = Loaded(j) /\ Picked(sweep'[c].loop, Loaded(j)) /\ job' = job
  <2>1. Loaded(j).attempts = job[j].attempts /\ Loaded(j).owner = job[j].owner
    BY LoadedRow DEF CleanInv, TypeInv, TypeOK
  <2> QED BY <1>2, <1>5, <2>1 DEF BatchInv, NamesOwner
<1> QED BY <1>1, <1>3, <1>4, <1>5 DEF BatchMove

\* An accepted request keeps the row it was accepted for.
LEMMA RequestsKept ==
  ASSUME CleanInv, [Next]_vars, NEW u \in Requests
  PROVE  ReqInv(u)'
<1>0. ReqInv(u) /\ req \in [Requests -> Reqs]
  BY DEF CleanInv, SnapInv, TypeInv, TypeOK
<1>1. ASSUME NEW w \in Workers, NEW j \in Jobs, Claim(w, j) PROVE req' = req
  BY <1>1 DEF Claim
<1>2. ASSUME NEW t \in Tokens, WorkerStep(t) PROVE req' = req
  BY <1>2 DEF WorkerStep, ReadStart, CommitStart, HandlerEnds, Rescue, ReadReport,
              CommitComplete, CommitFail
<1>3. ASSUME NEW t \in Tokens, Renew(t) \/ Die(t) PROVE req' = req
  BY <1>3 DEF Renew, Die
<1>4. ASSUME NEW j \in Jobs, Lapse(j) \/ Overrun(j) \/ Promote(j) \/ DeleteEntry(j)
      PROVE  req' = req
  BY <1>4 DEF Lapse, Overrun, Promote, DeleteEntry
<1>5. ASSUME NEW c \in Schedulers, SelectBatch(c) \/ (\E j \in Jobs : ReapOne(c, j))
                                   \/ \E t \in Tokens : Deadlock(c, t)
      PROVE  req' = req
  BY <1>5 DEF SelectBatch, ReapOne, Deadlock
<1>6. ASSUME NEW v \in Requests, NEW op \in {"cancel", "retry", "replay"}, NEW j \in Jobs,
             ReadRequest(v, op, j)
      PROVE  ReqInv(u)'
  <2>1. CASE u = v
    <3>1. req'[u].op = op /\ req'[u].snap = Loaded(j) /\ Accepts(op, j)
      BY <1>0, <1>6, <2>1 DEF ReadRequest
    <3>2. Loaded(j).state = job[j].state
      BY LoadedRow DEF CleanInv, TypeInv, TypeOK
    <3> QED BY <3>1, <3>2 DEF ReqInv, Accepts
  <2>2. CASE u # v
    BY <1>0, <1>6, <2>2 DEF ReadRequest, ReqInv
  <2> QED BY <2>1, <2>2
<1>7. ASSUME NEW v \in Requests, CommitCancelOrRetry(v) \/ CommitReplay(v)
      PROVE  ReqInv(u)'
  <2>1. req' = [req EXCEPT ![v] = IdleReq]
    BY <1>7 DEF CommitCancelOrRetry, CommitReplay
  <2> QED BY <1>0, <2>1 DEF ReqInv, IdleReq
<1>8. CASE req' = req
  BY <1>0, <1>8 DEF ReqInv
<1>9. CASE UNCHANGED vars
  BY <1>0, <1>9 DEF vars, ReqInv
<1> QED BY <1>1, <1>2, <1>3, <1>4, <1>5, <1>6, <1>7, <1>8, <1>9 DEF Next
-----------------------------------------------------------------------------
(* The invariant and the theorems *)

\* At the start every row is clean and nothing has been read.
LEMMA InitClean ==
  ASSUME Init PROVE CleanInv
<1>1. TypeInv /\ LeaseInv
  BY InitInv
<1>2. \A j \in Jobs : /\ job[j].state \in {"QUEUED", "SCHEDULED"} /\ job[j].token = None
                      /\ job[j].attempts = 0 /\ job[j].max = InitialMax /\ job[j].cancel = FALSE
  BY DEF Init, NewRow
<1>3. \A j \in Jobs : ~Busy(job[j])
  BY <1>2 DEF Busy, Active
<1>4. \A j \in Jobs : RowInv(job[j])
  BY <1>2, <1>3, BoundAssumption DEF RowInv, Shape, Committed
<1>5. \A j \in Jobs : JobInv(j)
  BY <1>4 DEF JobInv, Init
<1>6. SnapInv
  BY DEF Init, SnapInv, TaskInv, BatchInv, ReqInv, Alive, Rescues, Unborn, NoBatch, IdleReq
<1>7. \A w \in Workers : BusyAt(w) = {} /\ slots[w] = 0
  BY <1>3 DEF BusyAt, Init
<1>8. SlotInv
  BY <1>7, FS_EmptySet DEF SlotInv
<1> QED BY <1>1, <1>5, <1>6, <1>8 DEF CleanInv

\* Every step keeps the invariant.
LEMMA CleanStep ==
  ASSUME CleanInv, [Next]_vars PROVE CleanInv'
<1>1. TypeInv' /\ LeaseInv'
  BY InvStep DEF CleanInv
<1>2. SnapInv'
  BY TasksKept, BatchesKept, RequestsKept DEF CleanInv, SnapInv
<1> QED BY <1>1, <1>2, KeepsJobsAndSlots DEF CleanInv

\* The row, the history, the snapshots and the slots together: the inductive
\* invariant the theorems below follow from.
THEOREM CleanInvariant == Spec => []CleanInv
<1>1. Init => CleanInv
  BY InitClean
<1>2. CleanInv /\ [Next]_vars => CleanInv'
  BY CleanStep
<1> QED BY <1>1, <1>2, PTL DEF Spec

\* A job no stale commit touched has a token exactly while it is active, and
\* then a lease a reaper can see lapse: start, complete, fail, both reapers,
\* cancel, retry and replay included, with crashes and zombies.
THEOREM Leased == Spec => []LeasedIffActive
<1>1. CleanInv => LeasedIffActive
  BY DEF CleanInv, JobInv, RowInv, Shape, Busy, LeasedIffActive
<1> QED BY <1>1, CleanInvariant, PTL

\* Such a job never spends more than max_attempts, and a waiting one has an
\* attempt left, however often it was retried and replayed by hand.
THEOREM Budgeted == Spec => []AttemptsWithinBudget
<1>1. CleanInv => AttemptsWithinBudget
  BY DEF CleanInv, JobInv, RowInv, Shape, AttemptsWithinBudget
<1> QED BY <1>1, CleanInvariant, PTL

\* Its only open execution is the current attempt of an active job, and only a
\* completed job has a completed execution, its last.
THEOREM HistoryTrue == Spec => []HistoryAgrees
<1>1. CleanInv => HistoryAgrees
  <2> SUFFICES ASSUME CleanInv, NEW e \in executions, Clean(e.job)
               PROVE  /\ e.state \in {"CLAIMED", "RUNNING"} =>
                           job[e.job].state \in Active /\ e.attempt = job[e.job].attempts
                      /\ e.state = "COMPLETED" =>
                           job[e.job].state = "COMPLETED" /\ e.attempt = job[e.job].attempts
    BY DEF HistoryAgrees
  <2>1. e.job \in Jobs
    BY DEF CleanInv, TypeInv, TypeOK, Executions
  <2>2. ExecInv(e, job[e.job])
    BY <2>1 DEF CleanInv, JobInv
  <2> QED BY <2>2 DEF ExecInv, Busy
<1> QED BY <1>1, CleanInvariant, PTL

\* A cancellation accepted for such a job is never lost to a retry.
THEOREM CancelKept == Spec => []CancelIsHonoured
<1>1. CleanInv => CancelIsHonoured
  BY DEF CleanInv, JobInv, RowInv, Shape, CancelIsHonoured
<1> QED BY <1>1, CleanInvariant, PTL

\* While no commit at all was stale, active_jobs of every worker is the number
\* of active rows it owns: a claim takes one slot, and of the report, the two
\* reapers and the aborted halves of both exactly one gives it back.
THEOREM SlotsBalanced == Spec => []SlotsAreBalanced
<1>1. CleanInv => SlotsAreBalanced
  <2>1. \A w \in Workers : BusyAt(w) = {j \in Jobs : job[j].state \in Active /\ job[j].owner = w}
    BY DEF BusyAt, Busy
  <2> QED BY <2>1 DEF CleanInv, SlotInv, SlotsAreBalanced
<1> QED BY <1>1, CleanInvariant, PTL

\* The moves of a failure, one after the other.
LEMMA PathIsLegal ==
  ASSUME NEW a, NEW b, NEW d
  PROVE  /\ ValidatePath(<<a, d>>) <=> Validate(a, d)
         /\ ValidatePath(<<a, b, d>>) <=> Validate(a, b) /\ Validate(b, d)
<1>1. DOMAIN <<a, d>> = 1..2 /\ DOMAIN <<a, b, d>> = 1..3
  OBVIOUS
<1> QED BY <1>1 DEF ValidatePath

\* A busy job may fail of anything but a timeout; of a timeout a running one may
\* if, and only if, that is not the end of it.
LEMMA FailuresAreLegal ==
  ASSUME NEW s, Busy(s), NEW category, Usable(<<>>, RetryPolicy[s.queue])
  PROVE  /\ category # "timeout" => FailureIsLegal(s, category)
         /\ category = "timeout" /\ s.state # "CLAIMED" =>
              (FailureIsLegal(s, category) <=> FinalState(s, category) \notin {"FAILED", "CANCELLED"})
<1> DEFINE final == FinalState(s, category)
<1>1. final \in {"CANCELLED", "RETRY_SCHEDULED", "DEAD_LETTERED", "FAILED"}
  BY DEF FinalState
<1>2. s.state \in {"CLAIMED", "RUNNING", "CANCEL_REQUESTED"}
  BY DEF Busy, Active
<1>3. /\ Validate(s.state, final) /\ Validate(s.state, "FAILED")
      /\ Validate("FAILED", "DEAD_LETTERED")
      /\ s.state # "CLAIMED" => Validate(s.state, "TIMED_OUT")
      /\ Validate("TIMED_OUT", final) <=> final \notin {"FAILED", "CANCELLED"}
  BY <1>1, <1>2 DEF Validate, Allowed
<1>4. CASE category = "timeout"
  <2>1. FailurePath(s, category) = <<s.state, "TIMED_OUT", final>>
    BY <1>4 DEF FailurePath
  <2> QED BY <1>3, <1>4, <2>1, PathIsLegal DEF FailureIsLegal
<1>5. CASE category # "timeout" /\ final = "DEAD_LETTERED"
  <2>1. FailurePath(s, category) = <<s.state, "FAILED", final>>
    BY <1>5 DEF FailurePath
  <2> QED BY <1>3, <1>5, <2>1, PathIsLegal DEF FailureIsLegal
<1>6. CASE category # "timeout" /\ final # "DEAD_LETTERED"
  <2>1. FailurePath(s, category) = <<s.state, final>>
    BY <1>6 DEF FailurePath
  <2> QED BY <1>3, <1>6, <2>1, PathIsLegal DEF FailureIsLegal
<1> QED BY <1>4, <1>5, <1>6

\* An exception of the state machine never takes the last way out of a claim: the
\* lease reaper and the report after an exception can fail every attempt, and the
\* timeout reaper every attempt whose job is retried or dead-lettered, and no other.
THEOREM Endable == Spec => []AttemptsCanBeEnded
<1>1. CleanInv => AttemptsCanBeEnded
  <2> SUFFICES ASSUME CleanInv PROVE AttemptsCanBeEnded
    OBVIOUS
  <2>1. ASSUME NEW c \in Schedulers, NEW j \in Jobs, sweep[c].batch[j] # None,
               Usable(<<>>, RetryPolicy[sweep[c].batch[j].queue])
        PROVE  FailureIsLegal(sweep[c].batch[j], Category(c)) <=>
                 (Category(c) = "timeout" =>
                    FinalState(sweep[c].batch[j], "timeout") \notin {"FAILED", "CANCELLED"})
    <3>1. Picked(sweep[c].loop, sweep[c].batch[j])
      BY <2>1 DEF CleanInv, SnapInv, BatchInv
    <3>2. Category(c) = IF sweep[c].loop = "timeouts" THEN "timeout" ELSE "retryable"
      BY DEF Category
    <3> QED BY <2>1, <3>1, <3>2, FailuresAreLegal DEF Picked
  <2>2. ASSUME NEW t \in Tokens, task[t].pc = "rescue", Clean(task[t].job), Owned(t),
               Usable(<<>>, RetryPolicy[job[task[t].job].queue])
        PROVE  FailureIsLegal(job[task[t].job], task[t].outcome)
    <3>1. task[t].job \in Jobs /\ task[t].outcome # "timeout" /\ t # None
      BY <2>2, BoundAssumption
      DEF CleanInv, SnapInv, TaskInv, Rescues, TypeInv, AtWork, Alive, Tokens
    <3>2. Busy(job[task[t].job])
      BY <2>2, <3>1 DEF CleanInv, JobInv, RowInv, Shape, Owned
    <3> QED BY <2>2, <3>1, <3>2, FailuresAreLegal
  <2> QED BY <2>1, <2>2 DEF AttemptsCanBeEnded
<1> QED BY <1>1, CleanInvariant, PTL
-----------------------------------------------------------------------------
(* The rows of clean jobs implement SerialJobs                               *)

Line(r) == [state |-> r.state, attempts |-> r.attempts, max |-> r.max, cancel |-> r.cancel]

\* The rows and the lost jobs of the refinement mapping.
RowsNow == [j \in Jobs |-> [state |-> job[j].state, attempts |-> job[j].attempts,
                            max |-> job[j].max, cancel |-> job[j].cancel]]
LostNow == {j \in Jobs : clobbered[j]}

\* New jobs are the jobs of the abstract initial state.
LEMMA SerialInit ==
  ASSUME Init PROVE Serial!Init
<1> DEFINE S == {[state |-> st, attempts |-> 0, max |-> InitialMax, cancel |-> FALSE] :
                   st \in {"QUEUED", "SCHEDULED"}}
<1>1. ASSUME NEW j \in Jobs PROVE RowsNow[j] \in S
  <2>1. PICK st \in {"QUEUED", "SCHEDULED"}, q \in Queues : job[j] = NewRow(st, q)
    BY DEF Init
  <2>2. job[j].state = st /\ job[j].attempts = 0 /\ job[j].max = InitialMax /\ job[j].cancel = FALSE
    BY <2>1 DEF NewRow
  <2> QED BY <2>2 DEF RowsNow
<1>2. RowsNow \in [Jobs -> S]
  BY <1>1 DEF RowsNow
<1>3. LostNow = {}
  BY DEF LostNow, Init
<1> QED BY <1>2, <1>3 DEF Serial!Init, RowsNow, LostNow

\* The abstract row of a row.
LEMMA LineType ==
  ASSUME NEW r \in Rows
  PROVE  /\ Line(r) \in Serial!Rows
         /\ Line(r).state = r.state /\ Line(r).attempts = r.attempts
         /\ Line(r).max = r.max /\ Line(r).cancel = r.cancel
  BY DEF Line, Rows, Serial!Rows, States, Serial!States

\* A claimed row is the row before it with the columns of a claim assigned.
LEMMA ClaimAssigns ==
  ASSUME NEW x \in Serial!Rows, NEW y \in Serial!Rows,
         y.state = "CLAIMED", y.attempts = x.attempts + 1, y.max = x.max, y.cancel = x.cancel
  PROVE  y = [x EXCEPT !.state = "CLAIMED", !.attempts = @ + 1]
  BY DEF Serial!Rows

\* The same of a row whose job was asked to stop,
LEMMA CancelAssigns ==
  ASSUME NEW x \in Serial!Rows, NEW y \in Serial!Rows,
         y.attempts = x.attempts, y.max = x.max, y.cancel = TRUE
  PROVE  y = [x EXCEPT !.cancel = TRUE, !.state = y.state]
  BY DEF Serial!Rows

\* and of a row that was queued again by hand.
LEMMA ReopenAssigns ==
  ASSUME NEW x \in Serial!Rows, NEW y \in Serial!Rows,
         y.state = "QUEUED", y.attempts = x.attempts, y.cancel = FALSE
  PROVE  y = [x EXCEPT !.state = "QUEUED", !.cancel = FALSE, !.max = y.max]
  BY DEF Serial!Rows

\* A step on one job changes one row.
LEMMA OneRow ==
  ASSUME TypeInv, NEW j \in Jobs, \A i \in Jobs \ {j} : job'[i] = job[i]
  PROVE  /\ RowsNow' = [RowsNow EXCEPT ![j] = Line(job'[j])]
         /\ RowsNow[j] = Line(job[j])
  BY DEF RowsNow, Line

\* A job is lost by a step that leaves the others alone.
LEMMA LosingIsSerial ==
  ASSUME TypeInv, TypeInv', NEW j \in Jobs, clobbered'[j],
         \A i \in Jobs \ {j} : job'[i] = job[i] /\ clobbered'[i] = clobbered[i]
  PROVE  Serial!Lose(j)
<1>1. RowsNow' \in [Jobs -> Serial!Rows]
  <2>1. job' \in [Jobs -> Rows]
    BY DEF TypeInv, TypeOK
  <2>2. RowsNow' = [i \in Jobs |-> Line(job'[i])]
    BY DEF RowsNow, Line
  <2> QED BY <2>1, <2>2, LineType
<1>2. \A i \in Jobs \ {j} : RowsNow'[i] = RowsNow[i]
  BY DEF RowsNow
<1>3. LostNow' = LostNow \cup {j}
  BY DEF LostNow
<1> QED BY <1>1, <1>2, <1>3 DEF Serial!Lose, RowsNow, LostNow

\* What a step can do to a clean job is a step of the abstract job, or nothing.
LEMMA MovesAreSerial ==
  ASSUME TypeInv, NEW j \in Jobs, Clean(j), ~clobbered'[j], Moves(job[j], job'[j]),
         job'[j] \in Rows, job'[j].attempts = job[j].attempts,
         \A i \in Jobs \ {j} : job'[i] = job[i] /\ clobbered'[i] = clobbered[i]
  PROVE  [Serial!Next]_(Serial!vars)
<1> DEFINE a == job[j]
           b == job'[j]
<1>1. /\ RowsNow' = [RowsNow EXCEPT ![j] = Line(b)] /\ RowsNow[j] = Line(a)
      /\ RowsNow' = [RowsNow EXCEPT ![j] = RowsNow'[j]]
  BY OneRow DEF RowsNow, Line
<1>2. LostNow' = LostNow /\ j \notin LostNow
  BY DEF LostNow, Clean
<1>3. a \in Rows /\ b \in Rows /\ b.attempts = a.attempts
  BY DEF TypeInv, TypeOK
<1>4. /\ Line(a).state = a.state /\ Line(a).attempts = a.attempts /\ Line(a).max = a.max
      /\ Line(a).cancel = a.cancel
      /\ Line(b).state = b.state /\ Line(b).attempts = b.attempts /\ Line(b).max = b.max
      /\ Line(b).cancel = b.cancel
      /\ Line(a) \in Serial!Rows /\ Line(b) \in Serial!Rows
  BY <1>3, LineType
<1>5. a.cancel \in BOOLEAN /\ b.cancel \in BOOLEAN /\ a.attempts \in Nat /\ a.max \in Nat
  BY <1>3 DEF Rows
<1>6. a.cancel = TRUE \/ a.cancel = FALSE
  BY <1>3 DEF Rows
<1> HIDE DEF a, b
<1>7. SUFFICES ASSUME Line(b) # Line(a)
               PROVE  \/ Serial!Promote(j) \/ Serial!Start(j) \/ Serial!Complete(j)
                      \/ Serial!Fail(j) \/ Serial!Cancel(j) \/ Serial!Reopen(j)
  <2>1. CASE Line(b) = Line(a)
    <3>1. RowsNow' = RowsNow
      BY <1>1, <2>1 DEF RowsNow
    <3> QED BY <1>2, <3>1 DEF Serial!vars, RowsNow, LostNow
  <2>2. CASE Line(b) # Line(a)
    BY <1>2, <2>2 DEF Serial!Next, LostNow
  <2> QED BY <2>1, <2>2
<1>8. ASSUME NEW st, b.state = st, b.max = a.max, b.cancel = a.cancel
      PROVE  RowsNow' = [RowsNow EXCEPT ![j] = [RowsNow[j] EXCEPT !.state = st]]
  <2>1. Line(b) = [Line(a) EXCEPT !.state = st]
    BY <1>3, <1>8 DEF Line
  <2> QED BY <1>1, <2>1
<1>9. /\ RowsNow[j].state = a.state /\ RowsNow[j].attempts = a.attempts
      /\ RowsNow[j].max = a.max /\ RowsNow[j].cancel = a.cancel
  BY <1>1, <1>4
<1> USE <1>2, <1>9 DEF Serial!Becomes, RowsNow, LostNow
<1>10. ASSUME b.max = a.max, b.cancel = a.cancel,
              a.state \in {"SCHEDULED", "RETRY_SCHEDULED"}, b.state = "QUEUED"
       PROVE  Serial!Promote(j)
  BY <1>8, <1>10 DEF Serial!Promote
<1>11. ASSUME b.max = a.max, b.cancel = a.cancel,
              a.state = "CLAIMED", ~a.cancel, b.state = "RUNNING"
       PROVE  Serial!Start(j)
  BY <1>8, <1>11 DEF Serial!Start
<1>12. ASSUME b.max = a.max, b.cancel = a.cancel,
              a.state \in {"RUNNING", "CANCEL_REQUESTED"}, b.state = "COMPLETED"
       PROVE  Serial!Complete(j)
  BY <1>8, <1>12 DEF Serial!Complete
<1>13. ASSUME b.max = a.max, b.cancel = a.cancel, Busy(a),
              b.state \in {"CANCELLED", "RETRY_SCHEDULED", "FAILED", "DEAD_LETTERED"},
              b.state = "CANCELLED" <=> a.cancel,
              b.state = "RETRY_SCHEDULED" => a.attempts < a.max
       PROVE  Serial!Fail(j)
  BY <1>8, <1>13 DEF Serial!Fail, Serial!Working, Busy, Active
<1>14. ASSUME b.max = a.max, b.cancel = TRUE,
              \/ a.state \in {"QUEUED", "SCHEDULED", "RETRY_SCHEDULED"} /\ b.state = "CANCELLED"
              \/ a.state = "RUNNING" /\ b.state = "CANCEL_REQUESTED"
              \/ a.state \in {"CLAIMED", "CANCEL_REQUESTED"} /\ b.state = a.state
       PROVE  Serial!Cancel(j)
  <2>1. Line(b) = [Line(a) EXCEPT !.cancel = TRUE, !.state = b.state]
    <3>1. /\ Line(b).cancel = TRUE /\ Line(b).max = Line(a).max
          /\ Line(b).attempts = Line(a).attempts
      BY <1>3, <1>4, <1>14
    <3>2. Line(b) = [Line(a) EXCEPT !.cancel = TRUE, !.state = Line(b).state]
      BY <1>4, <3>1, CancelAssigns, Zenon
    <3>3. Line(b).state = b.state
      BY <1>4
    <3> QED BY <3>2, <3>3, Zenon
  <2>2. b.state = IF a.state \in Serial!Waiting THEN "CANCELLED"
                  ELSE IF a.state = "RUNNING" THEN "CANCEL_REQUESTED" ELSE a.state
    BY <1>14 DEF Serial!Waiting
  <2>3. a.state \in Serial!Waiting \cup Serial!Working
    BY <1>14 DEF Serial!Waiting, Serial!Working
  <2>4. RowsNow' = [RowsNow EXCEPT ![j] = [RowsNow[j] EXCEPT !.cancel = TRUE, !.state = b.state]]
    BY <1>1, <2>1
  <2> QED BY <1>4, <2>2, <2>3, <2>4 DEF Serial!Cancel
<1>15. ASSUME a.state \in {"FAILED", "DEAD_LETTERED", "CANCELLED"}, b.state = "QUEUED",
              b.cancel = FALSE, b.max = OneMoreAttempt(a)
       PROVE  Serial!Reopen(j)
  <2>1. Line(b) = [Line(a) EXCEPT !.state = "QUEUED", !.cancel = FALSE, !.max = b.max]
    <3>1. /\ Line(b).cancel = FALSE /\ Line(b).state = "QUEUED"
          /\ Line(b).attempts = Line(a).attempts
      BY <1>3, <1>4, <1>15
    <3>2. Line(b) = [Line(a) EXCEPT !.state = "QUEUED", !.cancel = FALSE, !.max = Line(b).max]
      BY <1>4, <3>1, ReopenAssigns, Zenon
    <3>3. Line(b).max = b.max
      BY <1>4
    <3> QED BY <3>2, <3>3, Zenon
  <2>2. b.max = Serial!OneMore(RowsNow[j])
    BY <1>4, <1>5, <1>15 DEF OneMoreAttempt, Serial!OneMore
  <2>3. RowsNow' = [RowsNow EXCEPT ![j] = [RowsNow[j] EXCEPT !.state = "QUEUED",
                                      !.cancel = FALSE, !.max = Serial!OneMore(RowsNow[j])]]
    BY <1>1, <2>1, <2>2
  <2> QED BY <1>15, <2>3 DEF Serial!Reopen
<1>16. Moves(a, b)
  BY DEF a, b
<1>17. b.max = a.max /\ b.cancel = a.cancel => b.state # a.state
  BY <1>7, <1>3 DEF Line
<1> QED BY <1>10, <1>11, <1>12, <1>13, <1>14, <1>15, <1>16, <1>17 DEF Moves

\* A claim of a clean job takes an attempt its budget has left.
LEMMA ClaimIsSerial ==
  ASSUME CleanInv, NEW w \in Workers, NEW j \in Jobs, Claim(w, j), Clean(j)
  PROVE  Serial!Claim(j) /\ j \notin LostNow
<1>1. TypeInv /\ job[j] \in Rows /\ job'[j] \in Rows /\ RowInv(job[j])
  <2>1. TypeInv'
    BY InvStep DEF CleanInv, Next
  <2> QED BY <2>1 DEF CleanInv, TypeInv, TypeOK, JobInv
<1>2. /\ RowsNow' = [RowsNow EXCEPT ![j] = Line(job'[j])] /\ RowsNow[j] = Line(job[j])
  BY <1>1, ClaimedRow, OneRow
<1>3. job[j].state = "QUEUED" /\ ~job[j].cancel /\ job[j].attempts < job[j].max
  BY <1>1 DEF Claim, RowInv, Shape
<1>4. Line(job'[j]) = [Line(job[j]) EXCEPT !.state = "CLAIMED", !.attempts = @ + 1]
  <2>1. /\ Line(job'[j]).state = "CLAIMED"
        /\ Line(job'[j]).attempts = Line(job[j]).attempts + 1
        /\ Line(job'[j]).max = Line(job[j]).max /\ Line(job'[j]).cancel = Line(job[j]).cancel
        /\ Line(job[j]) \in Serial!Rows /\ Line(job'[j]) \in Serial!Rows
    BY <1>1, ClaimedRow, LineType
  <2> QED BY <2>1, ClaimAssigns, Zenon
<1>5. RowsNow' = [RowsNow EXCEPT ![j] = [RowsNow[j] EXCEPT !.state = "CLAIMED", !.attempts = @ + 1]]
  BY <1>2, <1>4
<1>6. /\ RowsNow[j].state = "QUEUED" /\ ~RowsNow[j].cancel
      /\ RowsNow[j].attempts < RowsNow[j].max
  BY <1>2, <1>3 DEF Line
<1>7. LostNow' = LostNow /\ j \notin LostNow
  BY DEF Claim, LostNow, Clean
<1> QED BY <1>5, <1>6, <1>7 DEF Serial!Claim, Serial!Becomes, RowsNow, LostNow

\* However reports, reapers, requests and claims interleave, crash and deadlock:
\* as long as no commit on a job was stale, its row runs through the states of
\* one job that is handled by one transaction at a time.
THEOREM Serialized == Spec => CleanJobsAreSerial
<1>1. Init => Serial!Init
  BY SerialInit
<1>2. CleanInv /\ CleanInv' /\ [Next]_vars => [Serial!Next]_(Serial!vars)
  <2> SUFFICES ASSUME CleanInv, CleanInv', [Next]_vars PROVE [Serial!Next]_(Serial!vars)
    OBVIOUS
  <2>1. TypeInv /\ TypeInv' /\ job' \in [Jobs -> Rows]
    BY DEF CleanInv, TypeInv, TypeOK
  <2>2. ASSUME NEW j \in Jobs, Serial!Lose(j) PROVE Serial!Next
    BY <2>2 DEF Serial!Next
  <2>3. ASSUME NEW w \in Workers, NEW j \in Jobs, Claim(w, j) PROVE Serial!Next
    <3>1. CASE Clean(j)
      <4>1. Serial!Claim(j) /\ j \in Jobs \ LostNow
        BY <2>3, <3>1, ClaimIsSerial
      <4> QED BY <4>1 DEF Serial!Next, LostNow
    <3>2. CASE ~Clean(j)
      <4>1. clobbered'[j] /\ clobbered' = clobbered
        BY <2>3, <3>2 DEF Claim, Clean
      <4> QED BY <2>1, <2>2, <2>3, <4>1, ClaimedRow, LosingIsSerial
    <3> QED BY <3>1, <3>2
  <2>4. ASSUME QuietStep, NEW j \in Jobs, Effect(j) PROVE [Serial!Next]_(Serial!vars)
    <3>1. \A i \in Jobs \ {j} : job'[i] = job[i] /\ clobbered'[i] = clobbered[i]
      BY <2>4 DEF Effect
    <3>2. CASE clobbered'[j]
      BY <2>1, <2>2, <3>1, <3>2, LosingIsSerial
    <3>3. CASE ~clobbered'[j]
      <4>1. Clean(j) /\ Moves(job[j], job'[j])
        BY <2>4, <3>3 DEF Effect
      <4>2. job'[j].attempts = job[j].attempts
        BY <2>4 DEF QuietStep, LeasesOnlyCleared
      <4> QED BY <2>1, <3>1, <3>3, <4>1, <4>2, MovesAreSerial
    <3> QED BY <3>2, <3>3
  <2>5. CASE NoEffect
    BY <2>5 DEF NoEffect, Serial!vars
  <2> QED BY <2>3, <2>4, <2>5, StepEffect
<1> QED BY <1>1, <1>2, CleanInvariant, PTL DEF Spec, CleanJobsAreSerial, Serial!Spec
=============================================================================
