---------------------------- MODULE JobLifecycle ----------------------------
(***************************************************************************)
(* One `jobs` row per job and everybody who writes it: worker attempts     *)
(* (worker/main.py, app/services/lifecycle.py), the claim that starts them *)
(* (claiming.py), the scheduler's sweeps (scheduler_service.py) and the    *)
(* API's cancel, retry and DLQ replay (routers/jobs.py, routers/dlq.py).   *)
(*                                                                         *)
(* The database is PostgreSQL at READ COMMITTED.  A service function loads *)
(* the row with a plain SELECT, decides on that snapshot, assigns to the   *)
(* ORM object and commits; the flush is UPDATE ... SET <columns that       *)
(* differ from the snapshot> WHERE id = ....  So every operation is two    *)
(* steps, a read that takes a snapshot and a write that merges it (Flush), *)
(* and any other transaction may commit between the two.  Only the claim,  *)
(* the lease renewal and the promotion are one atomic UPDATE with the      *)
(* state or the token in its WHERE clause.                                 *)
(*                                                                         *)
(* Time is abstract: a lease or an execution timer runs out when it likes, *)
(* and a job that waits for a due date is due whenever it is promoted.     *)
(***************************************************************************)
EXTENDS Integers, Sequences, FiniteSets, StateMachine, Retries

CONSTANTS
  Jobs, Workers, Schedulers, Requests,
  Queues,        \* queues of the project
  DlqQueues,     \* those with dlq_enabled
  RetryPolicy,   \* default_retry_policy of a queue; jobs bring none of their own
  InitialMax,    \* max_attempts of a new job
  MaxClaims,     \* bound: claims in a behaviour, so also lease tokens issued
  MaxRequests,   \* bound: API requests in a behaviour
  Mortal         \* bound: workers whose coroutines may die

ASSUME QueueAssumption == DlqQueues \subseteq Queues
\* create_queue and update_queue accept no other policy.
ASSUME PolicyAssumption == \A q \in Queues : Accepted(RetryPolicy[q])
ASSUME BoundAssumption ==
  /\ InitialMax \in Nat \ {0}  \* ck_job_attempts_min
  /\ MaxClaims \in Nat /\ MaxRequests \in Nat /\ None \notin Nat

VARIABLES
  job,         \* the jobs table
  executions,  \* the job_executions table
  dlq,         \* dead_letter_entries: at most one per job (job_id is unique)
  slots,       \* active_jobs of a row of the workers table
  issued,      \* tokens issued so far; uuid4() gives a token nobody has seen
  task,        \* the worker coroutine _execute() that each claim started
  sweep,       \* the reaper loop of each scheduler process
  req,         \* the API request each request handler is serving
  asked,       \* requests accepted so far (bound only)
  clobbered    \* history: some commit on this job was based on a stale snapshot

vars == <<job, executions, dlq, slots, issued, task, sweep, req, asked, clobbered>>
-----------------------------------------------------------------------------
(* Types *)

\* ACTIVE_STATES of claiming.py, the states a reaper and a renewal accept.
Active == {"CLAIMED", "RUNNING", "CANCEL_REQUESTED"}

Tokens == 1..MaxClaims

Rows == [state: States, queue: Queues, token: Tokens \cup {None},
         owner: Workers \cup {None}, lease: {"none", "live", "lapsed"},
         timer: {"none", "running", "over"}, cancel: BOOLEAN,
         attempts: Nat, max: Nat]

Executions == [job: Jobs, attempt: Nat, worker: Workers, token: Tokens,
               state: States]

Outcomes == {"none", "ok", "timeout", "cancelled", "non_retryable", "retryable"}

\* snap is the row an open transaction has read; None when none is open.
Tasks == [pc: {"unborn", "claimed", "running", "reporting", "rescue", "gone"},
          job: Jobs \cup {None}, worker: Workers \cup {None},
          snap: Rows \cup {None}, outcome: Outcomes]

Sweeps == [loop: {"leases", "timeouts"}, batch: [Jobs -> Rows \cup {None}]]

Reqs == [op: {"idle", "cancel", "retry", "replay"}, job: Jobs \cup {None},
         snap: Rows \cup {None}, entry: Nat \cup {None}]

TypeOK ==
  /\ job \in [Jobs -> Rows]
  /\ executions \in SUBSET Executions
  /\ dlq \in [Jobs -> Nat \cup {None}]
  /\ slots \in [Workers -> Nat]
  /\ issued \in 0..MaxClaims
  /\ task \in [Tokens -> Tasks]
  /\ sweep \in [Schedulers -> Sweeps]
  /\ req \in [Requests -> Reqs]
  /\ asked \in 0..MaxRequests
  /\ clobbered \in [Jobs -> BOOLEAN]

Unborn == [pc |-> "unborn", job |-> None, worker |-> None, snap |-> None,
           outcome |-> "none"]

NoBatch == [j \in Jobs |-> None]

IdleReq == [op |-> "idle", job |-> None, snap |-> None, entry |-> None]

\* create_job commits a row as QUEUED or SCHEDULED (BLOCKED rows wait for the
\* dependency resolver and are not modelled here).
NewRow(st, q) ==
  [state |-> st, queue |-> q, token |-> None, owner |-> None, lease |-> "none",
   timer |-> "none", cancel |-> FALSE, attempts |-> 0, max |-> InitialMax]

Init ==
  /\ job \in [Jobs -> {NewRow(st, q) : st \in {"QUEUED", "SCHEDULED"}, q \in Queues}]
  /\ executions = {}
  /\ dlq = [j \in Jobs |-> None]
  /\ slots = [w \in Workers |-> 0]
  /\ issued = 0
  /\ task = [t \in Tokens |-> Unborn]
  /\ sweep = [c \in Schedulers |-> [loop |-> "timeouts", batch |-> NoBatch]]
  /\ req = [u \in Requests |-> IdleReq]
  /\ asked = 0
  /\ clobbered = [j \in Jobs |-> FALSE]
-----------------------------------------------------------------------------
(* The unit of work: snapshots and the flush *)

\* The row as a transaction loads it.  How old the lease is only the database
\* asks, in the WHERE clause of the reaper; the Python code never does.
Loaded(j) == [job[j] EXCEPT !.lease = IF @ = "lapsed" THEN "live" ELSE @]

\* Mutant: every column of the object is written back.
WriteBack(current, loaded, assigned) == assigned

\* One column: written only if the assignment changed the value loaded.
Column(current, loaded, assigned) == IF assigned = loaded THEN current ELSE assigned

\* The row after the flush of object r, loaded as s, over the committed row.
Flush(row, s, r) ==
  [state    |-> Column(row.state, s.state, r.state),
   queue    |-> Column(row.queue, s.queue, r.queue),
   token    |-> Column(row.token, s.token, r.token),
   owner    |-> Column(row.owner, s.owner, r.owner),
   lease    |-> Column(row.lease, s.lease, r.lease),
   timer    |-> Column(row.timer, s.timer, r.timer),
   cancel   |-> Column(row.cancel, s.cancel, r.cancel),
   attempts |-> Column(row.attempts, s.attempts, r.attempts),
   max      |-> Column(row.max, s.max, r.max)]

\* The columns a decision is based on have changed since the snapshot; lease
\* and timer move by the passing of time and by renewals, and do not count.
Stale(row, s) ==
  \/ row.state # s.state \/ row.token # s.token \/ row.cancel # s.cancel
  \/ row.attempts # s.attempts \/ row.max # s.max

Commit(j, s, r) ==
  /\ job' = [job EXCEPT ![j] = Flush(@, s, r)]
  /\ clobbered' = [clobbered EXCEPT ![j] = @ \/ Stale(job[j], s)]

\* Mutant: only the job row is finished.
RecordNothing(j, s, st) == executions' = executions

\* _current_execution(): found by the attempt number of the snapshot.
RecordExecution(j, s, st) ==
  executions' = {IF e.job = j /\ e.attempt = s.attempts
                 THEN [e EXCEPT !.state = st] ELSE e : e \in executions}

\* Mutant: the slot is not given back.
FreedNever(w) == slots

\* _release_worker_slot, or the UPDATE of reap_expired_leases in its place.  The
\* decrement is made in the database and never goes below zero.
Freed(w) ==
  [v \in Workers |-> IF v = w /\ slots[v] > 0 THEN slots[v] - 1 ELSE slots[v]]
-----------------------------------------------------------------------------
(* _handle_failure: where a failed attempt goes *)

\* Mutant: one attempt too many.
FinalStateOneTooMany(s, category) ==
  IF s.cancel THEN "CANCELLED"
  ELSE IF IsRetryable(category) /\ s.attempts <= s.max THEN "RETRY_SCHEDULED"
  ELSE IF s.queue \in DlqQueues THEN "DEAD_LETTERED"
  ELSE "FAILED"

\* _handle_failure's three-way choice.
FinalState(s, category) ==
  IF s.cancel THEN "CANCELLED"
  ELSE IF IsRetryable(category) /\ s.attempts < s.max THEN "RETRY_SCHEDULED"
  ELSE IF s.queue \in DlqQueues THEN "DEAD_LETTERED"
  ELSE "FAILED"

\* The moves made on the object: through TIMED_OUT for a timeout, through
\* FAILED for a dead letter that is not one.
FailurePath(s, category) ==
  LET final == FinalState(s, category)
  IN  IF category = "timeout" THEN <<s.state, "TIMED_OUT", final>>
      ELSE IF final = "DEAD_LETTERED" THEN <<s.state, "FAILED", final>>
      ELSE <<s.state, final>>

\* No exception on the way: normalize_policy takes the queue's policy as it is,
\* where it was accepted over the defaults, and the moves are legal.
FailureIsLegal(s, category) ==
  Usable(<<>>, RetryPolicy[s.queue]) /\ ValidatePath(FailurePath(s, category))

\* Mutant: the failed row keeps its token, and a mistyped lease.
FailedKeepingToken(s, category) == [s EXCEPT !.state = FinalState(s, category), !.lease = "none"]
FailedWithNullLease(s, category) ==
  [s EXCEPT !.state = FinalState(s, category), !.token = None, !.lease = None]

Failed(s, category) ==
  [s EXCEPT !.state = FinalState(s, category), !.token = None, !.lease = "none"]

\* The INSERT of a second dead letter entry violates the unique job_id.
EntryCollides(j, s, category) ==
  FinalState(s, category) = "DEAD_LETTERED" /\ dlq[j] # None

CommitFailure(j, s, category) ==
  /\ Commit(j, s, Failed(s, category))
  /\ RecordExecution(j, s, IF category = "timeout" THEN "TIMED_OUT"
                           ELSE FinalState(s, category))
  /\ dlq' = IF FinalState(s, category) = "DEAD_LETTERED"
            THEN [dlq EXCEPT ![j] = s.attempts] ELSE dlq
-----------------------------------------------------------------------------
(* Claiming and leases *)

\* Mutant: the claim leaves the previous worker in the row.
ClaimedForNobody(row, w, t) ==
  [row EXCEPT !.state = "CLAIMED", !.token = t, !.lease = "live", !.attempts = @ + 1]

\* The columns the claim's UPDATE sets.
Claimed(row, w, t) ==
  [row EXCEPT !.state = "CLAIMED", !.token = t, !.lease = "live", !.owner = w,
              !.attempts = @ + 1]

\* claim_next_job, once it has chosen row j (which row it may choose, and the
\* limits it counts, are module Claiming).  The candidate rows are locked FOR
\* UPDATE, so the attempt number it computes is that of the row it updates.
\* The guard on executions is the unique (job_id, attempt_number).
Claim(w, j) ==
  /\ issued < MaxClaims
  /\ job[j].state = "QUEUED"
  /\ ~job[j].cancel
  /\ \A e \in executions : e.job = j => e.attempt # job[j].attempts + 1
  /\ issued' = issued + 1
  /\ job' = [job EXCEPT ![j] = Claimed(@, w, issued + 1)]
  /\ executions' = executions \cup
       {[job |-> j, attempt |-> job[j].attempts + 1, worker |-> w,
         token |-> issued + 1, state |-> "CLAIMED"]}
  /\ task' = [task EXCEPT ![issued + 1] =
                [Unborn EXCEPT !.pc = "claimed", !.job = j, !.worker = w]]
  /\ slots' = [slots EXCEPT ![w] = @ + 1]
  /\ UNCHANGED <<dlq, sweep, req, asked, clobbered>>

Alive(t) == task[t].pc \notin {"unborn", "gone"}

\* renew_lease from the heartbeat: one UPDATE keyed on token, worker and state.
\* What it tells the handler about a cancellation or the loss of the lease only
\* makes the handler end.
Renew(t) ==
  /\ Alive(t)
  /\ LET j == task[t].job
     IN /\ job[j].token = t /\ job[j].owner = task[t].worker /\ job[j].state \in Active
        /\ job' = [job EXCEPT ![j].lease = "live"]
  /\ UNCHANGED <<executions, dlq, slots, issued, task, sweep, req, asked, clobbered>>

\* Time passes.  The columns are read only in the states named here.
Lapse(j) ==
  /\ job[j].state \in Active /\ job[j].lease = "live"
  /\ job' = [job EXCEPT ![j].lease = "lapsed"]
  /\ UNCHANGED <<executions, dlq, slots, issued, task, sweep, req, asked, clobbered>>

Overrun(j) ==
  /\ job[j].state \in {"RUNNING", "CANCEL_REQUESTED"} /\ job[j].timer = "running"
  /\ job' = [job EXCEPT ![j].timer = "over"]
  /\ UNCHANGED <<executions, dlq, slots, issued, task, sweep, req, asked, clobbered>>
-----------------------------------------------------------------------------
(* WorkerRunner._execute for the claim that issued token t *)

\* _get_owned raises StaleLeaseError unless the row still carries the token.
Owned(t) == job[task[t].job].token = t

Gone == [Unborn EXCEPT !.pc = "gone"]

\* Errors raised inside the try block of _execute reach `except Exception`,
\* which reports a retryable failure; errors raised in there end the coroutine.
Raise(t, pc) ==
  task' = [task EXCEPT ![t] =
             IF pc = "rescue" THEN Gone
             ELSE [@ EXCEPT !.pc = "rescue", !.snap = None, !.outcome = "retryable"]]

StartTarget(s) == IF s.cancel THEN "CANCELLED" ELSE "RUNNING"

\* start_job up to its first write.
ReadStart(t) ==
  /\ task[t].pc = "claimed" /\ task[t].snap = None
  /\ LET s == Loaded(task[t].job)
     IN \/ /\ ~Owned(t)
           /\ task' = [task EXCEPT ![t] = Gone]
        \/ /\ Owned(t)
           /\ ~Validate(s.state, StartTarget(s))
           /\ Raise(t, task[t].pc)
        \/ /\ Owned(t)
           /\ Validate(s.state, StartTarget(s))
           /\ task' = [task EXCEPT ![t].snap = s]
  /\ UNCHANGED <<job, executions, dlq, slots, issued, sweep, req, asked, clobbered>>

\* start_job's commit: the attempt runs, or ends at once as cancelled (the
\* lease expiry is left in the row).
CommitStart(t) ==
  /\ task[t].pc = "claimed" /\ task[t].snap # None
  /\ LET s == task[t].snap
         j == task[t].job
     IN /\ RecordExecution(j, s, StartTarget(s))
        /\ \/ /\ s.cancel
              /\ Commit(j, s, [s EXCEPT !.state = "CANCELLED", !.token = None])
              /\ task' = [task EXCEPT ![t] = Gone]
              /\ slots' = Freed(task[t].worker)
           \/ /\ ~s.cancel
              /\ Commit(j, s, [s EXCEPT !.state = "RUNNING", !.timer = "running"])
              /\ task' = [task EXCEPT ![t].pc = "running", ![t].snap = None]
              /\ UNCHANGED slots
  /\ UNCHANGED <<dlq, issued, sweep, req, asked>>

ReportIsLegal(s, outcome) ==
  IF outcome = "ok" THEN Validate(s.state, "COMPLETED")
  ELSE FailureIsLegal(s, outcome)

\* complete_job and fail_job up to their first write.
ReadReport(t, pc, outcome) ==
  /\ LET s == Loaded(task[t].job)
     IN \/ /\ ~Owned(t)
           /\ task' = [task EXCEPT ![t] = Gone]
        \/ /\ Owned(t)
           /\ ~ReportIsLegal(s, outcome)
           /\ Raise(t, pc)
        \/ /\ Owned(t)
           /\ ReportIsLegal(s, outcome)
           /\ task' = [task EXCEPT ![t].pc = pc, ![t].outcome = outcome, ![t].snap = s]
  /\ UNCHANGED <<job, executions, dlq, slots, issued, sweep, req, asked, clobbered>>

\* The handler ends and its report begins; nothing outside the coroutine shows
\* the time between.  A result, the expiry of its time and a cancellation are
\* reported inside the try block, an exception by the handler of exceptions.  A
\* handler is cancelled by itself, once the heartbeat has told it to stop, or by
\* asyncio.run when an exception ends the worker's claim loop.
HandlerEnds(t) ==
  /\ task[t].pc = "running"
  /\ \/ \E o \in {"ok", "timeout", "cancelled"} : ReadReport(t, "reporting", o)
     \/ \E o \in {"non_retryable", "retryable"} : ReadReport(t, "rescue", o)

\* `except Exception` reports the error it caught.
Rescue(t) ==
  /\ task[t].pc = "rescue" /\ task[t].snap = None
  /\ ReadReport(t, "rescue", task[t].outcome)

Completed(s) ==
  [s EXCEPT !.state = "COMPLETED", !.token = None, !.lease = "none"]

CommitComplete(t) ==
  /\ task[t].pc = "reporting" /\ task[t].snap # None /\ task[t].outcome = "ok"
  /\ Commit(task[t].job, task[t].snap, Completed(task[t].snap))
  /\ RecordExecution(task[t].job, task[t].snap, "COMPLETED")
  /\ task' = [task EXCEPT ![t] = Gone]
  /\ slots' = Freed(task[t].worker)
  /\ UNCHANGED <<dlq, issued, sweep, req, asked>>

CommitFail(t) ==
  /\ task[t].pc \in {"reporting", "rescue"}
  /\ task[t].snap # None /\ task[t].outcome # "ok"
  /\ LET s == task[t].snap
         j == task[t].job
         category == task[t].outcome
     IN \/ /\ EntryCollides(j, s, category)
           /\ Raise(t, task[t].pc)
           /\ UNCHANGED <<job, executions, dlq, slots, clobbered>>
        \/ /\ ~EntryCollides(j, s, category)
           /\ CommitFailure(j, s, category)
           /\ task' = [task EXCEPT ![t] = Gone]
           /\ slots' = Freed(task[t].worker)
  /\ UNCHANGED <<issued, sweep, req, asked>>

\* The coroutine ends where it is and its open transaction rolls back: its
\* process dies, or asyncio.run cancels it outside the handler.
Die(t) ==
  /\ Alive(t) /\ task[t].worker \in Mortal
  /\ task' = [task EXCEPT ![t] = Gone]
  /\ UNCHANGED <<job, executions, dlq, slots, issued, sweep, req, asked, clobbered>>
-----------------------------------------------------------------------------
(* The scheduler's loops *)

\* promote_due_jobs: an UPDATE with the state in its WHERE clause.
Promote(j) ==
  /\ job[j].state \in {"SCHEDULED", "RETRY_SCHEDULED"}
  /\ job' = [job EXCEPT ![j].state = "QUEUED"]
  /\ UNCHANGED <<executions, dlq, slots, issued, task, sweep, req, asked, clobbered>>

\* Mutant: only running jobs are swept.
SweepableIfRunning(row, loop) ==
  /\ row.state \in {"RUNNING", "CANCEL_REQUESTED"}
  /\ IF loop = "leases" THEN row.lease = "lapsed" ELSE row.timer = "over"

\* Mutant: the timeouts of claimed jobs too, with the timer of the attempt before.
SweepableOnceClaimed(row, loop) ==
  /\ row.state \in Active
  /\ IF loop = "leases" THEN row.lease = "lapsed" ELSE row.timer = "over"

\* The WHERE clauses of the two reapers.
Sweepable(row, loop) ==
  IF loop = "leases"
  THEN row.state \in Active /\ row.lease = "lapsed"
  ELSE row.state \in {"RUNNING", "CANCEL_REQUESTED"} /\ row.timer = "over"

\* The SELECT at the head of reap_expired_leases or reap_timed_out_jobs: the
\* loops take turns, and the whole batch is read before the first row of it is
\* handled.
SelectBatch(c) ==
  /\ sweep[c].batch = NoBatch
  /\ LET loop == IF sweep[c].loop = "leases" THEN "timeouts" ELSE "leases"
     IN sweep' = [sweep EXCEPT ![c] =
          [loop  |-> loop,
           batch |-> [j \in Jobs |-> IF Sweepable(job[j], loop) THEN Loaded(j) ELSE None]]]
  /\ UNCHANGED <<job, executions, dlq, slots, issued, task, req, asked, clobbered>>

Category(c) == IF sweep[c].loop = "timeouts" THEN "timeout" ELSE "retryable"

\* One row of the batch, in its own transaction.  An exception ends the loop
\* for this tick: run_once logs it and rolls back.
ReapOne(c, j) ==
  /\ sweep[c].batch[j] # None
  /\ LET s == sweep[c].batch[j]
         ok == FailureIsLegal(s, Category(c)) /\ ~EntryCollides(j, s, Category(c))
     IN \/ /\ ok
           /\ CommitFailure(j, s, Category(c))
           /\ slots' = Freed(s.owner)
           /\ sweep' = [sweep EXCEPT ![c].batch[j] = None]
        \/ /\ ~ok
           /\ sweep' = [sweep EXCEPT ![c].batch = NoBatch]
           /\ UNCHANGED <<job, executions, dlq, slots, clobbered>>
  /\ UNCHANGED <<issued, task, req, asked>>

\* A report locks the job row and then the worker row, reap_expired_leases the
\* worker row and then the job row.  PostgreSQL aborts one of the two.
Deadlock(c, t) ==
  /\ task[t].snap # None
  /\ \/ task[t].pc \in {"reporting", "rescue"}
     \/ task[t].pc = "claimed" /\ task[t].snap.cancel
  /\ sweep[c].loop = "leases"
  /\ sweep[c].batch[task[t].job] # None
  /\ sweep[c].batch[task[t].job].owner = task[t].worker
  /\ \/ /\ Raise(t, task[t].pc)
        /\ UNCHANGED sweep
     \/ /\ sweep' = [sweep EXCEPT ![c].batch = NoBatch]
        /\ UNCHANGED task
  /\ UNCHANGED <<job, executions, dlq, slots, issued, req, asked, clobbered>>
-----------------------------------------------------------------------------
(* API requests: cancel_job, retry_job, _replay *)

Accepts(op, j) ==
  CASE op = "cancel" -> job[j].state \notin Terminal \cup {"FAILED"}
    [] op = "retry"  -> job[j].state \in {"FAILED", "DEAD_LETTERED", "TIMED_OUT", "CANCELLED"}
    [] op = "replay" -> dlq[j] # None

ReadRequest(u, op, j) ==
  /\ req[u].op = "idle" /\ asked < MaxRequests
  /\ Accepts(op, j)
  /\ req' = [req EXCEPT ![u] = [op |-> op, job |-> j, snap |-> Loaded(j),
                              entry |-> IF op = "replay" THEN dlq[j] ELSE None]]
  /\ asked' = asked + 1
  /\ UNCHANGED <<job, executions, dlq, slots, issued, task, sweep, clobbered>>

CancellableDirect == {"CREATED", "QUEUED", "SCHEDULED", "BLOCKED", "RETRY_SCHEDULED"}

\* Mutant: a claimed job is cancelled like a waiting one.
CancelledIfClaimed(s) ==
  IF s.state \in CancellableDirect \cup {"CLAIMED"}
  THEN [s EXCEPT !.cancel = TRUE, !.state = "CANCELLED", !.token = None]
  ELSE IF s.state = "RUNNING"
  THEN [s EXCEPT !.cancel = TRUE, !.state = "CANCEL_REQUESTED"]
  ELSE [s EXCEPT !.cancel = TRUE]

\* request_cancel: a waiting job is cancelled, a running one is asked to stop,
\* a claimed one only gets the flag.
Cancelled(s) ==
  IF s.state \in CancellableDirect
  THEN [s EXCEPT !.cancel = TRUE, !.state = "CANCELLED", !.token = None]
  ELSE IF s.state = "RUNNING"
  THEN [s EXCEPT !.cancel = TRUE, !.state = "CANCEL_REQUESTED"]
  ELSE [s EXCEPT !.cancel = TRUE]

OneMoreAttempt(s) == IF s.max < s.attempts + 1 THEN s.attempts + 1 ELSE s.max

Retried(s) ==
  [s EXCEPT !.state = "QUEUED", !.cancel = FALSE, !.max = OneMoreAttempt(s)]

\* _replay may move the job to another queue of the project first, also when
\* the job is no longer dead-lettered.
Replayed(s, q) ==
  IF s.state = "DEAD_LETTERED"
  THEN [s EXCEPT !.queue = q, !.state = "QUEUED", !.max = OneMoreAttempt(s)]
  ELSE [s EXCEPT !.queue = q]

CommitCancelOrRetry(u) ==
  /\ req[u].op \in {"cancel", "retry"}
  /\ Commit(req[u].job, req[u].snap,
            IF req[u].op = "cancel" THEN Cancelled(req[u].snap) ELSE Retried(req[u].snap))
  /\ req' = [req EXCEPT ![u] = IdleReq]
  /\ UNCHANGED <<executions, dlq, slots, issued, task, sweep, asked>>

\* The entry is marked resolved in the same flush, which fails if the entry
\* has been deleted meanwhile.
CommitReplay(u) ==
  /\ req[u].op = "replay"
  /\ \/ /\ dlq[req[u].job] = req[u].entry
        /\ \E q \in Queues : Commit(req[u].job, req[u].snap, Replayed(req[u].snap, q))
     \/ /\ dlq[req[u].job] # req[u].entry
        /\ UNCHANGED <<job, clobbered>>
  /\ req' = [req EXCEPT ![u] = IdleReq]
  /\ UNCHANGED <<executions, dlq, slots, issued, task, sweep, asked>>

\* delete_entry of routers/dlq.py, at any time.  The job can be dead-lettered
\* again after it, and a replay that has the entry in hand fails.
DeleteEntry(j) ==
  /\ dlq[j] # None
  /\ dlq' = [dlq EXCEPT ![j] = None]
  /\ UNCHANGED <<job, executions, slots, issued, task, sweep, req, asked, clobbered>>
-----------------------------------------------------------------------------
WorkerStep(t) ==
  \/ ReadStart(t) \/ CommitStart(t) \/ HandlerEnds(t)
  \/ Rescue(t) \/ CommitComplete(t) \/ CommitFail(t)

Next ==
  \/ \E w \in Workers, j \in Jobs : Claim(w, j)
  \/ \E t \in Tokens : WorkerStep(t) \/ Renew(t) \/ Die(t)
  \/ \E j \in Jobs : Lapse(j) \/ Overrun(j) \/ Promote(j) \/ DeleteEntry(j)
  \/ \E c \in Schedulers : SelectBatch(c) \/ \E j \in Jobs : ReapOne(c, j)
  \/ \E c \in Schedulers, t \in Tokens : Deadlock(c, t)
  \/ \E u \in Requests, op \in {"cancel", "retry", "replay"}, j \in Jobs :
       ReadRequest(u, op, j)
  \/ \E u \in Requests : CommitCancelOrRetry(u) \/ CommitReplay(u)

Spec == Init /\ [][Next]_vars

\* A coroutine that has not died makes progress, the scheduler loops run again
\* and again and get through their batch, an accepted request is served, timers
\* run out.  A lease is only bound to run out when nobody is left to renew it.
\* Nothing makes a death, a deadlock, a renewal or an API request happen.
Abandoned(j) == \A t \in Tokens : Alive(t) => job[j].token # t

Fairness ==
  /\ \A j \in Jobs : /\ WF_vars(\E w \in Workers : Claim(w, j))
                     /\ WF_vars(Promote(j))
                     /\ WF_vars(Abandoned(j) /\ Lapse(j))
                     /\ WF_vars(Overrun(j))
  /\ \A t \in Tokens : WF_vars(WorkerStep(t))
  /\ \A c \in Schedulers : WF_vars(SelectBatch(c) \/ \E j \in Jobs : ReapOne(c, j))
  /\ \A u \in Requests : WF_vars(CommitCancelOrRetry(u) \/ CommitReplay(u))

FairSpec == Spec /\ Fairness
-----------------------------------------------------------------------------
(* What holds whatever commits race *)

\* A row that carries a token carries the token, and names the worker, of the
\* attempt the row counts: no interleaving of stale commits can leave the row
\* leased to an earlier attempt or to another worker (claiming.py:161-181 sets
\* the four columns together, everybody else only ever clears the token).
LeaseNamesCurrentAttempt ==
  \A j \in Jobs : job[j].token # None =>
    \E e \in executions : /\ e.job = j /\ e.attempt = job[j].attempts
                          /\ e.token = job[j].token /\ e.worker = job[j].owner

\* The executions of a job are numbered 1..attempt_count without gap or
\* repetition, each with a token of its own: the unique (job_id,
\* attempt_number) can never abort a claim (models.py, claiming.py:178-181).
AttemptsAreRecorded ==
  /\ \A e \in executions : e.attempt \in 1..job[e.job].attempts
  /\ \A j \in Jobs : \A n \in 1..job[j].attempts :
       \E e \in executions : e.job = j /\ e.attempt = n
  /\ \A e, f \in executions :
       (e.job = f.job /\ e.attempt = f.attempt) \/ e.token = f.token => e = f

\* A token taken from a row never returns to it, and attempts are never
\* uncounted: a worker that lost its lease has lost it for good, although every
\* writer writes from a snapshot that may still hold the old token.
LostLeaseStaysLost ==
  [][\A j \in Jobs :
       /\ job'[j].token # job[j].token => job'[j].token \in {None, issued + 1}
       /\ job'[j].attempts >= job[j].attempts]_vars

\* The leases implement the fencing specification: each claim is a grant with a
\* number of its own and a token never seen before, and whatever else is
\* committed, stale or not, can only revoke (lifecycle.py:32-36, claiming.py:158-181).
Leases == INSTANCE Fencing WITH
  grants <- {[job |-> e.job, number |-> e.attempt, worker |-> e.worker,
              token |-> e.token] : e \in executions},
  count  <- [j \in Jobs |-> job[j].attempts],
  holder <- [j \in Jobs |-> job[j].token]

FencedLeases == Leases!Spec
-----------------------------------------------------------------------------
(* What holds as long as no commit on the row was based on a stale snapshot; *)
(* crashes, lapses, retries, sweeps and zombies included                     *)

Clean(j) == ~clobbered[j]

\* An attempt is never spent beyond max_attempts, which every manual retry and
\* replay raises by one at most (lifecycle.py:175, jobs.py:211, dlq.py:47).
AttemptsWithinBudget ==
  \A j \in Jobs : Clean(j) =>
    /\ job[j].attempts <= job[j].max
    /\ job[j].state \in {"QUEUED", "SCHEDULED", "RETRY_SCHEDULED"} =>
         job[j].attempts < job[j].max

\* Exactly the active rows are leased: a finished or waiting job has no token a
\* late worker could present, and an active one always has an owner a reaper
\* can take it from.
LeasedIffActive ==
  \A j \in Jobs : Clean(j) =>
    /\ job[j].token # None <=> job[j].state \in Active
    /\ job[j].state \in Active => job[j].lease # "none"

\* The execution history agrees with the row: the only open execution is the
\* current attempt of an active job, and a job has a completed execution only
\* if it is completed, by its last attempt.
HistoryAgrees ==
  \A e \in executions : Clean(e.job) =>
    /\ e.state \in {"CLAIMED", "RUNNING"} =>
         job[e.job].state \in Active /\ e.attempt = job[e.job].attempts
    /\ e.state = "COMPLETED" =>
         job[e.job].state = "COMPLETED" /\ e.attempt = job[e.job].attempts

\* A job with a pending cancellation request is on its way to CANCELLED or was
\* completed first; it is never put back for another attempt.
CancelIsHonoured ==
  \A j \in Jobs : Clean(j) /\ job[j].cancel =>
    job[j].state \in {"CLAIMED", "CANCEL_REQUESTED", "CANCELLED", "COMPLETED"}

\* The worker monitor's active_jobs counts the active rows of the worker: the
\* claim takes a slot, and of the report, the reapers and the aborted halves of
\* both exactly one gives it back (lifecycle.py:119-130, scheduler_service.py:121-123).
SlotsAreBalanced ==
  (\A j \in Jobs : Clean(j)) =>
    \A w \in Workers :
      slots[w] = Cardinality({j \in Jobs : job[j].state \in Active /\ job[j].owner = w})

\* Who can end an attempt, and who never can.  A failure the lease reaper has
\* selected, or that the report of an exception is left with, is refused by no
\* edge of the state machine.  One of the timeout reaper is, in every sweep
\* again, exactly where the job would end at once, as FAILED or CANCELLED,
\* which TIMED_OUT has no edge to (lifecycle.py:179-218, state_machine.py:25).
AttemptsCanBeEnded ==
  /\ \A c \in Schedulers, j \in Jobs :
       LET s == sweep[c].batch[j]
       IN  s # None /\ Usable(<<>>, RetryPolicy[s.queue]) =>
             FailureIsLegal(s, Category(c)) <=>
               (Category(c) = "timeout" => FinalState(s, "timeout") \notin {"FAILED", "CANCELLED"})
  /\ \A t \in Tokens :
       LET j == task[t].job
       IN  /\ task[t].pc = "rescue" /\ Clean(j) /\ Owned(t)
           /\ Usable(<<>>, RetryPolicy[job[j].queue])
           => FailureIsLegal(job[j], task[t].outcome)

\* A clean job's row changes as if every operation ran alone on it, from its
\* read to its commit: an attempt is claimed while the budget has one left,
\* starts once and ends once, by one of its report, its start and the reapers;
\* COMPLETED is final; an ended job is put back by a request alone, with one
\* more attempt at most (docs/ARCHITECTURE.md:76-78, lifecycle.py:140-300).
Serial == INSTANCE SerialJobs WITH
  row  <- [j \in Jobs |-> [state |-> job[j].state, attempts |-> job[j].attempts,
                           max |-> job[j].max, cancel |-> job[j].cancel]],
  lost <- {j \in Jobs : clobbered[j]}

CleanJobsAreSerial == Serial!Spec
-----------------------------------------------------------------------------
(* Liveness under FairSpec *)

\* A claimed job does not stay claimed: its attempt reports, or a reaper takes
\* the row from a dead worker (scheduler_service.py:11-12).  With a DLQ it does
\* not hold: a job is dead-lettered once only.
CleanClaimsAreResolved ==
  \A j \in Jobs : (Clean(j) /\ job[j].state \in Active)
                    ~> (~Clean(j) \/ job[j].state \notin Active)
-----------------------------------------------------------------------------
(* What the documents promise and the races break *)

\* lifecycle.py:4-8, docs/ARCHITECTURE.md:129-131: a worker whose token was
\* rotated can never complete or fail the job.
StaleReportsAreRejected ==
  [][\A t \in Tokens :
       /\ task[t].pc \in {"reporting", "rescue"} /\ task'[t].pc = "gone"
       /\ job' # job
       => job[task[t].job].token = t]_vars
=============================================================================
