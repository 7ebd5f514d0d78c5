# ChronosGrid in TLA+

ChronosGrid is a distributed job scheduler: a FastAPI application, worker
processes and scheduler processes that share nothing but a PostgreSQL database.
There is no broker and no leader. What makes it correct is therefore what its
transactions do to each other, and this is what these modules are about.

The modules are written from `backend/app`, `backend/worker` and
`backend/scheduler`. A comment in a module names the function a definition
translates; `PROJECT.json` maps every definition to its lines.

## 1. The system

| Part | State | Operations | Talks to |
|---|---|---|---|
| Job lifecycle (`services/lifecycle.py`, `state_machine.py`) | `jobs`, `job_executions`, `dead_letter_entries` | start, renew, complete, fail, request cancel | called by workers, reapers and the API; calls the dependency resolver and enqueues webhooks |
| Claiming (`services/claiming.py`) | queued and active `jobs`, limits of queues, workers, projects | `claim_next_job` | called by each worker's claim loop |
| Workflows (`services/jobs.py`, `lifecycle.py`) | `workflows`, `job_dependencies` | `detect_cycle`, `create_workflow`, `resolve_dependents`, `_update_workflow` | runs after every commit that ends a job |
| Job creation (`services/jobs.py`) | `usage_counters`, idempotency keys | quota, single jobs, batches | API, recurring jobs, workflows |
| Recurring jobs (`scheduler_service.py`, `routers/recurring.py`) | `recurring_jobs.next_run_at` | materialise, advance, toggle | every scheduler process, creates jobs |
| Webhooks (`lifecycle.py`, `scheduler_service.py`, `routers/webhooks.py`) | `webhook_deliveries`, `webhook_endpoints` | enqueue, dispatch, replay, delete | every scheduler process; remote HTTP receivers |
| Scheduler service (`scheduler_service.py`) | none of its own | promotion, two reapers, materialisation, dispatch, dead workers, pruning, one after the other for ever | the tables above |
| Worker runner (`worker/main.py`, `worker_service.py`, `routers/workers.py`) | `workers`; in the process's memory the draining event, the active tasks and the contexts | register, heartbeat, claim loop, execute, drain | claiming, lifecycle; the sweep of dead workers writes the same row |
| Retry policies (`retries.py`) | none | what is retried, and after how long | lifecycle |
| Queue configuration (`routers/queues.py`, `routers/projects.py`) | `queues`, limits of `projects` | create, edit, pause, resume, delete | read by claiming |
| Event bus, WebSocket, audit log, metrics, AI analysis, authentication, handlers, frontend | logs and accounts | see section 7 | observers of the above |

### What is hard

The database runs at READ COMMITTED and the code uses an ORM. A service function
loads a row with a plain SELECT, decides on that snapshot, assigns attributes and
commits; the commit issues `UPDATE ... SET <the columns whose value changed>
WHERE id = ...`. Only five statements carry their condition with them: the claim,
the lease renewal, the promotion, the recurring cursor and the usage counter.
Everything else is a read and, any number of foreign commits later, a write that
merges an old decision into a new row **column by column**. So:

- a worker, two reapers, a second scheduler and an API request can all decide
  about the same job at once;
- a reaper reads a whole batch, then handles it row by row without looking again;
- work continues after the commit (dependents, workflow row, webhooks), so that a
  crash leaves it undone;
- limits are counted before the lock that is meant to protect the count;
- any number of schedulers run the same loops with no lock between them;
- a failed flush rolls back and expires the session, which ends the loop it was in;
- some transactions lock a job and then its worker, a reaper's the worker of one job
  and then the next job, and PostgreSQL aborts one of the two;
- within a worker process, claim loop, heartbeat and jobs are coroutines that look at
  each other's variables between awaits.

### What has to hold

| Part | Correct if |
|---|---|
| Lifecycle | a row is leased to its current attempt and to nobody else; attempts are numbered and budgeted; a claimed job is always resolved; a cancellation is honoured; a worker's slots are counted right |
| Claiming | one worker per attempt; per-worker limits exact; shared limits exceeded by a bounded amount |
| Workflows | cyclic graphs refused; no blocked job is forgotten; the workflow's state agrees with its jobs |
| Worker runner | no claimed job falls out of the process's memory; a drain ends; the worker's row tells whether it is there; every lease ends |
| Creation | every job charged; quota exceeded by a bounded amount; one job per key |
| Recurring jobs | every tick that was due first produces its job; the cursor never goes back |
| Webhooks | no outcome recorded that did not happen; an endpoint disabled for failures in a row only; every delivery settles |

`PROJECT.json` lists the places where each of these is at risk under `hazards`.

## 2. The modules

| Module | Models | Size of its steps |
|---|---|---|
| `StateMachine` | the table of edges and `validate` | operators only |
| `Retries` | retry policies and the delays they give | operators only |
| `JobLifecycle` | one row per job with executions, dead letter and slot; workers, schedulers, API requests | a read or a commit |
| `Fencing` | what a lease promises, without rows or snapshots | a grant or a revocation |
| `SerialJobs` | what the documents draw of a job, without snapshots, tokens or leases | one whole operation on one row |
| `JobLifecycleProofs` | theorems about `JobLifecycle` that hold whatever races | |
| `CleanJobsProofs` | theorems about the rows of `JobLifecycle` no stale commit has touched; extends the former | |
| `WorkerRunner` | one process per worker, its row, and the others who write that row | from one await to the next |
| `Claiming` | the claim transaction, and requests about queues and quotas | scan, decide, lock, commit |
| `Workflow` | graph, creation, resolvers with their recursive calls | a read or a commit |
| `Webhooks` | deliveries, endpoints, dispatcher sessions | select, take, post, commit |
| `Creation` | usage counter, keys, recurring jobs | one SQL statement that matters |
| `WorkerRunnerProofs`, `ClaimingProofs`, `WorkflowProofs`, `WebhooksProofs`, `CreationProofs` | theorems about these modules | |
| `CycleProofs` | that `detect_cycle` is right and that workflows do not stall; extends `WorkflowProofs` | |
| `MC...` | values of the constants for TLC | |

`JobLifecycle` extends `StateMachine` and `Retries`. It implements two abstract
specifications: `Fencing` under the refinement mapping `Leases`, whatever races, and
`SerialJobs` under the mapping `Serial`, which gives up the jobs whose row a stale commit
has touched. The others meet it at an abstraction: `WorkerRunner`
has a job as queued, active or done, and its reports as one step, because its subject
is what a process forgets and not who reports first; `Claiming` has one state `active` for CLAIMED, RUNNING and CANCEL_REQUESTED and
leaves attempts and leases to `JobLifecycle`, whose `Claim` is in turn the last step
of `Claiming`. `Workflow` has one state `open` for everything between release and
end. Each of these states only how a job moves between groups, which is what that
component depends on.

### How state and actions correspond to the code

**JobLifecycle.** `job[j]` is the `jobs` row: state, queue, `lease_token`,
`claimed_by_worker_id` (`owner`), `cancel_requested`, `attempt_count`,
`max_attempts`; `lease` and `timer` say whether `lease_expires_at` and the execution
timeout are set and past. `task[t]` is the coroutine `WorkerRunner._execute` started
by the claim that issued token `t`; tokens are numbers because `uuid4` is used only
for never repeating. `snap` is the row an open transaction has loaded (`Loaded`),
without the age of its lease: whether a lease has expired is asked by the reaper's WHERE
clause alone and never of a loaded object. `Flush` is the ORM's commit: a column is
written if its value differs from the snapshot.

| Action | Code |
|---|---|
| `Claim`, `Renew` | the UPDATEs of `claim_next_job` and `renew_lease` |
| `ReadStart`, `CommitStart` | `start_job` |
| `HandlerEnds`, `Raise` | `_execute`: the three reports inside its try block, and `except Exception` |
| `ReadReport`, `CommitComplete`, `CommitFail` | `complete_job`, `fail_job` with `_handle_failure` |
| `Promote`, `SelectBatch`, `ReapOne` | `promote_due_jobs`, `reap_expired_leases`, `reap_timed_out_jobs` |
| `ReadRequest`, `CommitCancelOrRetry`, `CommitReplay`, `DeleteEntry` | `cancel_job`, `retry_job`, `_replay`, `delete_entry` |
| `Die`, `Lapse`, `Overrun` | a coroutine that ends without a report, of a crash or a cancelled loop; the clock |
| `Deadlock`, `Rescue` | a completion or failure that PostgreSQL aborts, and the report of the exception that follows |

`StateMachine.ValidatePath` judges the moves made on an object within one
transaction. A refused move raises, and the model follows the exception to where it
is caught: into the worker's second report, or out of the reaper's loop, which drops
the rest of the batch. The same goes for the unique `job_id` of a dead letter.

`slots[w]` is `active_jobs` of the worker's row: the claim adds one, `Freed` takes one
away in the transactions of the report and of the reapers, and never below 0.
A failure asks `Retries` whether the queue's policy is usable before it looks at anything
else; the delay itself is left out, a retry is due whenever it is promoted.

`clobbered[j]` is a history variable: some commit on `j` was based on a snapshot
whose state, token, cancel flag, attempts or budget had changed since. The code
promises more than it can keep for such rows. The properties come in two groups for
that reason: those that hold **whatever** races (`LeaseNamesCurrentAttempt`,
`AttemptsAreRecorded`, `LostLeaseStaysLost`), and those that hold **as long as the
row is clean**, with crashes, lapsed leases, sweeps, retries and zombies included.

**WorkerRunner.** `proc[w]` is the process: where its claim loop is, the job it has just
been given (`hand`), the draining event, `_active` and `_contexts`. `beat[w]` is the
heartbeat task with the list of contexts it is renewing, `run[t]` the coroutine of a
claim. `row[w]` is the row of the `workers` table, of which `fresh` says whether the last
heartbeat is recent; `open` holds the status each transaction has loaded and will write
if it assigns another one (`Stored`).

| Action | Code |
|---|---|
| `Register`, `Terminate` | `register_worker` and the start of the heartbeat; SIGTERM or SIGINT |
| `ReadOwnRow`, `ClaimOne`, `ClaimNone`, `Spawn` | the awaits of `_claim_loop` |
| `StopClaiming`, `FinishJobs`, `JoinHeartbeat`, `Close` | the rest of `run()` |
| `BeatLoad`, `BeatStore`, `RenewNext`, `BeatSleep`, `BeatEnd` | `_heartbeat_loop` with `heartbeat` and `renew_lease` |
| `Report`, `ReportFails`, `Leave` | the try block of `_execute`, its exceptions, its finally clause |
| `BeatFails`, `ClaimLoopFails`, `TearDown`, `Crash` | an exception in either loop, what `asyncio.run` does then, process death |
| `OpenDrain`, `CommitDrain`, `SelectSilent`, `MarkOffline` | the drain endpoint, `mark_dead_workers` |

`faulted[w]` is a history: a property about workers without faults is about those with
`faulted[w] = 0`.

**Claiming.** `wk[w]` is the transaction of a worker's claim: the rows its two SELECT
... FOR UPDATE SKIP LOCKED hold, the limits of their queues as they were then, and its
pick. `line` is the order by `available_at`; `waited` the aging boost; `recent` the
claims of the last minute. `Leave`, `Cancel`, `Requeue`, `Arrive` are what the rest of the
system does to the jobs, `CreateQueue`, `UpdateQueue`, `PauseOrResume`, `DeleteQueue` and
`UpdateQuotas` what requests do to queues and projects. `under` is a history: the limits
an active job was admitted under. A limit that can be lowered at any time cannot bound
the jobs that run now, so the properties say what it still does: one of the jobs that run
was admitted under a limit that bounds them all.

**Workflow.** `res[n]` is the call stack of `resolve_dependents` that the end of node
`n` started: the code recurses into a dependent it has skipped or cancelled before
it goes on to the next. `unresolved` (an end that was not passed on, because of a
crash, a link that was not there yet, or the cancelled branch of `start_job`) and
`reopened` (a job left a state it had ended in) are histories that let a property
say exactly when it is promised. `reopened` exempts more than retries: a job
released twice also leaves its workflow row open to an old tally, see
`released_twice`.

**Webhooks.** `sch[s]` is a scheduler's session with the batch as it was read and the
endpoint object it keeps for as long as deliveries of that endpoint follow each other.
`posts`, `acked`, `failures` record what the receivers saw, `streak` how many failures an
endpoint has seen since its last 2xx. `streak` is `None`, for good, once a 2xx has
raced: it was received while another session held the endpoint too, or on an object
that was not the row any more, or before it was committed its session died or somebody
took the next delivery to that endpoint.

**Creation.** `ses[s]` is a session that runs a request or a pass over the recurring
jobs. `lock` is the row lock the uncommitted increment holds. Commits keep the loaded
objects (`expire_on_commit=False`, `app/db.py:27`), but a rollback expires all of
them, and an expired attribute cannot be fetched outside an await: the loser of a race
ends with an error and a pass drops the rest of its batch (`Rollback`,
`Materialize`). `Toggle` leaves out the branch that sets a missing cursor
(`recurring.py:58-61`): `create_recurring` sets the cursor, and it only advances.

## 3. What is checked

| Run | Question | Answer |
|---|---|---|
| `lifecycle_races` | What survives every interleaving of two workers, a reaper and a request (cancel, retry, replay) on one row with two attempts and a DLQ? | Lease columns and numbering always, and with them the fencing specification; lease, history, budget and slot of a clean row. What is selected for a reaper or left to report can be ended, but for one kind of timeout |
| `lifecycle_recovery` | Does every claimed job come to an end after a death, a lapse, a timeout or a deadlock? Do the steps of a clean row add up to those of a job handled by one transaction at a time? | Yes, on a clean row without a DLQ; yes |
| `worker` | Claim loop, heartbeat, jobs, a signal, the drain endpoint and the sweep, with one fault: is a job forgotten, does the process end, does its row tell the truth in the end, can a lease be held for ever if its reap succeeds, does a shutdown wait for anything but what runs, can the handlers exceed the slots? | No; yes, if it had no fault; yes; no; no; no, not even with reaped jobs whose handlers run on |
| `claiming` | Is a claim exclusive, and how far are limits exceeded while requests edit them? | Exclusive; own limits exact; shared limits by fewer than the number of workers |
| `workflow` | Can a fan-in be forgotten, or released too early? Can the whole stall? Is the workflow row right in the end? | Only where an end was not passed on; released early at most after a job was taken out of its end; no; yes |
| `webhooks` | Two schedulers with the same delivery: what can be recorded that did not happen? Is an endpoint disabled for failures in a row only? | No outcome of a delivery, and everything settles; yes, unless a 2xx of it raced (see below) |
| `creation` | Races for the counter, a key, a cursor | Every job charged, overshoot bounded, no tick lost |

### Where the code does something else than it says

| Run | The documents | The code |
|---|---|---|
| `stale_report` | `docs/DATABASE.md:79-80`: completion is a "single-row CAS" on the token | `complete_job` compares in Python and updates by id: a worker reaped in between still moves the row |
| `second_dead_letter` | `scheduler_service.py:11`: "retry or DLQ" | a job dead-lettered, retried and exhausted again violates the unique `job_id` in every sweep and stays claimed |
| `claim_over_limit` | `docs/DECISIONS.md:23-25`: "strict under true parallelism" | active jobs are counted before the advisory lock, and not again |
| `released_twice` | `state_machine.py:27`: nothing follows COMPLETED | two upstream jobs that end together both release the fan-in, and it runs again after it has completed |
| `drain_race` | `worker/main.py:92`: "Renew leases of running jobs"; `docs/TESTING.md:56`: "Graceful shutdown loses nothing" | a signal that arrives while a claim is awaited and nothing else runs ends the heartbeat; the claimed job is run to its end without a renewal, so a long one is reaped and run twice |

These runs check one property each and TLC reports the shortest trace that breaks it.

One more disagreement is in a property that holds. `scheduler_service.py:12` says "RUNNING
past its timeout -> TIMED_OUT -> retry/DLQ", and `_handle_failure` goes on from TIMED_OUT to
FAILED or CANCELLED where there is neither: for the last attempt in a queue without a
DLQ, or after a request to cancel. `state_machine.py:25` has no such edges. The sweep
raises, gives its batch up, and meets the same row again at its next turn, until the lease has run
out too. `AttemptsCanBeEnded` says that these timeouts are refused and that nothing else
is; `Endable` proves it.

The failures of an endpoint are another. `docs/SECURITY.md:38-39` promises that
"endpoints auto-disable after 10 consecutive failures", and the comment at
`scheduler_service.py:43` the same. The count is incremented and reset on an object as
old as the session's run of deliveries to that endpoint, and `Commit` writes it over
what is there. With a limit of 2, and no crash:

1. two sessions load the endpoint with count 0;
2. the first posts, fails, and has yet to commit;
3. the second is answered 200 and commits: its count was 0 and stays 0, so that no
   column changes;
4. the first commits count 1, fails at its next delivery and commits count 2: the
   endpoint is disabled, with one failure since the 200.

A crash between a 200 and its commit does the same to a row that had a count. The
promise is kept as long as no 2xx races: `DisabledForFailuresInARow` states it with
that exemption (`streak`), `DisabledInARow` proves it for any number of sessions, and
what is left after a race is that it takes that many failures in all.

Two more are in the behaviour that the models have and no property is about:

- `docs/API.md:18` has `POST /workers/{id}/drain`. The status it sets lasts for one
  heartbeat: `_heartbeat_loop` writes "online" back from the process's own memory, which
  the endpoint does not reach. `BeatingWorkersAreOnline` takes this as expected.
- `jobs.py:128`, for a lost race of an idempotency key: "concurrent duplicate - return the
  winner". The rollback before it expires `project`, and reading `project.id` for that
  query raises, so that the loser gets an error (`Insert`). What the caller is answered is
  not in the model; that its charge is taken back is.

### The bounds

- **`lifecycle_*`**: one job, because no handler of this module touches two job rows
  except a reaper whose batch ends on an exception, and that only delays. One API
  request; two workers in `lifecycle_races`, so that an old attempt on one races the new
  attempt on the other. `MaxClaims = 2` gives an attempt and its successor, the pair every
  race here is about. `InitialMax` is 2 where a retry is wanted and 1 where exhaustion,
  and after a manual retry a second exhaustion, is. `Mortal` names the workers whose
  coroutines may die: nobody in `lifecycle_races`, where a coroutine that is not scheduled
  any more is as good as dead for a safety property, and the worker in
  `lifecycle_recovery`, where fairness would otherwise drive it on. Workers
  and schedulers are interchangeable (symmetry, in the safety run only). `lifecycle_recovery` checks
  the refinement of `SerialJobs` with one worker and one reaper; with two workers,
  dead letters and replays it is left to the proof. `MaxClaims` and
  `MaxRequests` stop the model, not the system. `MCJobLifecycle` also evaluates
  `DelaysBackOff`: the delays of small policies stay within their cap and do not shrink
  from one attempt to the next by more than the jitter; and `AcceptedPoliciesMayRaise`:
  policies that `create_queue` accepts and `_handle_failure` raises on.
- **`worker`**, **`drain_race`**: one worker with two slots and one job with two claims,
  so that a lost first attempt and the second attempt of the job meet in the same process
  and under the same key. One call of the drain endpoint and one fault at any place in
  `worker`, none of both in `drain_race`. Processes share nothing but the rows: a second
  worker would add claims that the first one does not get.
- **`claiming`**: two workers, one of which matches every job and the other one job of each
  queue; two queues of one project, one with two settings of its limits (1 or 2 each;
  one claim a minute in both), the project's limit 1 or 2; three jobs with two priorities, one of them with two attempts; two requests besides
  those that create the queues: enough to lower and raise a limit, or to pause and
  resume. Windows of one row (32 in the code), so that the two SELECTs differ and a window
  hides a job. `MaxBoost = 1` reverses the order of two jobs. `claim_over_limit` has
  limits nobody edits.
- **`workflow`**: every graph over three nodes that has a cycle; the fan-in of two
  with each policy; the shortcut `n1 -> n2 -> n3, n1 -> n3`, where a cascade and a
  release meet, with four pairs of policies. `MaxRetries = 1`. At most one resolver
  per node at a time.
- **`webhooks`**: `MaxAttempts = 2` (8), `DisableAfter = 2` (10), `Limit = 2` (50), so
  that two deliveries can disable the endpoint between them, one crash.
- **`creation`**: a quota of 2 against single jobs and a batch of two that share a
  key; recurring jobs at 1,2,3 and at 2,4, with a clock up to 2, so that a pass finds
  one, the other or both due; `MaxRequests = 3`, `MaxCrashes = 1`.

`CHECK_DEADLOCK FALSE` is set where the modelled part may really be done: all jobs of
the workflow ended, all deliveries settled, requests and clock at their bounds.

## 4. Fairness

| Assumed | Because |
|---|---|
| a worker's coroutine goes on (`WF WorkerStep`), a handler ends | the event loop runs it; `asyncio.wait_for` bounds the handler by the execution timeout |
| a claim of a claimable row happens, a due row is promoted | `_claim_loop` and `SchedulerService._loop` poll for ever; limits do not fill up in the one-job instance |
| a scheduler's reapers are run in turn and get through their batch | `_loop` runs `run_once` for ever and logs exceptions |
| a lease lapses **if nobody is alive to renew it** (`Abandoned`), a timer runs out | clocks; a live worker may renew for ever, so nothing is assumed of its lease |
| an accepted request is served | it is one handler |
| a dispatcher goes on | the HTTP client has a timeout |

| in `WorkerRunner` also: a lease lapses if no heartbeat loop can reach it (`Unrenewed`), a worker falls silent if its heartbeat task has ended, the sweep of dead workers comes again | `lease_expires_at` and `worker_offline_after_seconds` pass; `run_once` runs `mark_dead_workers` each time |

All of it is weak fairness. Crashes, exceptions, deadlocks, signals, renewals, API requests, deletions, toggles and
lapses under a live worker are not fair: nothing makes them happen.

`CleanClaimsAreResolved` is checked without a DLQ because with one it is false
(`second_dead_letter`). For the same reason `LeasesEnd` speaks of jobs whose reap succeeds:
`Reap` of `WorkerRunner` always does, and the reaps that fail for ever, of a second dead
letter and of a policy that raises, are in `JobLifecycle`.

A job with a pending cancellation that is dead-lettered and replayed rests in QUEUED for
ever: `_replay` does not clear the flag and the claim skips it. No clean job gets there,
since its failure ends it as CANCELLED (`CancelKept`, and `Serialized`: what `SerialJobs`
reopens has no pending cancellation); a row that was cancelled under a stale failure can.
It is listed among the hazards.

## 5. What is proved

Every theorem holds for all values of the constants that the assumptions allow: any
sets of jobs, workers, schedulers, requests, queues, deliveries or nodes, and any bounds.
Every invariant, every action property and both refinements that a passing run checks on
an instance are proved here; what is left to TLC is at the end of this section. Four are
proved that no run repeats, because a property of a run contains them:
`AttemptsAreRecorded` and `LostLeaseStaysLost` are in `FencedLeases`, `CancelIsHonoured` is in
`CleanJobsAreSerial`, and `CandidatesAreReserved` is what `ClaimsAreExclusive` rests on.

| Module | Theorem | States |
|---|---|---|
| `JobLifecycleProofs` | `TypeCorrect` | `Spec => []TypeOK` |
| | `LeaseSafe` | `Spec => []LeaseNamesCurrentAttempt` |
| | `HistorySafe` | `Spec => []AttemptsAreRecorded` |
| | `LostLeaseSafe` | `Spec => LostLeaseStaysLost` |
| | `Fenced` | `Spec => FencedLeases`: `JobLifecycle` implements `Fencing` |
| `CleanJobsProofs` | `CleanInvariant` | `Spec => []CleanInv`, from which the next seven follow |
| | `Leased` | `Spec => []LeasedIffActive` |
| | `Budgeted` | `Spec => []AttemptsWithinBudget` |
| | `HistoryTrue` | `Spec => []HistoryAgrees` |
| | `CancelKept` | `Spec => []CancelIsHonoured` |
| | `SlotsBalanced` | `Spec => []SlotsAreBalanced` |
| | `Endable` | `Spec => []AttemptsCanBeEnded` |
| | `Serialized` | `Spec => CleanJobsAreSerial`: `JobLifecycle` implements `SerialJobs` |
| `WorkerRunnerProofs` | `TypeCorrect` | `Spec => []TypeOK` |
| | `NotForgotten` | `Spec => []NoLeaseIsForgotten` |
| | `Reachable` | `Spec => []RunningJobsAreReachable` |
| | `NotBlocked` | `Spec => []ShutdownsAreNotBlocked` |
| | `WithinCapacity` | `Spec => []CapacityIsKept` |
| `ClaimingProofs` | `TypeCorrect` | `Spec => []TypeOK` |
| | `Reserved` | `Spec => []CandidatesAreReserved` |
| | `Exclusive` | `Spec => []ClaimsAreExclusive` |
| | `OwnLimits` | `Spec => []OwnLimitsHold` |
| | `Overshoot` | `Spec => []OvershootIsBounded` |
| `WorkflowProofs` | `TypeCorrect` | `Spec => []TypeOK` |
| | `NoneLost` | `Spec => []NoReleaseIsLost` |
| | `Closed` | `Spec => []WorkflowIsClosed` |
| | `Respected` | `Spec => []DependenciesAreRespected` |
| `CycleProofs` | `Detected` | `Spec => []CyclesAreDetected` |
| | `NeverStalls` | `Spec => []WorkflowsDoNotStall` |
| `WebhooksProofs` | `TypeCorrect` | `Spec => []TypeOK` |
| | `Earned` | `Spec => []OutcomesAreEarned` |
| | `DisabledInARow` | `Spec => []DisabledForFailuresInARow` |
| | `UnsharedIsExact` | `Spec => []UnsharedDeliveriesAreExact` |
| `CreationProofs` | `TypeCorrect` | `Spec => []TypeOK` |
| | `Charges` | `Spec => []JobsAreCharged` |
| | `QuotaOvershoot` | `Spec => []QuotaOvershootIsBounded` |
| | `NeverBack` | `Spec => CursorNeverGoesBack` |
| | `NotLost` | `Spec => TicksAreNotLost` |

### From which assumptions

Each module names what it assumes of its constants, and TLC evaluates it in every run of
the module. `None` is no number and no member of the sets it may stand next to. Bounds and
limits are natural numbers; a limit that the code checks to be positive
(`ck_job_attempts_min`, `max_attempts`, a queue's limits) is positive. Besides that:

- `JobLifecycle`: nothing of the sets, which may be empty or infinite. The proofs use
  `BoundAssumption` alone.
- `WorkerRunner`: `Capacity` is positive. The sets may be infinite.
- `Claiming`: `Jobs` and `Workers` are finite, because a limit is a cardinality.
- `Workflow`: `Nodes` is finite and has a member (`schemas.py:110`, `min_length=1`: an
  empty workflow would never be closed). Nothing is assumed of the requested graphs.
- `Webhooks`: `Deliveries` is finite.
- `Creation`: `Sessions` is finite; requests have at most some number of items
  (`max_batch_size`); a cron expression has a time after every time of the clock.

### Rows and leases, whatever races (`JobLifecycleProofs`)

`LeaseNamesCurrentAttempt` is not inductive: a new claim must be
known to take a fresh token and a fresh attempt number. The inductive invariant is
`TypeInv /\ LeaseInv`: `TypeInv` adds to `TypeOK` what a coroutine or a request
carries while it is at work (`AtWork`), and `LeaseInv` is `LeaseNamesCurrentAttempt`,
`AttemptsAreRecorded` and `TokensAreIssued` (a token in the history is at most
`issued`). It says nothing of the snapshots, and that is the point: among all the
writers only the claim, which is one atomic UPDATE, assigns an attempt number, an
owner or a token. Everybody else's objects differ from their snapshots in those
columns by a cleared token at most (`Keeps`), so whatever the snapshot's age the
flush leaves the committed values there or clears the token (`FlushKeeps`, `CommitEffect`).

The proof does not go through the actions twice. `EveryStep` shows that each of
them is a `QuietStep` (no attempt, owner or token assigned; a token perhaps cleared;
executions changed in their state alone) or a `Claim`. `QuietKeepsLeaseInv` and
`ClaimKeepsLeaseInv` then prove the invariant once for each kind, and `LostLeaseSafe`
is an action property read off the same two cases. `Fenced` is the refinement by the same
split: the initial states map (`FencedInit`), a `QuietStep` is a `Revoke` of the jobs whose
token it clears, which is a stutter if there are none (`QuietRevokes`), and a `Claim` is a
`Grant` (`ClaimGrants`), whose freshness is `TokensAreIssued`.

### Clean rows (`CleanJobsProofs`)

`Clean` is a history of what did happen, so the proof may use what a stale commit
would have broken: a commit that leaves the row clean has read the row that is there
(`FreshCommit`), and the whole operation can be judged as one atomic step on it. Every
step either touches no row, or has an `Effect` on one job: a stale commit, a step that
leaves the row at work or at rest (`Stays`), or one that ends the attempt, records its
outcome and gives back the slot of its owner (`Ends`); or it is the claim. `CleanInv` is
kept by each kind once.

What it needs of snapshots is little, and says where each writer's right to write comes
from (`SnapInv`): a coroutine's snapshot carries its own token; a reaper's was active and
names the owner of its attempt, so that the slot it gives back is that of the worker the
row has now; a cancel was read in a state that
can be cancelled and a retry in one that can be retried. `SlotsAreBalanced` counts over
all jobs, and is only promised while all are clean; `SlotInv` adds that the rows counted
are finite in number, so that no assumption on `Jobs` is needed.

`Serialized` is the sum of all this. A step that is based on the row that is there is,
seen from that row, one operation of `SerialJobs`: `Effect` carries the moves a failure or
a completion made, and the snapshot invariants say that the writer was entitled to make
them (a reaper's row was active, a request's in a state it may change, and what
the coroutine read of the attempts and the cancel flag is what decides its end). A stale commit is
`Lose`, and a claim is a claim because the row it finds has an attempt left
(`AttemptsWithinBudget`). So every property of `SerialJobs` is one of the clean rows,
whatever interleaves.

`Endable` looks at the edges of `StateMachine` from the other side: where a snapshot comes
from (`SnapInv`) says which states a reaper or a second report may fail, and
each path that a failure puts together from such a state is in the table, but for a
timeout after which the job would be FAILED or CANCELLED, for which it is not.

### The memory of a worker (`WorkerRunnerProofs`)

Most steps neither take up nor drop an attempt (`LightStep`): they keep the hand, the
active tasks, the contexts and the coroutines of every process, and may clear a row's token. The other
steps are the way of one attempt: into the hand of the claim loop, into the active tasks
with its coroutine at work, and out of both when the row does not carry its token any more.
`Inv` says of the token on a row that it is the last claim of the job (`TokenInv`), that it
is in the hand or at work (`Held`), and that the heartbeat has its entry, unless an earlier
attempt of the job in the same process took it along (`Entry`). That the last disjunct
cannot be the work of a **later** attempt is `TokenInv`, and is why `_contexts`, which is
keyed by the job and not by the token, does no more harm than that.

A shutdown and the capacity have an invariant of their own (`ShutdownInv`), of one
process at a time; most steps, of this process or another, leave it as it is (`SameTasks`). It says that
`_active` and the coroutines at work are the same set, although the task is added after an
await and discarded by a callback; that they are a finite set within the capacity, with
one slot free while a claim is looked for or in the hand: only the loop itself adds
a task, so the slot it saw cannot be taken behind its back. And a heartbeat that is
joined has no reason to go on: nothing is active and the event is set, for good.

### Claims and limits (`ClaimingProofs`)

`Reserved` and `Exclusive` go action by action; the first needs that a row lock is taken
only on rows nobody holds, the second that an execution's attempt is at most the row's.

The limits are proved from what they are about. Every step lets go of claims and active
jobs (`LetsGo`), or a worker chooses a candidate that has passed its checks (`Chooses`), or
it takes the one it has chosen (`Takes`); this is all that the limits see of the
actions (`LimitSteps`). `OvershootIsBounded` bounds what was admitted by **one** of the limits it
was admitted under, which no step preserves by itself: that limit's job may end. The
inductive form (`SharedLimit`) says it for every number `m`: of the jobs and claims that
were admitted under a limit of at most `m`, there are fewer than `m` plus the number of
workers. A job that ends only lowers the left side; a candidate chosen under a limit of at most `m`
was counted among fewer than `m` active ones, and the workers with a claim in flight
other than the chooser are fewer than all. With `m` the greatest of the limits this is
the property. The rate limit is the same over the claims of the last minute (`RateInv`).
A worker's own limits (`OwnInv`) need no such slack, because only its own claim adds to
what it counted.

### Fan-ins and the workflow's row (`WorkflowProofs`)

Nothing depends on where in the stack of which resolver a call is, so the proofs look at
the set of all calls (`Calls`) and at what a step puts into it and takes out. `NoReleaseIsLost` speaks of
blocked jobs in a linked workflow; the inductive form (`FanIn`) speaks of jobs that are
not there yet too, because an upstream job can end before the rows that depend on it are
written. A visit that leaves the dependent blocked has found its upstream jobs undecided
(`Decided`), and the end of the next of them starts a call of its own; every other step
leaves who was going to look at the dependent in place (`Told`). Cyclic graphs are
refused by the code, but the proof does not use it.

`Respected` is inductive by itself. Before a job is taken out of its end
(`reopened`), ended jobs keep how they ended, so a permission once given stays
(`PermissionStep`); and a job is let go by creation if it has no upstream jobs, or by a
`Verdict` on upstream jobs that have ended as it demands (`VerdictAllows`).

`ClosedInv` follows the workflow's row: while every end was passed on and none was taken
back, what the row holds and what every call has read is the truth or the RUNNING of
before, and once all jobs have ended, the row is true already or some call is still going
to read the states and write it (`Closes`).

### Cycles (`CycleProofs`)

`CyclesAreDetected` compares two recursive functions: the peeling of roots that
`detect_cycle` does, and walks of every length. What a recursive function computes can be
proved without an induction theorem if it has a closed form. Peeling leaves the
greatest part of the graph in which everybody has a predecessor (`Core`), a walk of length
`n` is a sequence of `n` edges (`Paths`); each closed form satisfies the recursion, so the
function CHOOSE takes satisfies it, and two that satisfy it cannot differ: at a
least set, or a least number, where they did, they would have to differ at a smaller
one. The least number comes from the well-founded order of finite sets
(`LeastNumber`). That a part without roots has a cycle is by a longest path in it
that repeats no node: its first node has a predecessor, which is on the path, and the
cycle is no longer than the graph has nodes.

`NeverStalls` puts this together with `NoneLost`: blocked jobs and nothing else at work
means that each blocked job waits for a blocked one, since otherwise its verdict would be
due and somebody would still visit it; a finite set of such jobs has a cycle, and
no graph with a cycle was accepted (`LinksNoCycle`).

### Webhooks and creation (`WebhooksProofs`, `CreationProofs`)

`EarnedInv` says of every session that what it holds is no better than what has happened:
a snapshot counts requests that were made, an answer in hand was received, a failure
count is at most the endpoint's failures. As histories only grow (`HistoryGrows`), a
session stays honest while others work, and its commit records what is true. That
requests may be **lost** from the counts, by schedulers that overwrite each other, is not
excluded; `UnsharedIsExact` excludes it for a delivery that one session at a time had in
hand: the session's snapshot is then the row (`AloneWith`), and a request that is not
counted yet is the one in its hands, or a crash's.

The failures in a row (`StreakInv`) are an upper bound of every count there is, as long
as no 2xx has raced: of the row, and of every object a session holds, with the failure it
has yet to commit (`HeldCount`). A 2xx takes them to 0 while the row and its session's
object still have the old count; `CountsARow` lets that pass because until the commit no
other session has the endpoint and the object is the row, so that the commit brings both
to 0. That a 2xx in hand is committed at all, and not lost with a deleted delivery, is
`HandsInv`: the delivery is gone only with its endpoint.

Of a recurring job, whoever moves the cursor has found it where it was loaded, at a due
time of the expression (`SessionInv`, `WasDue`), so `CursorStep` gives both action
properties. The counter needs sums over sessions, which the library does not have;
`Total` is the number of units under a function. `ChargeInv` says that the jobs made,
with what sessions that have committed a charge will still make, are at most the counter; and that the
counter, with everything that has passed the quota and is not committed yet, is within
the quota and one request of every session but one. Both are preserved because a step
changes the share of its own session alone.

### Model-checked only

- **Liveness** (`CleanClaimsAreResolved`, `DrainsComplete`,
  `GoneWorkersEndOffline`, `BeatingWorkersAreOnline`, `LeasesEnd`, `DeliveriesSettle`,
  `DueJobsRun`): fairness and ENABLED are out of reach of the proof system.
- **`DelaysBackOff`**, **`AcceptedPoliciesMayRaise`** and the values `Retries` computes: the provers
  know nothing of exponentiation.
- The runs that expect a violation: a theorem cannot say more than their trace.

## 6. Plan

Modelled, checked and proved: every module above. Next, in this order:

1. Abstract specifications for `Claiming` (admission to a shared limit) and `WorkerRunner`
   (what a process promises of an attempt in its hands), implemented under a refinement
   mapping as `Fencing` and `SerialJobs` are, with the theorems above as the lemmas of the
   refinement.
2. Lemmas about the operators of `Retries` that need no arithmetic beyond sums.
3. Starvation in `Claiming`: two windows filled with rows no present worker can take.
   `docs/ARCHITECTURE.md:139-145` promises aging and an interleaving over projects; the
   boost is capped at 5 while priorities span 20, and `claiming.py:128` does not
   interleave. An instance needs arrivals without end.
4. The event bus, should anything come to depend on it.

## 7. What is not modelled, and why

- **Event bus, WebSocket, audit log, metrics, AI analysis**: written or computed for
  people to read; no decision of the system depends on them.
- **Authentication, members, API keys, masking**: single-row reads and writes; no
  interaction with scheduling. Of projects, the limits are in `Claiming` and `Creation`.
- **A queue's defaults** (attempts, timeout, DLQ, policy): values a job carries, constants
  of the modules that use them; editing them changes later jobs.
- **Job handlers, payload validation, serializers, seed data, migrations, frontend**:
  no state shared with the scheduler; `HandlerEnds` lets a handler end in every way
  the runner tells apart.
- **SQLite**: the tests' database has no row locks and serialises writers. The models
  are of PostgreSQL, which the deployment uses.
- **Time**: no durations. A lease, a timer, a due date, a backoff run out whenever
  they like, which includes every real schedule. Time zones and daylight saving in
  cron expressions are `croniter`'s; the quota's change of day is left out, `Creation`
  covers one day.
- **Workflow progress and results**: numbers shown to the user. Progress can end
  below 100 if an older tally is committed last.
- **Small orders within one process or loop**: a coroutine enters its context with
  `create_task` and not when it is first scheduled, so that no heartbeat misses it for a
  round (`Spawn`); the sweeps of dead workers of several schedulers, which write the same
  "offline", run one at a time (`SelectSilent`).
- **Pruning**: deletes old heartbeats, which nothing reads. It runs outside the `try` of
  the other loops; a database error there ends the scheduler, which the fairness above
  assumes does not happen.

## 8. Running it

    tlasany JobLifecycle.tla
    tlc -workers 2 -config lifecycle_races.cfg MCJobLifecycle
    tlc -workers 2 -config worker.cfg MCWorkerRunner
    for m in JobLifecycle CleanJobs WorkerRunner Claiming Workflow Cycle Webhooks Creation
      do tlapm ${m}Proofs.tla; done

`PROJECT.json` names the module and the configuration of every run, the theorems, the
lines every definition stands for, and for every property of a passing run a mutant: a
plausible bug in one definition that makes TLC find the property violated.
