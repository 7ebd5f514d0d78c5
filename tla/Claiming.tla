------------------------------ MODULE Claiming ------------------------------
(***************************************************************************)
(* claim_next_job of app/services/claiming.py on PostgreSQL: which queued  *)
(* job a worker takes, and which limits hold while several workers claim   *)
(* and requests create, edit, pause and delete the queues.                 *)
(*                                                                         *)
(* A claim is one transaction of four steps.  Scan locks the candidate     *)
(* rows (FOR UPDATE SKIP LOCKED), Decide counts the active rows against    *)
(* the limits and picks a job, LockQueue waits for the queue's advisory    *)
(* lock, Take updates the row and commits.  Nothing is counted again after *)
(* the lock.  The scan's two SELECTs are one step here and so are Decide's *)
(* counts; a rate count made a little later would only be fresher.  The    *)
(* queue's limits are those of the row the scan has joined, the project's  *)
(* limit is read with the counts.                                          *)
(*                                                                         *)
(* CLAIMED, RUNNING and CANCEL_REQUESTED are one state "active"; a row     *)
(* that is neither queued nor active is "away", and may come back as a     *)
(* retry or, its id reused, as a new job.  That a worker is online, and    *)
(* runs one claim at a time, is WorkerRunner._claim_loop.                  *)
(***************************************************************************)
EXTENDS Integers, FiniteSets, Sequences

CONSTANTS
  Jobs, Workers, Queues, Projects,
  QueueOf, Prio, MaxAttempts,  \* of a job
  Matches,                 \* of a worker: the jobs _worker_matches accepts
  Capacity,                \* of a worker
  ProjectOf,               \* of a queue
  QueueSettings,           \* of a queue: the limits requests may give it
  DefaultLimit,            \* max_concurrent_jobs of a new project
  ProjectLimits,           \* of a project: what requests may make of it
  Window,                  \* rows of one candidate SELECT; 32 in the code
  MaxBoost,                \* priority_aging_max_boost
  MaxEdits,                \* bound: requests about queues and projects
  None

\* The limits of a queue: max_concurrent_jobs, per_worker_concurrency and
\* rate_limit_per_minute, all at least 1.
Limits == [concurrent: Nat \ {0}, perWorker: Nat \ {0}, rate: (Nat \ {0}) \cup {None}]

ASSUME ParameterAssumption ==
  /\ IsFiniteSet(Jobs) /\ IsFiniteSet(Workers)
  /\ QueueOf \in [Jobs -> Queues] /\ Prio \in [Jobs -> Int]
  /\ Matches \in [Workers -> SUBSET Jobs] /\ Capacity \in [Workers -> Nat]
  /\ ProjectOf \in [Queues -> Projects]
  /\ QueueSettings \in [Queues -> SUBSET Limits]
  /\ DefaultLimit \in Nat \ {0}
  /\ ProjectLimits \in [Projects -> SUBSET (Nat \ {0})]
  /\ Window \in Nat /\ MaxBoost \in Nat /\ MaxAttempts \in [Jobs -> Nat]
  /\ MaxEdits \in Nat
  /\ None \notin Jobs /\ None \notin Nat /\ None \notin Limits

VARIABLES
  job,         \* the jobs table
  line,        \* the queued jobs by available_at, oldest first
  executions,  \* the job_executions table
  recent,      \* of a queue: its claims of the last minute, each as the rate
               \* limit it was admitted under
  queue,       \* the queues table
  project,     \* max_concurrent_jobs in the projects table
  edits,       \* requests about queues and projects so far (bound only)
  wk           \* the claim transaction of each worker

vars == <<job, line, executions, recent, queue, project, edits, wk>>

\* The table checks that max_concurrent_jobs of a project is positive.
ProjectRows == Nat \ {0}

QueueRows == [status: {"absent", "open", "paused", "deleted"}, limits: Limits \cup {None}]

\* The limits a claim was checked against, a history of active jobs.
Admissions == [queue: Limits, project: ProjectRows]

JobRows == [state: {"QUEUED", "active", "away"}, owner: Workers \cup {None},
            attempts: Nat, waited: 0..MaxBoost, under: Admissions \cup {None}]

\* seen: the limits of the queues whose rows were scanned.
Claims == [pc: {"idle", "scanned", "chosen", "locked"}, rows: SUBSET Jobs,
           seen: [Queues -> Limits \cup {None}], pick: Jobs \cup {None},
           under: Admissions \cup {None}]

TypeOK ==
  /\ job \in [Jobs -> JobRows]
  /\ line \in Seq(Jobs)
  /\ executions \subseteq [job: Jobs, attempt: Nat, worker: Workers]
  /\ recent \in [Queues -> Seq((Nat \ {0}) \cup {None})]
  /\ queue \in [Queues -> QueueRows]
  /\ \A q \in Queues : queue[q].limits = None <=> queue[q].status = "absent"
  /\ project \in [Projects -> ProjectRows]
  /\ edits \in 0..MaxEdits
  /\ wk \in [Workers -> Claims]

NothingSeen == [q \in Queues |-> None]

Idle == [pc |-> "idle", rows |-> {}, seen |-> NothingSeen, pick |-> None, under |-> None]

Init ==
  /\ job = [j \in Jobs |-> [state |-> "away", owner |-> None, attempts |-> 0, waited |-> 0,
                         under |-> None]]
  /\ line = <<>>
  /\ executions = {}
  /\ recent = [q \in Queues |-> <<>>]
  /\ queue = [q \in Queues |-> [status |-> "absent", limits |-> None]]
  /\ project = [p \in Projects |-> DefaultLimit]
  /\ edits = 0
  /\ wk = [w \in Workers |-> Idle]
-----------------------------------------------------------------------------
(* The candidate scan *)

Position(j) == CHOOSE i \in DOMAIN line : line[i] = j

Older(i, j) == Position(i) < Position(j)

\* The order without job j.
LineWithout(j) ==
  SubSeq(line, 1, Position(j) - 1) \o SubSeq(line, Position(j) + 1, Len(line))

ByPriority(i, j) == Prio[i] > Prio[j] \/ (Prio[i] = Prio[j] /\ Older(i, j))

\* effective_priority(): waiting adds up to MaxBoost.
Effective(j) == Prio[j] + job[j].waited

ByEffective(i, j) ==
  Effective(i) > Effective(j) \/ (Effective(i) = Effective(j) /\ Older(i, j))

Locked == UNION {wk[w].rows : w \in Workers}

Candidates ==
  {j \in Jobs : /\ job[j].state = "QUEUED" /\ queue[QueueOf[j]].status = "open"
                /\ j \notin Locked}

\* The highest priorities, and the longest waiting.
ScanWindow ==
  {j \in Candidates : \/ Cardinality({i \in Candidates : ByPriority(i, j)}) < Window
                      \/ Cardinality({i \in Candidates : Older(i, j)}) < Window}

Scan(w) ==
  /\ wk[w].pc = "idle"
  /\ ScanWindow # {}
  /\ wk' = [wk EXCEPT ![w] = [Idle EXCEPT !.pc = "scanned", !.rows = ScanWindow,
               !.seen = [q \in Queues |-> IF \E j \in ScanWindow : QueueOf[j] = q
                                          THEN queue[q].limits ELSE None]]]
  /\ UNCHANGED <<job, line, executions, recent, queue, project, edits>>
-----------------------------------------------------------------------------
(* The limits *)

QueueBusy(q) == Cardinality({j \in Jobs : job[j].state = "active" /\ QueueOf[j] = q})

ProjectBusy(p) ==
  Cardinality({j \in Jobs : job[j].state = "active" /\ ProjectOf[QueueOf[j]] = p})

WorkerTotal(w) == Cardinality({j \in Jobs : job[j].state = "active" /\ job[j].owner = w})

WorkerBusy(w, q) ==
  Cardinality({j \in Jobs : job[j].state = "active" /\ job[j].owner = w /\ QueueOf[j] = q})

\* Mutant: a worker that is just full claims once more.
HasRoomOffByOne(w) == WorkerTotal(w) <= Capacity[w]

HasRoom(w) == WorkerTotal(w) < Capacity[w]

\* The limits of candidate j, as this transaction has read them.
Admission(w, j) ==
  [queue |-> wk[w].seen[QueueOf[j]], project |-> project[ProjectOf[QueueOf[j]]]]

\* Mutant: the rate limit is not checked.
FitsAtAnyRate(w, j) ==
  LET q == QueueOf[j]
      limit == Admission(w, j)
  IN  /\ j \in Matches[w]
      /\ QueueBusy(q) < limit.queue.concurrent
      /\ ProjectBusy(ProjectOf[q]) < limit.project
      /\ WorkerBusy(w, q) < limit.queue.perWorker

\* The checks a candidate must pass.
Fits(w, j) ==
  LET q == QueueOf[j]
      limit == Admission(w, j)
  IN  /\ j \in Matches[w]
      /\ QueueBusy(q) < limit.queue.concurrent
      /\ ProjectBusy(ProjectOf[q]) < limit.project
      /\ WorkerBusy(w, q) < limit.queue.perWorker
      /\ limit.queue.rate # None => Len(recent[q]) < limit.queue.rate

\* The best candidate that passes, or the end of the transaction.
Decide(w) ==
  /\ wk[w].pc = "scanned"
  /\ LET fit == {j \in wk[w].rows : Fits(w, j)}
     IN \/ /\ ~HasRoom(w) \/ fit = {}
           /\ wk' = [wk EXCEPT ![w] = Idle]
        \/ /\ HasRoom(w)
           /\ \E j \in fit :
                /\ \A i \in fit \ {j} : ByEffective(j, i)
                /\ wk' = [wk EXCEPT ![w].pc = "chosen", ![w].seen = NothingSeen,
                                    ![w].pick = j, ![w].under = Admission(w, j)]
  /\ UNCHANGED <<job, line, executions, recent, queue, project, edits>>

\* pg_advisory_xact_lock(queue), held to the end of the transaction.
LockQueue(w) ==
  /\ wk[w].pc = "chosen"
  /\ \A v \in Workers : wk[v].pc = "locked" => QueueOf[wk[v].pick] # QueueOf[wk[w].pick]
  /\ wk' = [wk EXCEPT ![w].pc = "locked"]
  /\ UNCHANGED <<job, line, executions, recent, queue, project, edits>>

Claimed(row, w) ==
  [row EXCEPT !.state = "active", !.owner = w, !.attempts = @ + 1, !.waited = 0,
              !.under = wk[w].under]

\* Only of a queue that may be limited do recent claims matter.
MayBeLimited(q) == \E limits \in QueueSettings[q] : limits.rate # None

\* The UPDATE, keyed on the state, and the commit.
Take(w) ==
  LET j == wk[w].pick
      q == QueueOf[j]
  IN  /\ wk[w].pc = "locked"
      /\ job[j].state = "QUEUED"
      /\ job' = [job EXCEPT ![j] = Claimed(@, w)]
      /\ line' = LineWithout(j)
      /\ executions' = executions \cup
           {[job |-> j, attempt |-> job'[j].attempts, worker |-> w]}
      /\ recent' = IF MayBeLimited(q)
                   THEN [recent EXCEPT ![q] = Append(@, wk[w].under.queue.rate)] ELSE recent
      /\ wk' = [wk EXCEPT ![w] = Idle]
      /\ UNCHANGED <<queue, project, edits>>
-----------------------------------------------------------------------------
(* Everybody else.  A locked row cannot be written until the claim ends.     *)

Leave(j) ==
  /\ job[j].state = "active"
  /\ job' = [job EXCEPT ![j].state = "away", ![j].under = None]
  /\ UNCHANGED <<line, executions, recent, queue, project, edits, wk>>

Cancel(j) ==
  /\ job[j].state = "QUEUED" /\ j \notin Locked
  /\ job' = [job EXCEPT ![j].state = "away", ![j].waited = 0]
  /\ line' = LineWithout(j)
  /\ UNCHANGED <<executions, recent, queue, project, edits, wk>>

\* Mutant: an attempt that failed is not charged.
RequeueUncharged(j) ==
  /\ job[j].state = "away" /\ job[j].attempts \in 1..(MaxAttempts[j] - 1)
  /\ job' = [job EXCEPT ![j].state = "QUEUED", ![j].attempts = @ - 1]
  /\ line' = Append(line, j)
  /\ UNCHANGED <<executions, recent, queue, project, edits, wk>>

\* A retry that is due: available_at is the time of the promotion.
Requeue(j) ==
  /\ job[j].state = "away" /\ job[j].attempts \in 1..(MaxAttempts[j] - 1)
  /\ job' = [job EXCEPT ![j].state = "QUEUED"]
  /\ line' = Append(line, j)
  /\ UNCHANGED <<executions, recent, queue, project, edits, wk>>

\* A new job, under an id whose job is over.  The queue may have been deleted
\* since the request has loaded it.
Arrive(j) ==
  /\ job[j].state = "away" /\ queue[QueueOf[j]].status # "absent"
  /\ job' = [job EXCEPT ![j] = [state |-> "QUEUED", owner |-> None, attempts |-> 0,
                                waited |-> 0, under |-> None]]
  /\ line' = Append(line, j)
  /\ executions' = {e \in executions : e.job # j}
  /\ UNCHANGED <<recent, queue, project, edits, wk>>

\* Mutant: the boost is not capped.
AgeUncapped ==
  /\ job' = [j \in Jobs |-> IF job[j].state = "QUEUED"
                            THEN [job[j] EXCEPT !.waited = @ + 1] ELSE job[j]]
  /\ UNCHANGED <<line, executions, recent, queue, project, edits, wk>>

\* An aging interval passes, or a claim is more than a minute old.
Age ==
  /\ job' = [j \in Jobs |-> IF job[j].state = "QUEUED" /\ job[j].waited < MaxBoost
                            THEN [job[j] EXCEPT !.waited = @ + 1] ELSE job[j]]
  /\ UNCHANGED <<line, executions, recent, queue, project, edits, wk>>

Expire(q) ==
  /\ recent[q] # <<>>
  /\ recent' = [recent EXCEPT ![q] = Tail(@)]
  /\ UNCHANGED <<job, line, executions, queue, project, edits, wk>>

\* A worker process dies: its transaction rolls back.
Abort(w) ==
  /\ wk[w].pc # "idle"
  /\ wk' = [wk EXCEPT ![w] = Idle]
  /\ UNCHANGED <<job, line, executions, recent, queue, project, edits>>
-----------------------------------------------------------------------------
(* Requests about queues and projects.  None of them looks at running jobs   *)
(* or at claims; a deleted queue is found by none.                           *)

CreateQueue(q) ==
  /\ queue[q].status = "absent"
  /\ \E limits \in QueueSettings[q] :
       queue' = [queue EXCEPT ![q] = [status |-> "open", limits |-> limits]]
  /\ UNCHANGED <<job, line, executions, recent, project, edits, wk>>

\* Bound: MaxEdits requests, besides those that create a queue.
Edit == edits < MaxEdits /\ edits' = edits + 1

\* _get_queue finds it.
Exists(q) == queue[q].status \in {"open", "paused"}

UpdateQueue(q) ==
  /\ Exists(q) /\ Edit
  /\ \E limits \in QueueSettings[q] : queue' = [queue EXCEPT ![q].limits = limits]
  /\ UNCHANGED <<job, line, executions, recent, project, wk>>

PauseOrResume(q) ==
  /\ Exists(q) /\ Edit
  /\ \E status \in {"open", "paused"} : queue' = [queue EXCEPT ![q].status = status]
  /\ UNCHANGED <<job, line, executions, recent, project, wk>>

\* The row and its jobs stay.
DeleteQueue(q) ==
  /\ Exists(q) /\ Edit
  /\ queue' = [queue EXCEPT ![q].status = "deleted"]
  /\ UNCHANGED <<job, line, executions, recent, project, wk>>

UpdateQuotas(p) ==
  /\ Edit
  /\ \E limit \in ProjectLimits[p] : project' = [project EXCEPT ![p] = limit]
  /\ UNCHANGED <<job, line, executions, recent, queue, wk>>
-----------------------------------------------------------------------------
Next ==
  \/ \E w \in Workers : Scan(w) \/ Decide(w) \/ LockQueue(w) \/ Take(w) \/ Abort(w)
  \/ \E j \in Jobs : Leave(j) \/ Cancel(j) \/ Requeue(j) \/ Arrive(j)
  \/ Age
  \/ \E q \in Queues : \/ Expire(q) \/ CreateQueue(q) \/ UpdateQueue(q)
                        \/ PauseOrResume(q) \/ DeleteQueue(q)
  \/ \E p \in Projects : UpdateQuotas(p)

Spec == Init /\ [][Next]_vars
-----------------------------------------------------------------------------
(* What the row locks and the snapshot checks give *)

\* The rows of a scan are nobody else's and stay queued until its transaction
\* ends, so the branch for a lost race (claiming.py:170-171) is dead code on
\* PostgreSQL and the attempt number read by the scan is still right.
CandidatesAreReserved ==
  \A v, w \in Workers :
    /\ v # w => wk[v].rows \cap wk[w].rows = {}
    /\ \A j \in wk[w].rows : job[j].state = "QUEUED"

\* One execution per attempt, and an active job belongs to the worker that has
\* it: two workers never run the same attempt (test_claiming.py:44-46).
ClaimsAreExclusive ==
  /\ \A e, f \in executions : e.job = f.job /\ e.attempt = f.attempt => e = f
  /\ \A j \in Jobs : job[j].state = "active" =>
       [job |-> j, attempt |-> job[j].attempts, worker |-> job[j].owner] \in executions

Active(S) == {j \in S : job[j].state = "active"}

\* The claims that passed a check and have not committed yet.
InFlight(S) == {w \in Workers : wk[w].pc \in {"chosen", "locked"} /\ wk[w].pick \in S}

\* The limits that admitted the active jobs of S, and its claims in flight.
AdmittedUnder(S) ==
  {job[j].under : j \in Active(S)} \cup {wk[w].under : w \in InFlight(S)}

Admitted(S) == Cardinality(Active(S)) + Cardinality(InFlight(S))

OfQueue(q) == {j \in Jobs : QueueOf[j] = q}
OfProject(p) == {j \in Jobs : ProjectOf[QueueOf[j]] = p}

\* A worker's own limits are exact although they are counted before the lock,
\* and from limits as old as the scan: only its own claims add to them, and it
\* makes one at a time.  A lowered limit admits nobody beyond it; the jobs that
\* a higher one has admitted stay, and one of them is still there.
OwnLimitsHold ==
  \A w \in Workers :
    /\ WorkerTotal(w) <= Capacity[w]
    /\ \A q \in Queues : WorkerBusy(w, q) > 0 =>
         \E j \in Active(OfQueue(q)) : /\ job[j].owner = w
                                      /\ WorkerBusy(w, q) <= job[j].under.queue.perWorker

\* The rate limits that admitted the claims of the last minute and those in
\* flight.
Rates(q) ==
  {recent[q][i] : i \in DOMAIN recent[q]}
    \cup {wk[w].under.queue.rate : w \in InFlight(OfQueue(q))}

\* Shared limits are exceeded by the other claims in flight at most, so by
\* fewer than there are workers: a claim counted at the limit minus one, and
\* every other worker has one claim that may have been counted before it.  The
\* limit is one that an active job was admitted under, whatever requests have
\* made of it since.
OvershootIsBounded ==
  LET W == Cardinality(Workers) IN
  /\ \A q \in Queues : Admitted(OfQueue(q)) > 0 =>
       \E u \in AdmittedUnder(OfQueue(q)) : Admitted(OfQueue(q)) < u.queue.concurrent + W
  /\ \A p \in Projects : Admitted(OfProject(p)) > 0 =>
       \E u \in AdmittedUnder(OfProject(p)) : Admitted(OfProject(p)) < u.project + W
  /\ \A q \in Queues : Rates(q) # {} =>
       \E r \in Rates(q) :
         r = None \/ Len(recent[q]) + Cardinality(InFlight(OfQueue(q))) < r + W
-----------------------------------------------------------------------------
(* What the documents promise *)

\* docs/DECISIONS.md:23-25: "A per-queue advisory xact lock makes
\* queue-concurrency accounting strict under true parallelism".
\* A queue's limit was never above the highest one that requests give it.
QueueLimitIsStrict ==
  \A q \in Queues : QueueBusy(q) > 0 =>
    \E limits \in QueueSettings[q] : QueueBusy(q) <= limits.concurrent
=============================================================================
