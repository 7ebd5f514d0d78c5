---------------------------- MODULE WorkerRunner ----------------------------
(***************************************************************************)
(* worker/main.py: one asyncio process per worker, with its claim loop,    *)
(* its heartbeat task and a coroutine per job, its row of the workers      *)
(* table, and the others who write that row (worker_service.py, the drain  *)
(* endpoint, mark_dead_workers).  The draining event, the set of active    *)
(* tasks and the table of contexts live in the process and die with it.    *)
(*                                                                         *)
(* An action runs from one await to the next.  The job rows are those of   *)
(* JobLifecycle with atomic starts, reports and sweeps: who reports races  *)
(* with whom is the subject there, what a process forgets is the subject   *)
(* here.  A worker that restarts registers as another worker.              *)
(***************************************************************************)
EXTENDS Integers, FiniteSets

CONSTANTS
  Jobs, Workers,
  Capacity,     \* WORKER_CAPACITY
  MaxClaims,    \* bound: claims in a behaviour
  MaxDrains,    \* bound: calls of the drain endpoint
  MaxFaults,    \* bound: crashes and exceptions
  None

ASSUME BoundAssumption ==
  /\ Capacity \in Nat \ {0} /\ MaxClaims \in Nat
  /\ MaxDrains \in Nat /\ MaxFaults \in Nat /\ None \notin Nat

VARIABLES
  proc,      \* the claim loop and the memory of each process
  beat,      \* its heartbeat task
  run,       \* the coroutine _execute() of each claim
  row,       \* the workers table
  open,      \* status of a row as loaded by a transaction that will write it
  job,       \* the jobs table
  issued,    \* claims so far
  drains,    \* calls of the drain endpoint so far (bound only)
  faulted    \* history: the faults each worker had

vars == <<proc, beat, run, row, open, job, issued, drains, faulted>>
-----------------------------------------------------------------------------
Tokens == 1..MaxClaims

Statuses == {"online", "draining", "offline", "unhealthy"}

\* The transactions that load a row and set its status.
Writers == {"heartbeat", "close", "drain", "sweep"}

Procs == [pc: {"new", "idle", "claiming", "claimed", "waiting", "joining",
               "closing", "exited", "failing", "dead"},
          hand: Tokens \cup {None}, draining: BOOLEAN,
          active: SUBSET Tokens, contexts: [Jobs -> Tokens \cup {None}]]

Beats == [pc: {"off", "top", "loaded", "renewing", "ended", "failed"},
          says: {"online", "draining"}, todo: SUBSET Tokens]

Runs == [pc: {"unborn", "working", "leaving", "gone"},
         job: Jobs \cup {None}, worker: Workers \cup {None}]

TypeOK ==
  /\ proc \in [Workers -> Procs]
  /\ beat \in [Workers -> Beats]
  /\ run \in [Tokens -> Runs]
  /\ row \in [Workers -> [status: Statuses \cup {None}, fresh: BOOLEAN]]
  /\ open \in [Writers -> [Workers -> Statuses \cup {None}]]
  /\ job \in [Jobs -> [state: {"queued", "active", "done"}, token: Tokens \cup {None},
                       lease: {"none", "live", "lapsed"}]]
  /\ issued \in 0..MaxClaims
  /\ drains \in 0..MaxDrains
  /\ faulted \in [Workers -> 0..MaxFaults]

NoContexts == [j \in Jobs |-> None]

NewProc == [pc |-> "new", hand |-> None, draining |-> FALSE, active |-> {},
            contexts |-> NoContexts]

NoBeat == [pc |-> "off", says |-> "online", todo |-> {}]

Unborn == [pc |-> "unborn", job |-> None, worker |-> None]

Queued == [state |-> "queued", token |-> None, lease |-> "none"]
Done   == [state |-> "done", token |-> None, lease |-> "none"]

\* A worker that has not registered yet has no row.
Init ==
  /\ proc = [w \in Workers |-> NewProc]
  /\ beat = [w \in Workers |-> NoBeat]
  /\ run = [t \in Tokens |-> Unborn]
  /\ row = [w \in Workers |-> [status |-> None, fresh |-> FALSE]]
  /\ open = [k \in Writers |-> [w \in Workers |-> None]]
  /\ job = [j \in Jobs |-> Queued]
  /\ issued = 0
  /\ drains = 0
  /\ faulted = [w \in Workers |-> 0]
-----------------------------------------------------------------------------
(* A status is loaded, assigned and written back if it was changed *)

Load(k, w) == open' = [open EXCEPT ![k][w] = row[w].status]

Column(current, loaded, assigned) == IF assigned = loaded THEN current ELSE assigned

\* Mutant: the status is set once and for all.
StoredUnlessOffline(k, w, status) ==
  IF row[w].status = "offline" THEN "offline"
  ELSE Column(row[w].status, open[k][w], status)

\* The status in the row after transaction k has set it.
Stored(k, w, status) == Column(row[w].status, open[k][w], status)

Loaded(k, w) == open[k][w] # None

\* Bound: a worker has at most MaxFaults faults.
FaultOf(w) ==
  /\ faulted[w] < MaxFaults
  /\ faulted' = [faulted EXCEPT ![w] = @ + 1]
-----------------------------------------------------------------------------
(* run(): registration, the claim loop, the drain *)

Alive(w) == proc[w].pc \notin {"new", "exited", "dead"}

\* register_worker, and the heartbeat task that starts with the claim loop.
Register(w) ==
  /\ proc[w].pc = "new"
  /\ proc' = [proc EXCEPT ![w].pc = "idle"]
  /\ row' = [row EXCEPT ![w] = [status |-> "online", fresh |-> TRUE]]
  /\ beat' = [beat EXCEPT ![w].pc = "top"]
  /\ UNCHANGED <<run, open, job, issued, drains, faulted>>

\* SIGTERM or SIGINT sets the draining event.
Terminate(w) ==
  /\ Alive(w) /\ ~proc[w].draining
  /\ proc' = [proc EXCEPT ![w].draining = TRUE]
  /\ UNCHANGED <<beat, run, row, open, job, issued, drains, faulted>>

\* Mutant: the slots taken are those of jobs the worker owns.
MayClaimIfOwned(w) ==
  /\ proc[w].pc = "idle" /\ ~proc[w].draining
  /\ Cardinality({t \in proc[w].active : \E j \in Jobs : job[j].token = t}) < Capacity

\* The head of the claim loop, with a free slot.
MayClaim(w) ==
  /\ proc[w].pc = "idle" /\ ~proc[w].draining
  /\ Cardinality(proc[w].active) < Capacity

\* The loop reads its own row, and claim_next_job looks for work only if that
\* says "online".  Otherwise the loop sleeps.
ReadOwnRow(w) ==
  /\ MayClaim(w)
  /\ row[w].status = "online"
  /\ proc' = [proc EXCEPT ![w].pc = "claiming"]
  /\ UNCHANGED <<beat, run, row, open, job, issued, drains, faulted>>

LeasedTo(w) == {j \in Jobs : job[j].token # None /\ run[job[j].token].worker = w}

\* claim_next_job has committed; the job is not yet back in the loop.
ClaimOne(w, j) ==
  /\ proc[w].pc = "claiming" /\ issued < MaxClaims
  /\ job[j].state = "queued"
  /\ Cardinality(LeasedTo(w)) < Capacity
  /\ issued' = issued + 1
  /\ job' = [job EXCEPT ![j] = [state |-> "active", token |-> issued + 1, lease |-> "live"]]
  /\ run' = [run EXCEPT ![issued + 1] = [pc |-> "unborn", job |-> j, worker |-> w]]
  /\ proc' = [proc EXCEPT ![w].pc = "claimed", ![w].hand = issued + 1]
  /\ UNCHANGED <<beat, row, open, drains, faulted>>

ClaimNone(w) ==
  /\ proc[w].pc = "claiming"
  /\ proc' = [proc EXCEPT ![w].pc = "idle"]
  /\ UNCHANGED <<beat, run, row, open, job, issued, drains, faulted>>

\* Mutant: a claim that comes back after the signal is not waited for.
TrackedUnlessDraining(w, t) ==
  IF proc[w].draining THEN proc[w].active ELSE proc[w].active \cup {t}

\* _active.add
Tracked(w, t) == proc[w].active \cup {t}

\* Mutant: setdefault instead of an assignment.
EnteredIfAbsent(w, t) ==
  [proc[w].contexts EXCEPT ![run[t].job] = IF @ = None THEN t ELSE @]

\* _contexts[job.id] = ...: in the place of an earlier attempt of the job.
Entered(w, t) == [proc[w].contexts EXCEPT ![run[t].job] = t]

\* create_task and _active.add.  The coroutine enters its context under the job's
\* id when it is first scheduled, which is one step with this here: a heartbeat
\* that is ready at that moment may miss the entry for one round.
Spawn(w) ==
  /\ proc[w].pc = "claimed"
  /\ LET t == proc[w].hand
     IN /\ proc' = [proc EXCEPT ![w].pc = "idle", ![w].hand = None,
                                ![w].active = Tracked(w, t),
                                ![w].contexts = Entered(w, t)]
        /\ run' = [run EXCEPT ![t].pc = "working"]
  /\ UNCHANGED <<beat, row, open, job, issued, drains, faulted>>

StopClaiming(w) ==
  /\ proc[w].pc = "idle" /\ proc[w].draining
  /\ proc' = [proc EXCEPT ![w].pc = "waiting"]
  /\ UNCHANGED <<beat, run, row, open, job, issued, drains, faulted>>

\* asyncio.wait on all active tasks; nobody adds one any more.
FinishJobs(w) ==
  /\ proc[w].pc = "waiting" /\ proc[w].active = {}
  /\ proc' = [proc EXCEPT ![w].pc = "joining"]
  /\ UNCHANGED <<beat, run, row, open, job, issued, drains, faulted>>

\* await hb, which raises what the heartbeat task raised: then the process
\* ends without setting its status.  Otherwise set_status loads the row.
JoinHeartbeat(w) ==
  /\ proc[w].pc = "joining"
  /\ \/ /\ beat[w].pc = "failed"
        /\ proc' = [proc EXCEPT ![w].pc = "dead"]
        /\ UNCHANGED open
     \/ /\ beat[w].pc = "ended"
        /\ proc' = [proc EXCEPT ![w].pc = "closing"]
        /\ Load("close", w)
  /\ UNCHANGED <<beat, run, row, job, issued, drains, faulted>>

Close(w) ==
  /\ proc[w].pc = "closing"
  /\ row' = [row EXCEPT ![w].status = Stored("close", w, "offline")]
  /\ open' = [open EXCEPT !["close"][w] = None]
  /\ proc' = [proc EXCEPT ![w].pc = "exited"]
  /\ UNCHANGED <<beat, run, job, issued, drains, faulted>>
-----------------------------------------------------------------------------
(* _heartbeat_loop *)

\* Mutant: the heartbeat does not end.
BeatOverNever(w) == FALSE

\* The loop's condition, and the break at its end.
BeatOver(w) == proc[w].draining /\ proc[w].active = {}

\* The status to write is an argument of heartbeat(), so it is decided before
\* the row is loaded.
BeatLoad(w) ==
  /\ beat[w].pc = "top" /\ ~BeatOver(w)
  /\ beat' = [beat EXCEPT ![w].pc = "loaded",
                          ![w].says = IF proc[w].draining THEN "draining" ELSE "online"]
  /\ Load("heartbeat", w)
  /\ UNCHANGED <<proc, run, row, job, issued, drains, faulted>>

\* Mutant: a job that has left the table is still listed.
RenewalsOfAll(w) == {proc[w].contexts[j] : j \in Jobs}

Renewals(w) == {proc[w].contexts[j] : j \in Jobs} \ {None}

\* The commit of heartbeat(), and the list of contexts that is renewed next.
BeatStore(w) ==
  /\ beat[w].pc = "loaded"
  /\ row' = [row EXCEPT ![w] = [status |-> Stored("heartbeat", w, beat[w].says),
                                fresh |-> TRUE]]
  /\ open' = [open EXCEPT !["heartbeat"][w] = None]
  /\ beat' = [beat EXCEPT ![w].pc = "renewing",
                          ![w].todo = Renewals(w)]
  /\ UNCHANGED <<proc, run, job, issued, drains, faulted>>

\* renew_lease of one entry: of a token that is no longer the row's it only
\* tells the handler to stop.
RenewNext(w, t) ==
  /\ beat[w].pc = "renewing" /\ t \in beat[w].todo
  /\ beat' = [beat EXCEPT ![w].todo = @ \ {t}]
  /\ job' = IF job[run[t].job].token = t
            THEN [job EXCEPT ![run[t].job].lease = "live"] ELSE job
  /\ UNCHANGED <<proc, run, row, open, issued, drains, faulted>>

\* The wait for the next beat, or for the draining event.
BeatSleep(w) ==
  /\ beat[w].pc = "renewing" /\ beat[w].todo = {}
  /\ beat' = [beat EXCEPT ![w].pc = "top"]
  /\ UNCHANGED <<proc, run, row, open, job, issued, drains, faulted>>

BeatEnd(w) ==
  /\ beat[w].pc = "top" /\ BeatOver(w)
  /\ beat' = [beat EXCEPT ![w].pc = "ended"]
  /\ UNCHANGED <<proc, run, row, open, job, issued, drains, faulted>>

\* An exception of a session ends the task; nobody looks at it until run()
\* awaits it.
BeatFails(w) ==
  /\ beat[w].pc \in {"loaded", "renewing"}
  /\ FaultOf(w)
  /\ beat' = [beat EXCEPT ![w].pc = "failed", ![w].todo = {}]
  /\ open' = [open EXCEPT !["heartbeat"][w] = None]
  /\ UNCHANGED <<proc, run, row, job, issued, drains>>
-----------------------------------------------------------------------------
(* _execute *)

\* The attempt ends, for good or for a retry, or finds that it has lost the
\* job.  A handler that asyncio.run cancels reports too.
Report(t) ==
  /\ run[t].pc = "working"
  /\ LET j == run[t].job
     IN \/ job[j].token # t /\ UNCHANGED job
        \/ job[j].token = t /\ \E r \in {Queued, Done} : job' = [job EXCEPT ![j] = r]
  /\ run' = [run EXCEPT ![t].pc = "leaving"]
  /\ UNCHANGED <<proc, beat, row, open, issued, drains, faulted>>

\* The report raises, or asyncio.run cancels the report itself.
ReportFails(t) ==
  /\ run[t].pc = "working"
  /\ IF proc[run[t].worker].pc = "failing" THEN UNCHANGED faulted ELSE FaultOf(run[t].worker)
  /\ run' = [run EXCEPT ![t].pc = "leaving"]
  /\ UNCHANGED <<proc, beat, row, open, job, issued, drains>>

\* Mutant: the context is left behind.
ContextsKept(w, j) == proc[w].contexts

\* _contexts.pop(job.id): whatever is there under the job's id.
ContextsWithout(w, j) == [proc[w].contexts EXCEPT ![j] = None]

\* The finally clause, and the callback that discards the task.
Leave(t) ==
  /\ run[t].pc = "leaving"
  /\ LET w == run[t].worker
     IN proc' = [proc EXCEPT ![w].contexts = ContextsWithout(w, run[t].job),
                             ![w].active = @ \ {t}]
  /\ run' = [run EXCEPT ![t].pc = "gone"]
  /\ UNCHANGED <<beat, row, open, job, issued, drains, faulted>>
-----------------------------------------------------------------------------
(* Faults *)

\* An exception in the claim loop leaves run(), and asyncio.run cancels the
\* heartbeat and every coroutine.  A job just claimed is forgotten.
ClaimLoopFails(w) ==
  /\ MayClaim(w) \/ proc[w].pc \in {"claiming", "claimed"}
  /\ FaultOf(w)
  /\ proc' = [proc EXCEPT ![w].pc = "failing", ![w].hand = None]
  /\ beat' = [beat EXCEPT ![w] = [NoBeat EXCEPT !.pc = "ended"]]
  /\ open' = [open EXCEPT !["heartbeat"][w] = None]
  /\ UNCHANGED <<run, row, job, issued, drains>>

TearDown(w) ==
  /\ proc[w].pc = "failing" /\ proc[w].active = {}
  /\ proc' = [proc EXCEPT ![w].pc = "dead"]
  /\ UNCHANGED <<beat, run, row, open, job, issued, drains, faulted>>

\* The process dies, and everything in its memory with it.
Crash(w) ==
  /\ Alive(w)
  /\ FaultOf(w)
  /\ proc' = [proc EXCEPT ![w] = [NewProc EXCEPT !.pc = "dead"]]
  /\ beat' = [beat EXCEPT ![w] = [NoBeat EXCEPT !.pc = "ended"]]
  /\ run' = [t \in Tokens |-> IF run[t].worker = w THEN [run[t] EXCEPT !.pc = "gone"]
                              ELSE run[t]]
  /\ open' = [open EXCEPT !["heartbeat"][w] = None, !["close"][w] = None]
  /\ UNCHANGED <<row, job, issued, drains>>
-----------------------------------------------------------------------------
(* The others: the drain endpoint, the scheduler's loops, time *)

\* POST /workers/{id}/drain loads the row, and sets "draining".
OpenDrain(w) ==
  /\ row[w].status # None /\ ~Loaded("drain", w) /\ drains < MaxDrains
  /\ drains' = drains + 1
  /\ Load("drain", w)
  /\ UNCHANGED <<proc, beat, run, row, job, issued, faulted>>

CommitDrain(w) ==
  /\ Loaded("drain", w)
  /\ row' = [row EXCEPT ![w].status = Stored("drain", w, "draining")]
  /\ open' = [open EXCEPT !["drain"][w] = None]
  /\ UNCHANGED <<proc, beat, run, job, issued, drains, faulted>>

\* Mutant: a draining worker is not swept.
SilentIfOnline(w) == row[w].status \in {"online", "unhealthy"} /\ ~row[w].fresh

\* The WHERE clause of mark_dead_workers.
Silent(w) == row[w].status \in {"online", "draining", "unhealthy"} /\ ~row[w].fresh

\* mark_dead_workers selects all silent workers, announces each of them and
\* commits them together.  One sweep at a time: those of other schedulers would
\* write the same "offline".
SelectSilent ==
  /\ \A w \in Workers : ~Loaded("sweep", w)
  /\ \E w \in Workers : Silent(w)
  /\ open' = [open EXCEPT !["sweep"] =
                [w \in Workers |-> IF Silent(w) THEN row[w].status ELSE None]]
  /\ UNCHANGED <<proc, beat, run, row, job, issued, drains, faulted>>

MarkOffline ==
  /\ \E w \in Workers : Loaded("sweep", w)
  /\ row' = [w \in Workers |->
               IF Loaded("sweep", w)
               THEN [row[w] EXCEPT !.status = Stored("sweep", w, "offline")] ELSE row[w]]
  /\ open' = [open EXCEPT !["sweep"] = [w \in Workers |-> None]]
  /\ UNCHANGED <<proc, beat, run, job, issued, drains, faulted>>

\* Longer than worker_offline_after_seconds since the last heartbeat.
GoSilent(w) ==
  /\ row[w].fresh
  /\ row' = [row EXCEPT ![w].fresh = FALSE]
  /\ UNCHANGED <<proc, beat, run, open, job, issued, drains, faulted>>

Lapse(j) ==
  /\ job[j].lease = "live"
  /\ job' = [job EXCEPT ![j].lease = "lapsed"]
  /\ UNCHANGED <<proc, beat, run, row, open, issued, drains, faulted>>

\* reap_expired_leases, and the promotion of the retry it schedules.  It always
\* succeeds here; a second dead letter and a policy that raises, with which it
\* never does, are in JobLifecycle.
Reap(j) ==
  /\ job[j].lease = "lapsed"
  /\ \E r \in {Queued, Done} : job' = [job EXCEPT ![j] = r]
  /\ UNCHANGED <<proc, beat, run, row, open, issued, drains, faulted>>
-----------------------------------------------------------------------------
ClaimLoop(w) ==
  \/ ReadOwnRow(w) \/ (\E j \in Jobs : ClaimOne(w, j)) \/ ClaimNone(w) \/ Spawn(w)
  \/ StopClaiming(w) \/ FinishJobs(w) \/ JoinHeartbeat(w) \/ Close(w) \/ TearDown(w)

HeartbeatLoop(w) ==
  \/ BeatLoad(w) \/ BeatStore(w) \/ (\E t \in Tokens : RenewNext(w, t))
  \/ BeatSleep(w) \/ BeatEnd(w)

Execute(t) == Report(t) \/ Leave(t)

Next ==
  \/ \E w \in Workers :
       \/ Register(w) \/ Terminate(w) \/ ClaimLoop(w) \/ HeartbeatLoop(w)
       \/ BeatFails(w) \/ ClaimLoopFails(w) \/ Crash(w)
       \/ OpenDrain(w) \/ CommitDrain(w) \/ GoSilent(w)
  \/ \E t \in Tokens : Execute(t) \/ ReportFails(t)
  \/ SelectSilent \/ MarkOffline
  \/ \E j \in Jobs : Lapse(j) \/ Reap(j)

Spec == Init /\ [][Next]_vars

\* A lease no heartbeat loop will renew runs out.
Unrenewed(j) ==
  \A w \in Workers :
    beat[w].pc \in {"top", "loaded", "renewing"} =>
      proc[w].contexts[j] # job[j].token /\ job[j].token \notin beat[w].todo

\* The event loop runs whatever is ready, handlers end at the latest when their
\* time is up, a worker that does not beat falls silent, the scheduler's loops
\* run again and again.  Nothing makes a signal, a fault or a drain happen.
Fairness ==
  /\ \A w \in Workers : /\ WF_vars(ClaimLoop(w)) /\ WF_vars(HeartbeatLoop(w))
                        /\ WF_vars(CommitDrain(w))
                        /\ WF_vars(beat[w].pc \in {"ended", "failed"} /\ GoSilent(w))
  /\ \A t \in Tokens : WF_vars(Execute(t))
  /\ WF_vars(SelectSilent) /\ WF_vars(MarkOffline)
  /\ \A j \in Jobs : WF_vars(Unrenewed(j) /\ Lapse(j)) /\ WF_vars(Reap(j))

FairSpec == Spec /\ Fairness
-----------------------------------------------------------------------------
(* Safety *)

Faultless(w) == faulted[w] = 0

\* A job leased to a worker without faults is at every moment in the hands of
\* its claim loop or of one of the tasks its shutdown waits for, and an exited
\* worker holds no lease: a drain in any order with claims, handlers, lost
\* leases and second attempts loses no job (main.py:3-4, main.py:188-194).
NoLeaseIsForgotten ==
  \A j \in Jobs : job[j].token # None =>
    LET t == job[j].token
        w == run[t].worker
    IN  Faultless(w) =>
          /\ proc[w].pc # "exited"
          /\ t = proc[w].hand \/ (t \in proc[w].active /\ run[t].pc = "working")

\* The heartbeat has a running job that the worker owns in its reach, unless an
\* earlier attempt of the job in the same process has ended meanwhile and taken
\* the entry of this one along (main.py:111, main.py:161), or the heartbeat had
\* ended before the job came.
RunningJobsAreReachable ==
  \A j \in Jobs : job[j].token # None =>
    LET t == job[j].token
        w == run[t].worker
    IN  Faultless(w) /\ run[t].pc = "working" =>
          /\ \/ proc[w].contexts[j] = t
             \/ \E u \in Tokens : /\ u < t /\ run[u].pc = "gone"
                                  /\ run[u].job = j /\ run[u].worker = w
          /\ beat[w].pc \in {"top", "loaded", "renewing"} \/ proc[w].draining

\* The coroutines of a process that have started and not ended.
Started(w) == {t \in Tokens : run[t].worker = w /\ run[t].pc \in {"working", "leaving"}}

\* A shutdown waits for what is there and for nothing else: what asyncio.wait is
\* given are the coroutines that run, however many faults and lost leases the
\* process has seen, and the heartbeat it joins has no reason left to go on
\* (main.py:87, main.py:106, main.py:188-194).
ShutdownsAreNotBlocked ==
  \A w \in Workers :
    /\ proc[w].active = Started(w)
    /\ proc[w].pc = "joining" => BeatOver(w) /\ beat[w].pc # "off"

\* A process never runs more handlers at once than its capacity, with the one it
\* is about to start and those whose job was reaped and is counted for nobody
\* any more: a claim is looked for with a slot free, and whatever comes and goes
\* meanwhile, it comes back to a slot that is still free (main.py:166-179).
CapacityIsKept ==
  \A w \in Workers :
    /\ Cardinality(Started(w)) <= Capacity
    /\ proc[w].pc \in {"claiming", "claimed"} => Cardinality(Started(w)) < Capacity
-----------------------------------------------------------------------------
(* Liveness *)

\* A worker that is told to stop exits with its jobs ended, or had a fault:
\* claim loop, jobs and heartbeat do not wait for each other forever.
DrainsComplete ==
  \A w \in Workers : proc[w].draining ~> (proc[w].pc = "exited" \/ ~Faultless(w))

\* Whatever it did last, a worker that is gone is offline in the end and stays
\* so: no heartbeat, drain or sweep that began before undoes it.
GoneWorkersEndOffline ==
  \A w \in Workers :
    proc[w].pc \in {"exited", "dead"} ~> [](row[w].status = "offline")

\* A worker whose heartbeat loop runs is shown online again after a sweep has
\* taken it for dead, and after the drain endpoint.
BeatingWorkersAreOnline ==
  \A w \in Workers :
    []<>(row[w].status = "online" \/ proc[w].draining \/ ~Faultless(w)
           \/ proc[w].pc = "new")

\* No lease is renewed forever: the attempt reports, or nobody renews the
\* lease and the reaper takes the job (main.py:160-161).  That is said of jobs
\* the reaper can fail, as Reap does.
LeasesEnd ==
  \A j \in Jobs, t \in Tokens : job[j].token = t ~> job[j].token # t
-----------------------------------------------------------------------------
(* What the documents promise and a race breaks *)

\* main.py:92, "Renew leases of running jobs": the heartbeat task of a worker
\* without faults is there as long as the worker runs a job it owns.
RunningJobsAreRenewed ==
  \A j \in Jobs : job[j].token # None =>
    LET w == run[job[j].token].worker
    IN  Faultless(w) /\ run[job[j].token].pc = "working" => beat[w].pc # "ended"
=============================================================================
