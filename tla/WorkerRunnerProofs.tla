-------------------------- MODULE WorkerRunnerProofs --------------------------
(***************************************************************************)
(* Theorems of WorkerRunner that hold for any numbers of workers and jobs, *)
(* any capacity and any numbers of drains and faults.  The argument: most  *)
(* steps neither take up nor drop an attempt (LightStep).  The others are  *)
(* the way of one attempt: in the hand of the claim loop, in the set of    *)
(* active tasks with its handler at work, and out of both when the row no  *)
(* longer carries its token.  Of two attempts of a job the one with the    *)
(* row is the later one, so an entry that was overwritten or popped under  *)
(* the job's id was lost to an attempt that has ended.                     *)
(***************************************************************************)
EXTENDS WorkerRunner, FiniteSetTheorems, TLAPS

Beating(w) == beat[w].pc \in {"top", "loaded", "renewing"}

\* What the claim loop has in hand is its last claim.
HandInv(w) ==
  IF proc[w].pc = "claimed"
  THEN /\ proc[w].hand \in 1..issued
       /\ run[proc[w].hand].worker = w /\ run[proc[w].hand].pc = "unborn"
       /\ run[proc[w].hand].job \in Jobs
       /\ \A u \in 1..issued : run[u].worker = w => u <= proc[w].hand
  ELSE proc[w].hand = None

WorkerInv(w) ==
  /\ HandInv(w)
  /\ proc[w].pc \in {"new", "joining", "closing", "exited"} => proc[w].active = {}
  /\ proc[w].pc = "failing" => ~Faultless(w)
  /\ Faultless(w) /\ proc[w].pc # "new" => Beating(w) \/ proc[w].draining

\* The claim that leased the row is the last one of the job.
TokenInv(j, t) ==
  /\ t \in 1..issued /\ run[t].job = j /\ run[t].worker \in Workers
  /\ \A u \in 1..issued : run[u].job = j => u <= t

Held(t, w) == t = proc[w].hand \/ (t \in proc[w].active /\ run[t].pc = "working")

Entry(j, t, w) ==
  \/ proc[w].contexts[j] = t
  \/ \E u \in Tokens : u < t /\ run[u].pc = "gone" /\ run[u].job = j /\ run[u].worker = w

JobInv(j) ==
  job[j].token # None =>
    LET t == job[j].token
        w == run[t].worker
    IN  /\ TokenInv(j, t)
        /\ Faultless(w) => Held(t, w) /\ (run[t].pc = "working" => Entry(j, t, w))

\* A coroutine that has started belongs to a claim.
RunInv == \A t \in Tokens : t \in 1..issued \/ run[t].pc \in {"unborn", "gone"}

Inv == TypeOK /\ RunInv /\ (\A w \in Workers : WorkerInv(w)) /\ \A j \in Jobs : JobInv(j)
-----------------------------------------------------------------------------
(* Steps that take up and drop no attempt                                    *)

LightMove(w) ==
  /\ proc'[w].hand = proc[w].hand /\ proc'[w].active = proc[w].active
  /\ proc'[w].contexts = proc[w].contexts
  /\ proc[w].draining => proc'[w].draining
  /\ \/ proc'[w].pc = proc[w].pc
     \/ /\ proc[w].pc # "claimed" /\ proc'[w].pc \notin {"claimed", "new", "failing"}
        /\ proc'[w].pc \in {"joining", "closing", "exited"} => proc[w].active = {}
  /\ faulted[w] # 0 => faulted'[w] # 0
  /\ faulted'[w] = 0 /\ proc'[w].pc # "new" =>
       \/ Beating(w)' \/ proc'[w].draining
       \/ proc[w].pc # "new" /\ (Beating(w) => Beating(w)')

LightStep ==
  /\ run' = run /\ issued' = issued
  /\ \A w \in Workers : LightMove(w)
  /\ \A j \in Jobs : job'[j].token \in {job[j].token, None}

\* A light step keeps what is known of every process.
LEMMA LightKeepsWorkers ==
  ASSUME Inv, LightStep, NEW w \in Workers
  PROVE  WorkerInv(w)'
<1>1. WorkerInv(w) /\ LightMove(w) /\ run' = run /\ issued' = issued
  BY DEF Inv, LightStep
<1>2. HandInv(w)'
  <2>1. CASE proc'[w].pc = proc[w].pc
    BY <1>1, <2>1 DEF WorkerInv, HandInv, LightMove
  <2>2. CASE proc[w].pc # "claimed" /\ proc'[w].pc # "claimed"
    BY <1>1, <2>2 DEF WorkerInv, HandInv, LightMove
  <2> QED BY <1>1, <2>1, <2>2 DEF LightMove
<1>3. Faultless(w)' => Faultless(w)
  BY <1>1 DEF LightMove, Faultless
<1>4. /\ proc'[w].pc \in {"new", "joining", "closing", "exited"} => proc'[w].active = {}
      /\ proc'[w].pc = "failing" => ~Faultless(w)'
  BY <1>1, <1>3 DEF WorkerInv, LightMove
<1>5. Faultless(w)' /\ proc'[w].pc # "new" => Beating(w)' \/ proc'[w].draining
  BY <1>1, <1>3 DEF WorkerInv, LightMove, Faultless
<1> QED BY <1>2, <1>4, <1>5 DEF WorkerInv

\* A light step keeps what is known of every job.
LEMMA LightKeepsJobs ==
  ASSUME Inv, LightStep, NEW j \in Jobs
  PROVE  JobInv(j)'
<1> SUFFICES ASSUME job'[j].token # None PROVE JobInv(j)'
  BY DEF JobInv
<1> DEFINE t == job[j].token
           w == run[t].worker
<1>1. job'[j].token = t /\ t # None /\ run' = run /\ issued' = issued
  BY DEF LightStep
<1>2. TokenInv(j, t) /\ (Faultless(w) => Held(t, w) /\ (run[t].pc = "working" => Entry(j, t, w)))
  BY <1>1 DEF Inv, JobInv
<1>3. LightMove(w)
  BY <1>2 DEF TokenInv, LightStep
<1>4. TokenInv(j, t)' /\ w' = w /\ t' = t
  BY <1>1, <1>2 DEF TokenInv
<1>5. Faultless(w)' => Faultless(w)
  BY <1>1, <1>3 DEF LightMove, Faultless
<1>6. Held(t, w) => Held(t, w)'
  BY <1>1, <1>3 DEF LightMove, Held
<1>7. Entry(j, t, w) => Entry(j, t, w)'
  BY <1>1, <1>3 DEF LightMove, Entry
<1> HIDE DEF t, w
<1> QED BY <1>1, <1>2, <1>4, <1>5, <1>6, <1>7 DEF JobInv, t, w
-----------------------------------------------------------------------------
(* Types of the variables that are written from several places              *)

RowType == row \in [Workers -> [status: Statuses \cup {None}, fresh: BOOLEAN]]
OpenType == open \in [Writers -> [Workers -> Statuses \cup {None}]]
JobType == job \in [Jobs -> [state: {"queued", "active", "done"}, token: Tokens \cup {None},
                             lease: {"none", "live", "lapsed"}]]

\* The status a transaction leaves in the row.
LEMMA StoredType ==
  ASSUME TypeOK, NEW k \in Writers, NEW w \in Workers, NEW st \in Statuses
  PROVE  Stored(k, w, st) \in Statuses \cup {None}
  BY DEF Stored, Column, TypeOK

\* One entry of the loaded statuses changes.
LEMMA OpenUpdate ==
  ASSUME TypeOK, NEW k \in Writers, NEW w \in Workers, NEW st \in Statuses \cup {None},
         open' = [open EXCEPT ![k] = [open[k] EXCEPT ![w] = st]]
  PROVE  OpenType'
<1>1. open[k] \in [Workers -> Statuses \cup {None}]
  BY DEF TypeOK
<1>2. [open[k] EXCEPT ![w] = st] \in [Workers -> Statuses \cup {None}]
  BY <1>1
<1> QED BY <1>2 DEF TypeOK, OpenType

\* A transaction loads a status.
LEMMA LoadType ==
  ASSUME TypeOK, NEW k \in Writers, NEW w \in Workers, Load(k, w)
  PROVE  OpenType'
<1>1. row[w].status \in Statuses \cup {None}
  BY DEF TypeOK
<1>2. open' = [open EXCEPT ![k] = [open[k] EXCEPT ![w] = row[w].status]]
  BY DEF Load, TypeOK
<1> QED BY <1>1, <1>2, OpenUpdate

\* A transaction that has ended has nothing loaded.
LEMMA UnloadType ==
  ASSUME TypeOK, NEW k \in Writers, NEW w \in Workers, open' = [open EXCEPT ![k][w] = None]
  PROVE  OpenType'
  BY OpenUpdate DEF TypeOK

\* One row of the workers table changes.
LEMMA RowUpdate ==
  ASSUME TypeOK, NEW w \in Workers, NEW st \in Statuses \cup {None}, NEW f \in BOOLEAN,
         \/ row' = [row EXCEPT ![w] = [status |-> st, fresh |-> f]]
         \/ row' = [row EXCEPT ![w].status = st]
         \/ row' = [row EXCEPT ![w].fresh = f]
  PROVE  RowType'
<1>1. row \in [Workers -> [status: Statuses \cup {None}, fresh: BOOLEAN]]
  BY DEF TypeOK
<1>2. CASE row' = [row EXCEPT ![w] = [status |-> st, fresh |-> f]]
  BY <1>1, <1>2 DEF RowType
<1>3. CASE row' = [row EXCEPT ![w].status = st]
  BY <1>1, <1>3 DEF RowType
<1>4. CASE row' = [row EXCEPT ![w].fresh = f]
  BY <1>1, <1>4 DEF RowType
<1> QED BY <1>2, <1>3, <1>4

\* One lease changes, and no token.
LEMMA JobUpdate ==
  ASSUME TypeOK, NEW j, NEW l \in {"live", "lapsed"}, job' = [job EXCEPT ![j].lease = l]
  PROVE  JobType' /\ \A i \in Jobs : job'[i].token = job[i].token
<1>1. \A i \in Jobs : job[i] \in [state: {"queued", "active", "done"}, token: Tokens \cup {None},
                                  lease: {"none", "live", "lapsed"}]
  BY DEF TypeOK
<1>2. \A i \in Jobs : job'[i] = IF i = j THEN [job[i] EXCEPT !.lease = l] ELSE job[i]
  BY DEF TypeOK
<1>3. ASSUME NEW i \in Jobs
      PROVE  /\ job'[i] \in [state: {"queued", "active", "done"}, token: Tokens \cup {None},
                             lease: {"none", "live", "lapsed"}]
             /\ job'[i].token = job[i].token
  BY <1>1, <1>2
<1>4. job' = [i \in Jobs |-> job'[i]]
  BY DEF TypeOK
<1> QED BY <1>3, <1>4 DEF JobType

\* A fault is counted for its worker, and never forgotten.
LEMMA FaultType ==
  ASSUME TypeOK, NEW w \in Workers, FaultOf(w)
  PROVE  /\ faulted' \in [Workers -> 0..MaxFaults] /\ faulted'[w] # 0
         /\ \A v \in Workers : faulted[v] # 0 => faulted'[v] # 0
         /\ \A v \in Workers \ {w} : faulted'[v] = faulted[v]
<1> DEFINE n == faulted[w] + 1
<1>1. n \in 0..MaxFaults /\ n # 0
  BY BoundAssumption DEF FaultOf, TypeOK
<1>2. faulted' = [faulted EXCEPT ![w] = n]
  BY DEF FaultOf
<1> HIDE DEF n
<1> QED BY <1>1, <1>2 DEF TypeOK
-----------------------------------------------------------------------------
(* Which steps are light                                                     *)

\* The claim loop goes on, in the process of w alone.
LEMMA LoopStep ==
  ASSUME Inv, NEW w \in Workers,
         \/ ReadOwnRow(w) \/ ClaimNone(w) \/ StopClaiming(w) \/ FinishJobs(w) \/ TearDown(w)
         \/ JoinHeartbeat(w) \/ Close(w)
  PROVE  LightStep /\ TypeOK'
<1>1. TypeOK /\ WorkerInv(w) /\ proc[w] \in Procs
  BY DEF Inv, TypeOK
<1>2. PICK p \in {"idle", "claiming", "waiting", "joining", "closing", "exited", "dead"} :
        proc' = [proc EXCEPT ![w].pc = p]
  BY DEF ReadOwnRow, ClaimNone, StopClaiming, FinishJobs, TearDown, JoinHeartbeat, Close
<1>3. /\ proc[w].pc \notin {"claimed", "new"}
      /\ p \in {"joining", "closing", "exited"} => proc[w].active = {}
  <2>1. CASE ReadOwnRow(w) \/ ClaimNone(w) \/ StopClaiming(w) \/ FinishJobs(w) \/ TearDown(w)
    BY <1>1, <1>2, <2>1 DEF ReadOwnRow, MayClaim, ClaimNone, StopClaiming, FinishJobs, TearDown,
                            TypeOK, Procs
  <2>2. CASE JoinHeartbeat(w) \/ Close(w)
    BY <1>1, <2>2 DEF JoinHeartbeat, Close, WorkerInv
  <2> QED BY <2>1, <2>2
<1>4. UNCHANGED <<beat, run, job, issued, drains, faulted>>
  BY DEF ReadOwnRow, ClaimNone, StopClaiming, FinishJobs, TearDown, JoinHeartbeat, Close
<1>5. proc' \in [Workers -> Procs]
  BY <1>1, <1>2 DEF TypeOK, Procs
<1>6. RowType' /\ OpenType'
  <2>1. CASE JoinHeartbeat(w)
    BY <1>1, <2>1, LoadType DEF JoinHeartbeat, TypeOK, RowType, OpenType, Writers
  <2>2. CASE Close(w)
    <3>1. Stored("close", w, "offline") \in Statuses \cup {None}
      BY <1>1, StoredType DEF Writers, Statuses
    <3> QED BY <1>1, <2>2, <3>1, RowUpdate, UnloadType DEF Close, Writers
  <2>3. CASE UNCHANGED <<row, open>>
    BY <1>1, <2>3 DEF TypeOK, RowType, OpenType
  <2> QED BY <2>1, <2>2, <2>3 DEF ReadOwnRow, ClaimNone, StopClaiming, FinishJobs, TearDown
<1>7. \A v \in Workers : LightMove(v)
  <2>1. ASSUME NEW v \in Workers, v # w PROVE LightMove(v)
    BY <1>1, <1>2, <1>4, <2>1 DEF LightMove, Beating, TypeOK
  <2>2. /\ proc'[w].pc = p /\ proc'[w].hand = proc[w].hand /\ proc'[w].active = proc[w].active
        /\ proc'[w].contexts = proc[w].contexts /\ proc'[w].draining = proc[w].draining
    BY <1>1, <1>2 DEF TypeOK, Procs
  <2>3. LightMove(w)
    BY <1>3, <1>4, <2>2 DEF LightMove, Beating
  <2> QED BY <2>1, <2>3
<1> QED BY <1>1, <1>4, <1>5, <1>6, <1>7 DEF LightStep, TypeOK, RowType, OpenType

\* A process starts or is told to stop.
LEMMA StartStep ==
  ASSUME Inv, NEW w \in Workers, Register(w) \/ Terminate(w)
  PROVE  LightStep /\ TypeOK'
<1>1. TypeOK /\ WorkerInv(w) /\ proc[w] \in Procs /\ beat[w] \in Beats
  BY DEF Inv, TypeOK
<1>2. UNCHANGED <<run, open, job, issued, drains, faulted>>
  BY DEF Register, Terminate
<1>3. CASE Register(w)
  <2>1. /\ proc' = [proc EXCEPT ![w].pc = "idle"] /\ beat' = [beat EXCEPT ![w].pc = "top"]
        /\ row' = [row EXCEPT ![w] = [status |-> "online", fresh |-> TRUE]]
        /\ proc[w].pc = "new"
    BY <1>3 DEF Register
  <2>2. /\ proc' \in [Workers -> Procs] /\ beat' \in [Workers -> Beats]
        /\ row' \in [Workers -> [status: Statuses \cup {None}, fresh: BOOLEAN]]
    BY <1>1, <2>1 DEF TypeOK, Procs, Beats, Statuses
  <2>3. ASSUME NEW v \in Workers PROVE LightMove(v)
    BY <1>1, <1>2, <2>1 DEF LightMove, Beating, TypeOK, Procs, Beats
  <2> QED BY <1>1, <1>2, <2>2, <2>3 DEF LightStep, TypeOK
<1>4. CASE Terminate(w)
  <2>1. proc' = [proc EXCEPT ![w].draining = TRUE] /\ beat' = beat /\ row' = row
    BY <1>4 DEF Terminate
  <2>2. proc' \in [Workers -> Procs]
    BY <1>1, <2>1 DEF TypeOK, Procs
  <2>3. ASSUME NEW v \in Workers PROVE LightMove(v)
    BY <1>1, <1>2, <1>4, <2>1 DEF LightMove, Beating, TypeOK, Procs, Terminate, Alive
  <2> QED BY <1>1, <1>2, <2>1, <2>2, <2>3 DEF LightStep, TypeOK
<1> QED BY <1>3, <1>4

\* The heartbeat goes on, ends with the process, or fails.
LEMMA BeatStep ==
  ASSUME Inv, NEW w \in Workers,
         BeatLoad(w) \/ BeatStore(w) \/ BeatSleep(w) \/ BeatEnd(w) \/ BeatFails(w)
  PROVE  LightStep /\ TypeOK'
<1>1. TypeOK /\ WorkerInv(w) /\ proc[w] \in Procs /\ beat[w] \in Beats
  BY DEF Inv, TypeOK
<1>2. UNCHANGED <<proc, run, job, issued, drains>>
  BY DEF BeatLoad, BeatStore, BeatSleep, BeatEnd, BeatFails
<1>3. Renewals(w) \subseteq Tokens
  BY <1>1 DEF Renewals, Procs
<1>4. \E r \in Beats : beat' = [beat EXCEPT ![w] = r]
  <2>1. CASE BeatLoad(w)
    <3>1. PICK x \in {"online", "draining"} :
            beat' = [beat EXCEPT ![w] = [beat[w] EXCEPT !.pc = "loaded", !.says = x]]
      BY <1>1, <2>1 DEF BeatLoad, TypeOK
    <3>2. [beat[w] EXCEPT !.pc = "loaded", !.says = x] \in Beats
      BY <1>1 DEF Beats
    <3> QED BY <3>1, <3>2
  <2>2. CASE BeatStore(w)
    <3> DEFINE rs == Renewals(w)
    <3>1. beat' = [beat EXCEPT ![w] = [beat[w] EXCEPT !.pc = "renewing", !.todo = rs]]
      BY <1>1, <2>2 DEF BeatStore, TypeOK
    <3> HIDE DEF rs
    <3>2. [beat[w] EXCEPT !.pc = "renewing", !.todo = rs] \in Beats
      BY <1>1, <1>3 DEF Beats, rs
    <3> QED BY <3>1, <3>2
  <2>3. CASE BeatSleep(w) \/ BeatEnd(w)
    <3>1. PICK p \in {"top", "ended"} : beat' = [beat EXCEPT ![w] = [beat[w] EXCEPT !.pc = p]]
      BY <1>1, <2>3 DEF BeatSleep, BeatEnd, TypeOK
    <3>2. [beat[w] EXCEPT !.pc = p] \in Beats
      BY <1>1 DEF Beats
    <3> QED BY <3>1, <3>2
  <2>4. CASE BeatFails(w)
    <3>1. beat' = [beat EXCEPT ![w] = [beat[w] EXCEPT !.pc = "failed", !.todo = {}]]
      BY <1>1, <2>4 DEF BeatFails, TypeOK
    <3>2. [beat[w] EXCEPT !.pc = "failed", !.todo = {}] \in Beats
      BY <1>1 DEF Beats
    <3> QED BY <3>1, <3>2
  <2> QED BY <2>1, <2>2, <2>3, <2>4
<1>5. beat' \in [Workers -> Beats] /\ \A v \in Workers \ {w} : beat'[v] = beat[v]
  BY <1>1, <1>4 DEF TypeOK
<1>6. RowType' /\ OpenType'
  <2>1. CASE BeatLoad(w)
    BY <1>1, <2>1, LoadType DEF BeatLoad, TypeOK, RowType, Writers
  <2>2. CASE BeatStore(w)
    <3>1. Stored("heartbeat", w, beat[w].says) \in Statuses \cup {None}
      BY <1>1, StoredType DEF Beats, Writers, Statuses
    <3> QED BY <1>1, <2>2, <3>1, RowUpdate, UnloadType DEF BeatStore, Writers
  <2>3. CASE BeatFails(w)
    BY <1>1, <2>3, UnloadType DEF BeatFails, TypeOK, RowType, Writers
  <2>4. CASE UNCHANGED <<row, open>>
    BY <1>1, <2>4 DEF TypeOK, RowType, OpenType
  <2> QED BY <2>1, <2>2, <2>3, <2>4 DEF BeatSleep, BeatEnd
<1>7. /\ faulted' \in [Workers -> 0..MaxFaults]
      /\ \A v \in Workers : faulted[v] # 0 => faulted'[v] # 0
  <2>1. CASE BeatFails(w)
    BY <1>1, <2>1, FaultType DEF BeatFails
  <2>2. CASE faulted' = faulted
    BY <1>1, <2>2 DEF TypeOK
  <2> QED BY <2>1, <2>2 DEF BeatLoad, BeatStore, BeatSleep, BeatEnd
<1>8. faulted'[w] = 0 => Beating(w)' \/ proc'[w].draining
  <2>1. CASE BeatLoad(w) \/ BeatStore(w) \/ BeatSleep(w)
    BY <1>1, <2>1 DEF BeatLoad, BeatStore, BeatSleep, TypeOK, Beats, Beating
  <2>2. CASE BeatEnd(w)
    BY <1>2, <2>2 DEF BeatEnd, BeatOver
  <2>3. CASE BeatFails(w)
    BY <1>1, <2>3, FaultType DEF BeatFails
  <2> QED BY <2>1, <2>2, <2>3
<1>9. ASSUME NEW v \in Workers PROVE LightMove(v)
  <2>1. CASE v = w
    BY <1>2, <1>7, <1>8, <2>1 DEF LightMove
  <2>2. CASE v # w
    BY <1>2, <1>5, <1>7, <2>2 DEF LightMove, Beating
  <2> QED BY <2>1, <2>2
<1> QED BY <1>1, <1>2, <1>5, <1>6, <1>7, <1>9 DEF LightStep, TypeOK, RowType, OpenType

\* A renewal moves the lease of the row that still has the token.
LEMMA RenewStep ==
  ASSUME Inv, NEW w \in Workers, NEW t \in Tokens, RenewNext(w, t)
  PROVE  LightStep /\ TypeOK'
<1>1. TypeOK /\ beat[w] \in Beats
  BY DEF Inv, TypeOK
<1>2. UNCHANGED <<proc, run, row, open, issued, drains, faulted>>
  BY DEF RenewNext
<1>3. beat' \in [Workers -> Beats] /\ \A v \in Workers : beat'[v].pc = beat[v].pc
  BY <1>1 DEF RenewNext, TypeOK, Beats
<1>4. JobType' /\ \A j \in Jobs : job'[j].token = job[j].token
  BY <1>1, JobUpdate DEF RenewNext, TypeOK, JobType
<1>5. \A v \in Workers : LightMove(v)
  BY <1>2, <1>3 DEF LightMove, Beating
<1> QED BY <1>1, <1>2, <1>3, <1>4, <1>5 DEF LightStep, TypeOK, JobType

\* The writers of the workers table outside the process, and the time.
LEMMA OthersStep ==
  ASSUME Inv,
         \/ SelectSilent \/ MarkOffline
         \/ \E w \in Workers : OpenDrain(w) \/ CommitDrain(w) \/ GoSilent(w)
         \/ \E j \in Jobs : Lapse(j) \/ Reap(j)
         \/ UNCHANGED vars
  PROVE  LightStep /\ TypeOK'
<1>1. TypeOK
  BY DEF Inv
<1>2. UNCHANGED <<proc, beat, run, issued, faulted>>
  BY DEF SelectSilent, MarkOffline, OpenDrain, CommitDrain, GoSilent, Lapse, Reap, vars
<1>3. RowType' /\ OpenType'
  <2>1. CASE SelectSilent
    BY <1>1, <2>1 DEF SelectSilent, TypeOK, RowType, OpenType
  <2>2. CASE MarkOffline
    <3>1. \A w \in Workers : Stored("sweep", w, "offline") \in Statuses \cup {None}
      BY <1>1, StoredType DEF Writers, Statuses
    <3> QED BY <1>1, <2>2, <3>1 DEF MarkOffline, TypeOK, RowType, OpenType
  <2>3. ASSUME NEW w \in Workers, OpenDrain(w) \/ CommitDrain(w) \/ GoSilent(w)
        PROVE  RowType' /\ OpenType'
    <3>1. CASE OpenDrain(w)
      BY <1>1, <3>1, LoadType DEF OpenDrain, TypeOK, RowType, Writers
    <3>2. CASE CommitDrain(w)
      <4>1. Stored("drain", w, "draining") \in Statuses \cup {None}
        BY <1>1, StoredType DEF Writers, Statuses
      <4> QED BY <1>1, <3>2, <4>1, RowUpdate, UnloadType DEF CommitDrain, Writers
    <3>3. CASE GoSilent(w)
      BY <1>1, <3>3, RowUpdate DEF GoSilent, TypeOK, OpenType
    <3> QED BY <2>3, <3>1, <3>2, <3>3
  <2>4. CASE (\E j \in Jobs : Lapse(j) \/ Reap(j)) \/ UNCHANGED vars
    BY <1>1, <2>4 DEF Lapse, Reap, vars, TypeOK, RowType, OpenType
  <2> QED BY <2>1, <2>2, <2>3, <2>4
<1>4. drains' \in 0..MaxDrains
  BY <1>1, BoundAssumption
     DEF SelectSilent, MarkOffline, OpenDrain, CommitDrain, GoSilent, Lapse, Reap, vars, TypeOK
<1>5. JobType' /\ \A j \in Jobs : job'[j].token \in {job[j].token, None}
  <2>1. CASE job' = job
    BY <1>1, <2>1 DEF TypeOK, JobType
  <2>2. CASE \E j \in Jobs : Lapse(j)
    BY <1>1, <2>2, JobUpdate DEF Lapse
  <2>3. CASE \E j \in Jobs : Reap(j)
    BY <1>1, <2>3 DEF Reap, Queued, Done, TypeOK, JobType
  <2> QED BY <2>1, <2>2, <2>3
          DEF SelectSilent, MarkOffline, OpenDrain, CommitDrain, GoSilent, vars
<1>6. \A w \in Workers : LightMove(w)
  BY <1>2 DEF LightMove, Beating
<1> QED BY <1>1, <1>2, <1>3, <1>4, <1>5, <1>6 DEF LightStep, TypeOK, RowType, OpenType, JobType
-----------------------------------------------------------------------------
(* The way of an attempt                                                     *)

\* A claim puts its job in the hand of the claim loop.
LEMMA ClaimKeeps ==
  ASSUME Inv, NEW w \in Workers, NEW j \in Jobs, ClaimOne(w, j)
  PROVE  Inv'
<1>0. PICK t : t = issued + 1
  OBVIOUS
<1>1. TypeOK /\ issued \in Nat /\ t \in Tokens /\ t \in 0..MaxClaims /\ issued' = t
  BY <1>0, BoundAssumption DEF Inv, TypeOK, ClaimOne, Tokens
<1>2. /\ 1..issued \subseteq Tokens /\ t \notin 1..issued
      /\ 1..issued' = (1..issued) \cup {t} /\ \A u \in 1..issued : u < t /\ u # None
      /\ t # None
  BY <1>0, <1>1, BoundAssumption DEF Inv, TypeOK, Tokens
<1>3. UNCHANGED <<beat, row, open, drains, faulted>>
  BY DEF ClaimOne
<1>4. /\ run' = [run EXCEPT ![t] = [pc |-> "unborn", job |-> j, worker |-> w]]
      /\ job' = [job EXCEPT ![j] = [state |-> "active", token |-> t, lease |-> "live"]]
      /\ proc' = [proc EXCEPT ![w].pc = "claimed", ![w].hand = t]
      /\ proc[w].pc = "claiming"
  BY <1>0 DEF ClaimOne
<1>5. TypeOK'
  <2>1. run' \in [Tokens -> Runs]
    BY <1>1, <1>4 DEF TypeOK, Runs
  <2>2. JobType'
    BY <1>1, <1>4 DEF TypeOK, JobType
  <2>3. proc' \in [Workers -> Procs]
    <3>0. proc[w] \in Procs
      BY <1>1 DEF TypeOK
    <3>1. [proc[w] EXCEPT !.pc = "claimed", !.hand = t] \in Procs
      BY <1>1, <3>0 DEF Procs
    <3>2. proc' = [proc EXCEPT ![w] = [proc[w] EXCEPT !.pc = "claimed", !.hand = t]]
      BY <1>1, <1>4 DEF TypeOK
    <3> QED BY <1>1, <3>1, <3>2 DEF TypeOK
  <2> QED BY <1>1, <1>3, <2>1, <2>2, <2>3 DEF TypeOK, JobType
<1>6. /\ run'[t].pc = "unborn" /\ run'[t].job = j /\ run'[t].worker = w
      /\ \A u \in 1..issued : run'[u] = run[u]
      /\ \A u \in Tokens \ {t} : run'[u] = run[u]
  BY <1>1, <1>2, <1>4 DEF TypeOK
<1>7. /\ proc'[w].pc = "claimed" /\ proc'[w].hand = t /\ proc'[w].active = proc[w].active
      /\ proc'[w].contexts = proc[w].contexts /\ proc'[w].draining = proc[w].draining
      /\ \A v \in Workers \ {w} : proc'[v] = proc[v]
  BY <1>1, <1>4 DEF TypeOK, Procs
<1>8. job'[j].token = t /\ \A i \in Jobs \ {j} : job'[i] = job[i]
  BY <1>1, <1>4 DEF TypeOK
<1>9. RunInv'
  BY <1>1, <1>2, <1>6 DEF Inv, RunInv
<1>10. ASSUME NEW v \in Workers PROVE WorkerInv(v)'
  <2>1. WorkerInv(v) /\ WorkerInv(w)
    BY DEF Inv
  <2>2. CASE v = w
    <3>1. HandInv(w)'
      BY <1>1, <1>2, <1>6, <1>7 DEF HandInv
    <3> QED BY <1>3, <1>4, <1>7, <2>1, <2>2, <3>1 DEF WorkerInv, Beating, Faultless
  <2>3. CASE v # w
    <3>1. HandInv(v)'
      BY <1>2, <1>6, <1>7, <2>1, <2>3 DEF WorkerInv, HandInv
    <3> QED BY <1>3, <1>7, <2>1, <2>3, <3>1 DEF WorkerInv, Beating, Faultless
  <2> QED BY <2>2, <2>3
<1>11. ASSUME NEW i \in Jobs PROVE JobInv(i)'
  <2>1. CASE i = j
    <3>1. TokenInv(j, t)'
      BY <1>2, <1>6 DEF TokenInv
    <3>2. Held(t, w)'
      BY <1>7 DEF Held
    <3> QED BY <1>6, <1>8, <2>1, <3>1, <3>2 DEF JobInv
  <2>2. CASE i # j
    <3> SUFFICES ASSUME job[i].token # None PROVE JobInv(i)'
      BY <1>8, <2>2 DEF JobInv
    <3> DEFINE u == job[i].token
               x == run[u].worker
    <3>1. TokenInv(i, u) /\ (Faultless(x) => Held(u, x) /\ (run[u].pc = "working" => Entry(i, u, x)))
      BY DEF Inv, JobInv
    <3>2. u \in 1..issued /\ x \in Workers /\ run'[u] = run[u] /\ job'[i].token = u
      BY <1>6, <1>8, <2>2, <3>1 DEF TokenInv
    <3>3. TokenInv(i, u)' /\ u' = u /\ x' = x
      BY <1>2, <1>6, <1>8, <2>2, <3>1, <3>2 DEF TokenInv
    <3>4. Held(u, x) => Held(u, x)'
      <4>1. x = w => proc[w].hand = None
        BY <1>4 DEF Inv, WorkerInv, HandInv
      <4> QED BY <1>2, <1>7, <3>2, <3>3, <4>1 DEF Held
    <3>5. Entry(i, u, x) => Entry(i, u, x)'
      <4>1. \A z \in Tokens : z < u => z # t
        BY <1>1, <1>2, <3>2 DEF Tokens
      <4> QED BY <1>6, <1>7, <3>2, <3>3, <4>1 DEF Entry
    <3>6. run'[u].pc = run[u].pc /\ Faultless(x)' <=> (run'[u].pc = run[u].pc /\ Faultless(x))
      BY <1>3, <3>3 DEF Faultless
    <3> HIDE DEF u, x
    <3> QED BY <3>1, <3>2, <3>3, <3>4, <3>5, <3>6 DEF JobInv, u, x
  <2> QED BY <2>1, <2>2
<1> QED BY <1>5, <1>9, <1>10, <1>11 DEF Inv

\* What an invariant says of a leased job, with the names its proofs use.
LEMMA LeasedJob ==
  ASSUME Inv, NEW j \in Jobs, NEW t, t = job[j].token, t # None
  PROVE  /\ TokenInv(j, t) /\ t \in 1..issued /\ t \in Tokens /\ run[t].worker \in Workers
         /\ run[t].job = j
         /\ Faultless(run[t].worker) =>
              Held(t, run[t].worker) /\ (run[t].pc = "working" => Entry(j, t, run[t].worker))
<1>1. TokenInv(j, t)
  BY DEF Inv, JobInv
<1>2. t \in Tokens
  BY <1>1, BoundAssumption DEF Inv, TypeOK, Tokens, TokenInv
<1> QED BY <1>1, <1>2 DEF Inv, JobInv, TokenInv

\* The claim in hand becomes a task, and takes the entry of its job.
LEMMA SpawnKeeps ==
  ASSUME Inv, NEW w \in Workers, Spawn(w)
  PROVE  Inv'
<1>0. PICK t, j : t = proc[w].hand /\ j = run[t].job
  OBVIOUS
<1>1. /\ TypeOK /\ WorkerInv(w) /\ proc[w] \in Procs /\ proc[w].pc = "claimed"
      /\ t \in 1..issued /\ run[t].worker = w /\ run[t].pc = "unborn" /\ j \in Jobs
      /\ \A u \in 1..issued : run[u].worker = w => u <= t
  BY <1>0 DEF Inv, TypeOK, Spawn, WorkerInv, HandInv
<1>2. /\ 1..issued \subseteq Tokens /\ None \notin 1..issued /\ issued' = issued
  BY <1>1, BoundAssumption DEF TypeOK, Tokens, Spawn
<1>3. UNCHANGED <<beat, row, open, job, issued, drains, faulted>>
  BY DEF Spawn
<1>4. /\ proc' = [proc EXCEPT ![w].pc = "idle", ![w].hand = None,
                              ![w].active = Tracked(w, t), ![w].contexts = Entered(w, t)]
      /\ run' = [run EXCEPT ![t].pc = "working"]
  BY <1>0 DEF Spawn
<1>5. /\ run'[t].pc = "working" /\ run'[t].job = j /\ run'[t].worker = w
      /\ \A u \in Tokens \ {t} : run'[u] = run[u]
      /\ \A u \in Tokens : run'[u].job = run[u].job /\ run'[u].worker = run[u].worker
      /\ run' \in [Tokens -> Runs]
  <2>1. run[t] \in Runs /\ t \in Tokens
    BY <1>1, <1>2 DEF TypeOK
  <2>2. PICK r : r = [run[t] EXCEPT !.pc = "working"]
    OBVIOUS
  <2>3. r \in Runs /\ r.pc = "working" /\ r.job = run[t].job /\ r.worker = run[t].worker
    BY <2>1, <2>2 DEF Runs
  <2>4. run' = [run EXCEPT ![t] = r]
    BY <1>1, <1>4, <2>1, <2>2 DEF TypeOK
  <2> QED BY <1>0, <1>1, <2>1, <2>3, <2>4 DEF TypeOK
<1>6. /\ proc'[w].pc = "idle" /\ proc'[w].hand = None /\ proc'[w].draining = proc[w].draining
      /\ proc'[w].active = proc[w].active \cup {t}
      /\ proc'[w].contexts = [proc[w].contexts EXCEPT ![j] = t]
      /\ \A v \in Workers \ {w} : proc'[v] = proc[v]
      /\ proc' \in [Workers -> Procs]
  <2>1. PICK a, c : a = Tracked(w, t) /\ c = Entered(w, t)
    OBVIOUS
  <2>2. /\ a = proc[w].active \cup {t} /\ c = [proc[w].contexts EXCEPT ![j] = t]
        /\ a \in SUBSET Tokens /\ c \in [Jobs -> Tokens \cup {None}]
    BY <1>0, <1>1, <1>2, <2>1 DEF Tracked, Entered, Procs
  <2>3. PICK r : r = [proc[w] EXCEPT !.pc = "idle", !.hand = None, !.active = a, !.contexts = c]
    OBVIOUS
  <2>4. r \in Procs
    BY <1>1, <2>2, <2>3 DEF Procs
  <2>5. /\ r.pc = "idle" /\ r.hand = None /\ r.draining = proc[w].draining
        /\ r.active = a /\ r.contexts = c
    BY <1>1, <2>3 DEF Procs
  <2>6. proc' = [proc EXCEPT ![w] = r]
    BY <1>1, <1>4, <2>1, <2>3 DEF TypeOK
  <2> QED BY <1>1, <2>2, <2>4, <2>5, <2>6 DEF TypeOK
<1>7. TypeOK'
  BY <1>1, <1>3, <1>5, <1>6 DEF TypeOK
<1>8. RunInv'
  BY <1>1, <1>2, <1>5 DEF Inv, RunInv
<1>9. ASSUME NEW v \in Workers PROVE WorkerInv(v)'
  <2>1. CASE v = w
    BY <1>1, <1>3, <1>6, <2>1 DEF WorkerInv, HandInv, Beating, Faultless
  <2>2. CASE v # w
    <3>1. WorkerInv(v) /\ proc'[v] = proc[v]
      BY <1>6, <2>2 DEF Inv
    <3>2. proc[v].pc = "claimed" => proc[v].hand # t /\ proc[v].hand \in Tokens
      BY <1>1, <1>2, <2>2, <3>1 DEF WorkerInv, HandInv
    <3>3. HandInv(v)'
      BY <1>2, <1>5, <3>1, <3>2 DEF WorkerInv, HandInv
    <3> QED BY <1>3, <3>1, <3>3 DEF WorkerInv, Beating, Faultless
  <2> QED BY <2>1, <2>2
<1>10. ASSUME NEW i \in Jobs PROVE JobInv(i)'
  <2> SUFFICES ASSUME job[i].token # None PROVE JobInv(i)'
    BY <1>3 DEF JobInv
  <2>0. PICK u, x : u = job[i].token /\ x = run[u].worker
    OBVIOUS
  <2>1. /\ TokenInv(i, u) /\ u \in 1..issued /\ u \in Tokens /\ x \in Workers
        /\ run[u].job = i
        /\ Faultless(x) => Held(u, x) /\ (run[u].pc = "working" => Entry(i, u, x))
    BY <2>0, LeasedJob
  <2>2. TokenInv(i, u)' /\ job'[i].token = u /\ run'[u].worker = x
    BY <1>2, <1>3, <1>5, <2>0, <2>1 DEF TokenInv
  <2>3. ASSUME Faultless(x)
        PROVE  Held(u, x)' /\ (run'[u].pc = "working" => Entry(i, u, x)')
    <3>1. CASE u = t
      BY <1>1, <1>5, <1>6, <2>0, <2>1, <3>1 DEF Held, Entry, TypeOK, Procs
    <3>2. CASE u # t
      <4>1. Held(u, x)'
        BY <1>0, <1>5, <1>6, <2>1, <2>3, <3>2 DEF Held
      <4>2. ASSUME run[u].pc = "working" PROVE Entry(i, u, x)'
        <5>1. Entry(i, u, x)
          BY <2>1, <2>3, <4>2
        <5>2. ASSUME x = w PROVE i # j
          <6>1. run[u].worker = w
            BY <2>0, <5>2
          <6>2. u <= t
            BY <1>1, <2>1, <6>1
          <6>3. u \in Int /\ t \in Int
            BY <1>1, <2>1
          <6>4. i = j => t <= u
            BY <1>0, <1>1, <2>1 DEF TokenInv
          <6> QED BY <3>2, <6>2, <6>3, <6>4
        <5>3. proc'[x].contexts[i] = proc[x].contexts[i]
          BY <1>1, <1>6, <2>1, <5>2 DEF Procs
        <5>4. \A z \in Tokens : run[z].pc = "gone" => run'[z] = run[z]
          BY <1>1, <1>5
        <5> QED BY <5>1, <5>3, <5>4 DEF Entry
      <4> QED BY <1>5, <2>1, <3>2, <4>1, <4>2
    <3> QED BY <3>1, <3>2
  <2> QED BY <1>3, <2>2, <2>3 DEF JobInv, Faultless
<1> QED BY <1>7, <1>8, <1>9, <1>10 DEF Inv

\* The report ends the attempt or finds it ended; nobody else's token is lost.
LEMMA ReportKeeps ==
  ASSUME Inv, NEW t \in Tokens, Report(t)
  PROVE  Inv'
<1>0. TypeOK /\ run[t].pc = "working" /\ UNCHANGED <<proc, beat, row, open, issued, drains, faulted>>
  BY DEF Inv, Report
<1>1. /\ run'[t].pc = "leaving" /\ run' \in [Tokens -> Runs]
      /\ \A u \in Tokens \ {t} : run'[u] = run[u]
      /\ \A u \in Tokens : run'[u].job = run[u].job /\ run'[u].worker = run[u].worker
  BY <1>0 DEF Report, TypeOK, Runs
<1>2. /\ JobType' /\ \A i \in Jobs : job'[i].token \in {job[i].token, None}
  <2>1. CASE job' = job /\ job[run[t].job].token # t
    BY <1>0, <2>1 DEF TypeOK, JobType
  <2>2. CASE job[run[t].job].token = t /\ \E r \in {Queued, Done} : job' = [job EXCEPT ![run[t].job] = r]
    <3>1. PICK r \in {Queued, Done} : job' = [job EXCEPT ![run[t].job] = r]
      BY <2>2
    <3>2. r.token = None /\ r \in [state: {"queued", "active", "done"}, token: Tokens \cup {None},
                                   lease: {"none", "live", "lapsed"}]
      BY DEF Queued, Done
    <3> QED BY <1>0, <2>2, <3>1, <3>2 DEF TypeOK, JobType
  <2> QED BY <2>1, <2>2 DEF Report
<1>3. 1..issued \subseteq Tokens
  BY <1>0, BoundAssumption DEF TypeOK, Tokens
<1>4. TypeOK'
  BY <1>0, <1>1, <1>2 DEF TypeOK, JobType
<1>5. RunInv'
  BY <1>0, <1>1 DEF Inv, RunInv
<1>6. ASSUME NEW v \in Workers PROVE WorkerInv(v)'
  <2>1. WorkerInv(v)
    BY DEF Inv
  <2>2. HandInv(v)'
    BY <1>0, <1>1, <1>3, <2>1 DEF WorkerInv, HandInv
  <2> QED BY <1>0, <2>1, <2>2 DEF WorkerInv, Beating, Faultless
<1>7. ASSUME NEW i \in Jobs PROVE JobInv(i)'
  <2> SUFFICES ASSUME job'[i].token # None PROVE JobInv(i)'
    BY DEF JobInv
  <2>0. PICK u, x : u = job[i].token /\ x = run[u].worker
    OBVIOUS
  <2>1. /\ TokenInv(i, u) /\ u \in 1..issued /\ u \in Tokens /\ x \in Workers
        /\ run[u].job = i
        /\ Faultless(x) => Held(u, x) /\ (run[u].pc = "working" => Entry(i, u, x))
    BY <1>2, <2>0, LeasedJob
  <2>2. u # t /\ job'[i].token = u
    BY <1>0, <1>2, <2>0, <2>1 DEF Report, TypeOK, Queued, Done
  <2>3. TokenInv(i, u)' /\ run'[u] = run[u]
    BY <1>0, <1>1, <1>3, <2>1, <2>2 DEF TokenInv
  <2>4. Held(u, x) => Held(u, x)'
    BY <1>0, <2>3 DEF Held
  <2>5. Entry(i, u, x) => Entry(i, u, x)'
    BY <1>0, <1>1 DEF Entry
  <2> QED BY <1>0, <2>0, <2>1, <2>2, <2>3, <2>4, <2>5 DEF JobInv, Faultless
<1> QED BY <1>4, <1>5, <1>6, <1>7 DEF Inv

\* A report that fails leaves the row leased: the worker has had a fault.
LEMMA ReportFailsKeeps ==
  ASSUME Inv, NEW t \in Tokens, ReportFails(t)
  PROVE  Inv'
<1>0. TypeOK /\ run[t].pc = "working" /\ UNCHANGED <<proc, beat, row, open, job, issued, drains>>
  BY DEF Inv, ReportFails
<1>1. /\ run'[t].pc = "leaving" /\ run' \in [Tokens -> Runs]
      /\ \A u \in Tokens \ {t} : run'[u] = run[u]
      /\ \A u \in Tokens : run'[u].job = run[u].job /\ run'[u].worker = run[u].worker
  BY <1>0 DEF ReportFails, TypeOK, Runs
<1>2. /\ faulted' \in [Workers -> 0..MaxFaults]
      /\ \A v \in Workers : faulted[v] # 0 => faulted'[v] # 0
      /\ run[t].worker \in Workers => faulted'[run[t].worker] # 0
  <2>1. CASE proc[run[t].worker].pc = "failing" /\ faulted' = faulted
    BY <1>0, <2>1 DEF Inv, TypeOK, WorkerInv, Faultless
  <2>2. CASE FaultOf(run[t].worker) /\ run[t].worker \in Workers
    BY <1>0, <2>2, FaultType
  <2>3. CASE FaultOf(run[t].worker) /\ run[t].worker \notin Workers
    BY <1>0, <2>3 DEF FaultOf, TypeOK
  <2> QED BY <2>1, <2>2, <2>3 DEF ReportFails
<1>3. 1..issued \subseteq Tokens
  BY <1>0, BoundAssumption DEF TypeOK, Tokens
<1>4. TypeOK'
  BY <1>0, <1>1, <1>2 DEF TypeOK
<1>5. RunInv'
  BY <1>0, <1>1 DEF Inv, RunInv
<1>6. ASSUME NEW v \in Workers PROVE WorkerInv(v)'
  <2>1. WorkerInv(v)
    BY DEF Inv
  <2>2. HandInv(v)'
    BY <1>0, <1>1, <1>3, <2>1 DEF WorkerInv, HandInv
  <2> QED BY <1>0, <1>2, <2>1, <2>2 DEF WorkerInv, Beating, Faultless
<1>7. ASSUME NEW i \in Jobs PROVE JobInv(i)'
  <2> SUFFICES ASSUME job[i].token # None PROVE JobInv(i)'
    BY <1>0 DEF JobInv
  <2>0. PICK u, x : u = job[i].token /\ x = run[u].worker
    OBVIOUS
  <2>1. /\ TokenInv(i, u) /\ u \in 1..issued /\ u \in Tokens /\ x \in Workers
        /\ run[u].job = i
        /\ Faultless(x) => Held(u, x) /\ (run[u].pc = "working" => Entry(i, u, x))
    BY <2>0, LeasedJob
  <2>2. TokenInv(i, u)' /\ job'[i].token = u /\ run'[u].worker = x
    BY <1>0, <1>1, <1>3, <2>0, <2>1 DEF TokenInv
  <2>3. ASSUME faulted'[x] = 0 PROVE Held(u, x)' /\ (run'[u].pc = "working" => Entry(i, u, x)')
    <3>1. u # t /\ Faultless(x) /\ run'[u] = run[u]
      BY <1>1, <1>2, <2>0, <2>1, <2>3 DEF Faultless
    <3>2. Held(u, x) => Held(u, x)'
      BY <1>0, <3>1 DEF Held
    <3>3. Entry(i, u, x) => Entry(i, u, x)'
      BY <1>0, <1>1 DEF Entry
    <3> QED BY <2>1, <3>1, <3>2, <3>3
  <2> QED BY <2>2, <2>3 DEF JobInv, Faultless
<1> QED BY <1>4, <1>5, <1>6, <1>7 DEF Inv

\* An attempt that leaves may take the entry of a later one along, and is then
\* an earlier attempt that has ended.
LEMMA LeaveKeeps ==
  ASSUME Inv, NEW t \in Tokens, Leave(t)
  PROVE  Inv'
<1>0. PICK w, j : w = run[t].worker /\ j = run[t].job
  OBVIOUS
<1>1. /\ TypeOK /\ run[t].pc = "leaving" /\ t \in 1..issued
      /\ UNCHANGED <<beat, row, open, job, issued, drains, faulted>>
  BY DEF Inv, Leave, RunInv
<1>2. /\ run'[t].pc = "gone" /\ run' \in [Tokens -> Runs]
      /\ \A u \in Tokens \ {t} : run'[u] = run[u]
      /\ \A u \in Tokens : run'[u].job = run[u].job /\ run'[u].worker = run[u].worker
  BY <1>1 DEF Leave, TypeOK, Runs
<1>3. /\ proc' \in [Workers -> Procs]
      /\ \A v \in Workers \ {w} : proc'[v] = proc[v]
      /\ w \in Workers => /\ proc'[w].contexts = [proc[w].contexts EXCEPT ![j] = None]
                          /\ proc'[w].active = proc[w].active \ {t}
      /\ \A v \in Workers : /\ proc'[v].pc = proc[v].pc /\ proc'[v].hand = proc[v].hand
                            /\ proc'[v].draining = proc[v].draining
  <2>1. PICK c : c = [proc[w].contexts EXCEPT ![j] = None]
    OBVIOUS
  <2>2. proc' = [proc EXCEPT ![w].contexts = c, ![w].active = @ \ {t}]
    BY <1>0, <2>1 DEF Leave, ContextsWithout
  <2>3. CASE w \in Workers
    <3>1. PICK r : r = [proc[w] EXCEPT !.contexts = c, !.active = proc[w].active \ {t}]
      OBVIOUS
    <3>2. proc[w] \in Procs
      BY <1>1, <2>3 DEF TypeOK
    <3>3. c \in [Jobs -> Tokens \cup {None}]
      BY <2>1, <3>2 DEF Procs
    <3>4. /\ r \in Procs /\ r.contexts = c /\ r.active = proc[w].active \ {t}
          /\ r.pc = proc[w].pc /\ r.hand = proc[w].hand /\ r.draining = proc[w].draining
      BY <3>1, <3>2, <3>3 DEF Procs
    <3>5. proc' = [proc EXCEPT ![w] = r]
      BY <1>1, <2>2, <2>3, <3>1, <3>2 DEF TypeOK, Procs
    <3> QED BY <1>1, <2>1, <2>3, <3>4, <3>5 DEF TypeOK
  <2>4. CASE w \notin Workers
    BY <1>1, <2>2, <2>4 DEF TypeOK
  <2> QED BY <2>3, <2>4
<1>4. 1..issued \subseteq Tokens /\ None \notin 1..issued
  BY <1>1, BoundAssumption DEF TypeOK, Tokens
<1>5. TypeOK'
  BY <1>1, <1>2, <1>3 DEF TypeOK
<1>6. RunInv'
  BY <1>1, <1>2 DEF Inv, RunInv
<1>7. ASSUME NEW v \in Workers PROVE WorkerInv(v)'
  <2>1. WorkerInv(v)
    BY DEF Inv
  <2>2. HandInv(v)'
    BY <1>1, <1>2, <1>3, <1>4, <2>1 DEF WorkerInv, HandInv
  <2>3. proc[v].active = {} => proc'[v].active = {}
    BY <1>3
  <2> QED BY <1>1, <1>3, <2>1, <2>2, <2>3 DEF WorkerInv, Beating, Faultless
<1>8. ASSUME NEW i \in Jobs PROVE JobInv(i)'
  <2> SUFFICES ASSUME job[i].token # None PROVE JobInv(i)'
    BY <1>1 DEF JobInv
  <2>0. PICK u, x : u = job[i].token /\ x = run[u].worker
    OBVIOUS
  <2>1. /\ TokenInv(i, u) /\ u \in 1..issued /\ u \in Tokens /\ x \in Workers
        /\ run[u].job = i
        /\ Faultless(x) => Held(u, x) /\ (run[u].pc = "working" => Entry(i, u, x))
    BY <2>0, LeasedJob
  <2>2. TokenInv(i, u)' /\ job'[i].token = u /\ run'[u].worker = x
    BY <1>1, <1>2, <1>4, <2>0, <2>1 DEF TokenInv
  <2>3. ASSUME Faultless(x) PROVE Held(u, x)' /\ (run'[u].pc = "working" => Entry(i, u, x)')
    <3>1. u # t
      <4>1. WorkerInv(x)
        BY <2>1 DEF Inv
      <4>2. proc[x].hand # t
        BY <1>1, <1>4, <4>1 DEF WorkerInv, HandInv
      <4> QED BY <1>1, <2>1, <2>3, <4>2 DEF Held
    <3>2. Held(u, x)'
      BY <1>2, <1>3, <2>1, <2>3, <3>1 DEF Held
    <3>3. ASSUME run[u].pc = "working" PROVE Entry(i, u, x)'
      <4>1. Entry(i, u, x)
        BY <2>1, <2>3, <3>3
      <4>2. CASE x = w /\ i = j
        <5>1. t < u
          <6>1. t <= u /\ t \in Int /\ u \in Int
            BY <1>0, <1>1, <2>1, <4>2 DEF TokenInv
          <6> QED BY <3>1, <6>1
        <5> QED BY <1>0, <1>2, <4>2, <5>1 DEF Entry
      <4>3. CASE ~(x = w /\ i = j)
        <5>1. proc[x].contexts \in [Jobs -> Tokens \cup {None}]
          BY <1>1, <2>1 DEF TypeOK, Procs
        <5>2. proc'[x].contexts[i] = proc[x].contexts[i]
          BY <1>3, <2>1, <4>3, <5>1
        <5>3. \A z \in Tokens : run[z].pc = "gone" => run'[z] = run[z]
          BY <1>1, <1>2
        <5> QED BY <4>1, <5>2, <5>3 DEF Entry
      <4> QED BY <4>2, <4>3
    <3> QED BY <1>2, <2>1, <3>1, <3>2, <3>3
  <2> QED BY <1>1, <2>2, <2>3 DEF JobInv, Faultless
<1> QED BY <1>5, <1>6, <1>7, <1>8 DEF Inv

\* A worker that loses what it has in hand or in memory has had a fault.
LEMMA FaultKeeps ==
  ASSUME Inv, NEW w \in Workers, ClaimLoopFails(w) \/ Crash(w)
  PROVE  Inv'
<1>1. TypeOK /\ UNCHANGED <<row, job, issued, drains>> /\ FaultOf(w) /\ proc[w] \in Procs
  BY DEF Inv, TypeOK, ClaimLoopFails, Crash
<1>2. /\ faulted' \in [Workers -> 0..MaxFaults] /\ faulted'[w] # 0
      /\ \A v \in Workers \ {w} : faulted'[v] = faulted[v]
  BY <1>1, FaultType
<1>3. /\ run' \in [Tokens -> Runs]
      /\ \A u \in Tokens : run[u].worker # w => run'[u] = run[u]
      /\ \A u \in Tokens : /\ run'[u].job = run[u].job /\ run'[u].worker = run[u].worker
                           /\ run'[u].pc \in {run[u].pc, "gone"}
  <2>1. CASE run' = run
    BY <1>1, <2>1 DEF TypeOK
  <2>2. CASE run' = [t \in Tokens |-> IF run[t].worker = w THEN [run[t] EXCEPT !.pc = "gone"]
                                      ELSE run[t]]
    <3>1. ASSUME NEW u \in Tokens PROVE run[u] \in Runs
      BY <1>1 DEF TypeOK
    <3>2. ASSUME NEW u \in Tokens
          PROVE  /\ run'[u] \in Runs /\ run'[u].job = run[u].job /\ run'[u].worker = run[u].worker
                 /\ run'[u].pc \in {run[u].pc, "gone"}
                 /\ run[u].worker # w => run'[u] = run[u]
      BY <2>2, <3>1 DEF Runs
    <3>3. run' = [u \in Tokens |-> run'[u]]
      BY <2>2
    <3> QED BY <3>2, <3>3
  <2> QED BY <2>1, <2>2 DEF ClaimLoopFails, Crash
<1>4. /\ proc' \in [Workers -> Procs]
      /\ \A v \in Workers \ {w} : proc'[v] = proc[v]
      /\ proc'[w].hand = None /\ proc'[w].pc \in {"failing", "dead"}
  <2>1. PICK r : \/ r = [proc[w] EXCEPT !.pc = "failing", !.hand = None] /\ ClaimLoopFails(w)
                 \/ r = [NewProc EXCEPT !.pc = "dead"] /\ Crash(w)
    OBVIOUS
  <2>2. proc' = [proc EXCEPT ![w] = r]
    <3>1. CASE ClaimLoopFails(w) /\ r = [proc[w] EXCEPT !.pc = "failing", !.hand = None]
      BY <1>1, <3>1 DEF ClaimLoopFails, TypeOK
    <3>2. CASE Crash(w) /\ r = [NewProc EXCEPT !.pc = "dead"]
      BY <3>2 DEF Crash
    <3> QED BY <2>1, <3>1, <3>2
  <2>3. r \in Procs /\ r.hand = None /\ r.pc \in {"failing", "dead"}
    <3>1. CASE r = [proc[w] EXCEPT !.pc = "failing", !.hand = None]
      BY <1>1, <3>1 DEF Procs
    <3>2. CASE r = [NewProc EXCEPT !.pc = "dead"]
      BY <3>2 DEF NewProc, NoContexts, Procs
    <3> QED BY <2>1, <3>1, <3>2
  <2> QED BY <1>1, <2>2, <2>3 DEF TypeOK
<1>5. beat' \in [Workers -> Beats] /\ \A v \in Workers \ {w} : beat'[v] = beat[v]
  <2>1. PICK b : b = [NoBeat EXCEPT !.pc = "ended"]
    OBVIOUS
  <2>2. b \in Beats
    BY <2>1 DEF NoBeat, Beats
  <2>3. beat' = [beat EXCEPT ![w] = b]
    BY <2>1 DEF ClaimLoopFails, Crash
  <2> QED BY <1>1, <2>2, <2>3 DEF TypeOK
<1>6. OpenType'
  <2>1. CASE ClaimLoopFails(w)
    BY <1>1, <2>1, UnloadType DEF ClaimLoopFails, Writers
  <2>2. CASE Crash(w)
    BY <1>1, <2>2 DEF Crash, TypeOK, OpenType, Writers
  <2> QED BY <2>1, <2>2
<1>7. TypeOK'
  BY <1>1, <1>2, <1>3, <1>4, <1>5, <1>6 DEF TypeOK, OpenType
<1>8. RunInv'
  BY <1>1, <1>3 DEF Inv, RunInv
<1>9. 1..issued \subseteq Tokens
  BY <1>1, BoundAssumption DEF TypeOK, Tokens
<1>10. ASSUME NEW v \in Workers PROVE WorkerInv(v)'
  <2>1. CASE v = w
    BY <1>2, <1>4, <2>1 DEF WorkerInv, HandInv, Faultless
  <2>2. CASE v # w
    <3>1. WorkerInv(v) /\ proc'[v] = proc[v] /\ beat'[v] = beat[v] /\ faulted'[v] = faulted[v]
      BY <1>2, <1>4, <1>5, <2>2 DEF Inv
    <3>2. HandInv(v)'
      BY <1>1, <1>3, <1>9, <2>2, <3>1 DEF WorkerInv, HandInv
    <3> QED BY <3>1, <3>2 DEF WorkerInv, Beating, Faultless
  <2> QED BY <2>1, <2>2
<1>11. ASSUME NEW i \in Jobs PROVE JobInv(i)'
  <2> SUFFICES ASSUME job[i].token # None PROVE JobInv(i)'
    BY <1>1 DEF JobInv
  <2>0. PICK u, x : u = job[i].token /\ x = run[u].worker
    OBVIOUS
  <2>1. /\ TokenInv(i, u) /\ u \in 1..issued /\ u \in Tokens /\ x \in Workers
        /\ run[u].job = i
        /\ Faultless(x) => Held(u, x) /\ (run[u].pc = "working" => Entry(i, u, x))
    BY <2>0, LeasedJob
  <2>2. TokenInv(i, u)' /\ job'[i].token = u /\ run'[u].worker = x
    BY <1>1, <1>3, <1>9, <2>0, <2>1 DEF TokenInv
  <2>3. ASSUME faulted'[x] = 0 PROVE Held(u, x)' /\ (run'[u].pc = "working" => Entry(i, u, x)')
    <3>1. x # w /\ Faultless(x) /\ run'[u] = run[u] /\ proc'[x] = proc[x]
      BY <1>2, <1>3, <1>4, <2>0, <2>1, <2>3 DEF Faultless
    <3>2. Held(u, x) => Held(u, x)'
      BY <3>1 DEF Held
    <3>3. Entry(i, u, x) => Entry(i, u, x)'
      BY <1>3, <3>1 DEF Entry
    <3> QED BY <2>1, <3>1, <3>2, <3>3
  <2> QED BY <2>2, <2>3 DEF JobInv, Faultless
<1> QED BY <1>7, <1>8, <1>10, <1>11 DEF Inv
-----------------------------------------------------------------------------
(* The invariant                                                           *)

\* A step that takes up and drops no attempt keeps the invariant.
LEMMA LightKeeps ==
  ASSUME Inv, LightStep, TypeOK'
  PROVE  Inv'
<1>1. RunInv'
  BY DEF Inv, RunInv, LightStep
<1>2. \A w \in Workers : WorkerInv(w)'
  BY LightKeepsWorkers
<1>3. \A j \in Jobs : JobInv(j)'
  BY LightKeepsJobs
<1> QED BY <1>1, <1>2, <1>3 DEF Inv

\* At the start nothing is claimed and no worker has registered.
LEMMA InitInv ==
  ASSUME Init
  PROVE  Inv
<1>1. None \notin Nat /\ 0 \in 0..MaxClaims /\ 0 \in 0..MaxDrains /\ 0 \in 0..MaxFaults
  BY BoundAssumption
<1>2. NewProc \in Procs /\ NoBeat \in Beats /\ Unborn \in Runs
  BY DEF NewProc, NoContexts, Procs, NoBeat, Beats, Unborn, Runs
<1>3. TypeOK
  <2>1. proc \in [Workers -> Procs] /\ beat \in [Workers -> Beats] /\ run \in [Tokens -> Runs]
    BY <1>2 DEF Init
  <2>2. row \in [Workers -> [status: Statuses \cup {None}, fresh: BOOLEAN]]
    BY DEF Init
  <2>3. open \in [Writers -> [Workers -> Statuses \cup {None}]]
    BY DEF Init
  <2>4. job \in [Jobs -> [state: {"queued", "active", "done"}, token: Tokens \cup {None},
                          lease: {"none", "live", "lapsed"}]]
    BY DEF Init, Queued
  <2> QED BY <1>1, <2>1, <2>2, <2>3, <2>4 DEF Init, TypeOK
<1>4. RunInv
  BY DEF Init, RunInv, Unborn
<1>5. ASSUME NEW w \in Workers PROVE WorkerInv(w)
  BY DEF Init, NewProc, WorkerInv, HandInv
<1>6. ASSUME NEW j \in Jobs PROVE JobInv(j)
  BY DEF Init, Queued, JobInv
<1> QED BY <1>3, <1>4, <1>5, <1>6 DEF Inv

\* Every step keeps the invariant.
LEMMA StepInv ==
  ASSUME Inv, [Next]_vars
  PROVE  Inv'
<1>1. CASE UNCHANGED vars
  <2>1. TypeOK'
    BY <1>1 DEF Inv, TypeOK, vars
  <2>2. LightStep
    BY <1>1 DEF LightStep, LightMove, Beating, vars
  <2> QED BY <2>1, <2>2, LightKeeps
<1>2. ASSUME NEW w \in Workers, Register(w) \/ Terminate(w) PROVE Inv'
  BY <1>2, StartStep, LightKeeps
<1>3. ASSUME NEW w \in Workers, ClaimLoop(w) PROVE Inv'
  <2>1. CASE \E j \in Jobs : ClaimOne(w, j)
    BY <2>1, ClaimKeeps
  <2>2. CASE Spawn(w)
    BY <2>2, SpawnKeeps
  <2>3. CASE \/ ReadOwnRow(w) \/ ClaimNone(w) \/ StopClaiming(w) \/ FinishJobs(w) \/ TearDown(w)
             \/ JoinHeartbeat(w) \/ Close(w)
    BY <2>3, LoopStep, LightKeeps
  <2> QED BY <1>3, <2>1, <2>2, <2>3 DEF ClaimLoop
<1>4. ASSUME NEW w \in Workers, HeartbeatLoop(w) \/ BeatFails(w) PROVE Inv'
  <2>1. CASE \E t \in Tokens : RenewNext(w, t)
    BY <2>1, RenewStep, LightKeeps
  <2>2. CASE BeatLoad(w) \/ BeatStore(w) \/ BeatSleep(w) \/ BeatEnd(w) \/ BeatFails(w)
    BY <2>2, BeatStep, LightKeeps
  <2> QED BY <1>4, <2>1, <2>2 DEF HeartbeatLoop
<1>5. ASSUME NEW w \in Workers, ClaimLoopFails(w) \/ Crash(w) PROVE Inv'
  BY <1>5, FaultKeeps
<1>6. ASSUME NEW t \in Tokens, Execute(t) \/ ReportFails(t) PROVE Inv'
  BY <1>6, ReportKeeps, LeaveKeeps, ReportFailsKeeps DEF Execute
<1>7. CASE \/ SelectSilent \/ MarkOffline
           \/ \E w \in Workers : OpenDrain(w) \/ CommitDrain(w) \/ GoSilent(w)
           \/ \E j \in Jobs : Lapse(j) \/ Reap(j)
  BY <1>7, OthersStep, LightKeeps
<1> QED BY <1>1, <1>2, <1>3, <1>4, <1>5, <1>6, <1>7 DEF Next

\* The invariant holds in every state a behaviour reaches.
LEMMA Invariance == Spec => []Inv
<1>1. Init => Inv
  BY InitInv
<1>2. Inv /\ [Next]_vars => Inv'
  BY StepInv
<1> QED BY <1>1, <1>2, PTL DEF Spec
-----------------------------------------------------------------------------
(* What a shutdown waits for, and the capacity                             *)

ShutdownInv(w) ==
  /\ proc[w].active = Started(w)
  /\ Cardinality(proc[w].active) <= Capacity
  /\ proc[w].pc \in {"claiming", "claimed"} => Cardinality(proc[w].active) < Capacity
  /\ proc[w].pc \in {"waiting", "joining"} => proc[w].draining
  /\ proc[w].pc # "new" => beat[w].pc # "off"

\* A step in which no coroutine of w comes or goes.
SameTasks(w) ==
  /\ proc'[w].active = proc[w].active /\ Started(w)' = Started(w)
  /\ proc[w].draining => proc'[w].draining
  /\ beat'[w].pc = "off" => beat[w].pc = "off" /\ (proc'[w].pc = "new" \/ proc[w].pc # "new")
  /\ \/ proc'[w].pc = proc[w].pc
     \/ /\ proc'[w].pc = "claiming" => Cardinality(proc[w].active) < Capacity
        /\ proc'[w].pc = "claimed" => proc[w].pc = "claiming"
        /\ proc'[w].pc = "waiting" => proc[w].draining
        /\ proc'[w].pc = "joining" => proc[w].pc = "waiting"

LEMMA SameTasksKeep ==
  ASSUME NEW w \in Workers, ShutdownInv(w), SameTasks(w)
  PROVE  ShutdownInv(w)'
<1>1. proc'[w].active = Started(w)' /\ Cardinality(proc'[w].active) <= Capacity
  BY DEF ShutdownInv, SameTasks
<1>2. proc'[w].pc \in {"claiming", "claimed"} => Cardinality(proc'[w].active) < Capacity
  BY DEF ShutdownInv, SameTasks
<1>3. proc'[w].pc \in {"waiting", "joining"} => proc'[w].draining
  BY DEF ShutdownInv, SameTasks
<1>4. proc'[w].pc # "new" => beat'[w].pc # "off"
  BY DEF ShutdownInv, SameTasks
<1> QED BY <1>1, <1>2, <1>3, <1>4 DEF ShutdownInv

\* Steps that start and end no coroutine.
LEMMA QuietTasks ==
  ASSUME Inv, run' = run, NEW w \in Workers,
         \/ \E v \in Workers :
              \/ Register(v) \/ Terminate(v)
              \/ ReadOwnRow(v) \/ ClaimNone(v) \/ StopClaiming(v) \/ FinishJobs(v) \/ TearDown(v)
              \/ JoinHeartbeat(v) \/ Close(v)
              \/ ClaimLoopFails(v)
         \/ \E v \in Workers :
              \/ BeatLoad(v) \/ BeatStore(v) \/ BeatSleep(v) \/ BeatEnd(v) \/ BeatFails(v)
              \/ \E t \in Tokens : RenewNext(v, t)
         \/ UNCHANGED <<proc, beat>>
  PROVE  SameTasks(w)
<1>1. TypeOK /\ Started(w)' = Started(w) /\ proc[w] \in Procs /\ beat[w] \in Beats
  BY DEF Inv, TypeOK, Started
<1>2. ASSUME NEW v \in Workers,
             \/ Register(v) \/ Terminate(v)
             \/ ReadOwnRow(v) \/ ClaimNone(v) \/ StopClaiming(v) \/ FinishJobs(v) \/ TearDown(v)
             \/ JoinHeartbeat(v) \/ Close(v) \/ ClaimLoopFails(v)
      PROVE  SameTasks(w)
  <2>1. CASE v # w
    <3>1. proc'[w] = proc[w] /\ beat'[w] = beat[w]
      BY <1>1, <1>2, <2>1 DEF TypeOK, Register, Terminate, ReadOwnRow, ClaimNone, StopClaiming,
                              FinishJobs, TearDown, JoinHeartbeat, Close, ClaimLoopFails
    <3> QED BY <1>1, <3>1 DEF SameTasks
  <2>2. CASE v = w
    <3>1. CASE Register(w)
      BY <1>1, <3>1 DEF Register, SameTasks, TypeOK, Procs, Beats
    <3>2. CASE Terminate(w)
      BY <1>1, <3>2 DEF Terminate, SameTasks, TypeOK, Procs
    <3>3. CASE ClaimLoopFails(w)
      <4>1. proc' = [proc EXCEPT ![w].pc = "failing", ![w].hand = None]
        BY <3>3 DEF ClaimLoopFails
      <4>2. /\ proc'[w].active = proc[w].active /\ proc'[w].pc = "failing"
            /\ proc'[w].draining = proc[w].draining
        BY <1>1, <4>1 DEF TypeOK, Procs
      <4>3. beat'[w].pc = "ended"
        BY <1>1, <3>3 DEF ClaimLoopFails, NoBeat, TypeOK
      <4> QED BY <1>1, <4>2, <4>3 DEF SameTasks
    <3>4. CASE \/ ReadOwnRow(w) \/ ClaimNone(w) \/ StopClaiming(w) \/ FinishJobs(w) \/ TearDown(w)
               \/ JoinHeartbeat(w) \/ Close(w)
      <4>1. PICK p \in {"idle", "claiming", "waiting", "joining", "closing", "exited", "dead"} :
              proc' = [proc EXCEPT ![w].pc = p]
        BY <3>4 DEF ReadOwnRow, ClaimNone, StopClaiming, FinishJobs, TearDown, JoinHeartbeat, Close
      <4>2. /\ proc'[w].active = proc[w].active /\ proc'[w].pc = p
            /\ proc'[w].draining = proc[w].draining /\ beat' = beat
        BY <1>1, <3>4, <4>1 DEF TypeOK, Procs, ReadOwnRow, ClaimNone, StopClaiming, FinishJobs,
                                TearDown, JoinHeartbeat, Close
      <4>3. /\ proc[w].pc # "new"
            /\ p = "claiming" => Cardinality(proc[w].active) < Capacity
            /\ p = "waiting" => proc[w].draining
            /\ p = "joining" => proc[w].pc = "waiting"
        <5>1. CASE ReadOwnRow(w) \/ ClaimNone(w)
          BY <1>1, <4>2, <5>1 DEF ReadOwnRow, MayClaim, ClaimNone, TypeOK, Procs
        <5>2. CASE StopClaiming(w) \/ FinishJobs(w) \/ TearDown(w)
          BY <1>1, <4>2, <5>2 DEF StopClaiming, FinishJobs, TearDown, TypeOK, Procs
        <5>3. CASE JoinHeartbeat(w) \/ Close(w)
          BY <1>1, <4>2, <5>3 DEF JoinHeartbeat, Close, TypeOK, Procs
        <5> QED BY <3>4, <5>1, <5>2, <5>3
      <4> QED BY <1>1, <4>2, <4>3 DEF SameTasks
    <3> QED BY <1>2, <2>2, <3>1, <3>2, <3>3, <3>4
  <2> QED BY <2>1, <2>2
<1>3. ASSUME NEW v \in Workers,
             \/ BeatLoad(v) \/ BeatStore(v) \/ BeatSleep(v) \/ BeatEnd(v) \/ BeatFails(v)
             \/ \E t \in Tokens : RenewNext(v, t)
      PROVE  SameTasks(w)
  <2>1. proc' = proc
    BY <1>3 DEF BeatLoad, BeatStore, BeatSleep, BeatEnd, BeatFails, RenewNext
  <2>2. beat'[w].pc = "off" => beat[w].pc = "off"
    <3>1. CASE v # w
      BY <1>1, <1>3, <3>1 DEF TypeOK, BeatLoad, BeatStore, BeatSleep, BeatEnd, BeatFails, RenewNext
    <3>2. CASE v = w
      <4>1. CASE BeatSleep(w) \/ BeatEnd(w)
        BY <1>1, <4>1 DEF TypeOK, Beats, BeatSleep, BeatEnd
      <4>2. CASE BeatLoad(w)
        BY <1>1, <4>2 DEF TypeOK, Beats, BeatLoad
      <4>3. CASE BeatStore(w) \/ BeatFails(w)
        <5>1. PICK p, x : /\ p \in {"renewing", "failed"}
                         /\ beat' = [beat EXCEPT ![w].pc = p, ![w].todo = x]
          BY <4>3 DEF BeatStore, BeatFails
        <5>2. PICK r : r = [beat[w] EXCEPT !.pc = p, !.todo = x]
          OBVIOUS
        <5>3. r.pc = p
          BY <1>1, <5>2 DEF Beats
        <5>4. beat' = [beat EXCEPT ![w] = r]
          BY <1>1, <5>1, <5>2 DEF TypeOK
        <5>5. beat'[w].pc = p
          BY <1>1, <5>3, <5>4 DEF TypeOK
        <5> QED BY <5>1, <5>5
      <4>4. CASE \E t \in Tokens : RenewNext(w, t)
        BY <1>1, <4>4 DEF TypeOK, Beats, RenewNext
      <4> QED BY <1>3, <3>2, <4>1, <4>2, <4>3, <4>4
    <3> QED BY <3>1, <3>2
  <2> QED BY <1>1, <2>1, <2>2 DEF SameTasks
<1>4. CASE UNCHANGED <<proc, beat>>
  BY <1>1, <1>4 DEF SameTasks
<1> QED BY <1>2, <1>3, <1>4

LEMMA ActiveIsFinite ==
  ASSUME TypeOK, NEW w \in Workers
  PROVE  IsFiniteSet(proc[w].active) /\ Cardinality(proc[w].active) \in Nat
<1>1. proc[w].active \in SUBSET (1..MaxClaims)
  BY DEF TypeOK, Procs, Tokens
<1>2. IsFiniteSet(1..MaxClaims)
  BY FS_Interval, BoundAssumption
<1> QED BY <1>1, <1>2, FS_Subset, FS_CardinalityType

\* A claim finds the slot free that was free when it was looked for.
LEMMA ClaimTasks ==
  ASSUME Inv, NEW w \in Workers, NEW v \in Workers, NEW j \in Jobs, ClaimOne(w, j)
  PROVE  SameTasks(v)
<1>0. PICK t : t = issued + 1
  OBVIOUS
<1>1. TypeOK /\ t \in Tokens /\ t \notin 1..issued /\ proc[v] \in Procs
  BY <1>0, BoundAssumption DEF Inv, TypeOK, ClaimOne, Tokens
<1>2. /\ run' = [run EXCEPT ![t] = [pc |-> "unborn", job |-> j, worker |-> w]]
      /\ proc' = [proc EXCEPT ![w].pc = "claimed", ![w].hand = t]
      /\ proc[w].pc = "claiming" /\ beat' = beat
  BY <1>0 DEF ClaimOne
<1>3. run'[t].pc = "unborn" /\ \A u \in Tokens \ {t} : run'[u] = run[u]
  BY <1>1, <1>2 DEF TypeOK
<1>4. run[t].pc \in {"unborn", "gone"}
  BY <1>1 DEF Inv, RunInv
<1>5. Started(v)' = Started(v)
  BY <1>3, <1>4 DEF Started
<1>6. /\ proc'[v].active = proc[v].active /\ proc'[v].draining = proc[v].draining
      /\ proc'[v].pc = IF v = w THEN "claimed" ELSE proc[v].pc
  BY <1>1, <1>2 DEF TypeOK, Procs
<1> QED BY <1>2, <1>5, <1>6 DEF SameTasks

\* A report goes on in the same coroutine.
LEMMA ReportTasks ==
  ASSUME Inv, NEW v \in Workers, NEW t \in Tokens, Report(t) \/ ReportFails(t)
  PROVE  SameTasks(v)
<1>1. TypeOK /\ run[t].pc = "working" /\ UNCHANGED <<proc, beat>>
  BY DEF Inv, Report, ReportFails
<1>2. /\ run'[t].pc = "leaving" /\ run'[t].worker = run[t].worker
      /\ \A u \in Tokens \ {t} : run'[u] = run[u]
  BY <1>1 DEF Report, ReportFails, TypeOK, Runs
<1>3. Started(v)' = Started(v)
  BY <1>1, <1>2 DEF Started
<1> QED BY <1>1, <1>3 DEF SameTasks

\* A claim in hand becomes one more task, in the slot that was free for it.
LEMMA SpawnTasks ==
  ASSUME Inv, NEW w \in Workers, Spawn(w), NEW v \in Workers, ShutdownInv(v)
  PROVE  ShutdownInv(v)'
<1>0. PICK t : t = proc[w].hand
  OBVIOUS
<1>1. /\ TypeOK /\ proc[w] \in Procs /\ proc[w].pc = "claimed"
      /\ t \in 1..issued /\ t \in Tokens /\ run[t].worker = w /\ run[t] \in Runs
      /\ run[t].pc = "unborn"
  BY <1>0, BoundAssumption DEF Inv, TypeOK, Spawn, WorkerInv, HandInv, Tokens
<1>2. /\ run'[t].pc = "working" /\ run'[t].worker = w
      /\ \A u \in Tokens \ {t} : run'[u] = run[u]
  <2>1. run' = [run EXCEPT ![t] = [run[t] EXCEPT !.pc = "working"]]
    BY <1>0, <1>1 DEF Spawn, TypeOK
  <2>2. PICK r : r = [run[t] EXCEPT !.pc = "working"]
    OBVIOUS
  <2>3. r.pc = "working" /\ r.worker = run[t].worker
    BY <1>1, <2>2 DEF Runs
  <2> QED BY <1>1, <2>1, <2>2, <2>3 DEF TypeOK
<1>3. /\ proc'[w].pc = "idle" /\ proc'[w].active = proc[w].active \cup {t}
      /\ \A u \in Workers \ {w} : proc'[u] = proc[u]
  <2>1. PICK a, c : a = Tracked(w, t) /\ c = Entered(w, t)
    OBVIOUS
  <2>2. PICK r : r = [proc[w] EXCEPT !.pc = "idle", !.hand = None, !.active = a, !.contexts = c]
    OBVIOUS
  <2>3. r.pc = "idle" /\ r.active = a
    BY <1>1, <2>2 DEF Procs
  <2>4. proc' = [proc EXCEPT ![w] = r]
    BY <1>0, <1>1, <2>1, <2>2 DEF Spawn, TypeOK
  <2> QED BY <1>1, <2>1, <2>3, <2>4 DEF TypeOK, Tracked
<1>4. beat' = beat
  BY DEF Spawn
<1>5. CASE v = w
  <2>1. Started(w)' = Started(w) \cup {t}
    BY <1>1, <1>2 DEF Started
  <2>2. IsFiniteSet(proc[w].active) /\ Cardinality(proc[w].active) \in Nat
    BY <1>1, ActiveIsFinite
  <2>3. Cardinality(proc[w].active \cup {t}) <= Cardinality(proc[w].active) + 1
    <3>1. PICK a, n : a = proc[w].active /\ n = Cardinality(a)
      OBVIOUS
    <3>2. IsFiniteSet(a) /\ n \in Nat
      BY <2>2, <3>1
    <3>3. Cardinality(a \cup {t}) = IF t \in a THEN n ELSE n + 1
      BY <3>1, <3>2, FS_AddElement
    <3> QED BY <3>1, <3>2, <3>3
  <2>4. Cardinality(proc[w].active \cup {t}) \in Nat
    BY <2>2, FS_AddElement, FS_CardinalityType
  <2>5. Cardinality(proc[w].active) < Capacity
    BY <1>1, <1>5 DEF ShutdownInv
  <2>6. Cardinality(proc'[w].active) <= Capacity
    BY <1>3, <2>2, <2>3, <2>4, <2>5, BoundAssumption
  <2> QED BY <1>1, <1>3, <1>4, <1>5, <2>1, <2>6 DEF ShutdownInv
<1>6. CASE v # w
  <2>1. Started(v)' = Started(v)
    BY <1>1, <1>2, <1>6 DEF Started
  <2>2. SameTasks(v)
    BY <1>3, <1>4, <1>6, <2>1 DEF SameTasks
  <2> QED BY <2>2, SameTasksKeep
<1> QED BY <1>5, <1>6

\* A coroutine that has ended is out of the active tasks.
LEMMA LeaveTasks ==
  ASSUME Inv, NEW t \in Tokens, Leave(t), NEW v \in Workers, ShutdownInv(v)
  PROVE  ShutdownInv(v)'
<1>0. PICK w, j : w = run[t].worker /\ j = run[t].job
  OBVIOUS
<1>1. TypeOK /\ run[t].pc = "leaving" /\ beat' = beat /\ proc[v] \in Procs
  BY DEF Inv, Leave, TypeOK
<1>2. run'[t].pc = "gone" /\ \A u \in Tokens \ {t} : run'[u] = run[u]
  BY <1>1 DEF Leave, TypeOK, Runs
<1>3. /\ proc'[v].pc = proc[v].pc /\ proc'[v].draining = proc[v].draining
      /\ proc'[v].active = IF v = w THEN proc[v].active \ {t} ELSE proc[v].active
  <2>1. PICK c : c = ContextsWithout(w, j)
    OBVIOUS
  <2>2. proc' = [proc EXCEPT ![w].contexts = c, ![w].active = @ \ {t}]
    BY <1>0, <2>1 DEF Leave
  <2>3. CASE v = w
    <3>1. PICK r : r = [proc[w] EXCEPT !.contexts = c, !.active = proc[w].active \ {t}]
      OBVIOUS
    <3>2. r.pc = proc[w].pc /\ r.draining = proc[w].draining /\ r.active = proc[w].active \ {t}
      BY <1>1, <2>3, <3>1 DEF Procs
    <3>3. proc' = [proc EXCEPT ![w] = r]
      BY <1>1, <2>2, <2>3, <3>1 DEF TypeOK, Procs
    <3> QED BY <1>1, <2>3, <3>2, <3>3 DEF TypeOK
  <2>4. CASE v # w
    BY <1>1, <2>2, <2>4 DEF TypeOK
  <2> QED BY <2>3, <2>4
<1>4. proc'[v].active = Started(v)'
  <2>1. Started(v)' = Started(v) \ {t}
    BY <1>2 DEF Started
  <2>2. v # w => t \notin Started(v)
    BY <1>0 DEF Started
  <2> QED BY <1>3, <2>1, <2>2 DEF ShutdownInv
<1>5. Cardinality(proc'[v].active) <= Cardinality(proc[v].active)
  <2>1. IsFiniteSet(proc[v].active) /\ proc'[v].active \in SUBSET proc[v].active
    BY <1>1, <1>3, ActiveIsFinite
  <2> QED BY <2>1, FS_Subset
<1>6. /\ Cardinality(proc'[v].active) \in Nat /\ Cardinality(proc[v].active) \in Nat
  <2>1. IsFiniteSet(proc[v].active) /\ proc'[v].active \in SUBSET proc[v].active
    BY <1>1, <1>3, ActiveIsFinite
  <2> QED BY <2>1, FS_Subset, FS_CardinalityType
<1>7. /\ Cardinality(proc'[v].active) <= Capacity
      /\ proc'[v].pc \in {"claiming", "claimed"} => Cardinality(proc'[v].active) < Capacity
  BY <1>3, <1>5, <1>6, BoundAssumption DEF ShutdownInv
<1> QED BY <1>1, <1>3, <1>4, <1>7 DEF ShutdownInv

\* A crash takes all coroutines along.
LEMMA CrashTasks ==
  ASSUME Inv, NEW w \in Workers, Crash(w), NEW v \in Workers, ShutdownInv(v)
  PROVE  ShutdownInv(v)'
<1>1. TypeOK /\ \A u \in Tokens : run[u] \in Runs
  BY DEF Inv, TypeOK
<1>2. \A u \in Tokens : IF run[u].worker = w THEN run'[u] = [run[u] EXCEPT !.pc = "gone"]
                        ELSE run'[u] = run[u]
  BY DEF Crash
<1>3. \A u \in Tokens : run[u].worker = w => run'[u].pc = "gone"
  BY <1>1, <1>2 DEF Runs
<1>4. \A u \in Tokens : run'[u].worker = run[u].worker
  BY <1>1, <1>2 DEF Runs
<1>5. CASE v = w
  <2>1. Started(w)' = {}
    BY <1>3, <1>4 DEF Started
  <2>2. proc'[w].active = {} /\ proc'[w].pc = "dead"
    BY <1>1 DEF Crash, NewProc, TypeOK
  <2>3. beat'[w].pc = "ended"
    BY <1>1 DEF Crash, NoBeat, TypeOK
  <2>4. Cardinality({}) <= Capacity
    BY FS_EmptySet, BoundAssumption
  <2> QED BY <1>5, <2>1, <2>2, <2>3, <2>4 DEF ShutdownInv
<1>6. CASE v # w
  <2>1. Started(v)' = Started(v)
    BY <1>2, <1>3, <1>4, <1>6 DEF Started
  <2>2. proc'[v] = proc[v] /\ beat'[v] = beat[v]
    BY <1>1, <1>6 DEF Crash, TypeOK
  <2>3. SameTasks(v)
    BY <2>1, <2>2 DEF SameTasks
  <2> QED BY <2>3, SameTasksKeep
<1> QED BY <1>5, <1>6

TasksInv == Inv /\ \A w \in Workers : ShutdownInv(w)

\* Every step keeps the tasks and the coroutines the same set.
LEMMA StepTasks ==
  ASSUME TasksInv, [Next]_vars
  PROVE  TasksInv'
<1>1. Inv /\ Inv' /\ \A w \in Workers : ShutdownInv(w)
  BY StepInv DEF TasksInv
<1> SUFFICES ASSUME NEW w \in Workers PROVE ShutdownInv(w)'
  BY <1>1 DEF TasksInv
<1>2. CASE \/ \E v \in Workers : \/ Register(v) \/ Terminate(v) \/ ReadOwnRow(v) \/ ClaimNone(v)
                                 \/ StopClaiming(v) \/ FinishJobs(v) \/ TearDown(v)
                                 \/ JoinHeartbeat(v) \/ Close(v) \/ ClaimLoopFails(v)
           \/ \E v \in Workers : \/ BeatLoad(v) \/ BeatStore(v) \/ BeatSleep(v) \/ BeatEnd(v)
                                 \/ BeatFails(v) \/ \E t \in Tokens : RenewNext(v, t)
           \/ UNCHANGED vars \/ SelectSilent \/ MarkOffline
           \/ \E v \in Workers : OpenDrain(v) \/ CommitDrain(v) \/ GoSilent(v)
           \/ \E j \in Jobs : Lapse(j) \/ Reap(j)
  <2>1. run' = run
    BY <1>2 DEF Register, Terminate, ReadOwnRow, ClaimNone, StopClaiming, FinishJobs, TearDown,
                JoinHeartbeat, Close, ClaimLoopFails, BeatLoad, BeatStore, BeatSleep, BeatEnd,
                BeatFails, RenewNext, vars, SelectSilent, MarkOffline, OpenDrain, CommitDrain,
                GoSilent, Lapse, Reap
  <2>2. \/ UNCHANGED <<proc, beat>>
        \/ \E v \in Workers : \/ Register(v) \/ Terminate(v) \/ ReadOwnRow(v) \/ ClaimNone(v)
                              \/ StopClaiming(v) \/ FinishJobs(v) \/ TearDown(v)
                              \/ JoinHeartbeat(v) \/ Close(v) \/ ClaimLoopFails(v)
        \/ \E v \in Workers : \/ BeatLoad(v) \/ BeatStore(v) \/ BeatSleep(v) \/ BeatEnd(v)
                              \/ BeatFails(v) \/ \E t \in Tokens : RenewNext(v, t)
    <3>1. CASE \/ UNCHANGED vars \/ SelectSilent \/ MarkOffline
               \/ \E v \in Workers : OpenDrain(v) \/ CommitDrain(v) \/ GoSilent(v)
               \/ \E j \in Jobs : Lapse(j) \/ Reap(j)
      BY <3>1 DEF vars, SelectSilent, MarkOffline, OpenDrain, CommitDrain, GoSilent, Lapse, Reap
    <3> QED BY <1>2, <3>1
  <2>3. SameTasks(w)
    BY <1>1, <2>1, <2>2, QuietTasks
  <2> QED BY <1>1, <2>3, SameTasksKeep
<1>3. ASSUME NEW v \in Workers, (\E j \in Jobs : ClaimOne(v, j)) \/ Spawn(v) \/ Crash(v)
      PROVE  ShutdownInv(w)'
  <2>1. CASE \E j \in Jobs : ClaimOne(v, j)
    BY <1>1, <2>1, ClaimTasks, SameTasksKeep
  <2>2. CASE Spawn(v)
    BY <1>1, <2>2, SpawnTasks
  <2>3. CASE Crash(v)
    BY <1>1, <2>3, CrashTasks
  <2> QED BY <1>3, <2>1, <2>2, <2>3
<1>4. ASSUME NEW t \in Tokens, Report(t) \/ ReportFails(t) \/ Leave(t)
      PROVE  ShutdownInv(w)'
  <2>1. CASE Report(t) \/ ReportFails(t)
    BY <1>1, <2>1, ReportTasks, SameTasksKeep
  <2>2. CASE Leave(t)
    BY <1>1, <2>2, LeaveTasks
  <2> QED BY <1>4, <2>1, <2>2
<1> QED BY <1>2, <1>3, <1>4 DEF Next, ClaimLoop, HeartbeatLoop, Execute

\* The invariant of the tasks holds in every state a behaviour reaches.
LEMMA TasksInvariance == Spec => []TasksInv
<1>1. Init => TasksInv
  <2> SUFFICES ASSUME Init PROVE TasksInv
    OBVIOUS
  <2>1. ASSUME NEW w \in Workers PROVE ShutdownInv(w)
    <3>1. Started(w) = {}
      BY DEF Started, Init, Unborn
    <3>2. proc[w].active = {} /\ proc[w].pc = "new"
      BY DEF Init, NewProc
    <3>3. Cardinality({}) <= Capacity
      BY FS_EmptySet, BoundAssumption
    <3> QED BY <3>1, <3>2, <3>3 DEF ShutdownInv
  <2> QED BY <2>1, InitInv DEF TasksInv
<1>2. TasksInv /\ [Next]_vars => TasksInv'
  BY StepTasks
<1> QED BY <1>1, <1>2, PTL DEF Spec
-----------------------------------------------------------------------------
(* The theorems                                                            *)

\* The state of the processes, their heartbeats, their coroutines and the rows
\* has its types in every reachable state, whatever the interleaving.
THEOREM TypeCorrect == Spec => []TypeOK
<1>1. Inv => TypeOK
  BY DEF Inv
<1> QED BY <1>1, Invariance, PTL

\* A job leased to a worker without faults is in the hand of its claim loop or
\* is run by one of the tasks its shutdown waits for; a worker that has exited
\* holds no lease (run() and _execute(), main.py:3-4, main.py:188-194).
THEOREM NotForgotten == Spec => []NoLeaseIsForgotten
<1>1. ASSUME Inv PROVE NoLeaseIsForgotten
  <2> SUFFICES ASSUME NEW j \in Jobs, job[j].token # None,
                      Faultless(run[job[j].token].worker)
               PROVE  LET t == job[j].token
                          w == run[t].worker
                      IN  /\ proc[w].pc # "exited"
                          /\ t = proc[w].hand \/ (t \in proc[w].active /\ run[t].pc = "working")
    BY DEF NoLeaseIsForgotten
  <2>0. PICK t, w : t = job[j].token /\ w = run[t].worker
    OBVIOUS
  <2>1. Held(t, w) /\ w \in Workers /\ t # None
    BY <1>1, <2>0, LeasedJob
  <2>2. WorkerInv(w)
    BY <1>1, <2>1 DEF Inv
  <2>3. proc[w].pc # "exited"
    BY <2>1, <2>2 DEF WorkerInv, HandInv, Held
  <2> QED BY <2>0, <2>1, <2>3 DEF Held
<1> QED BY <1>1, Invariance, PTL

\* A running job its worker owns is in the table of contexts from which the
\* heartbeat renews the leases, or an earlier attempt of it that has ended has
\* taken the entry along; and the heartbeat runs or the worker is draining
\* (_heartbeat_loop, _contexts, main.py:111, main.py:161).
THEOREM Reachable == Spec => []RunningJobsAreReachable
<1>1. ASSUME Inv PROVE RunningJobsAreReachable
  <2> SUFFICES ASSUME NEW j \in Jobs, job[j].token # None,
                      Faultless(run[job[j].token].worker), run[job[j].token].pc = "working"
               PROVE  LET t == job[j].token
                          w == run[t].worker
                      IN  /\ \/ proc[w].contexts[j] = t
                             \/ \E u \in Tokens : /\ u < t /\ run[u].pc = "gone"
                                                  /\ run[u].job = j /\ run[u].worker = w
                          /\ beat[w].pc \in {"top", "loaded", "renewing"} \/ proc[w].draining
    BY DEF RunningJobsAreReachable
  <2>0. PICK t, w : t = job[j].token /\ w = run[t].worker
    OBVIOUS
  <2>1. Held(t, w) /\ Entry(j, t, w) /\ w \in Workers /\ t # None
    BY <1>1, <2>0, LeasedJob
  <2>2. WorkerInv(w)
    BY <1>1, <2>1 DEF Inv
  <2>3. Beating(w) \/ proc[w].draining
    BY <2>0, <2>1, <2>2 DEF WorkerInv, HandInv, Held
  <2> QED BY <2>0, <2>1, <2>3 DEF Entry, Beating
<1> QED BY <1>1, Invariance, PTL

\* The tasks a shutdown waits for are the coroutines that run, through any
\* number of faults and lost leases, and the heartbeat it joins has been told to
\* end: the processes do not wait for each other's absence (run() and
\* _heartbeat_loop, main.py:87, main.py:106, main.py:188-194).
THEOREM NotBlocked == Spec => []ShutdownsAreNotBlocked
<1>1. ASSUME TasksInv PROVE ShutdownsAreNotBlocked
  <2> SUFFICES ASSUME NEW w \in Workers
               PROVE  /\ proc[w].active = Started(w)
                      /\ proc[w].pc = "joining" => BeatOver(w) /\ beat[w].pc # "off"
    BY DEF ShutdownsAreNotBlocked
  <2>1. ShutdownInv(w) /\ WorkerInv(w)
    BY <1>1 DEF TasksInv, Inv
  <2> QED BY <2>1 DEF ShutdownInv, WorkerInv, BeatOver
<1> QED BY <1>1, TasksInvariance, PTL

\* A process runs no more handlers at once than its capacity, for any capacity
\* and with any number of handlers whose lease was lost (_claim_loop,
\* main.py:166-179).
THEOREM WithinCapacity == Spec => []CapacityIsKept
<1>1. TasksInv => CapacityIsKept
  BY DEF TasksInv, ShutdownInv, CapacityIsKept
<1> QED BY <1>1, TasksInvariance, PTL
=============================================================================
