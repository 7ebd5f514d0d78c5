------------------------------ MODULE Creation ------------------------------
(***************************************************************************)
(* How jobs come into being: enforce_quotas, create_job, create_batch and  *)
(* create_recurring of app/services/jobs.py, materialize_recurring of      *)
(* app/services/scheduler_service.py, toggle_recurring of                  *)
(* app/routers/recurring.py; one project, one day.                         *)
(*                                                                         *)
(* A session runs an API request or a scheduler's pass over the recurring  *)
(* jobs.  An increment of the usage counter is part of its transaction: it *)
(* locks the row until the commit, and a rollback takes it back.  After a  *)
(* rollback every object the session loaded is expired, and touching one   *)
(* raises (an attribute cannot be fetched outside an await), so a request  *)
(* ends there and a pass drops the rest of its batch.                      *)
(*                                                                         *)
(* Time is the clock of the database and the schedulers, in ticks.  A cron *)
(* expression is the set of times it names.                                *)
(***************************************************************************)
EXTENDS Integers, Sequences, FiniteSetsExt

CONSTANTS
  Sessions, Keys, Recs,
  Requests,     \* [items: Seq(Keys \cup {None}), single: BOOLEAN]: the keys of the jobs
  Quota,        \* daily_job_quota
  Cron,         \* of a recurring job: the times its expression names
  MaxTime,      \* bound: the clock
  MaxRequests,  \* bound: API requests in a behaviour
  MaxCrashes,   \* bound: sessions that die in a behaviour
  None

ASSUME ParameterAssumption ==
  /\ IsFiniteSet(Sessions) /\ None \notin Keys \cup Sessions \cup Nat
  /\ \A q \in Requests : /\ q.items \in Seq(Keys \cup {None}) /\ q.items # <<>>
                         /\ q.single \in BOOLEAN /\ (q.single => Len(q.items) = 1)
  /\ IsFiniteSet({Len(q.items) : q \in Requests})  \* max_batch_size
  /\ Requests # {} /\ Sessions # {}
  /\ Quota \in Nat /\ MaxTime \in Nat /\ MaxRequests \in Nat /\ MaxCrashes \in Nat
  /\ Cron \in [Recs -> SUBSET Nat]
  /\ \A r \in Recs : IsFiniteSet(Cron[r]) /\ \E t \in Cron[r] : t > MaxTime

VARIABLES
  now,       \* the clock
  keyed,     \* idempotency keys in the jobs table
  made,      \* jobs created through the API
  ticks,     \* of a recurring job: scheduled_at of the jobs made from it
  used,      \* jobs_created of the usage counter, or None: no row yet
  lock,      \* the session whose transaction has changed the counter
  cursor,    \* next_run_at of a recurring job, or None: not created
  enabled,   \* of a recurring job
  ses,       \* the sessions
  requests, crashes  \* bounds

vars == <<now, keyed, made, ticks, used, lock, cursor, enabled, ses, requests, crashes>>

\* jobs_created of the day, or None as long as there is no row.
CounterRows == Nat \cup {None}

Times == UNION {Cron[r] : r \in Recs}

\* A session: a request with its items left, what it charges and the counter it
\* read; or a pass with its batch, the cursors and the time it read, and the
\* recurring job it is at.
SessionRows ==
  [pc: {"idle", "lookup", "quota", "charge", "insert", "pass", "advance"},
   items: Seq(Keys \cup {None}), single: BOOLEAN, read: CounterRows, charged: Nat,
   batch: SUBSET Recs, due: [Recs -> Times \cup {None}], at: 0..MaxTime,
   rec: Recs \cup {None}]

TypeOK ==
  /\ now \in 0..MaxTime
  /\ keyed \subseteq Keys /\ made \in Nat
  /\ ticks \in [Recs -> SUBSET Times] /\ \A r \in Recs : ticks[r] \subseteq Cron[r]
  /\ used \in CounterRows
  /\ lock \in Sessions \cup {None}
  /\ cursor \in [Recs -> Times \cup {None}]
  /\ \A r \in Recs : cursor[r] \in Cron[r] \cup {None}
  /\ enabled \in [Recs -> BOOLEAN]
  /\ ses \in [Sessions -> SessionRows]
  /\ requests \in 0..MaxRequests /\ crashes \in 0..MaxCrashes

Idle == [pc |-> "idle", items |-> <<>>, single |-> TRUE, read |-> None, charged |-> 0,
         batch |-> {}, due |-> [r \in Recs |-> None], at |-> 0, rec |-> None]

Init ==
  /\ now = 0 /\ keyed = {} /\ made = 0
  /\ ticks = [r \in Recs |-> {}]
  /\ used = None /\ lock = None
  /\ cursor = [r \in Recs |-> None]
  /\ enabled = [r \in Recs |-> TRUE]
  /\ ses = [s \in Sessions |-> Idle]
  /\ requests = 0 /\ crashes = 0

Counter(c) == IF c = None THEN 0 ELSE c
-----------------------------------------------------------------------------
(* Requests: create_job, create_batch                                       *)

\* The end of a session's transaction without a commit, and of its request.
Rollback(s) ==
  /\ ses' = [ses EXCEPT ![s] = Idle]
  /\ lock' = IF lock = s THEN None ELSE lock

\* A batch is charged first, a single job after its key has been looked up.
StartRequest(s, q) ==
  /\ ses[s].pc = "idle" /\ requests < MaxRequests
  /\ ses' = [ses EXCEPT ![s] =
       [Idle EXCEPT !.pc = IF q.single THEN "lookup" ELSE "quota",
                    !.items = q.items, !.single = q.single]]
  /\ requests' = requests + 1
  /\ UNCHANGED <<now, keyed, made, ticks, used, lock, cursor, enabled, crashes>>

\* A job with the key exists: it is returned.  A batch goes on with the next
\* item; a request with nothing left ends.
Lookup(s) ==
  /\ ses[s].pc = "lookup"
  /\ IF Head(ses[s].items) \in keyed
     THEN \/ Len(ses[s].items) = 1 /\ Rollback(s)
          \/ /\ Len(ses[s].items) > 1
             /\ ses' = [ses EXCEPT ![s].items = Tail(@)]
             /\ UNCHANGED lock
     ELSE /\ ses' = [ses EXCEPT ![s].pc = IF ses[s].single THEN "quota" ELSE "insert"]
          /\ UNCHANGED lock
  /\ UNCHANGED <<now, keyed, made, ticks, used, cursor, enabled, requests, crashes>>

\* Mutant: a batch is let in as long as there is room for one job.
HasQuotaForOne(c, n) == Counter(c) < Quota

HasQuota(c, n) == Counter(c) + n <= Quota

ReadQuota(s) ==
  /\ ses[s].pc = "quota"
  /\ \/ /\ ~HasQuota(used, Len(ses[s].items))
        /\ Rollback(s)
     \/ /\ HasQuota(used, Len(ses[s].items))
        /\ ses' = [ses EXCEPT ![s].pc = "charge", ![s].read = used]
        /\ UNCHANGED lock
  /\ UNCHANGED <<now, keyed, made, ticks, used, cursor, enabled, requests, crashes>>

\* The counter row is inserted if there was none, and incremented.  Both wait
\* for the transaction that holds the row; an insert that comes second fails.
Charge(s) ==
  /\ ses[s].pc = "charge" /\ lock = None
  /\ \/ /\ ses[s].read = None /\ used # None
        /\ Rollback(s)
     \/ /\ ses[s].read # None \/ used = None
        /\ lock' = s
        /\ ses' = [ses EXCEPT ![s].pc = IF ses[s].single THEN "insert" ELSE "lookup",
                              ![s].charged = Len(ses[s].items)]
  /\ UNCHANGED <<now, keyed, made, ticks, used, cursor, enabled, requests, crashes>>

\* Mutant: the counter is set to the value read plus the charge.
ChargedOnRead(s) == Counter(ses[s].read) + ses[s].charged

\* The counter as the transaction commits it.
Charged(s) == Counter(used) + ses[s].charged

\* The insert and the commit of one job.  A key that was taken since the lookup
\* violates uq_jobs_idempotency: the rollback takes the charge back, and the
\* request fails on its expired project, where jobs.py:128 says that it is to
\* "return the winner".
Insert(s) ==
  /\ ses[s].pc = "insert"
  /\ LET k == Head(ses[s].items)
         rest == Tail(ses[s].items)
     IN \/ /\ k \in keyed
           /\ Rollback(s)
           /\ UNCHANGED <<keyed, made, used>>
        \/ /\ k \notin keyed
           /\ keyed' = keyed \cup ({k} \ {None})
           /\ made' = made + 1
           /\ used' = IF lock = s THEN Charged(s) ELSE used
           /\ lock' = IF lock = s THEN None ELSE lock
           /\ ses' = [ses EXCEPT ![s] =
                IF rest = <<>> THEN Idle
                ELSE [@ EXCEPT !.pc = "lookup", !.items = rest, !.charged = 0]]
  /\ UNCHANGED <<now, ticks, cursor, enabled, requests, crashes>>
-----------------------------------------------------------------------------
(* Recurring jobs                                                           *)

\* Mutant: the expression of the recurring job is not looked at.
NextTickOfAny(r, t) == Min({k \in Times : k > t})

\* next_cron_occurrence: the first time after t.
NextTick(r, t) == Min({k \in Cron[r] : k > t})

CreateRecurring(r) ==
  /\ cursor[r] = None
  /\ cursor' = [cursor EXCEPT ![r] = NextTick(r, now)]
  /\ UNCHANGED <<now, keyed, made, ticks, used, lock, enabled, ses, requests, crashes>>

\* toggle_recurring.  It would also set a cursor that is missing, but none is:
\* create_recurring sets it and it only advances.
Toggle(r) ==
  /\ cursor[r] # None
  /\ enabled' = [enabled EXCEPT ![r] = ~@]
  /\ UNCHANGED <<now, keyed, made, ticks, used, lock, cursor, ses, requests, crashes>>

\* Mutant: a recurring job is due only when its time has passed.
IsDueLate(r) == cursor[r] # None /\ enabled[r] /\ cursor[r] < now

IsDue(r) == cursor[r] # None /\ enabled[r] /\ cursor[r] <= now

StartPass(s) ==
  /\ ses[s].pc = "idle" /\ \E r \in Recs : IsDue(r)
  /\ ses' = [ses EXCEPT ![s] =
       [Idle EXCEPT !.pc = "pass", !.batch = {r \in Recs : IsDue(r)}, !.at = now,
                    !.due = [r \in Recs |-> IF IsDue(r) THEN cursor[r] ELSE None]]]
  /\ UNCHANGED <<now, keyed, made, ticks, used, lock, cursor, enabled, requests, crashes>>

\* The next of the batch: its job is created without a charge, or exists, and
\* then the rollback has expired the rest of the batch.
Materialize(s, r) ==
  /\ ses[s].pc = "pass" /\ r \in ses[s].batch
  /\ LET t == ses[s].due[r] IN
     /\ ticks' = [ticks EXCEPT ![r] = @ \cup {t}]
     /\ ses' = [ses EXCEPT ![s].pc = "advance", ![s].rec = r,
                           ![s].batch = IF t \in ticks[r] THEN {} ELSE @ \ {r}]
  /\ UNCHANGED <<now, keyed, made, used, lock, cursor, enabled, requests, crashes>>

\* Mutant: the cursor is advanced from the time after the pass began.
CursorTooFar(s, r) ==
  NextTick(r, Max({ses[s].due[r], ses[s].at}) + 1)

CursorAfter(s, r) == NextTick(r, Max({ses[s].due[r], ses[s].at}))

\* Mutant: the UPDATE is keyed on the id alone.
AdvancedAnyway(s, r) == [cursor EXCEPT ![r] = CursorAfter(s, r)]

\* The UPDATE, keyed on the cursor the pass read.
Advanced(s, r) ==
  [cursor EXCEPT ![r] = IF @ = ses[s].due[r] THEN CursorAfter(s, r) ELSE @]

Advance(s) ==
  /\ ses[s].pc = "advance"
  /\ cursor' = Advanced(s, ses[s].rec)
  /\ ses' = [ses EXCEPT ![s] = IF @.batch = {} THEN Idle
                               ELSE [@ EXCEPT !.pc = "pass", !.rec = None]]
  /\ UNCHANGED <<now, keyed, made, ticks, used, lock, enabled, requests, crashes>>
-----------------------------------------------------------------------------
\* The process dies, or its connection does.
Crash(s) ==
  /\ ses[s].pc # "idle" /\ crashes < MaxCrashes
  /\ Rollback(s)
  /\ crashes' = crashes + 1
  /\ UNCHANGED <<now, keyed, made, ticks, used, cursor, enabled, requests>>

Tick ==
  /\ now < MaxTime
  /\ now' = now + 1
  /\ UNCHANGED <<keyed, made, ticks, used, lock, cursor, enabled, ses, requests, crashes>>

Step(s) ==
  \/ Lookup(s) \/ ReadQuota(s) \/ Charge(s) \/ Insert(s)
  \/ StartPass(s) \/ Advance(s) \/ \E r \in Recs : Materialize(s, r)

Next ==
  \/ \E s \in Sessions : Step(s) \/ Crash(s) \/ \E q \in Requests : StartRequest(s, q)
  \/ \E r \in Recs : CreateRecurring(r) \/ Toggle(r)
  \/ Tick

\* SchedulerService._loop runs for ever; a request runs to its end.
Fairness == \A s \in Sessions : WF_vars(Step(s))

Spec == Init /\ [][Next]_vars /\ Fairness
-----------------------------------------------------------------------------
\* Every job of the API has been charged for, whatever requests race for the
\* counter row or a key and whichever of them roll back.
JobsAreCharged == made <= Counter(used)

Costliest == Max({Len(q.items) : q \in Requests})

\* The quota is checked before it is charged, so it can be exceeded, but only
\* by what the other sessions were about to charge.
QuotaOvershootIsBounded ==
  Counter(used) <= Quota + (Cardinality(Sessions) - 1) * Costliest

\* A concurrent scheduler that already advanced the cursor is not rewound.
CursorNeverGoesBack ==
  [][\A r \in Recs : cursor[r] # None => cursor'[r] >= cursor[r]]_vars

\* The cursor leaves a time only when the job of that time exists, and passes
\* over no other time that is still to come.
TicksAreNotLost ==
  [][\A r \in Recs : cursor[r] # None /\ cursor'[r] # cursor[r] =>
       /\ cursor[r] \in ticks[r]
       /\ \A t \in Cron[r] : cursor[r] < t /\ t < cursor'[r] => t <= now]_vars

\* A recurring job that is due runs, unless somebody disables it.
DueJobsRun ==
  \A r \in Recs :
    (cursor[r] # None /\ enabled[r] /\ cursor[r] <= now)
      ~> ~(cursor[r] # None /\ enabled[r] /\ cursor[r] <= now)
=============================================================================
