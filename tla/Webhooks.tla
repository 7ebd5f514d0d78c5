------------------------------ MODULE Webhooks ------------------------------
(***************************************************************************)
(* Webhook deliveries: enqueue_webhooks of app/services/lifecycle.py,      *)
(* dispatch_webhooks of app/services/scheduler_service.py and the replay   *)
(* and delete handlers of app/routers/webhooks.py.                         *)
(*                                                                         *)
(* A dispatcher reads a batch of deliveries once and works through it: it  *)
(* counts the attempt in memory, posts, and commits.  Nothing locks a      *)
(* delivery and the UPDATE is keyed on the id, so two schedulers can have  *)
(* the same delivery in hand.  The endpoint object stays in the session    *)
(* while the batch stays at that endpoint, so its failure count and its    *)
(* active flag are as old as the first delivery of the run.                *)
(*                                                                         *)
(* next_attempt_at only says how long a delivery waits: a dispatcher may   *)
(* find any of the pending ones due.                                       *)
(***************************************************************************)
EXTENDS Integers, FiniteSets

CONSTANTS
  Deliveries, Endpoints, Schedulers,
  EndpointOf,    \* of a delivery
  MaxAttempts,   \* WEBHOOK_MAX_ATTEMPTS; 8 in the code
  DisableAfter,  \* WEBHOOK_DISABLE_AFTER; 10 in the code
  Limit,         \* rows of a batch; 50 in the code
  MaxCrashes,    \* bound: scheduler crashes in a behaviour
  None

ASSUME ParameterAssumption ==
  /\ IsFiniteSet(Deliveries) /\ EndpointOf \in [Deliveries -> Endpoints]
  /\ MaxAttempts \in Nat \ {0} /\ DisableAfter \in Nat \ {0} /\ Limit \in Nat \ {0}
  /\ MaxCrashes \in Nat
  /\ None \notin Nat \cup Deliveries \cup Endpoints

VARIABLES
  row,      \* the webhook_deliveries table; "absent": not created, or deleted
  ep,       \* the webhook_endpoints table
  sch,      \* the session of each scheduler
  posts,    \* history: HTTP requests made for a delivery
  acked,    \* history: deliveries a receiver answered with 2xx
  failures, \* history: requests to an endpoint that were not answered so
  streak,   \* history: those of them since the last 2xx; None, for good, once a
            \* 2xx raced: it was not recorded alone, or not at all
  shared,   \* history: deliveries two schedulers had in hand
  crashes   \* bound

vars == <<row, ep, sch, posts, acked, failures, streak, shared, crashes>>

Pending == {"pending", "retrying"}
Statuses == Pending \cup {"absent", "delivered", "failed", "disabled"}
Rows == [status: Statuses, attempts: 0..MaxAttempts]
EndpointRows == [exists: BOOLEAN, active: BOOLEAN, count: Nat]

\* A session: the batch as it was read, the endpoint it holds, and the
\* delivery it is working on with the answer it got.
Sessions == [pc: {"idle", "next", "post", "commit"}, batch: SUBSET Deliveries,
             snap: [Deliveries -> Rows], held: Endpoints \cup {None},
             ep: EndpointRows, d: Deliveries \cup {None},
             answer: {"ok", "error", "disabled", "none"}]

TypeOK ==
  /\ row \in [Deliveries -> Rows]
  /\ ep \in [Endpoints -> EndpointRows]
  /\ sch \in [Schedulers -> Sessions]
  /\ posts \in [Deliveries -> Nat]
  /\ acked \subseteq Deliveries /\ shared \subseteq Deliveries
  /\ failures \in [Endpoints -> Nat] /\ streak \in [Endpoints -> Nat \cup {None}]
  /\ crashes \in 0..MaxCrashes

Absent == [status |-> "absent", attempts |-> 0]
NoEndpoint == [exists |-> FALSE, active |-> FALSE, count |-> 0]
Idle == [pc |-> "idle", batch |-> {}, snap |-> [d \in Deliveries |-> Absent],
         held |-> None, ep |-> NoEndpoint, d |-> None, answer |-> "none"]

Init ==
  /\ row = [d \in Deliveries |-> Absent]
  /\ ep = [e \in Endpoints |-> [exists |-> TRUE, active |-> TRUE, count |-> 0]]
  /\ sch = [s \in Schedulers |-> Idle]
  /\ posts = [d \in Deliveries |-> 0]
  /\ acked = {}
  /\ failures = [e \in Endpoints |-> 0] /\ streak = [e \in Endpoints |-> 0]
  /\ shared = {}
  /\ crashes = 0
-----------------------------------------------------------------------------
(* The API and the jobs                                                     *)

\* The insert of enqueue_webhooks.  The endpoint may have been disabled since it
\* was read; only its row must still exist.
Enqueue(d) ==
  /\ row[d].status = "absent" /\ ep[EndpointOf[d]].exists /\ posts[d] = 0
  /\ row' = [row EXCEPT ![d].status = "pending"]
  /\ UNCHANGED <<ep, sch, posts, acked, failures, streak, shared, crashes>>

\* replay_delivery: a new delivery to the endpoint of another one, whatever has
\* become of that and whether or not the endpoint is active.
Replay(d) ==
  /\ \E c \in Deliveries : row[c].status # "absent" /\ EndpointOf[c] = EndpointOf[d]
  /\ row[d].status = "absent" /\ posts[d] = 0
  /\ row' = [row EXCEPT ![d].status = "pending"]
  /\ UNCHANGED <<ep, sch, posts, acked, failures, streak, shared, crashes>>

\* delete_webhook: the deliveries go with the endpoint.
Delete(e) ==
  /\ ep[e].exists
  /\ ep' = [ep EXCEPT ![e] = NoEndpoint]
  /\ row' = [d \in Deliveries |-> IF EndpointOf[d] = e THEN Absent ELSE row[d]]
  /\ UNCHANGED <<sch, posts, acked, failures, streak, shared, crashes>>
-----------------------------------------------------------------------------
(* dispatch_webhooks                                                        *)

InHand(s) == sch[s].batch \cup ({sch[s].d} \ {None})

\* Mutant: only deliveries never tried are selected.
DueNew == {d \in Deliveries : row[d].status = "pending"}

Due == {d \in Deliveries : row[d].status \in Pending}

SelectBatch(s) ==
  /\ sch[s].pc = "idle"
  /\ \E B \in SUBSET Due \ {{}} :
       /\ Cardinality(B) <= Limit
       /\ sch' = [sch EXCEPT ![s] =
            [Idle EXCEPT !.pc = "next", !.batch = B,
                         !.snap = [d \in Deliveries |-> IF d \in B THEN row[d] ELSE Absent]]]
       /\ shared' = shared \cup (B \cap UNION {InHand(r) : r \in Schedulers \ {s}})
  /\ UNCHANGED <<row, ep, posts, acked, failures, streak, crashes>>

\* Session s has a 2xx of endpoint e that its commit has yet to record.
Resets(s, e) == sch[s].pc = "commit" /\ sch[s].answer = "ok" /\ sch[s].held = e

\* Session s has endpoint e as it is in the table, and no other session has it.
HoldsAlone(s, e) == sch[s].ep = ep[e] /\ \A r \in Schedulers \ {s} : sch[r].held # e

\* The next delivery, and its endpoint: the object the session holds, or the
\* row.  An endpoint that is gone or inactive disables the delivery.
Take(s, d) ==
  /\ sch[s].pc = "next" /\ d \in sch[s].batch
  /\ LET e == EndpointOf[d]
         found == IF sch[s].held = e /\ ep[e].exists THEN sch[s].ep ELSE ep[e]
         usable == found.exists /\ found.active
     IN sch' = [sch EXCEPT ![s].pc = IF usable THEN "post" ELSE "commit",
                           ![s].batch = @ \ {d},
                           ![s].d = d,
                           ![s].held = IF found.exists THEN e ELSE None,
                           ![s].ep = found,
                           ![s].answer = IF usable THEN "none" ELSE "disabled"]
  /\ streak' = IF \E r \in Schedulers : Resets(r, EndpointOf[d])
               THEN [streak EXCEPT ![EndpointOf[d]] = None] ELSE streak
  /\ UNCHANGED <<row, ep, posts, acked, failures, shared, crashes>>

Post(s) ==
  /\ sch[s].pc = "post"
  /\ LET d == sch[s].d
         e == EndpointOf[d] IN
     /\ posts' = [posts EXCEPT ![d] = @ + 1]
     /\ \/ /\ sch' = [sch EXCEPT ![s].pc = "commit", ![s].answer = "ok"]
           /\ acked' = acked \cup {d}
           /\ streak' = [streak EXCEPT ![e] = IF @ # None /\ HoldsAlone(s, e) THEN 0 ELSE None]
           /\ UNCHANGED failures
        \/ /\ sch' = [sch EXCEPT ![s].pc = "commit", ![s].answer = "error"]
           /\ failures' = [failures EXCEPT ![e] = @ + 1]
           /\ streak' = [streak EXCEPT ![e] = IF @ # None THEN @ + 1 ELSE None]
           /\ UNCHANGED acked
  /\ UNCHANGED <<row, ep, shared, crashes>>

\* Mutant: the last attempt is one too early.
StatusTooEarly(answer, attempts) ==
  CASE answer = "ok"       -> "delivered"
    [] answer = "disabled" -> "disabled"
    [] answer = "error"    -> IF attempts + 1 >= MaxAttempts THEN "failed" ELSE "retrying"

\* Mutant: the budget is noticed one attempt too late.
StatusTooLate(answer, attempts) ==
  CASE answer = "ok"       -> "delivered"
    [] answer = "disabled" -> "disabled"
    [] answer = "error"    -> IF attempts > MaxAttempts THEN "failed" ELSE "retrying"

\* The status an answer leads to, after so many attempts.
Status(answer, attempts) ==
  CASE answer = "ok"       -> "delivered"
    [] answer = "disabled" -> "disabled"
    [] answer = "error"    -> IF attempts >= MaxAttempts THEN "failed" ELSE "retrying"

\* Mutant: only successful attempts are counted.
AttemptsUncounted(snap, answer) == IF answer = "ok" THEN snap.attempts + 1 ELSE snap.attempts

Attempts(snap, answer) == IF answer = "disabled" THEN snap.attempts ELSE snap.attempts + 1

\* Mutant: an acknowledged request does not reset the count.
EndpointNeverReset(e, answer) ==
  IF answer = "error"
  THEN [e EXCEPT !.count = @ + 1, !.active = @ /\ e.count + 1 < DisableAfter]
  ELSE e

\* The endpoint object after an answer.
Endpoint(e, answer) ==
  CASE answer = "ok"       -> [e EXCEPT !.count = 0]
    [] answer = "error"    -> [e EXCEPT !.count = @ + 1,
                                        !.active = @ /\ e.count + 1 < DisableAfter]
    [] answer = "disabled" -> e

\* A commit writes the columns whose value differs from the one read.
Column(read, value, now) == IF value = read THEN now ELSE value

\* The commit, keyed on the ids.  A row that is gone fails the flush and ends
\* the batch.
Commit(s) ==
  /\ sch[s].pc = "commit"
  /\ LET d == sch[s].d
         e == EndpointOf[d]
         snap == sch[s].snap[d]
         answer == sch[s].answer
         n == Attempts(snap, answer)
         old == sch[s].ep
         new == Endpoint(old, answer)
     IN \/ /\ row[d].status # "absent"
           /\ row' = [row EXCEPT ![d] =
                [status |-> Column(snap.status, Status(answer, n), @.status),
                 attempts |-> Column(snap.attempts, n, @.attempts)]]
           /\ ep' = [ep EXCEPT ![e].active = Column(old.active, new.active, @),
                               ![e].count = Column(old.count, new.count, @)]
           /\ sch' = [sch EXCEPT ![s] =
                IF @.batch = {} THEN Idle
                ELSE [@ EXCEPT !.pc = "next", !.ep = new, !.d = None, !.answer = "none",
                               !.snap[d] = Absent]]
        \/ /\ row[d].status = "absent"
           /\ sch' = [sch EXCEPT ![s] = Idle]
           /\ UNCHANGED <<row, ep>>
  /\ UNCHANGED <<posts, acked, failures, streak, shared, crashes>>

\* The process dies, or the request raises what run_once catches.
Crash(s) ==
  /\ sch[s].pc # "idle" /\ crashes < MaxCrashes
  /\ sch' = [sch EXCEPT ![s] = Idle]
  /\ crashes' = crashes + 1
  /\ streak' = [e \in Endpoints |-> IF Resets(s, e) THEN None ELSE streak[e]]
  /\ UNCHANGED <<row, ep, posts, acked, failures, shared>>
-----------------------------------------------------------------------------
Dispatch(s) ==
  \/ SelectBatch(s) \/ Post(s) \/ Commit(s)
  \/ \E d \in Deliveries : Take(s, d)

Next ==
  \/ \E d \in Deliveries : Enqueue(d) \/ Replay(d)
  \/ \E e \in Endpoints : Delete(e)
  \/ \E s \in Schedulers : Dispatch(s) \/ Crash(s)

\* SchedulerService._loop runs for ever and an HTTP request times out.
Fairness == \A s \in Schedulers : WF_vars(Dispatch(s))

Spec == Init /\ [][Next]_vars /\ Fairness
-----------------------------------------------------------------------------
\* Whatever schedulers overwrite each other: a delivery counts as delivered only
\* if a receiver said so, and as failed only after the whole budget was posted.
OutcomesAreEarned ==
  /\ \A d \in Deliveries :
       /\ row[d].attempts <= posts[d]
       /\ row[d].status = "delivered" => d \in acked
       /\ row[d].status = "failed" => posts[d] >= MaxAttempts

\* docs/SECURITY.md:38-39, scheduler_service.py:43: an endpoint is disabled after
\* DisableAfter failures in a row, over all its deliveries and however many
\* sessions count them on objects of different ages.  A 2xx that races breaks
\* it: the count a second session has read is written over the reset, or a stale
\* object has nothing to reset (scheduler_service.py:211, :221), or a crash loses
\* the reset.  Even then it takes that many failures in all.
DisabledForFailuresInARow ==
  \A e \in Endpoints : ep[e].exists /\ ~ep[e].active =>
    /\ failures[e] >= DisableAfter
    /\ streak[e] # None => streak[e] >= DisableAfter

\* A delivery that one scheduler at a time had in hand is exact: a crash can
\* only repeat one request, and an acknowledged delivery is recorded so unless
\* a crash or a deletion came between.
UnsharedDeliveriesAreExact ==
  \A d \in Deliveries \ shared :
    /\ posts[d] <= MaxAttempts + crashes
    /\ (/\ d \in acked /\ crashes = 0 /\ row[d].status # "absent"
        /\ \A s \in Schedulers : sch[s].d # d)
       => row[d].status = "delivered"

\* Every delivery comes to rest, although a commit may put it back in the queue.
DeliveriesSettle == <>[](\A d \in Deliveries : row[d].status \notin Pending)
=============================================================================
