----------------------------- MODULE SerialJobs -----------------------------
(***************************************************************************)
(* A job as the documents draw it (docs/ARCHITECTURE.md:45-78), without    *)
(* snapshots, tokens and leases: every operation is one step on the row,   *)
(* alone.  A job that was lost, by a commit that decided on a row that had *)
(* changed meanwhile, is promised nothing.                                 *)
(***************************************************************************)
EXTENDS Integers, StateMachine

CONSTANTS Jobs, InitialMax

VARIABLES
  row,    \* of a job: its state, attempts, budget and pending cancellation
  lost    \* the jobs lost so far

vars == <<row, lost>>

Rows == [state: States, attempts: Nat, max: Nat, cancel: BOOLEAN]

Init ==
  /\ row \in [Jobs -> {[state |-> st, attempts |-> 0, max |-> InitialMax, cancel |-> FALSE] :
                         st \in {"QUEUED", "SCHEDULED"}}]
  /\ lost = {}

Waiting == {"QUEUED", "SCHEDULED", "RETRY_SCHEDULED"}
Working == {"CLAIMED", "RUNNING", "CANCEL_REQUESTED"}

Becomes(j, r) == row' = [row EXCEPT ![j] = r] /\ UNCHANGED lost

Promote(j) ==
  /\ row[j].state \in {"SCHEDULED", "RETRY_SCHEDULED"}
  /\ Becomes(j, [row[j] EXCEPT !.state = "QUEUED"])

Claim(j) ==
  /\ row[j].state = "QUEUED" /\ ~row[j].cancel /\ row[j].attempts < row[j].max
  /\ Becomes(j, [row[j] EXCEPT !.state = "CLAIMED", !.attempts = @ + 1])

Start(j) ==
  /\ row[j].state = "CLAIMED" /\ ~row[j].cancel
  /\ Becomes(j, [row[j] EXCEPT !.state = "RUNNING"])

Complete(j) ==
  /\ row[j].state \in {"RUNNING", "CANCEL_REQUESTED"}
  /\ Becomes(j, [row[j] EXCEPT !.state = "COMPLETED"])

\* The attempt failed, was cancelled, ran out of time or lost its worker.
Fail(j) ==
  /\ row[j].state \in Working
  /\ \E final \in {"CANCELLED", "RETRY_SCHEDULED", "FAILED", "DEAD_LETTERED"} :
       /\ final = "CANCELLED" <=> row[j].cancel
       /\ final = "RETRY_SCHEDULED" => row[j].attempts < row[j].max
       /\ Becomes(j, [row[j] EXCEPT !.state = final])

Cancel(j) ==
  /\ row[j].state \in Waiting \cup Working
  /\ Becomes(j, [row[j] EXCEPT !.cancel = TRUE,
                   !.state = IF @ \in Waiting THEN "CANCELLED"
                             ELSE IF @ = "RUNNING" THEN "CANCEL_REQUESTED" ELSE @])

\* The budget after a manual retry or a replay: one more, if it was used up.
OneMore(r) == IF r.max <= r.attempts THEN r.attempts + 1 ELSE r.max

Reopen(j) ==
  /\ row[j].state \in {"FAILED", "DEAD_LETTERED", "CANCELLED"}
  /\ Becomes(j, [row[j] EXCEPT !.state = "QUEUED", !.cancel = FALSE,
                                  !.max = OneMore(row[j])])

Lose(j) ==
  /\ row' \in [Jobs -> Rows] /\ \A i \in Jobs \ {j} : row'[i] = row[i]
  /\ lost' = lost \cup {j}

Next ==
  \/ \E j \in Jobs \ lost : \/ Promote(j) \/ Claim(j) \/ Start(j) \/ Complete(j)
                            \/ Fail(j) \/ Cancel(j) \/ Reopen(j)
  \/ \E j \in Jobs : Lose(j)

Spec == Init /\ [][Next]_vars
=============================================================================
