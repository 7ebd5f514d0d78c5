---------------------------- MODULE StateMachine ----------------------------
(***************************************************************************)
(* The job state machine of backend/app/state_machine.py: the table of     *)
(* edges an ORM object may be moved along, and the check every move makes. *)
(***************************************************************************)
EXTENDS Integers

States == {"CREATED", "QUEUED", "SCHEDULED", "BLOCKED", "CLAIMED", "RUNNING",
           "RETRY_SCHEDULED", "CANCEL_REQUESTED", "FAILED", "TIMED_OUT",
           "DEAD_LETTERED", "COMPLETED", "CANCELLED", "SKIPPED"}

Allowed ==
  [CREATED          |-> {"QUEUED", "SCHEDULED", "BLOCKED", "CANCELLED"},
   QUEUED           |-> {"CLAIMED", "CANCELLED", "SCHEDULED"},
   SCHEDULED        |-> {"QUEUED", "CANCELLED"},
   BLOCKED          |-> {"QUEUED", "CANCELLED", "SKIPPED"},
   CLAIMED          |-> {"RUNNING", "QUEUED", "RETRY_SCHEDULED", "CANCELLED",
                         "FAILED", "DEAD_LETTERED"},
   RUNNING          |-> {"COMPLETED", "FAILED", "RETRY_SCHEDULED", "TIMED_OUT",
                         "CANCEL_REQUESTED", "CANCELLED", "QUEUED",
                         "DEAD_LETTERED"},
   RETRY_SCHEDULED  |-> {"QUEUED", "CANCELLED", "DEAD_LETTERED"},
   CANCEL_REQUESTED |-> {"CANCELLED", "COMPLETED", "FAILED", "TIMED_OUT",
                         "RETRY_SCHEDULED", "DEAD_LETTERED"},
   FAILED           |-> {"QUEUED", "DEAD_LETTERED"},
   TIMED_OUT        |-> {"QUEUED", "RETRY_SCHEDULED", "DEAD_LETTERED"},
   DEAD_LETTERED    |-> {"QUEUED"},
   COMPLETED        |-> {},
   CANCELLED        |-> {"QUEUED"},
   SKIPPED          |-> {}]

\* The states the module itself calls terminal.  FAILED is not among them: a
\* queue without a DLQ leaves its exhausted jobs there.
Terminal == {"COMPLETED", "CANCELLED", "DEAD_LETTERED", "SKIPPED"}

\* validate(): FALSE stands for InvalidTransition being raised.
Validate(from, to) == to \in Allowed[from]

\* A chain of moves made on one object inside one transaction: each of them is
\* validated, only the last one is what other transactions ever see.
ValidatePath(path) ==
  \A i \in DOMAIN path \ {1} : Validate(path[i - 1], path[i])
=============================================================================
