----------------------------- MODULE MCClaiming -----------------------------
(* Two queues of one project; the second queue holds one job. *)
EXTENDS Claiming

CONSTANTS j1, j2, j3, w1, w2, q1, q2, p1

MCJobs == {j1, j2, j3}
MCQueueOf == [j \in MCJobs |-> IF j = j3 THEN q2 ELSE q1]
MCPrio == [j \in MCJobs |-> IF j = j2 THEN 1 ELSE 0]
MCMaxAttempts == [j \in MCJobs |-> IF j = j1 THEN 2 ELSE 1]
MCMatches == [w \in {w1, w2} |-> IF w = w1 THEN MCJobs ELSE {j1, j3}]
MCCapacity == [w \in {w1, w2} |-> IF w = w1 THEN 2 ELSE 1]
MCProjectOf == [q \in {q1, q2} |-> p1]

Tight == [concurrent |-> 1, perWorker |-> 1, rate |-> 1]
Loose == [concurrent |-> 2, perWorker |-> 2, rate |-> 1]
Only(n) == [concurrent |-> n, perWorker |-> 1, rate |-> None]

\* Limits that stay as they are, and limits that are edited.
FixedSettings == [q \in {q1, q2} |-> IF q = q1 THEN {Tight} ELSE {Only(1)}]
EditedSettings == [q \in {q1, q2} |-> IF q = q1 THEN {Tight, Loose} ELSE {Only(1)}]
FixedProject == [p \in {p1} |-> {}]
EditedProject == [p \in {p1} |-> {1, 2}]
=============================================================================
