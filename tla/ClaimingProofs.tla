--------------------------- MODULE ClaimingProofs ---------------------------
(***************************************************************************)
(* Theorems of Claiming that hold for any numbers of jobs, workers, queues *)
(* and projects, any limits and any windows.  Row locks, the order of the  *)
(* queue and the history of attempts are proved action by action.  The     *)
(* limits are proved from what they are about: a step lets go of claims    *)
(* and active jobs, or a worker chooses a candidate that has passed the    *)
(* checks, or the chosen candidate is taken (the section on limits).       *)
(***************************************************************************)
EXTENDS Claiming, FiniteSetTheorems, SequenceTheorems, TLAPS

\* What a claim transaction carries, and an active row.
Carries(c) ==
  /\ c.pc = "idle" => c.rows = {}
  /\ c.pc = "scanned" => \A j \in c.rows : c.seen[QueueOf[j]] \in Limits
  /\ c.pc \in {"chosen", "locked"} => c.pick \in c.rows /\ c.under \in Admissions

Owned(r) == r.state = "active" => r.owner \in Workers /\ r.under \in Admissions

AtWork ==
  /\ \A w \in Workers : Carries(wk[w])
  /\ \A j \in Jobs : Owned(job[j])

\* The line holds the queued jobs, each of them once.
LineIsTheQueue ==
  /\ \A i, k \in DOMAIN line : line[i] = line[k] => i = k
  /\ \A j \in Jobs : job[j].state = "QUEUED" <=> \E i \in DOMAIN line : line[i] = j

TypeInv == TypeOK /\ AtWork /\ LineIsTheQueue
-----------------------------------------------------------------------------
(* Types and the queue                                                       *)

\* Taking a queued job out of the line leaves the others in it, each once.
LEMMA WithoutOne ==
  ASSUME TypeInv, NEW j \in Jobs, job[j].state = "QUEUED", line' = LineWithout(j),
         job'[j].state # "QUEUED", \A i \in Jobs \ {j} : job'[i].state = job[i].state
  PROVE  line' \in Seq(Jobs) /\ LineIsTheQueue'
<1> DEFINE p == Position(j)
           n == Len(line)
           before == SubSeq(line, 1, p - 1)
           after == SubSeq(line, p + 1, n)
<1>1. line \in Seq(Jobs) /\ n \in Nat /\ DOMAIN line = 1..n
  BY DEF TypeInv, TypeOK
<1>2. p \in 1..n /\ line[p] = j
  BY <1>1 DEF TypeInv, LineIsTheQueue, Position
<1> HIDE DEF p
<1>3. /\ before \in Seq(Jobs) /\ Len(before) = p - 1
      /\ \A i \in 1..(p - 1) : before[i] = line[i]
  BY <1>1, <1>2
<1>4. /\ after \in Seq(Jobs) /\ Len(after) = n - p
      /\ \A i \in 1..(n - p) : after[i] = line[i + p]
  <2>0. p + 1 \in Int /\ n \in Int /\ \A i \in (p + 1)..n : line[i] \in Jobs
    BY <1>1, <1>2
  <2>1. after \in Seq(Jobs) /\ Len(after) = IF p + 1 <= n THEN n - (p + 1) + 1 ELSE 0
    BY <2>0, SubSeqProperties
  <2>2. \A i \in 1..(n - (p + 1) + 1) : after[i] = line[(p + 1) + i - 1]
    BY <2>0, SubSeqProperties
  <2>3. \A i \in 1..(n - p) : (p + 1) + i - 1 = i + p
    BY <1>1, <1>2
  <2> HIDE DEF after, n
  <2>4. Len(after) = n - p /\ n - (p + 1) + 1 = n - p
    BY <1>1, <1>2, <2>1
  <2> QED BY <2>1, <2>2, <2>3, <2>4
<1>5. line' = before \o after
  BY DEF LineWithout, p
<1> HIDE DEF n, before, after
<1>6. /\ line' \in Seq(Jobs) /\ Len(line') = n - 1 /\ DOMAIN line' = 1..(n - 1)
      /\ \A i \in 1..(n - 1) :
           line'[i] = IF i < p THEN before[i] ELSE after[i - (p - 1)]
  <2>1. /\ line' \in Seq(Jobs) /\ Len(line') = Len(before) + Len(after)
        /\ \A i \in 1..(Len(before) + Len(after)) :
             line'[i] = IF i <= Len(before) THEN before[i] ELSE after[i - Len(before)]
    <3>1. before \in Seq(Jobs) /\ after \in Seq(Jobs)
      BY <1>3, <1>4
    <3>2. /\ (before \o after) \in Seq(Jobs)
          /\ Len(before \o after) = Len(before) + Len(after)
          /\ \A i \in 1..(Len(before) + Len(after)) :
               (before \o after)[i] = IF i <= Len(before) THEN before[i]
                                      ELSE after[i - Len(before)]
      BY <3>1, ConcatProperties, Zenon
    <3> QED BY <1>5, <3>2, Zenon
  <2>2. Len(before) + Len(after) = n - 1 /\ \A i \in Int : i <= p - 1 <=> i < p
    BY <1>1, <1>2, <1>3, <1>4
  <2> QED BY <1>3, <2>1, <2>2
<1>7. \A i \in 1..(n - 1) : line'[i] = IF i < p THEN line[i] ELSE line[i + 1]
  <2> SUFFICES ASSUME NEW i \in 1..(n - 1)
               PROVE  line'[i] = IF i < p THEN line[i] ELSE line[i + 1]
    OBVIOUS
  <2>1. CASE i < p
    BY <1>1, <1>2, <1>3, <1>6, <2>1
  <2>2. CASE ~(i < p)
    <3>1. i - (p - 1) \in 1..(n - p) /\ (i - (p - 1)) + p = i + 1
      BY <1>1, <1>2, <2>2
    <3> QED BY <1>4, <1>6, <2>2, <3>1
  <2> QED BY <2>1, <2>2
<1>8. \A i, k \in 1..n : line[i] = line[k] => i = k
  BY <1>1 DEF TypeInv, LineIsTheQueue
<1>9. ASSUME NEW i \in Jobs \ {j}, NEW k \in 1..n, line[k] = i
      PROVE  \E l \in 1..(n - 1) : line'[l] = i
  <2>1. CASE k < p
    BY <1>1, <1>2, <1>7, <1>9, <2>1
  <2>2. CASE k > p
    <3>1. k - 1 \in 1..(n - 1) /\ ~(k - 1 < p) /\ (k - 1) + 1 = k
      BY <1>1, <1>2, <2>2
    <3> QED BY <1>7, <1>9, <3>1
  <2> QED BY <1>1, <1>2, <1>9, <2>1, <2>2
<1>10. \A i, k \in 1..(n - 1) : line'[i] = line'[k] => i = k
  BY <1>1, <1>2, <1>7, <1>8
<1>11. \A i \in 1..(n - 1) : line'[i] # j
  BY <1>1, <1>2, <1>7, <1>8
<1>12. \A i \in 1..(n - 1) : \E k \in 1..n : line[k] = line'[i]
  BY <1>1, <1>2, <1>7
<1>13. ASSUME NEW i \in Jobs \ {j}
       PROVE  (\E k \in 1..n : line[k] = i) <=> (\E k \in 1..(n - 1) : line'[k] = i)
  BY <1>9, <1>12
<1>14. ASSUME NEW i \in Jobs
       PROVE  job'[i].state = "QUEUED" <=> \E k \in DOMAIN line' : line'[k] = i
  <2>1. CASE i = j
    BY <1>6, <1>11, <2>1
  <2>2. CASE i # j
    <3>1. job[i].state = "QUEUED" <=> \E k \in 1..n : line[k] = i
      BY <1>1 DEF TypeInv, LineIsTheQueue
    <3>2. i \in Jobs \ {j} /\ job'[i].state = job[i].state
      BY <2>2
    <3> QED BY <1>6, <1>13, <3>1, <3>2
  <2> QED BY <2>1, <2>2
<1> QED BY <1>6, <1>10, <1>14 DEF LineIsTheQueue

\* A new job at the end of the line.
LEMMA OneMore ==
  ASSUME TypeInv, NEW j \in Jobs, job[j].state # "QUEUED", line' = Append(line, j),
         job'[j].state = "QUEUED", \A i \in Jobs \ {j} : job'[i].state = job[i].state
  PROVE  line' \in Seq(Jobs) /\ LineIsTheQueue'
<1> DEFINE n == Len(line)
<1>1. line \in Seq(Jobs) /\ n \in Nat /\ DOMAIN line = 1..n
  BY DEF TypeInv, TypeOK
<1>2. /\ line' \in Seq(Jobs) /\ DOMAIN line' = 1..(n + 1)
      /\ line'[n + 1] = j /\ \A i \in 1..n : line'[i] = line[i]
  BY <1>1, AppendProperties
<1> HIDE DEF n
<1>3. /\ \A i, k \in 1..n : line[i] = line[k] => i = k
      /\ \A i \in 1..n : line[i] # j
  BY <1>1 DEF TypeInv, LineIsTheQueue
<1>4. \A i, k \in 1..(n + 1) : line'[i] = line'[k] => i = k
  BY <1>1, <1>2, <1>3
<1>5. ASSUME NEW i \in Jobs
      PROVE  job'[i].state = "QUEUED" <=> \E k \in 1..(n + 1) : line'[k] = i
  <2>1. CASE i = j
    BY <1>1, <1>2, <2>1
  <2>2. CASE i # j
    <3>1. job[i].state = "QUEUED" <=> \E k \in 1..n : line[k] = i
      BY <1>1 DEF TypeInv, LineIsTheQueue
    <3>2. (\E k \in 1..n : line[k] = i) <=> (\E k \in 1..(n + 1) : line'[k] = i)
      BY <1>1, <1>2, <2>2
    <3>3. job'[i].state = job[i].state
      BY <2>2
    <3> QED BY <3>1, <3>2, <3>3
  <2> QED BY <2>1, <2>2
<1> QED BY <1>2, <1>4, <1>5 DEF LineIsTheQueue

\* A claim transaction is replaced by another one.
LEMMA ClaimUpdate ==
  ASSUME TypeInv, NEW w \in Workers, NEW c \in Claims, Carries(c), wk' = [wk EXCEPT ![w] = c]
  PROVE  wk' \in [Workers -> Claims] /\ \A v \in Workers : Carries(wk'[v])
  BY DEF TypeInv, TypeOK, AtWork

\* A worker between two claims carries nothing.
LEMMA IdleType == Idle \in Claims /\ Carries(Idle)
  BY DEF Idle, Claims, Carries, NothingSeen

\* A transaction that ends or aborts leaves everything else to its own step.
LEMMA ClearType ==
  ASSUME TypeInv, NEW w \in Workers, wk' = [wk EXCEPT ![w] = Idle]
  PROVE  wk' \in [Workers -> Claims] /\ \A v \in Workers : Carries(wk'[v])
  BY ClaimUpdate, IdleType

\* A row is replaced by another one.
LEMMA RowUpdate ==
  ASSUME TypeInv, NEW j \in Jobs, NEW r \in JobRows, Owned(r), job' = [job EXCEPT ![j] = r]
  PROVE  job' \in [Jobs -> JobRows] /\ \A i \in Jobs : Owned(job'[i])
  BY DEF TypeInv, TypeOK, AtWork

\* Scan: the limits seen are those of existing queues.
LEMMA ScanType ==
  ASSUME TypeInv, NEW w \in Workers, Scan(w)
  PROVE  TypeInv'
<1> DEFINE seen == [q \in Queues |-> IF \E j \in ScanWindow : QueueOf[j] = q
                                     THEN queue[q].limits ELSE None]
           c == [Idle EXCEPT !.pc = "scanned", !.rows = ScanWindow, !.seen = seen]
<1>1. ScanWindow \subseteq Candidates
  BY DEF ScanWindow
<1>2. ASSUME NEW j \in ScanWindow
      PROVE  j \in Jobs /\ QueueOf[j] \in Queues /\ queue[QueueOf[j]].status = "open"
  BY <1>1, ParameterAssumption DEF Candidates
<1>3. seen \in [Queues -> Limits \cup {None}]
  BY DEF TypeInv, TypeOK, QueueRows
<1>4. \A j \in ScanWindow : seen[QueueOf[j]] \in Limits
  <2> SUFFICES ASSUME NEW j \in ScanWindow PROVE seen[QueueOf[j]] \in Limits
    OBVIOUS
  <2>1. queue[QueueOf[j]] \in QueueRows /\ queue[QueueOf[j]].limits # None
    BY <1>2 DEF TypeInv, TypeOK
  <2>2. queue[QueueOf[j]].limits \in Limits
    BY <2>1 DEF QueueRows
  <2> QED BY <1>2, <2>2
<1>5. wk' = [wk EXCEPT ![w] = c]
  BY DEF Scan
<1> HIDE DEF seen
<1>6. ScanWindow \in SUBSET Jobs
  BY <1>2
<1>7. c \in Claims /\ Carries(c)
  BY <1>3, <1>4, <1>6 DEF Claims, Carries, Idle
<1> HIDE DEF c
<1>8. wk' \in [Workers -> Claims] /\ \A v \in Workers : Carries(wk'[v])
  BY <1>5, <1>7, ClaimUpdate
<1> QED BY <1>8 DEF Scan, TypeInv, TypeOK, AtWork, LineIsTheQueue

\* Decide: a candidate that was read with limits is admitted under them.
LEMMA AdmissionType ==
  ASSUME TypeInv, NEW w \in Workers, wk[w].pc = "scanned", NEW j \in wk[w].rows
  PROVE  Admission(w, j) \in Admissions /\ j \in Jobs
<1>1. j \in Jobs /\ wk[w].seen[QueueOf[j]] \in Limits
  BY DEF TypeInv, TypeOK, AtWork, Carries, Claims
<1>2. project[ProjectOf[QueueOf[j]]] \in ProjectRows
  BY <1>1, ParameterAssumption DEF TypeInv, TypeOK
<1> QED BY <1>1, <1>2 DEF Admission, Admissions

\* The pick is one of the rows the scan has locked.
LEMMA DecideType ==
  ASSUME TypeInv, NEW w \in Workers, Decide(w)
  PROVE  TypeInv'
<1>1. ASSUME NEW j \in wk[w].rows,
             wk' = [wk EXCEPT ![w].pc = "chosen", ![w].seen = NothingSeen,
                              ![w].pick = j, ![w].under = Admission(w, j)]
      PROVE  wk' \in [Workers -> Claims] /\ \A v \in Workers : Carries(wk'[v])
  <2> DEFINE u == Admission(w, j)
  <2>1. u \in Admissions /\ j \in Jobs
    BY AdmissionType DEF Decide
  <2>2. wk[w] \in Claims /\ NothingSeen \in [Queues -> Limits \cup {None}]
    BY DEF TypeInv, TypeOK, NothingSeen
  <2> DEFINE c == [wk[w] EXCEPT !.pc = "chosen", !.seen = NothingSeen, !.pick = j,
                                !.under = u]
  <2>3. wk' = [wk EXCEPT ![w] = c]
    BY <1>1 DEF TypeInv, TypeOK
  <2> HIDE DEF u
  <2>4. c \in Claims /\ Carries(c)
    BY <2>1, <2>2, <1>1 DEF Claims, Carries
  <2> HIDE DEF c
  <2> QED BY <2>3, <2>4, ClaimUpdate
<1>2. wk' \in [Workers -> Claims] /\ \A v \in Workers : Carries(wk'[v])
  BY <1>1, ClearType DEF Decide
<1> QED BY <1>2 DEF Decide, TypeInv, TypeOK, AtWork, LineIsTheQueue

\* Waiting for the advisory lock changes only where the claim is.
LEMMA LockQueueType ==
  ASSUME TypeInv, NEW w \in Workers, LockQueue(w)
  PROVE  TypeInv'
<1> DEFINE c == [wk[w] EXCEPT !.pc = "locked"]
<1>1. wk' = [wk EXCEPT ![w] = c]
  BY DEF LockQueue
<1>2. c \in Claims /\ Carries(c)
  BY DEF LockQueue, TypeInv, TypeOK, AtWork, Claims, Carries
<1> HIDE DEF c
<1>3. wk' \in [Workers -> Claims] /\ \A v \in Workers : Carries(wk'[v])
  BY <1>1, <1>2, ClaimUpdate
<1> QED BY <1>3 DEF LockQueue, TypeInv, TypeOK, AtWork, LineIsTheQueue

\* A claim that gives up lets its rows go.
LEMMA AbortType ==
  ASSUME TypeInv, NEW w \in Workers, Abort(w)
  PROVE  TypeInv'
  BY ClearType DEF Abort, TypeInv, TypeOK, AtWork, LineIsTheQueue

\* A job that has just come has not waited.
LEMMA NoWait == 0 \in 0..MaxBoost
  BY ParameterAssumption

\* Take: the row, the line and the history change together.
LEMMA TakeType ==
  ASSUME TypeInv, NEW w \in Workers, Take(w)
  PROVE  TypeInv'
<1> DEFINE j == wk[w].pick
           q == QueueOf[j]
           row == Claimed(job[j], w)
<1>1. /\ wk[w] \in Claims /\ j \in Jobs /\ wk[w].under \in Admissions
      /\ q \in Queues /\ wk[w].under.queue.rate \in (Nat \ {0}) \cup {None}
  <2>1. wk[w] \in Claims /\ wk[w].pick \in wk[w].rows /\ wk[w].under \in Admissions
    BY DEF Take, TypeInv, TypeOK, AtWork, Carries
  <2>2. j \in Jobs
    BY <2>1 DEF Claims
  <2>3. wk[w].under.queue \in Limits
    BY <2>1 DEF Admissions
  <2> QED BY <2>1, <2>2, <2>3, ParameterAssumption DEF Limits
<1>2. job[j] \in JobRows /\ job[j].state = "QUEUED"
  BY <1>1 DEF Take, TypeInv, TypeOK
<1>3. row.attempts \in Nat /\ row \in JobRows /\ Owned(row)
  <2> DEFINE n == job[j].attempts + 1
  <2>1. n \in Nat
    BY <1>2 DEF JobRows
  <2>2. row = [job[j] EXCEPT !.state = "active", !.owner = w, !.attempts = n,
                             !.waited = 0, !.under = wk[w].under]
    BY DEF Claimed
  <2> HIDE DEF n
  <2> QED BY <1>1, <1>2, <2>1, <2>2, NoWait DEF JobRows, Owned
<1>4. job' = [job EXCEPT ![j] = row]
  BY DEF Take
<1>5. line' = LineWithout(j)
  BY DEF Take
<1>6. executions' = executions \cup
        {[job |-> j, attempt |-> job'[j].attempts, worker |-> w]}
  BY DEF Take
<1>7. recent' = IF MayBeLimited(q)
                THEN [recent EXCEPT ![q] = Append(@, wk[w].under.queue.rate)] ELSE recent
  BY DEF Take
<1>8. wk' = [wk EXCEPT ![w] = Idle] /\ UNCHANGED <<queue, project, edits>>
  BY DEF Take
<1>9. row.state = "active"
  BY <1>2 DEF Claimed, JobRows
<1> HIDE DEF row, q, j
<1>10. job' \in [Jobs -> JobRows] /\ \A i \in Jobs : Owned(job'[i])
  BY <1>1, <1>3, <1>4, RowUpdate
<1>11. executions' \subseteq [job: Jobs, attempt: Nat, worker: Workers]
  BY <1>1, <1>3, <1>4, <1>6 DEF TypeInv, TypeOK
<1>12. recent' \in [Queues -> Seq((Nat \ {0}) \cup {None})]
  <2>1. recent[q] \in Seq((Nat \ {0}) \cup {None})
    BY <1>1 DEF TypeInv, TypeOK
  <2>2. Append(recent[q], wk[w].under.queue.rate) \in Seq((Nat \ {0}) \cup {None})
    BY <1>1, <2>1, AppendProperties
  <2> QED BY <1>7, <2>2 DEF TypeInv, TypeOK
<1>13. wk' \in [Workers -> Claims] /\ \A v \in Workers : Carries(wk'[v])
  BY <1>8, ClearType
<1>14. line' \in Seq(Jobs) /\ LineIsTheQueue'
  <2>1. job'[j].state = "active" /\ \A i \in Jobs \ {j} : job'[i].state = job[i].state
    BY <1>1, <1>4, <1>9 DEF TypeInv, TypeOK
  <2> QED BY <1>1, <1>2, <1>5, <2>1, WithoutOne
<1> QED BY <1>8, <1>10, <1>11, <1>12, <1>13, <1>14 DEF TypeInv, TypeOK, AtWork

\* An active job that ends belongs to nobody, and is not in the line.
LEMMA LeaveType ==
  ASSUME TypeInv, NEW j \in Jobs, Leave(j)
  PROVE  TypeInv'
<1> DEFINE r == [job[j] EXCEPT !.state = "away", !.under = None]
<1>1. job' = [job EXCEPT ![j] = r]
  BY DEF Leave
<1>2. r \in JobRows /\ Owned(r) /\ r.state = "away" /\ job[j].state = "active"
  BY DEF Leave, TypeInv, TypeOK, JobRows, Owned
<1> HIDE DEF r
<1>3. job' \in [Jobs -> JobRows] /\ \A i \in Jobs : Owned(job'[i])
  BY <1>1, <1>2, RowUpdate
<1>4. LineIsTheQueue'
  BY <1>1, <1>2 DEF Leave, TypeInv, TypeOK, LineIsTheQueue
<1> QED BY <1>3, <1>4 DEF Leave, TypeInv, TypeOK, AtWork

\* A queued job that is cancelled leaves the line.
LEMMA CancelType ==
  ASSUME TypeInv, NEW j \in Jobs, Cancel(j)
  PROVE  TypeInv'
<1> DEFINE r == [job[j] EXCEPT !.state = "away", !.waited = 0]
<1>1. job' = [job EXCEPT ![j] = r] /\ line' = LineWithout(j) /\ job[j].state = "QUEUED"
  BY DEF Cancel
<1>2. r \in JobRows /\ Owned(r) /\ r.state = "away"
  BY NoWait DEF TypeInv, TypeOK, JobRows, Owned
<1> HIDE DEF r
<1>3. job' \in [Jobs -> JobRows] /\ \A i \in Jobs : Owned(job'[i])
  BY <1>1, <1>2, RowUpdate
<1>4. line' \in Seq(Jobs) /\ LineIsTheQueue'
  <2>1. job'[j].state = "away" /\ \A i \in Jobs \ {j} : job'[i].state = job[i].state
    BY <1>1, <1>2 DEF TypeInv, TypeOK
  <2> QED BY <1>1, <2>1, WithoutOne
<1> QED BY <1>3, <1>4 DEF Cancel, TypeInv, TypeOK, AtWork

\* A retry goes to the end of the line.
LEMMA RequeueType ==
  ASSUME TypeInv, NEW j \in Jobs, Requeue(j)
  PROVE  TypeInv'
<1> DEFINE r == [job[j] EXCEPT !.state = "QUEUED"]
<1>1. job' = [job EXCEPT ![j] = r] /\ line' = Append(line, j) /\ job[j].state = "away"
  BY DEF Requeue
<1>2. r \in JobRows /\ Owned(r) /\ r.state = "QUEUED"
  BY DEF TypeInv, TypeOK, JobRows, Owned
<1> HIDE DEF r
<1>3. job' \in [Jobs -> JobRows] /\ \A i \in Jobs : Owned(job'[i])
  BY <1>1, <1>2, RowUpdate
<1>4. line' \in Seq(Jobs) /\ LineIsTheQueue'
  <2>1. job'[j].state = "QUEUED" /\ \A i \in Jobs \ {j} : job'[i].state = job[i].state
    BY <1>1, <1>2 DEF TypeInv, TypeOK
  <2> QED BY <1>1, <2>1, OneMore
<1> QED BY <1>3, <1>4 DEF Requeue, TypeInv, TypeOK, AtWork

\* A new job goes to the end of the line.
LEMMA ArriveType ==
  ASSUME TypeInv, NEW j \in Jobs, Arrive(j)
  PROVE  TypeInv'
<1> DEFINE r == [state |-> "QUEUED", owner |-> None, attempts |-> 0, waited |-> 0,
                 under |-> None]
<1>1. job' = [job EXCEPT ![j] = r] /\ line' = Append(line, j) /\ job[j].state = "away"
  BY DEF Arrive
<1>2. r \in JobRows /\ Owned(r) /\ r.state = "QUEUED"
  BY ParameterAssumption DEF JobRows, Owned
<1> HIDE DEF r
<1>3. job' \in [Jobs -> JobRows] /\ \A i \in Jobs : Owned(job'[i])
  BY <1>1, <1>2, RowUpdate
<1>4. line' \in Seq(Jobs) /\ LineIsTheQueue'
  <2>1. job'[j].state = "QUEUED" /\ \A i \in Jobs \ {j} : job'[i].state = job[i].state
    BY <1>1, <1>2 DEF TypeInv, TypeOK
  <2> QED BY <1>1, <2>1, OneMore
<1>5. executions' \subseteq executions
  BY DEF Arrive
<1> QED BY <1>3, <1>4, <1>5 DEF Arrive, TypeInv, TypeOK, AtWork

\* Waiting changes the boost alone, and within its limit.
LEMMA AgeType ==
  ASSUME TypeInv, Age
  PROVE  TypeInv'
<1>1. ASSUME NEW j \in Jobs
      PROVE  /\ job'[j] \in JobRows /\ Owned(job'[j])
             /\ job'[j].state = job[j].state
  <2>1. job[j] \in JobRows /\ Owned(job[j])
    BY DEF TypeInv, TypeOK, AtWork
  <2>2. job[j].waited < MaxBoost => job[j].waited + 1 \in 0..MaxBoost
    BY <2>1, ParameterAssumption DEF JobRows
  <2>3. job'[j] = IF job[j].state = "QUEUED" /\ job[j].waited < MaxBoost
                  THEN [job[j] EXCEPT !.waited = job[j].waited + 1] ELSE job[j]
    BY DEF Age
  <2> DEFINE n == job[j].waited + 1
  <2> HIDE DEF n
  <2>4. job[j].waited < MaxBoost => [job[j] EXCEPT !.waited = n] \in JobRows
    BY <2>1, <2>2 DEF n, JobRows
  <2> QED BY <2>1, <2>3, <2>4 DEF n, JobRows, Owned
<1>2. job' \in [Jobs -> JobRows]
  BY <1>1 DEF Age
<1> QED BY <1>1, <1>2 DEF Age, TypeInv, TypeOK, AtWork, LineIsTheQueue

\* A claim older than a minute leaves the list of recent ones.
LEMMA ExpireType ==
  ASSUME TypeInv, NEW q \in Queues, Expire(q)
  PROVE  TypeInv'
<1>1. Tail(recent[q]) \in Seq((Nat \ {0}) \cup {None})
  BY HeadTailProperties DEF Expire, TypeInv, TypeOK
<1>2. recent' \in [Queues -> Seq((Nat \ {0}) \cup {None})]
  BY <1>1 DEF Expire, TypeInv, TypeOK
<1> QED BY <1>2 DEF Expire, TypeInv, TypeOK, AtWork, LineIsTheQueue

\* The requests about queues and projects.
LEMMA EditType ==
  ASSUME TypeInv,
         \/ \E q \in Queues : \/ CreateQueue(q) \/ UpdateQueue(q)
                              \/ PauseOrResume(q) \/ DeleteQueue(q)
         \/ \E p \in Projects : UpdateQuotas(p)
  PROVE  TypeInv' /\ UNCHANGED <<job, line, executions, recent, wk>>
<1>1. edits \in 0..MaxEdits /\ MaxEdits \in Nat
  BY ParameterAssumption DEF TypeInv, TypeOK
<1>2. CASE \E q \in Queues : CreateQueue(q)
  <2>1. PICK q \in Queues : CreateQueue(q)
    BY <1>2
  <2>2. PICK l \in QueueSettings[q] :
          queue' = [queue EXCEPT ![q] = [status |-> "open", limits |-> l]]
    BY <2>1 DEF CreateQueue
  <2>3. l \in Limits /\ l # None
    BY ParameterAssumption
  <2> QED BY <2>1, <2>2, <2>3 DEF CreateQueue, TypeInv, TypeOK, AtWork, LineIsTheQueue, QueueRows
<1>3. CASE \E q \in Queues : UpdateQueue(q)
  <2>1. PICK q \in Queues : UpdateQueue(q)
    BY <1>3
  <2>2. PICK l \in QueueSettings[q] : queue' = [queue EXCEPT ![q].limits = l]
    BY <2>1 DEF UpdateQueue
  <2>3. l \in Limits /\ l # None
    BY ParameterAssumption
  <2>4. edits' \in 0..MaxEdits
    BY <1>1, <2>1 DEF UpdateQueue, Edit
  <2> QED BY <2>1, <2>2, <2>3, <2>4
          DEF UpdateQueue, Exists, TypeInv, TypeOK, AtWork, LineIsTheQueue, QueueRows
<1>4. CASE \E q \in Queues : PauseOrResume(q) \/ DeleteQueue(q)
  <2>1. PICK q \in Queues : PauseOrResume(q) \/ DeleteQueue(q)
    BY <1>4
  <2>2. PICK s \in {"open", "paused", "deleted"} : queue' = [queue EXCEPT ![q].status = s]
    BY <2>1 DEF PauseOrResume, DeleteQueue
  <2>3. edits' \in 0..MaxEdits /\ Exists(q)
    BY <1>1, <2>1 DEF PauseOrResume, DeleteQueue, Edit
  <2>4. queue' \in [Queues -> QueueRows]
    BY <2>2 DEF TypeInv, TypeOK, QueueRows
  <2>5. \A r \in Queues : queue'[r].limits = None <=> queue'[r].status = "absent"
    BY <2>2, <2>3 DEF TypeInv, TypeOK, QueueRows, Exists
  <2> QED BY <2>1, <2>3, <2>4, <2>5
          DEF PauseOrResume, DeleteQueue, TypeInv, TypeOK, AtWork, LineIsTheQueue
<1>5. CASE \E p \in Projects : UpdateQuotas(p)
  <2>1. PICK p \in Projects : UpdateQuotas(p)
    BY <1>5
  <2>2. PICK l \in ProjectLimits[p] : project' = [project EXCEPT ![p] = l]
    BY <2>1 DEF UpdateQuotas
  <2>3. l \in ProjectRows
    BY ParameterAssumption DEF ProjectRows
  <2>4. edits' \in 0..MaxEdits
    BY <1>1, <2>1 DEF UpdateQuotas, Edit
  <2> QED BY <2>1, <2>2, <2>3, <2>4 DEF UpdateQuotas, TypeInv, TypeOK, AtWork, LineIsTheQueue
<1> QED BY <1>2, <1>3, <1>4, <1>5

\* At the start there are no jobs, and every worker is idle.
LEMMA InitType == Init => TypeInv
<1> SUFFICES ASSUME Init PROVE TypeInv
  OBVIOUS
<1>1. DOMAIN line = {} /\ line \in Seq(Jobs)
  BY DEF Init
<1>2. job \in [Jobs -> JobRows] /\ \A j \in Jobs : job[j].state = "away"
  BY NoWait DEF Init, JobRows
<1>3. recent \in [Queues -> Seq((Nat \ {0}) \cup {None})]
  BY DEF Init
<1>4. /\ queue \in [Queues -> QueueRows]
      /\ \A q \in Queues : queue[q].limits = None /\ queue[q].status = "absent"
  BY DEF Init, QueueRows
<1>5. project \in [Projects -> ProjectRows] /\ edits \in 0..MaxEdits
  BY ParameterAssumption DEF Init, ProjectRows
<1>6. wk \in [Workers -> Claims] /\ \A w \in Workers : Carries(wk[w])
  BY IdleType DEF Init
<1>7. executions = {}
  BY DEF Init
<1> QED BY <1>1, <1>2, <1>3, <1>4, <1>5, <1>6, <1>7
        DEF TypeInv, TypeOK, AtWork, Owned, LineIsTheQueue

\* Every step keeps the types.
LEMMA NextType == TypeInv /\ [Next]_vars => TypeInv'
<1> SUFFICES ASSUME TypeInv, [Next]_vars PROVE TypeInv'
  OBVIOUS
<1>1. ASSUME NEW w \in Workers, Scan(w) \/ Decide(w) \/ LockQueue(w) \/ Take(w) \/ Abort(w)
      PROVE  TypeInv'
  BY <1>1, ScanType, DecideType, LockQueueType, TakeType, AbortType
<1>2. ASSUME NEW j \in Jobs, Leave(j) \/ Cancel(j) \/ Requeue(j) \/ Arrive(j)
      PROVE  TypeInv'
  BY <1>2, LeaveType, CancelType, RequeueType, ArriveType
<1>3. CASE Age
  BY <1>3, AgeType
<1>4. ASSUME NEW q \in Queues, \/ Expire(q) \/ CreateQueue(q) \/ UpdateQueue(q)
                               \/ PauseOrResume(q) \/ DeleteQueue(q)
      PROVE  TypeInv'
  BY <1>4, ExpireType, EditType
<1>5. ASSUME NEW p \in Projects, UpdateQuotas(p)
      PROVE  TypeInv'
  BY <1>5, EditType
<1>6. CASE UNCHANGED vars
  BY <1>6 DEF vars, TypeInv, TypeOK, AtWork, LineIsTheQueue
<1> QED BY <1>1, <1>2, <1>3, <1>4, <1>5, <1>6 DEF Next

\* Hence they hold in every reachable state.
LEMMA TypeInvariant == Spec => []TypeInv
  BY InitType, NextType, PTL DEF Spec

\* Every reachable state of the claiming transactions and tables is well
\* typed: the states, owners and limits of models.py and claiming.py.
THEOREM TypeCorrect == Spec => []TypeOK
<1>1. TypeInv => TypeOK
  BY DEF TypeInv
<1> QED BY <1>1, TypeInvariant, PTL
-----------------------------------------------------------------------------
(* Row locks                                                                 *)

\* The rows of one transaction and of one job: what a step may do to them
\* without breaking a reservation.
LEMMA ReservedStep ==
  ASSUME TypeInv, CandidatesAreReserved, [Next]_vars
  PROVE  CandidatesAreReserved'
<1>0. /\ wk \in [Workers -> Claims] /\ job \in [Jobs -> JobRows]
      /\ \A w \in Workers : wk[w].rows \subseteq Jobs
  BY DEF TypeInv, TypeOK, Claims
<1>1. ASSUME NEW w \in Workers, Scan(w)
      PROVE  CandidatesAreReserved'
  <2>1. /\ wk' \in [Workers -> Claims] /\ wk'[w].rows = ScanWindow /\ job' = job
        /\ \A v \in Workers \ {w} : wk'[v] = wk[v]
    BY <1>0, <1>1, ScanType DEF Scan, Idle, TypeInv, TypeOK
  <2>2. \A j \in ScanWindow : /\ job[j].state = "QUEUED"
                              /\ \A v \in Workers : j \notin wk[v].rows
    BY DEF ScanWindow, Candidates, Locked
  <2> QED BY <1>0, <2>1, <2>2 DEF CandidatesAreReserved
<1>2. ASSUME NEW w \in Workers, Decide(w) \/ LockQueue(w) \/ Abort(w)
      PROVE  CandidatesAreReserved'
  <2>1. job' = job /\ \A v \in Workers : wk'[v].rows \subseteq wk[v].rows
    <3>1. \A v \in Workers \ {w} : wk'[v] = wk[v]
      BY <1>0, <1>2 DEF Decide, LockQueue, Abort
    <3>2. wk'[w].rows = wk[w].rows \/ wk'[w] = Idle
      <4>1. wk[w] \in Claims
        BY <1>0
      <4>2. CASE Decide(w)
        <5>1. CASE wk' = [wk EXCEPT ![w] = Idle]
          BY <1>0, <5>1
        <5>2. CASE wk' # [wk EXCEPT ![w] = Idle]
          <6>1. PICK j \in wk[w].rows :
                  wk' = [wk EXCEPT ![w].pc = "chosen", ![w].seen = NothingSeen,
                                   ![w].pick = j, ![w].under = Admission(w, j)]
            BY <4>2, <5>2 DEF Decide
          <6> QED BY <1>0, <4>1, <6>1 DEF Claims
        <5> QED BY <5>1, <5>2
      <4>3. CASE LockQueue(w)
        BY <1>0, <4>1, <4>3 DEF LockQueue, Claims
      <4>4. CASE Abort(w)
        BY <1>0, <4>4 DEF Abort
      <4> QED BY <1>2, <4>2, <4>3, <4>4
    <3>3. job' = job
      BY <1>2 DEF Decide, LockQueue, Abort
    <3> QED BY <3>1, <3>2, <3>3 DEF Idle
  <2> QED BY <2>1 DEF CandidatesAreReserved
<1>3. ASSUME NEW w \in Workers, Take(w)
      PROVE  CandidatesAreReserved'
  <2>1. wk[w].pick \in wk[w].rows /\ wk[w].pick \in Jobs
    BY <1>0, <1>3 DEF Take, TypeInv, AtWork, Carries
  <2>2. /\ wk'[w].rows = {}
        /\ \A v \in Workers \ {w} : wk'[v] = wk[v] /\ wk[w].pick \notin wk[v].rows
    BY <1>0, <1>3, <2>1 DEF Take, Idle, CandidatesAreReserved
  <2>3. \A j \in Jobs \ {wk[w].pick} : job'[j] = job[j]
    BY <1>0, <1>3 DEF Take
  <2> QED BY <1>0, <2>1, <2>2, <2>3 DEF CandidatesAreReserved
<1>4. ASSUME NEW j \in Jobs, Leave(j) \/ Cancel(j) \/ Requeue(j) \/ Arrive(j)
      PROVE  CandidatesAreReserved'
  <2>1. wk' = wk /\ \A i \in Jobs \ {j} : job'[i] = job[i]
    BY <1>0, <1>4 DEF Leave, Cancel, Requeue, Arrive
  <2>2. \A w \in Workers : j \notin wk[w].rows
    BY <1>4 DEF Leave, Cancel, Requeue, Arrive, Locked, CandidatesAreReserved
  <2> QED BY <1>0, <2>1, <2>2 DEF CandidatesAreReserved
<1>5. CASE Age
  <2>1. wk' = wk /\ \A j \in Jobs : job'[j].state = job[j].state
    BY <1>0, <1>5 DEF Age, JobRows
  <2> QED BY <1>0, <2>1 DEF CandidatesAreReserved
<1>6. ASSUME UNCHANGED <<job, wk>>
      PROVE  CandidatesAreReserved'
  BY <1>6 DEF CandidatesAreReserved
<1>7. ASSUME NEW q \in Queues, \/ Expire(q) \/ CreateQueue(q) \/ UpdateQueue(q)
                               \/ PauseOrResume(q) \/ DeleteQueue(q)
      PROVE  UNCHANGED <<job, wk>>
  BY <1>7, EditType DEF Expire
<1>8. ASSUME NEW p \in Projects, UpdateQuotas(p)
      PROVE  UNCHANGED <<job, wk>>
  BY <1>8, EditType
<1> QED BY <1>1, <1>2, <1>3, <1>4, <1>5, <1>6, <1>7, <1>8 DEF Next, vars

\* Two claims in flight never hold the same candidate, and a candidate stays
\* queued until its claim ends, for any windows and any number of workers:
\* FOR UPDATE SKIP LOCKED of claiming.py:104-120.
THEOREM Reserved == Spec => []CandidatesAreReserved
<1>1. Init => CandidatesAreReserved
  BY DEF Init, Idle, CandidatesAreReserved
<1>2. TypeInv /\ CandidatesAreReserved /\ [Next]_vars => CandidatesAreReserved'
  BY ReservedStep
<1> QED BY <1>1, <1>2, TypeInvariant, PTL DEF Spec
-----------------------------------------------------------------------------
(* The history of attempts                                                   *)

\* No attempt beyond those counted has been recorded.
HistoryIsCounted == \A e \in executions : e.attempt <= job[e.job].attempts

ExclusiveInv == HistoryIsCounted /\ ClaimsAreExclusive

\* A step that records nothing and charges nothing.
LEMMA NothingRecorded ==
  ASSUME TypeInv, ExclusiveInv, executions' = executions,
         \A j \in Jobs : /\ job'[j].attempts = job[j].attempts
                         /\ job'[j].state = "active" =>
                              job[j].state = "active" /\ job'[j].owner = job[j].owner
  PROVE  ExclusiveInv'
<1>1. \A e \in executions : e.job \in Jobs
  BY DEF TypeInv, TypeOK
<1> QED BY <1>1 DEF ExclusiveInv, HistoryIsCounted, ClaimsAreExclusive

\* Only Take makes a job active, and numbers the attempt.
LEMMA ExclusiveStep ==
  ASSUME TypeInv, ExclusiveInv, [Next]_vars
  PROVE  ExclusiveInv'
<1>0. /\ job \in [Jobs -> JobRows] /\ executions \subseteq [job: Jobs, attempt: Nat, worker: Workers]
  BY DEF TypeInv, TypeOK
<1>1. ASSUME UNCHANGED <<job, executions>>
      PROVE  ExclusiveInv'
  BY <1>1, NothingRecorded
<1>2. ASSUME NEW w \in Workers, Scan(w) \/ Decide(w) \/ LockQueue(w) \/ Abort(w)
      PROVE  UNCHANGED <<job, executions>>
  BY <1>2 DEF Scan, Decide, LockQueue, Abort
<1>3. ASSUME NEW w \in Workers, Take(w)
      PROVE  ExclusiveInv'
  <2> DEFINE j == wk[w].pick
             n == job[j].attempts + 1
             e == [job |-> j, attempt |-> n, worker |-> w]
  <2>1. j \in Jobs /\ job[j].attempts \in Nat
    <3>1. wk[w] \in Claims /\ wk[w].pick \in wk[w].rows
      BY <1>3 DEF Take, TypeInv, TypeOK, AtWork, Carries
    <3>2. j \in Jobs
      BY <3>1 DEF Claims
    <3> QED BY <1>0, <3>2 DEF JobRows
  <2>2. /\ job'[j].attempts = n /\ job'[j].state = "active" /\ job'[j].owner = w
        /\ \A i \in Jobs \ {j} : job'[i] = job[i]
    <3>1. job[j] \in JobRows
      BY <1>0, <2>1
    <3>2. /\ Claimed(job[j], w).attempts = n /\ Claimed(job[j], w).state = "active"
          /\ Claimed(job[j], w).owner = w
      BY <3>1 DEF Claimed, JobRows
    <3> QED BY <1>0, <1>3, <2>1, <3>2 DEF Take
  <2>3. executions' = executions \cup {e}
    BY <1>3, <2>2 DEF Take
  <2>4. \A f \in executions : f.job = j => f.attempt < n
    BY <1>0, <2>1 DEF ExclusiveInv, HistoryIsCounted
  <2>5. e.job = j /\ e.attempt = n
    OBVIOUS
  <2> HIDE DEF e, n, j
  <2>6. \A f, g \in executions' : f.job = g.job /\ f.attempt = g.attempt => f = g
    BY <1>0, <2>1, <2>3, <2>4, <2>5 DEF ExclusiveInv, ClaimsAreExclusive
  <2>7. \A i \in Jobs : job'[i].state = "active" =>
          [job |-> i, attempt |-> job'[i].attempts, worker |-> job'[i].owner] \in executions'
    BY <2>2, <2>3 DEF ExclusiveInv, ClaimsAreExclusive, e
  <2>8. \A f \in executions' : f.attempt <= job'[f.job].attempts
    BY <1>0, <2>1, <2>2, <2>3, <2>5 DEF ExclusiveInv, HistoryIsCounted, n
  <2> QED BY <2>6, <2>7, <2>8 DEF ExclusiveInv, HistoryIsCounted, ClaimsAreExclusive
<1>4. ASSUME NEW j \in Jobs, Leave(j) \/ Cancel(j) \/ Requeue(j)
      PROVE  ExclusiveInv'
  <2>1. executions' = executions
    BY <1>4 DEF Leave, Cancel, Requeue
  <2>2. \A i \in Jobs : /\ job'[i].attempts = job[i].attempts
                        /\ job'[i].state = "active" =>
                             job[i].state = "active" /\ job'[i].owner = job[i].owner
    BY <1>0, <1>4 DEF Leave, Cancel, Requeue, JobRows
  <2> QED BY <2>1, <2>2, NothingRecorded
<1>5. ASSUME NEW j \in Jobs, Arrive(j)
      PROVE  ExclusiveInv'
  <2>1. /\ executions' = {e \in executions : e.job # j}
        /\ job'[j].state = "QUEUED" /\ \A i \in Jobs \ {j} : job'[i] = job[i]
    BY <1>0, <1>5 DEF Arrive
  <2> QED BY <1>0, <2>1 DEF ExclusiveInv, HistoryIsCounted, ClaimsAreExclusive
<1>6. CASE Age
  <2>1. executions' = executions
    BY <1>6 DEF Age
  <2>2. \A i \in Jobs : /\ job'[i].attempts = job[i].attempts
                        /\ job'[i].state = job[i].state /\ job'[i].owner = job[i].owner
    BY <1>0, <1>6 DEF Age, JobRows
  <2> QED BY <2>1, <2>2, NothingRecorded
<1>7. ASSUME NEW q \in Queues, \/ Expire(q) \/ CreateQueue(q) \/ UpdateQueue(q)
                               \/ PauseOrResume(q) \/ DeleteQueue(q)
      PROVE  UNCHANGED <<job, executions>>
  BY <1>7, EditType DEF Expire
<1>8. ASSUME NEW p \in Projects, UpdateQuotas(p)
      PROVE  UNCHANGED <<job, executions>>
  BY <1>8, EditType
<1> QED BY <1>1, <1>2, <1>3, <1>4, <1>5, <1>6, <1>7, <1>8 DEF Next, vars

\* No two workers ever run the same attempt, and the row of a running job names
\* the worker whose attempt it is (test_claiming.py:44-46, for any workers).
THEOREM Exclusive == Spec => []ClaimsAreExclusive
<1>1. Init => ExclusiveInv
  BY DEF Init, ExclusiveInv, HistoryIsCounted, ClaimsAreExclusive
<1>2. TypeInv /\ ExclusiveInv /\ [Next]_vars => ExclusiveInv'
  BY ExclusiveStep
<1>3. ExclusiveInv => ClaimsAreExclusive
  BY DEF ExclusiveInv
<1> QED BY <1>1, <1>2, <1>3, TypeInvariant, PTL DEF Spec
-----------------------------------------------------------------------------
(* The limits.  A limit of f at most m has admitted few: as many active jobs *)
(* and claims in flight as m allows and the workers may add between a check  *)
(* and its commit.  Said for every m this is inductive, whoever of the       *)
(* admitted leaves first.                                                    *)

Choosing(w) == wk[w].pc \in {"chosen", "locked"}

\* No job becomes active and no claim is chosen.
LetsGo ==
  /\ \A j \in Jobs : job'[j].state = "active" =>
       /\ job[j].state = "active"
       /\ job'[j].owner = job[j].owner /\ job'[j].under = job[j].under
  /\ \A w \in Workers : Choosing(w)' =>
       Choosing(w) /\ wk'[w].pick = wk[w].pick /\ wk'[w].under = wk[w].under

\* Worker w chooses a candidate that passed its checks.
Chooses(w, j) ==
  /\ wk[w].pc = "scanned" /\ HasRoom(w) /\ Fits(w, j)
  /\ j \in Jobs /\ Admission(w, j) \in Admissions
  /\ job' = job /\ recent' = recent
  /\ wk'[w].pc = "chosen" /\ wk'[w].pick = j /\ wk'[w].under = Admission(w, j)
  /\ \A v \in Workers \ {w} : wk'[v] = wk[v]

\* Worker w takes the candidate it has chosen.
Takes(w, j) ==
  /\ Choosing(w) /\ wk[w].pick = j
  /\ j \in Jobs /\ wk[w].under \in Admissions /\ job[j].state = "QUEUED"
  /\ job'[j].state = "active" /\ job'[j].owner = w /\ job'[j].under = wk[w].under
  /\ \A i \in Jobs \ {j} : job'[i] = job[i]
  /\ ~Choosing(w)' /\ \A v \in Workers \ {w} : wk'[v] = wk[v]
  /\ recent' \in {recent, [recent EXCEPT ![QueueOf[j]] =
                             Append(@, wk[w].under.queue.rate)]}

\* Every step is one of these; recent claims are forgotten in a step of their own.
LEMMA LimitSteps ==
  ASSUME TypeInv, [Next]_vars
  PROVE  \/ LetsGo /\ (recent' = recent \/ \E q \in Queues : Expire(q))
         \/ \E w \in Workers, j \in Jobs : Chooses(w, j) \/ Takes(w, j)
<1>0. wk \in [Workers -> Claims] /\ job \in [Jobs -> JobRows]
  BY DEF TypeInv, TypeOK
<1>1. ASSUME UNCHANGED <<job, wk>> PROVE LetsGo
  BY <1>1 DEF LetsGo, Choosing
<1>2. ASSUME NEW w \in Workers, Scan(w) \/ LockQueue(w) \/ Abort(w)
      PROVE  LetsGo /\ recent' = recent
  <2>1. \A v \in Workers \ {w} : wk'[v] = wk[v]
    BY <1>0, <1>2 DEF Scan, LockQueue, Abort
  <2>2. /\ job' = job /\ recent' = recent
        /\ Choosing(w)' => /\ Choosing(w) /\ wk'[w].pick = wk[w].pick
                           /\ wk'[w].under = wk[w].under
    <3>1. CASE Scan(w)
      BY <1>0, <3>1 DEF Scan, Idle, Choosing
    <3>2. CASE LockQueue(w)
      BY <1>0, <3>2 DEF LockQueue, Claims, Choosing
    <3>3. CASE Abort(w)
      BY <1>0, <3>3 DEF Abort, Idle, Choosing
    <3> QED BY <1>2, <3>1, <3>2, <3>3
  <2> QED BY <2>1, <2>2 DEF LetsGo, Choosing
<1>3. ASSUME NEW w \in Workers, Decide(w)
      PROVE  \/ LetsGo /\ recent' = recent
             \/ \E j \in Jobs : Chooses(w, j)
  <2>1. CASE wk' = [wk EXCEPT ![w] = Idle]
    BY <1>0, <1>3, <2>1 DEF Decide, Idle, LetsGo, Choosing
  <2>2. CASE wk' # [wk EXCEPT ![w] = Idle]
    <3>1. PICK j \in wk[w].rows :
            /\ Fits(w, j) /\ HasRoom(w)
            /\ wk' = [wk EXCEPT ![w].pc = "chosen", ![w].seen = NothingSeen,
                                ![w].pick = j, ![w].under = Admission(w, j)]
      BY <1>3, <2>2 DEF Decide
    <3>2. j \in Jobs /\ Admission(w, j) \in Admissions
      BY <1>3, AdmissionType DEF Decide
    <3>3. /\ wk'[w].pc = "chosen" /\ wk'[w].pick = j /\ wk'[w].under = Admission(w, j)
          /\ \A v \in Workers \ {w} : wk'[v] = wk[v]
      BY <1>0, <3>1 DEF Claims
    <3> QED BY <1>3, <3>1, <3>2, <3>3 DEF Decide, Chooses
  <2> QED BY <2>1, <2>2
<1>4. ASSUME NEW w \in Workers, Take(w)
      PROVE  \E j \in Jobs : Takes(w, j)
  <2> DEFINE j == wk[w].pick
  <2>1. wk[w].pick \in wk[w].rows /\ j \in Jobs /\ wk[w].under \in Admissions
    BY <1>0, <1>4 DEF Take, TypeInv, AtWork, Carries, Claims
  <2>2. Choosing(w) /\ job[j].state = "QUEUED" /\ job[j] \in JobRows
    BY <1>0, <1>4, <2>1 DEF Take, Choosing
  <2>3. /\ Claimed(job[j], w).state = "active" /\ Claimed(job[j], w).owner = w
        /\ Claimed(job[j], w).under = wk[w].under
    BY <2>2 DEF Claimed, JobRows
  <2>4. /\ job'[j] = Claimed(job[j], w)
        /\ \A i \in Jobs \ {j} : job'[i] = job[i]
    BY <1>0, <1>4, <2>1 DEF Take
  <2>5. ~Choosing(w)' /\ \A v \in Workers \ {w} : wk'[v] = wk[v]
    BY <1>0, <1>4 DEF Take, Idle, Choosing
  <2>6. recent' \in {recent, [recent EXCEPT ![QueueOf[j]] =
                                Append(@, wk[w].under.queue.rate)]}
    BY <1>4 DEF Take
  <2>7. Takes(w, j)
    BY <2>1, <2>2, <2>3, <2>4, <2>5, <2>6 DEF Takes
  <2> QED BY <2>1, <2>7
<1>5. ASSUME NEW j \in Jobs, Leave(j) \/ Cancel(j) \/ Requeue(j) \/ Arrive(j)
      PROVE  LetsGo /\ recent' = recent
  BY <1>0, <1>5 DEF Leave, Cancel, Requeue, Arrive, LetsGo, Choosing, JobRows
<1>6. CASE Age
  BY <1>0, <1>6 DEF Age, LetsGo, Choosing, JobRows
<1>7. ASSUME NEW q \in Queues, Expire(q)
      PROVE  LetsGo
  BY <1>1, <1>7 DEF Expire
<1>8. ASSUME \/ \E q \in Queues : \/ CreateQueue(q) \/ UpdateQueue(q)
                                  \/ PauseOrResume(q) \/ DeleteQueue(q)
             \/ \E p \in Projects : UpdateQuotas(p)
      PROVE  LetsGo /\ recent' = recent
  BY <1>1, <1>8, EditType
<1>9. CASE UNCHANGED vars
  BY <1>1, <1>9 DEF vars
<1>10. CASE Age \/ UNCHANGED vars
  BY <1>6, <1>9, <1>10 DEF Age, vars
<1> QED BY <1>2, <1>3, <1>4, <1>5, <1>7, <1>8, <1>10 DEF Next

\* The part of a finite set is finite and no larger.
LEMMA Part ==
  ASSUME NEW T, IsFiniteSet(T), NEW S \in SUBSET T
  PROVE  /\ IsFiniteSet(S) /\ Cardinality(S) \in Nat
         /\ Cardinality(T) \in Nat /\ Cardinality(S) <= Cardinality(T)
  BY FS_Subset, FS_CardinalityType

ActiveUpTo(S, f, m) == {j \in Active(S) : f[job[j].under] <= m}
InFlightUpTo(S, f, m) == {w \in InFlight(S) : f[wk[w].under] <= m}

SharedLimit(S, f) ==
  \A m \in Nat \ {0} :
    Cardinality(ActiveUpTo(S, f, m)) + Cardinality(InFlightUpTo(S, f, m))
      < m + Cardinality(Workers)

\* All these sets are finite.
LEMMA FiniteCounts ==
  ASSUME NEW S \in SUBSET Jobs
  PROVE  /\ IsFiniteSet(Active(S)) /\ Cardinality(Active(S)) \in Nat
         /\ IsFiniteSet(InFlight(S)) /\ Cardinality(InFlight(S)) \in Nat
         /\ Cardinality(InFlight(S)) <= Cardinality(Workers)
         /\ Cardinality(Workers) \in Nat
<1>1. IsFiniteSet(Jobs) /\ IsFiniteSet(Workers)
  BY ParameterAssumption
<1>2. Active(S) \in SUBSET Jobs /\ InFlight(S) \in SUBSET Workers
  BY DEF Active, InFlight
<1> QED BY <1>1, <1>2, Part

\* The sets that are counted are finite, and their counts are numbers.
LEMMA FiniteUpTo ==
  ASSUME NEW S \in SUBSET Jobs, NEW f, NEW m
  PROVE  /\ ActiveUpTo(S, f, m) \in SUBSET Active(S)
         /\ InFlightUpTo(S, f, m) \in SUBSET InFlight(S)
         /\ IsFiniteSet(ActiveUpTo(S, f, m)) /\ IsFiniteSet(InFlightUpTo(S, f, m))
         /\ Cardinality(ActiveUpTo(S, f, m)) \in Nat
         /\ Cardinality(InFlightUpTo(S, f, m)) \in Nat
         /\ Cardinality(ActiveUpTo(S, f, m)) <= Cardinality(Active(S))
         /\ Cardinality(InFlightUpTo(S, f, m)) <= Cardinality(Workers)
<1>1. /\ ActiveUpTo(S, f, m) \in SUBSET Active(S)
      /\ InFlightUpTo(S, f, m) \in SUBSET InFlight(S)
  BY DEF ActiveUpTo, InFlightUpTo
<1> HIDE DEF ActiveUpTo, InFlightUpTo
<1>2. /\ IsFiniteSet(ActiveUpTo(S, f, m)) /\ Cardinality(ActiveUpTo(S, f, m)) \in Nat
      /\ Cardinality(ActiveUpTo(S, f, m)) <= Cardinality(Active(S))
  BY <1>1, FiniteCounts, Part
<1>3. /\ IsFiniteSet(InFlightUpTo(S, f, m)) /\ Cardinality(InFlightUpTo(S, f, m)) \in Nat
      /\ Cardinality(InFlightUpTo(S, f, m)) <= Cardinality(InFlight(S))
  BY <1>1, FiniteCounts, Part
<1> QED BY <1>1, <1>2, <1>3, FiniteCounts

\* A step that takes no job up only lowers the counts.
LEMMA SharedLetsGo ==
  ASSUME LetsGo, NEW S \in SUBSET Jobs, NEW f, SharedLimit(S, f)
  PROVE  SharedLimit(S, f)'
<1> SUFFICES ASSUME NEW m \in Nat \ {0}
             PROVE  (Cardinality(ActiveUpTo(S, f, m)) + Cardinality(InFlightUpTo(S, f, m))
                       < m + Cardinality(Workers))'
  BY DEF SharedLimit
<1>1. /\ ActiveUpTo(S, f, m)' \in SUBSET ActiveUpTo(S, f, m)
      /\ InFlightUpTo(S, f, m)' \in SUBSET InFlightUpTo(S, f, m)
  BY DEF LetsGo, ActiveUpTo, InFlightUpTo, Active, InFlight, Choosing
<1>2. /\ Cardinality(ActiveUpTo(S, f, m)') \in Nat
      /\ Cardinality(ActiveUpTo(S, f, m)') <= Cardinality(ActiveUpTo(S, f, m))
      /\ Cardinality(InFlightUpTo(S, f, m)') \in Nat
      /\ Cardinality(InFlightUpTo(S, f, m)') <= Cardinality(InFlightUpTo(S, f, m))
  BY <1>1, FiniteUpTo, Part
<1> QED BY <1>2, FiniteUpTo, FiniteCounts DEF SharedLimit

\* A claim that is admitted was below its own limit, and joins those on their way.
LEMMA SharedChooses ==
  ASSUME NEW w \in Workers, NEW j \in Jobs, Chooses(w, j),
         NEW S \in SUBSET Jobs, NEW f \in [Admissions -> Nat \ {0}], SharedLimit(S, f),
         j \in S => Cardinality(Active(S)) < f[Admission(w, j)]
  PROVE  SharedLimit(S, f)'
<1> SUFFICES ASSUME NEW m \in Nat \ {0}
             PROVE  (Cardinality(ActiveUpTo(S, f, m)) + Cardinality(InFlightUpTo(S, f, m))
                       < m + Cardinality(Workers))'
  BY DEF SharedLimit
<1> DEFINE u == Admission(w, j)
           a == Cardinality(ActiveUpTo(S, f, m))
           b == Cardinality(InFlightUpTo(S, f, m)')
<1>1. u \in Admissions /\ wk'[w].pick = j /\ wk'[w].under = u
      /\ \A v \in Workers \ {w} : wk'[v] = wk[v]
  BY DEF Chooses
<1> HIDE DEF u
<1>2. ActiveUpTo(S, f, m)' = ActiveUpTo(S, f, m)
  BY DEF Chooses, ActiveUpTo, Active
<1>3. InFlightUpTo(S, f, m)' \in SUBSET Workers
  BY DEF InFlightUpTo, InFlight
<1>4. /\ b \in Nat /\ b <= Cardinality(Workers) /\ Cardinality(Workers) \in Nat
      /\ a \in Nat /\ a <= Cardinality(Active(S)) /\ Cardinality(Active(S)) \in Nat
  BY <1>3, Part, ParameterAssumption, FiniteUpTo, FiniteCounts
<1>5. CASE j \in S /\ f[u] <= m
  <2>1. Cardinality(Active(S)) < f[u] /\ f[u] \in Nat
    BY <1>1, <1>5 DEF u
  <2> QED BY <1>2, <1>4, <1>5, <2>1
<1>6. CASE ~(j \in S /\ f[u] <= m)
  <2>1. InFlightUpTo(S, f, m)' \in SUBSET InFlightUpTo(S, f, m)
    BY <1>1, <1>6 DEF InFlightUpTo, InFlight
  <2>2. b <= Cardinality(InFlightUpTo(S, f, m)) /\ Cardinality(InFlightUpTo(S, f, m)) \in Nat
    BY <2>1, FiniteUpTo, Part
  <2> QED BY <1>2, <1>4, <2>2 DEF SharedLimit
<1> QED BY <1>5, <1>6

\* A claim that is taken moves from those on their way to the active jobs.
LEMMA SharedTakes ==
  ASSUME NEW w \in Workers, NEW j \in Jobs, Takes(w, j),
         NEW S \in SUBSET Jobs, NEW f, SharedLimit(S, f)
  PROVE  SharedLimit(S, f)'
<1> SUFFICES ASSUME NEW m \in Nat \ {0}
             PROVE  (Cardinality(ActiveUpTo(S, f, m)) + Cardinality(InFlightUpTo(S, f, m))
                       < m + Cardinality(Workers))'
  BY DEF SharedLimit
<1> DEFINE A == ActiveUpTo(S, f, m)
           B == InFlightUpTo(S, f, m)
<1>1. /\ IsFiniteSet(A) /\ IsFiniteSet(B)
      /\ Cardinality(A) \in Nat /\ Cardinality(B) \in Nat /\ Cardinality(Workers) \in Nat
      /\ Cardinality(A) + Cardinality(B) < m + Cardinality(Workers)
  BY FiniteUpTo, FiniteCounts DEF SharedLimit
<1>2. CASE j \in S /\ f[wk[w].under] <= m
  <2>1. ActiveUpTo(S, f, m)' = A \cup {j} /\ j \notin A
    BY <1>2 DEF Takes, ActiveUpTo, Active
  <2>2. InFlightUpTo(S, f, m)' = B \ {w} /\ w \in B
    BY <1>2 DEF Takes, InFlightUpTo, InFlight, Choosing
  <2> HIDE DEF A, B
  <2>3. /\ Cardinality(A \cup {j}) = Cardinality(A) + 1
        /\ Cardinality(B \ {w}) = Cardinality(B) - 1
    BY <1>1, <2>1, <2>2, FS_AddElement, FS_RemoveElement
  <2> QED BY <1>1, <2>1, <2>2, <2>3
<1>3. CASE ~(j \in S /\ f[wk[w].under] <= m)
  <2>1. ActiveUpTo(S, f, m)' \in SUBSET A
    BY <1>3 DEF Takes, ActiveUpTo, Active
  <2>2. InFlightUpTo(S, f, m)' \in SUBSET B
    BY <1>3 DEF Takes, InFlightUpTo, InFlight, Choosing
  <2> HIDE DEF A, B
  <2>3. /\ Cardinality(ActiveUpTo(S, f, m)') \in Nat
        /\ Cardinality(ActiveUpTo(S, f, m)') <= Cardinality(A)
        /\ Cardinality(InFlightUpTo(S, f, m)') \in Nat
        /\ Cardinality(InFlightUpTo(S, f, m)') <= Cardinality(B)
    BY <1>1, <2>1, <2>2, Part
  <2> QED BY <1>1, <2>3
<1> QED BY <1>2, <1>3

\* Among the limits that admitted somebody there is one that bounds them all:
\* otherwise all were admitted under limits at most Admitted(S) - W, which
\* admit fewer.
LEMMA SharedHolds ==
  ASSUME TypeInv, NEW S \in SUBSET Jobs, NEW f \in [Admissions -> Nat \ {0}],
         SharedLimit(S, f), Admitted(S) > 0
  PROVE  \E u \in AdmittedUnder(S) : u \in Admissions /\ Admitted(S) < f[u] + Cardinality(Workers)
<1> DEFINE W == Cardinality(Workers)
           m == Admitted(S) - W
<1>1. /\ Cardinality(Active(S)) \in Nat /\ Cardinality(InFlight(S)) \in Nat /\ W \in Nat
      /\ Admitted(S) \in Nat /\ m \in Int
  BY FiniteCounts DEF Admitted
<1>2. /\ \A j \in Active(S) : job[j].under \in Admissions
      /\ \A w \in InFlight(S) : wk[w].under \in Admissions
      /\ AdmittedUnder(S) \subseteq Admissions
  BY DEF TypeInv, AtWork, Owned, Carries, Active, InFlight, AdmittedUnder
<1>3. AdmittedUnder(S) # {}
  <2>1. Active(S) # {} \/ InFlight(S) # {}
    BY FS_EmptySet DEF Admitted
  <2> QED BY <2>1 DEF AdmittedUnder
<1>4. ASSUME \A u \in AdmittedUnder(S) : ~(Admitted(S) < f[u] + W)
      PROVE  FALSE
  <2>1. \A u \in AdmittedUnder(S) : f[u] \in Nat \ {0} /\ f[u] <= m
    BY <1>1, <1>2, <1>4
  <2>2. m \in Nat \ {0}
    BY <1>1, <1>3, <2>1
  <2>3. \A j \in Active(S) : job[j].under \in AdmittedUnder(S)
    BY DEF AdmittedUnder
  <2>4. \A w \in InFlight(S) : wk[w].under \in AdmittedUnder(S)
    BY DEF AdmittedUnder
  <2>5. ActiveUpTo(S, f, m) = Active(S) /\ InFlightUpTo(S, f, m) = InFlight(S)
    BY <2>1, <2>3, <2>4 DEF ActiveUpTo, InFlightUpTo
  <2>6. Cardinality(Active(S)) + Cardinality(InFlight(S)) < m + W
    BY <2>2, <2>5 DEF SharedLimit
  <2> QED BY <1>1, <2>6 DEF Admitted
<1> QED BY <1>2, <1>4

\* The two limits that workers share: of a queue, and of a project.
ByConcurrent == [u \in Admissions |-> u.queue.concurrent]
ByProject == [u \in Admissions |-> u.project]

SharedInv ==
  /\ \A q \in Queues : SharedLimit(OfQueue(q), ByConcurrent)
  /\ \A p \in Projects : SharedLimit(OfProject(p), ByProject)

\* The two shared limits are numbers of an admission, counted over sets of jobs.
LEMMA SharedTypes ==
  /\ ByConcurrent \in [Admissions -> Nat \ {0}] /\ ByProject \in [Admissions -> Nat \ {0}]
  /\ \A q \in Queues : OfQueue(q) \in SUBSET Jobs
  /\ \A p \in Projects : OfProject(p) \in SUBSET Jobs
  BY DEF ByConcurrent, ByProject, Admissions, Limits, ProjectRows, OfQueue, OfProject

\* What Decide counts is what the invariant counts.
LEMMA ChosenWithinShared ==
  ASSUME NEW w \in Workers, NEW j \in Jobs, Chooses(w, j)
  PROVE  /\ \A q \in Queues : j \in OfQueue(q) =>
              Cardinality(Active(OfQueue(q))) < ByConcurrent[Admission(w, j)]
         /\ \A p \in Projects : j \in OfProject(p) =>
              Cardinality(Active(OfProject(p))) < ByProject[Admission(w, j)]
<1>1. /\ \A q : QueueBusy(q) = Cardinality(Active(OfQueue(q)))
      /\ \A p : ProjectBusy(p) = Cardinality(Active(OfProject(p)))
  <2>1. ASSUME NEW q
        PROVE  {i \in Jobs : job[i].state = "active" /\ QueueOf[i] = q} = Active(OfQueue(q))
    BY DEF Active, OfQueue
  <2>2. ASSUME NEW p
        PROVE  {i \in Jobs : job[i].state = "active" /\ ProjectOf[QueueOf[i]] = p}
                 = Active(OfProject(p))
    BY DEF Active, OfProject
  <2> QED BY <2>1, <2>2 DEF QueueBusy, ProjectBusy
<1>2. /\ QueueBusy(QueueOf[j]) < Admission(w, j).queue.concurrent
      /\ ProjectBusy(ProjectOf[QueueOf[j]]) < Admission(w, j).project
  BY DEF Chooses, Fits
<1>3. Admission(w, j) \in Admissions
  BY DEF Chooses
<1> QED BY <1>1, <1>2, <1>3 DEF OfQueue, OfProject, ByConcurrent, ByProject

\* Every step keeps both shared limits.
LEMMA SharedStep ==
  ASSUME TypeInv, SharedInv, [Next]_vars
  PROVE  SharedInv'
<1>1. ASSUME NEW q \in Queues
      PROVE  SharedLimit(OfQueue(q), ByConcurrent)'
  <2> DEFINE S == OfQueue(q)
             f == ByConcurrent
  <2>1. S \in SUBSET Jobs /\ f \in [Admissions -> Nat \ {0}] /\ SharedLimit(S, f)
    BY SharedTypes DEF SharedInv
  <2>2. ASSUME NEW w \in Workers, NEW j \in Jobs, Chooses(w, j)
        PROVE  j \in S => Cardinality(Active(S)) < f[Admission(w, j)]
    BY <2>2, ChosenWithinShared
  <2> HIDE DEF S, f
  <2>3. SharedLimit(S, f)'
    BY <2>1, <2>2, LimitSteps, SharedLetsGo, SharedChooses, SharedTakes
  <2> QED BY <2>3 DEF S, f
<1>2. ASSUME NEW p \in Projects
      PROVE  SharedLimit(OfProject(p), ByProject)'
  <2> DEFINE S == OfProject(p)
             f == ByProject
  <2>1. S \in SUBSET Jobs /\ f \in [Admissions -> Nat \ {0}] /\ SharedLimit(S, f)
    BY SharedTypes DEF SharedInv
  <2>2. ASSUME NEW w \in Workers, NEW j \in Jobs, Chooses(w, j)
        PROVE  j \in S => Cardinality(Active(S)) < f[Admission(w, j)]
    BY <2>2, ChosenWithinShared
  <2> HIDE DEF S, f
  <2>3. SharedLimit(S, f)'
    BY <2>1, <2>2, LimitSteps, SharedLetsGo, SharedChooses, SharedTakes
  <2> QED BY <2>3 DEF S, f
<1> QED BY <1>1, <1>2 DEF SharedInv

\* At the start nothing is counted.
LEMMA SharedInit ==
  ASSUME Init, NEW S \in SUBSET Jobs, NEW f
  PROVE  SharedLimit(S, f)
<1>1. \A m : ActiveUpTo(S, f, m) = {} /\ InFlightUpTo(S, f, m) = {}
  BY DEF Init, ActiveUpTo, InFlightUpTo, Active, InFlight, Idle
<1>2. Cardinality({}) = 0 /\ Cardinality(Workers) \in Nat
  BY FS_EmptySet, FS_CardinalityType, ParameterAssumption
<1> QED BY <1>1, <1>2 DEF SharedLimit
-----------------------------------------------------------------------------
(* The rate limit: the claims of the last minute and those in flight, counted *)
(* the same way                                                               *)

RecentUpTo(q, m) == {i \in DOMAIN recent[q] : recent[q][i] # None /\ recent[q][i] <= m}

RateInFlight(q, m) ==
  {w \in InFlight(OfQueue(q)) : /\ wk[w].under.queue.rate # None
                                /\ wk[w].under.queue.rate <= m}

RateInv ==
  \A q \in Queues : \A m \in Nat \ {0} :
    Cardinality(RecentUpTo(q, m)) + Cardinality(RateInFlight(q, m))
      < m + Cardinality(Workers)

\* The claims of the last minute are a finite list.
LEMMA RateFinite ==
  ASSUME TypeInv, NEW q \in Queues, NEW m
  PROVE  /\ recent[q] \in Seq((Nat \ {0}) \cup {None}) /\ Len(recent[q]) \in Nat
         /\ DOMAIN recent[q] = 1..Len(recent[q])
         /\ IsFiniteSet(DOMAIN recent[q]) /\ Cardinality(DOMAIN recent[q]) = Len(recent[q])
         /\ IsFiniteSet(RecentUpTo(q, m)) /\ Cardinality(RecentUpTo(q, m)) \in Nat
         /\ Cardinality(RecentUpTo(q, m)) <= Len(recent[q])
         /\ IsFiniteSet(RateInFlight(q, m)) /\ Cardinality(RateInFlight(q, m)) \in Nat
         /\ Cardinality(RateInFlight(q, m)) <= Cardinality(Workers)
         /\ Cardinality(Workers) \in Nat
<1> DEFINE n == Len(recent[q])
<1>1. recent[q] \in Seq((Nat \ {0}) \cup {None}) /\ n \in Nat /\ DOMAIN recent[q] = 1..n
  BY DEF TypeInv, TypeOK
<1> HIDE DEF n
<1>2. IsFiniteSet(1..n) /\ Cardinality(1..n) = n
  BY <1>1, FS_Interval
<1>3. /\ RecentUpTo(q, m) \in SUBSET DOMAIN recent[q]
      /\ RateInFlight(q, m) \in SUBSET Workers
  BY DEF RecentUpTo, RateInFlight, InFlight
<1>4. /\ IsFiniteSet(RecentUpTo(q, m)) /\ Cardinality(RecentUpTo(q, m)) \in Nat
      /\ Cardinality(RecentUpTo(q, m)) <= n
  BY <1>1, <1>2, <1>3, Part
<1>5. /\ IsFiniteSet(RateInFlight(q, m)) /\ Cardinality(RateInFlight(q, m)) \in Nat
      /\ Cardinality(RateInFlight(q, m)) <= Cardinality(Workers)
      /\ Cardinality(Workers) \in Nat
  BY <1>3, Part, ParameterAssumption
<1> QED BY <1>1, <1>2, <1>4, <1>5 DEF n

\* A step that claims nothing only lowers the counts of the rate limit.
LEMMA RateLetsGo ==
  ASSUME TypeInv, RateInv, LetsGo, recent' = recent
  PROVE  RateInv'
<1> SUFFICES ASSUME NEW q \in Queues, NEW m \in Nat \ {0}
             PROVE  (Cardinality(RecentUpTo(q, m)) + Cardinality(RateInFlight(q, m))
                       < m + Cardinality(Workers))'
  BY DEF RateInv
<1>1. RecentUpTo(q, m)' = RecentUpTo(q, m)
  BY DEF RecentUpTo
<1>2. RateInFlight(q, m)' \in SUBSET RateInFlight(q, m)
  BY DEF LetsGo, RateInFlight, InFlight, Choosing
<1>3. /\ Cardinality(RateInFlight(q, m)') \in Nat
      /\ Cardinality(RateInFlight(q, m)') <= Cardinality(RateInFlight(q, m))
  BY <1>2, RateFinite, Part
<1> QED BY <1>1, <1>3, RateFinite DEF RateInv

\* A recent claim is forgotten: the others move up by one.
LEMMA RateExpires ==
  ASSUME TypeInv, RateInv, LetsGo, NEW p \in Queues, Expire(p)
  PROVE  RateInv'
<1> SUFFICES ASSUME NEW q \in Queues, NEW m \in Nat \ {0}
             PROVE  (Cardinality(RecentUpTo(q, m)) + Cardinality(RateInFlight(q, m))
                       < m + Cardinality(Workers))'
  BY DEF RateInv
<1> DEFINE A == RecentUpTo(q, m)
           B == RecentUpTo(q, m)'
<1>1. RateInFlight(q, m)' \in SUBSET RateInFlight(q, m)
  BY DEF LetsGo, RateInFlight, InFlight, Choosing
<1>2. /\ Cardinality(RateInFlight(q, m)') \in Nat
      /\ Cardinality(RateInFlight(q, m)') <= Cardinality(RateInFlight(q, m))
  BY <1>1, RateFinite, Part
<1>3. recent \in [Queues -> Seq((Nat \ {0}) \cup {None})] /\ recent' = [recent EXCEPT ![p] = Tail(@)]
  BY DEF Expire, TypeInv, TypeOK
<1>4. Cardinality(B) \in Nat /\ Cardinality(B) <= Cardinality(A)
  <2>1. CASE p = q
    <3> DEFINE n == Len(recent[q])
               t == Tail(recent[q])
               g == [i \in B |-> i + 1]
    <3>1. recent[q] \in Seq((Nat \ {0}) \cup {None}) /\ recent[q] # <<>> /\ recent'[q] = t
      BY <1>3, <2>1 DEF Expire
    <3>2. /\ t \in Seq((Nat \ {0}) \cup {None}) /\ Len(t) = n - 1 /\ DOMAIN t = 1..(n - 1)
          /\ n \in Nat /\ DOMAIN recent[q] = 1..n
          /\ \A i \in 1..(n - 1) : t[i] = recent[q][i + 1]
      BY <3>1, HeadTailProperties
    <3> HIDE DEF t, n
    <3>3. B = {i \in 1..(n - 1) : t[i] # None /\ t[i] <= m}
      BY <3>1, <3>2 DEF RecentUpTo
    <3>4. A = {i \in 1..n : recent[q][i] # None /\ recent[q][i] <= m}
      BY <3>2 DEF RecentUpTo
    <3>5. \A i \in B : i \in Int /\ i + 1 \in A
      BY <3>2, <3>3, <3>4
    <3> HIDE DEF A, B
    <3>6. g \in Injection(B, A)
      BY <3>5 DEF Injection, IsInjective
    <3>7. IsFiniteSet(A)
      BY RateFinite DEF A
    <3> QED BY <3>6, <3>7, FS_Injection, FS_CardinalityType
  <2>2. CASE p # q
    <3>1. B = A
      BY <1>3, <2>2 DEF RecentUpTo
    <3> HIDE DEF A, B
    <3>2. Cardinality(A) \in Nat
      BY RateFinite DEF A
    <3> QED BY <3>1, <3>2
  <2> QED BY <2>1, <2>2
<1>5. Cardinality(A) + Cardinality(RateInFlight(q, m)) < m + Cardinality(Workers)
  BY DEF RateInv
<1>6. /\ Cardinality(A) \in Nat /\ Cardinality(RateInFlight(q, m)) \in Nat
      /\ Cardinality(Workers) \in Nat
  BY RateFinite
<1> QED BY <1>2, <1>4, <1>5, <1>6

\* A claim that is admitted was below the rate limit it read.
LEMMA RateChooses ==
  ASSUME TypeInv, RateInv, NEW w \in Workers, NEW j \in Jobs, Chooses(w, j)
  PROVE  RateInv'
<1> SUFFICES ASSUME NEW q \in Queues, NEW m \in Nat \ {0}
             PROVE  (Cardinality(RecentUpTo(q, m)) + Cardinality(RateInFlight(q, m))
                       < m + Cardinality(Workers))'
  BY DEF RateInv
<1> DEFINE r == Admission(w, j).queue.rate
           b == Cardinality(RateInFlight(q, m)')
<1>1. /\ wk'[w].pick = j /\ wk'[w].under = Admission(w, j) /\ recent' = recent
      /\ \A v \in Workers \ {w} : wk'[v] = wk[v]
      /\ r # None => Len(recent[QueueOf[j]]) < r
      /\ r \in (Nat \ {0}) \cup {None}
  BY DEF Chooses, Fits, Admissions, Limits
<1>2. RecentUpTo(q, m)' = RecentUpTo(q, m)
  BY <1>1 DEF RecentUpTo
<1>3. RateInFlight(q, m)' \in SUBSET Workers
  BY DEF RateInFlight, InFlight
<1>4. b \in Nat /\ b <= Cardinality(Workers)
  BY <1>3, Part, ParameterAssumption
<1>5. CASE QueueOf[j] = q /\ r # None /\ r <= m
  BY <1>1, <1>2, <1>4, <1>5, RateFinite
<1>6. CASE ~(QueueOf[j] = q /\ r # None /\ r <= m)
  <2>1. RateInFlight(q, m)' \in SUBSET RateInFlight(q, m)
    BY <1>1, <1>6 DEF RateInFlight, InFlight, OfQueue
  <2>2. b <= Cardinality(RateInFlight(q, m))
    BY <2>1, RateFinite, Part
  <2>3. /\ Cardinality(RecentUpTo(q, m)) \in Nat /\ Cardinality(RateInFlight(q, m)) \in Nat
        /\ Cardinality(Workers) \in Nat
        /\ Cardinality(RecentUpTo(q, m)) + Cardinality(RateInFlight(q, m))
             < m + Cardinality(Workers)
    BY RateFinite DEF RateInv
  <2> HIDE DEF b, r
  <2>4. Cardinality(RecentUpTo(q, m)) + b < m + Cardinality(Workers)
    BY <1>4, <2>2, <2>3
  <2> QED BY <1>2, <2>4 DEF b
<1> QED BY <1>5, <1>6

\* A claim that is taken moves from those on their way to those of the last minute.
LEMMA RateTakes ==
  ASSUME TypeInv, RateInv, NEW w \in Workers, NEW j \in Jobs, Takes(w, j)
  PROVE  RateInv'
<1> SUFFICES ASSUME NEW q \in Queues, NEW m \in Nat \ {0}
             PROVE  (Cardinality(RecentUpTo(q, m)) + Cardinality(RateInFlight(q, m))
                       < m + Cardinality(Workers))'
  BY DEF RateInv
<1> DEFINE r == wk[w].under.queue.rate
           n == Len(recent[q])
           A == RecentUpTo(q, m)
           B == RateInFlight(q, m)
<1>1. /\ IsFiniteSet(A) /\ IsFiniteSet(B) /\ Cardinality(A) \in Nat
      /\ Cardinality(B) \in Nat /\ Cardinality(Workers) \in Nat
      /\ Cardinality(A) + Cardinality(B) < m + Cardinality(Workers)
      /\ recent[q] \in Seq((Nat \ {0}) \cup {None}) /\ n \in Nat /\ DOMAIN recent[q] = 1..n
  BY RateFinite DEF RateInv
<1>2. r \in (Nat \ {0}) \cup {None} /\ Choosing(w) /\ j = wk[w].pick
  BY DEF Takes, Admissions, Limits
<1>3. RateInFlight(q, m)' = B \ {w}
  BY DEF Takes, RateInFlight, InFlight, Choosing
<1>4. RecentUpTo(q, m)' = A \/ (/\ QueueOf[j] = q
                                /\ recent'[q] = Append(recent[q], r))
  <2>1. CASE recent'[q] = recent[q]
    BY <2>1 DEF RecentUpTo
  <2>2. CASE recent'[q] # recent[q]
    <3>1. recent' = [recent EXCEPT ![QueueOf[j]] = Append(@, r)]
      BY <2>2 DEF Takes
    <3>2. QueueOf[j] = q
      BY <2>2, <3>1 DEF TypeInv, TypeOK
    <3> QED BY <3>1, <3>2 DEF TypeInv, TypeOK
  <2> QED BY <2>1, <2>2
<1>5. CASE RecentUpTo(q, m)' = A
  <2> HIDE DEF A, B
  <2>1. /\ Cardinality(B \ {w}) \in Nat /\ Cardinality(B \ {w}) <= Cardinality(B)
    BY <1>1, Part
  <2> QED BY <1>1, <1>3, <1>5, <2>1
<1>6. CASE QueueOf[j] = q /\ recent'[q] = Append(recent[q], r)
  <2>1. /\ DOMAIN recent'[q] = 1..(n + 1) /\ recent'[q][n + 1] = r
        /\ \A i \in 1..n : recent'[q][i] = recent[q][i]
    BY <1>1, <1>2, <1>6, AppendProperties
  <2>2. A = {i \in 1..n : recent[q][i] # None /\ recent[q][i] <= m}
    BY <1>1 DEF RecentUpTo
  <2>3. RecentUpTo(q, m)' = {i \in 1..(n + 1) : recent'[q][i] # None /\ recent'[q][i] <= m}
    BY <2>1 DEF RecentUpTo
  <2>4. w \in B <=> r # None /\ r <= m
    BY <1>2, <1>6 DEF RateInFlight, InFlight, OfQueue, Choosing, Takes
  <2> HIDE DEF A, B, n, r
  <2>5. CASE r # None /\ r <= m
    <3>1. RecentUpTo(q, m)' = A \cup {n + 1} /\ n + 1 \notin A
      BY <1>1, <2>1, <2>2, <2>3, <2>5
    <3>2. /\ Cardinality(A \cup {n + 1}) = Cardinality(A) + 1
          /\ Cardinality(B \ {w}) = Cardinality(B) - 1
      BY <1>1, <2>4, <2>5, <3>1, FS_AddElement, FS_RemoveElement
    <3> QED BY <1>1, <1>3, <3>1, <3>2
  <2>6. CASE ~(r # None /\ r <= m)
    <3>1. RecentUpTo(q, m)' = A
      BY <1>1, <2>1, <2>2, <2>3, <2>6
    <3> QED BY <1>5, <3>1
  <2> QED BY <2>5, <2>6
<1> QED BY <1>4, <1>5, <1>6

\* From the counts for every bound to the bound of one admission.
LEMMA RateHolds ==
  ASSUME TypeInv, RateInv, NEW q \in Queues, Rates(q) # {}
  PROVE  \E r \in Rates(q) : r = None \/ Len(recent[q]) + Cardinality(InFlight(OfQueue(q)))
                                           < r + Cardinality(Workers)
<1> DEFINE W == Cardinality(Workers)
           n == Len(recent[q])
           F == InFlight(OfQueue(q))
           m == n + Cardinality(F) - W
<1>1. OfQueue(q) \in SUBSET Jobs
  BY SharedTypes
<1>2. /\ n \in Nat /\ DOMAIN recent[q] = 1..n /\ W \in Nat /\ Cardinality(F) \in Nat
      /\ Cardinality(DOMAIN recent[q]) = n
      /\ recent[q] \in Seq((Nat \ {0}) \cup {None}) /\ m \in Int
  BY <1>1, RateFinite, FiniteCounts
<1>3. ASSUME NEW w \in F PROVE wk[w].under.queue.rate \in (Nat \ {0}) \cup {None}
  <2>1. wk[w].under \in Admissions
    BY DEF TypeInv, AtWork, Carries, InFlight
  <2> QED BY <2>1 DEF Admissions, Limits
<1>4. ASSUME \A r \in Rates(q) : ~(r = None \/ n + Cardinality(F) < r + W)
      PROVE  FALSE
  <2>1. \A i \in DOMAIN recent[q] : recent[q][i] \in Rates(q) /\ recent[q][i] \in (Nat \ {0}) \cup {None}
    BY <1>2 DEF Rates
  <2>2. \A w \in F : wk[w].under.queue.rate \in Rates(q)
    BY DEF Rates
  <2>3. \A i \in DOMAIN recent[q] : recent[q][i] # None /\ recent[q][i] <= m
    BY <1>2, <1>4, <2>1
  <2>4. \A w \in F : wk[w].under.queue.rate # None /\ wk[w].under.queue.rate <= m
    BY <1>2, <1>3, <1>4, <2>2
  <2>5. RecentUpTo(q, m) = DOMAIN recent[q] /\ RateInFlight(q, m) = F
    BY <2>3, <2>4 DEF RecentUpTo, RateInFlight
  <2> HIDE DEF m
  <2>6. m \in Nat \ {0}
    <3>1. CASE DOMAIN recent[q] # {}
      <4>1. PICK i \in DOMAIN recent[q] : TRUE
        BY <3>1
      <4>2. recent[q][i] \in Nat \ {0} /\ recent[q][i] <= m
        BY <2>1, <2>3
      <4> QED BY <1>2, <4>2
    <3>2. CASE F # {}
      <4>1. PICK w \in F : TRUE
        BY <3>2
      <4>2. wk[w].under.queue.rate \in Nat \ {0} /\ wk[w].under.queue.rate <= m
        BY <1>3, <2>4
      <4> QED BY <1>2, <4>2
    <3> QED BY <3>1, <3>2 DEF Rates
  <2>7. n + Cardinality(F) < m + W
    BY <1>2, <2>5, <2>6 DEF RateInv
  <2> QED BY <1>2, <2>7 DEF m
<1> QED BY <1>4

\* Every step keeps the rate limit.
LEMMA RateStep ==
  ASSUME TypeInv, RateInv, [Next]_vars
  PROVE  RateInv'
<1>1. CASE LetsGo /\ recent' = recent
  BY <1>1, RateLetsGo
<1>2. ASSUME LetsGo, NEW q \in Queues, Expire(q)
      PROVE  RateInv'
  BY <1>2, RateExpires
<1>3. ASSUME NEW w \in Workers, NEW j \in Jobs, Chooses(w, j) \/ Takes(w, j)
      PROVE  RateInv'
  BY <1>3, RateChooses, RateTakes
<1> QED BY <1>1, <1>2, <1>3, LimitSteps

\* The limits hold when nothing has been claimed.
LEMMA LimitsInit == Init => SharedInv /\ RateInv
<1> SUFFICES ASSUME Init PROVE SharedInv /\ RateInv
  OBVIOUS
<1>1. SharedInv
  BY SharedInit, SharedTypes DEF SharedInv
<1>2. \A q \in Queues : \A m : RecentUpTo(q, m) = {} /\ RateInFlight(q, m) = {}
  BY DEF Init, RecentUpTo, RateInFlight, InFlight, Idle
<1>3. Cardinality({}) = 0 /\ Cardinality(Workers) \in Nat
  BY FS_EmptySet, FS_CardinalityType, ParameterAssumption
<1>4. RateInv
  BY <1>2, <1>3 DEF RateInv
<1> QED BY <1>1, <1>4

\* What the invariants say of the active jobs and claims of one queue, of one
\* project, and of the claims of the last minute.
LEMMA BoundedOvershoot == TypeInv /\ SharedInv /\ RateInv => OvershootIsBounded
<1> SUFFICES ASSUME TypeInv, SharedInv, RateInv PROVE OvershootIsBounded
  OBVIOUS
<1>1. ASSUME NEW q \in Queues, Admitted(OfQueue(q)) > 0
      PROVE  \E u \in AdmittedUnder(OfQueue(q)) :
               Admitted(OfQueue(q)) < u.queue.concurrent + Cardinality(Workers)
  <2>1. \E u \in AdmittedUnder(OfQueue(q)) : u \in Admissions /\
          Admitted(OfQueue(q)) < ByConcurrent[u] + Cardinality(Workers)
    BY <1>1, SharedTypes, SharedHolds DEF SharedInv
  <2> QED BY <2>1 DEF ByConcurrent
<1>2. ASSUME NEW p \in Projects, Admitted(OfProject(p)) > 0
      PROVE  \E u \in AdmittedUnder(OfProject(p)) :
               Admitted(OfProject(p)) < u.project + Cardinality(Workers)
  <2>1. \E u \in AdmittedUnder(OfProject(p)) : u \in Admissions /\
          Admitted(OfProject(p)) < ByProject[u] + Cardinality(Workers)
    BY <1>2, SharedTypes, SharedHolds DEF SharedInv
  <2> QED BY <2>1 DEF ByProject
<1> QED BY <1>1, <1>2, RateHolds DEF OvershootIsBounded

\* Racing claims take a queue, a project or a minute beyond the limit that
\* admitted them by fewer jobs than there are workers, however many workers,
\* whatever requests make of the limits meanwhile: claiming.py:113-157 counts
\* before the lock and never again.
THEOREM Overshoot == Spec => []OvershootIsBounded
<1>1. Init => SharedInv /\ RateInv
  BY LimitsInit
<1>2. TypeInv /\ (SharedInv /\ RateInv) /\ [Next]_vars => (SharedInv /\ RateInv)'
  BY SharedStep, RateStep
<1>3. TypeInv /\ (SharedInv /\ RateInv) => OvershootIsBounded
  BY BoundedOvershoot
<1> QED BY <1>1, <1>2, <1>3, TypeInvariant, PTL DEF Spec
-----------------------------------------------------------------------------
(* A worker's own limits: only its own claims add to them, one at a time     *)

RunBy(w) == {j \in Jobs : job[j].state = "active" /\ job[j].owner = w}

RunByIn(w, q) == {j \in RunBy(w) : QueueOf[j] = q}

RunByUpTo(w, q, m) == {j \in RunByIn(w, q) : job[j].under.queue.perWorker <= m}

\* A chosen candidate still fits.
OwnOf(w) ==
  /\ Cardinality(RunBy(w)) <= Capacity[w]
  /\ Choosing(w) => /\ Cardinality(RunBy(w)) < Capacity[w]
                    /\ Cardinality(RunByIn(w, QueueOf[wk[w].pick]))
                         < wk[w].under.queue.perWorker
  /\ \A q \in Queues : \A m \in Nat \ {0} : Cardinality(RunByUpTo(w, q, m)) <= m

OwnInv == \A w \in Workers : OwnOf(w)

\* What the code counts for a worker are the sizes of two finite sets.
LEMMA OwnCounts ==
  ASSUME NEW w, NEW q
  PROVE  /\ WorkerTotal(w) = Cardinality(RunBy(w)) /\ WorkerBusy(w, q) = Cardinality(RunByIn(w, q))
         /\ IsFiniteSet(RunBy(w)) /\ Cardinality(RunBy(w)) \in Nat
         /\ IsFiniteSet(RunByIn(w, q)) /\ Cardinality(RunByIn(w, q)) \in Nat
<1>1. {j \in Jobs : job[j].state = "active" /\ job[j].owner = w /\ QueueOf[j] = q} = RunByIn(w, q)
  BY DEF RunByIn, RunBy
<1>2. RunBy(w) \in SUBSET Jobs /\ RunByIn(w, q) \in SUBSET Jobs /\ IsFiniteSet(Jobs)
  BY ParameterAssumption DEF RunBy, RunByIn
<1>3. WorkerTotal(w) = Cardinality(RunBy(w)) /\ WorkerBusy(w, q) = Cardinality(RunByIn(w, q))
  BY <1>1 DEF WorkerTotal, WorkerBusy, RunBy
<1> HIDE DEF RunBy, RunByIn
<1> QED BY <1>2, <1>3, Part

\* The same of the jobs admitted under a bound.
LEMMA OwnUpToCounts ==
  ASSUME NEW w, NEW q, NEW m
  PROVE  /\ RunByUpTo(w, q, m) \in SUBSET RunByIn(w, q)
         /\ IsFiniteSet(RunByUpTo(w, q, m)) /\ Cardinality(RunByUpTo(w, q, m)) \in Nat
         /\ Cardinality(RunByUpTo(w, q, m)) <= Cardinality(RunByIn(w, q))
<1>1. RunByUpTo(w, q, m) \in SUBSET RunByIn(w, q)
  BY DEF RunByUpTo
<1> HIDE DEF RunByUpTo
<1> QED BY <1>1, OwnCounts, Part

\* Nothing is added to what worker w runs, and no claim of it is chosen.
LEMMA OwnKept ==
  ASSUME TypeInv, NEW w \in Workers, OwnOf(w),
         \A j \in Jobs : job'[j].state = "active" /\ job'[j].owner = w =>
           job[j].state = "active" /\ job[j].owner = w /\ job'[j].under = job[j].under,
         Choosing(w)' => Choosing(w) /\ wk'[w].pick = wk[w].pick /\ wk'[w].under = wk[w].under
  PROVE  OwnOf(w)'
<1>1. /\ Capacity[w] \in Nat
      /\ Choosing(w) => QueueOf[wk[w].pick] \in Queues /\ wk[w].under.queue.perWorker \in Nat
  <2>1. Choosing(w) => wk[w].pick \in Jobs /\ wk[w].under \in Admissions
    BY DEF TypeInv, TypeOK, AtWork, Carries, Claims, Choosing
  <2> QED BY <2>1, ParameterAssumption DEF Admissions, Limits
<1>2. /\ Cardinality(RunBy(w)') \in Nat
      /\ Cardinality(RunBy(w)') <= Cardinality(RunBy(w))
  <2>1. RunBy(w)' \in SUBSET RunBy(w)
    BY DEF RunBy
  <2> HIDE DEF RunBy
  <2> QED BY <2>1, OwnCounts, Part
<1>3. ASSUME NEW q
      PROVE  /\ Cardinality(RunByIn(w, q)') \in Nat
             /\ Cardinality(RunByIn(w, q)') <= Cardinality(RunByIn(w, q))
  <2>1. RunByIn(w, q)' \in SUBSET RunByIn(w, q)
    BY DEF RunByIn, RunBy
  <2> HIDE DEF RunByIn
  <2> QED BY <2>1, OwnCounts, Part
<1>4. ASSUME NEW q \in Queues, NEW m \in Nat \ {0}
      PROVE  Cardinality(RunByUpTo(w, q, m)') <= m
  <2>1. RunByUpTo(w, q, m)' \in SUBSET RunByUpTo(w, q, m)
    BY DEF RunByUpTo, RunByIn, RunBy
  <2>2. Cardinality(RunByUpTo(w, q, m)) <= m
    BY DEF OwnOf
  <2> HIDE DEF RunByUpTo
  <2> QED BY <2>1, <2>2, OwnUpToCounts, Part
<1>5. Cardinality(RunBy(w)) \in Nat /\ \A q : Cardinality(RunByIn(w, q)) \in Nat
  BY OwnCounts
<1>6. Cardinality(RunBy(w)') <= Capacity[w]
  BY <1>1, <1>2, <1>5 DEF OwnOf
<1>7. ASSUME Choosing(w)'
      PROVE  /\ Cardinality(RunBy(w)') < Capacity[w]
             /\ Cardinality(RunByIn(w, QueueOf[wk[w].pick]))' < wk'[w].under.queue.perWorker
  <2> DEFINE q == QueueOf[wk[w].pick]
             limit == wk[w].under.queue.perWorker
             before == Cardinality(RunByIn(w, q))
             after == Cardinality(RunByIn(w, q)')
  <2>1. /\ Choosing(w) /\ QueueOf[wk'[w].pick] = q /\ wk'[w].under.queue.perWorker = limit
    BY <1>7
  <2>2. Cardinality(RunBy(w)) < Capacity[w] /\ before < limit
    BY <2>1 DEF OwnOf
  <2>3. limit \in Nat /\ before \in Nat /\ after \in Nat /\ after <= before
    BY <1>1, <1>3, <1>5, <2>1
  <2>4. RunByIn(w, QueueOf[wk[w].pick])' = RunByIn(w, q)'
    BY <2>1 DEF RunByIn, RunBy
  <2> HIDE DEF q, limit, before, after
  <2>5. Cardinality(RunBy(w)') < Capacity[w] /\ after < limit
    BY <1>1, <1>2, <1>5, <2>2, <2>3
  <2> QED BY <2>1, <2>4, <2>5 DEF after, limit
<1> QED BY <1>4, <1>6, <1>7 DEF OwnOf

\* A worker claims one job at a time, so what it counted is still so when it takes.
LEMMA OwnStep ==
  ASSUME TypeInv, OwnInv, [Next]_vars
  PROVE  OwnInv'
<1>1. CASE LetsGo
  BY <1>1, OwnKept DEF LetsGo, OwnInv
<1>2. ASSUME NEW w \in Workers, NEW j \in Jobs, Chooses(w, j)
      PROVE  OwnInv'
  <2>1. ASSUME NEW v \in Workers \ {w} PROVE OwnOf(v)'
    BY <1>2, <2>1, OwnKept DEF Chooses, Choosing, OwnInv
  <2>2. /\ WorkerTotal(w) < Capacity[w]
        /\ WorkerBusy(w, QueueOf[j]) < Admission(w, j).queue.perWorker
    BY <1>2 DEF Chooses, HasRoom, Fits
  <2>3. OwnOf(w)'
    <3>1. /\ RunBy(w)' = RunBy(w) /\ \A q : RunByIn(w, q)' = RunByIn(w, q)
          /\ \A q, m : RunByUpTo(w, q, m)' = RunByUpTo(w, q, m)
      BY <1>2 DEF Chooses, RunBy, RunByIn, RunByUpTo
    <3>2. /\ Cardinality(RunBy(w)) < Capacity[w]
          /\ Cardinality(RunByIn(w, QueueOf[wk[w].pick]))' < wk'[w].under.queue.perWorker
      <4>1. /\ RunByIn(w, QueueOf[wk[w].pick])' = RunByIn(w, QueueOf[j])
            /\ wk'[w].under = Admission(w, j)
        BY <1>2 DEF Chooses, RunBy, RunByIn
      <4> QED BY <2>2, <4>1, OwnCounts
    <3> QED BY <3>1, <3>2 DEF OwnOf, OwnInv
  <2> QED BY <2>1, <2>3 DEF OwnInv
<1>3. ASSUME NEW w \in Workers, NEW j \in Jobs, Takes(w, j)
      PROVE  OwnInv'
  <2>1. ASSUME NEW v \in Workers \ {w} PROVE OwnOf(v)'
    BY <1>3, <2>1, OwnKept DEF Takes, Choosing, OwnInv
  <2>2. OwnOf(w)'
    <3> DEFINE p == QueueOf[j]
               limit == wk[w].under.queue.perWorker
    <3>1. /\ Choosing(w) /\ wk[w].pick = j /\ ~Choosing(w)' /\ j \notin RunBy(w)
          /\ limit \in Nat \ {0} /\ p \in Queues /\ Capacity[w] \in Nat
      BY <1>3, ParameterAssumption DEF Takes, RunBy, Admissions, Limits
    <3>2. /\ RunBy(w)' = RunBy(w) \cup {j}
          /\ job'[j].under.queue.perWorker = limit
          /\ \A i \in Jobs \ {j} : job'[i] = job[i]
      BY <1>3 DEF Takes, RunBy
    <3>3. Cardinality(RunBy(w)) < Capacity[w] /\ Cardinality(RunByIn(w, p)) < limit
      BY <3>1 DEF OwnOf, OwnInv
    <3>4. Cardinality(RunBy(w)') <= Capacity[w]
      <4> HIDE DEF RunBy
      <4>1. Cardinality(RunBy(w) \cup {j}) = Cardinality(RunBy(w)) + 1
        BY <3>1, OwnCounts, FS_AddElement
      <4> QED BY <3>1, <3>2, <3>3, <4>1, OwnCounts
    <3>5. ASSUME NEW q, NEW m
          PROVE  /\ RunByUpTo(w, q, m) =
                      {i \in RunBy(w) : QueueOf[i] = q /\ job[i].under.queue.perWorker <= m}
                 /\ RunByUpTo(w, q, m)' =
                      {i \in RunBy(w)' : QueueOf[i] = q /\ job'[i].under.queue.perWorker <= m}
      BY DEF RunByUpTo, RunByIn
    <3>6. RunBy(w) \subseteq Jobs
      BY DEF RunBy
    <3>7. ASSUME NEW q \in Queues, NEW m \in Nat \ {0}
          PROVE  Cardinality(RunByUpTo(w, q, m)') <= m
      <4> DEFINE A == RunByUpTo(w, q, m)
                 B == RunByUpTo(w, q, m)'
      <4>1. Cardinality(A) <= m /\ IsFiniteSet(A) /\ Cardinality(A) \in Nat
        BY OwnUpToCounts DEF OwnInv, OwnOf
      <4>2. CASE q = p /\ limit <= m
        <5>1. B = A \cup {j} /\ j \notin A
          BY <3>1, <3>2, <3>5, <3>6, <4>2
        <5>2. Cardinality(A) <= Cardinality(RunByIn(w, p)) /\ Cardinality(RunByIn(w, p)) \in Nat
          BY <4>2, OwnUpToCounts, OwnCounts
        <5> HIDE DEF A, B, limit
        <5>3. Cardinality(B) = Cardinality(A) + 1
          BY <4>1, <5>1, FS_AddElement
        <5>4. Cardinality(B) <= m
          BY <3>1, <3>3, <4>1, <4>2, <5>2, <5>3
        <5> QED BY <5>4 DEF B
      <4>3. CASE ~(q = p /\ limit <= m)
        <5>1. ~(QueueOf[j] = q /\ job'[j].under.queue.perWorker <= m)
          BY <3>2, <4>3
        <5>2. \A i \in RunBy(w) : i # j /\ job'[i] = job[i]
          BY <3>1, <3>2, <3>6
        <5>3. B = {i \in RunBy(w) : QueueOf[i] = q /\ job'[i].under.queue.perWorker <= m}
          BY <3>2, <3>5, <5>1
        <5>4. B = A
          BY <3>5, <5>2, <5>3
        <5> QED BY <4>1, <5>4
      <4> QED BY <4>2, <4>3
    <3> QED BY <3>1, <3>4, <3>7 DEF OwnOf
  <2> QED BY <2>1, <2>2 DEF OwnInv
<1> QED BY <1>1, <1>2, <1>3, LimitSteps

\* At the start no worker runs anything.
LEMMA OwnInit == Init => OwnInv
<1> SUFFICES ASSUME Init, NEW w \in Workers PROVE OwnOf(w)
  BY DEF OwnInv
<1>1. RunBy(w) = {} /\ ~Choosing(w) /\ \A q, m : RunByUpTo(w, q, m) = {}
  BY DEF Init, Idle, RunBy, RunByUpTo, RunByIn, Choosing
<1>2. Cardinality({}) = 0 /\ Capacity[w] \in Nat
  BY FS_EmptySet, ParameterAssumption
<1> QED BY <1>1, <1>2 DEF OwnOf

\* As for the shared limits: were all limits below the number of jobs, they
\* would have admitted fewer.
LEMMA OwnHolds == TypeInv /\ OwnInv => OwnLimitsHold
<1> SUFFICES ASSUME TypeInv, OwnInv, NEW w \in Workers
             PROVE  /\ WorkerTotal(w) <= Capacity[w]
                    /\ \A q \in Queues : WorkerBusy(w, q) > 0 =>
                         \E j \in Active(OfQueue(q)) :
                           /\ job[j].owner = w
                           /\ WorkerBusy(w, q) <= job[j].under.queue.perWorker
  BY DEF OwnLimitsHold
<1>1. WorkerTotal(w) <= Capacity[w]
  BY OwnCounts DEF OwnInv, OwnOf
<1>2. ASSUME NEW q \in Queues, WorkerBusy(w, q) > 0,
             \A j \in Active(OfQueue(q)) :
               job[j].owner = w => ~(WorkerBusy(w, q) <= job[j].under.queue.perWorker)
      PROVE  FALSE
  <2> DEFINE n == Cardinality(RunByIn(w, q))
  <2>1. n \in Nat /\ n > 0 /\ n = WorkerBusy(w, q)
    BY <1>2, OwnCounts
  <2>2. ASSUME NEW j \in RunByIn(w, q)
        PROVE  job[j].under.queue.perWorker \in Nat \ {0} /\ job[j].under.queue.perWorker < n
    <3>1. j \in Jobs /\ j \in Active(OfQueue(q)) /\ job[j].state = "active" /\ job[j].owner = w
      BY DEF RunByIn, RunBy, Active, OfQueue
    <3>2. job[j].under \in Admissions
      BY <3>1 DEF TypeInv, AtWork, Owned
    <3>3. job[j].under.queue.perWorker \in Nat \ {0}
      BY <3>2 DEF Admissions, Limits
    <3> QED BY <1>2, <2>1, <3>1, <3>3
  <2>3. RunByIn(w, q) # {}
    BY <2>1, FS_EmptySet
  <2> HIDE DEF n
  <2>4. n - 1 \in Nat \ {0}
    BY <2>1, <2>2, <2>3
  <2>5. RunByUpTo(w, q, n - 1) = RunByIn(w, q)
    BY <2>1, <2>2 DEF RunByUpTo
  <2>6. n <= n - 1
    BY <2>4, <2>5 DEF OwnInv, OwnOf, n
  <2> QED BY <2>1, <2>6
<1> QED BY <1>1, <1>2

\* A worker never runs more jobs than its capacity, nor more of one queue than
\* a limit that one of those jobs was admitted under, although the counts are
\* made before the lock and the limits read with the scan: claiming.py:113-147.
THEOREM OwnLimits == Spec => []OwnLimitsHold
<1>1. Init => OwnInv
  BY OwnInit
<1>2. TypeInv /\ OwnInv /\ [Next]_vars => OwnInv'
  BY OwnStep
<1>3. TypeInv /\ OwnInv => OwnLimitsHold
  BY OwnHolds
<1> QED BY <1>1, <1>2, <1>3, TypeInvariant, PTL DEF Spec

=============================================================================
