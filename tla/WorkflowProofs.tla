---------------------------- MODULE WorkflowProofs ----------------------------
(***************************************************************************)
(* Theorems of Workflow that hold for any nodes, any requested graphs and  *)
(* policies, and any number of retries.  Nothing depends on where in the   *)
(* stack of which resolver a call is, so the proofs look at the set of all *)
(* calls (Calls) and at what a step puts into it and takes out.  Whether   *)
(* the requested graph is acyclic is not used either.                      *)
(***************************************************************************)
EXTENDS Workflow, SequenceTheorems, TLAPS

Calls == UNION {{res[r][i] : i \in DOMAIN res[r]} : r \in Nodes}

Looks(f, u, d) == f.node = u /\ (f.pc = "start" \/ d \in f.todo \/ f.dep = d)

\* The end of u is known to have been lost for d, or will still be looked at.
Pending(u, d) == u \in unresolved \/ \E f \in Calls : Looks(f, u, d)

\* Only a call that visits has dependents, and they are linked.
CallsInv ==
  \A f \in Calls : f.pc # "visit" \/ ~linked => f.todo = {} /\ f.dep = None

\* The rows are linked when every job is there.
LinkInv == linked => \A n \in Nodes : state[n] # "absent"

\* As NoReleaseIsLost, and from before the job is created on.
FanIn(d) ==
  /\ state[d] = "BLOCKED" => Upstream(d) # {}
  /\ state[d] \in {"absent", "BLOCKED"} /\ Upstream(d) # {} /\ Verdict(d) # "BLOCKED" =>
       \E u \in Upstream(d) : Pending(u, d)

Inv == TypeOK /\ CallsInv /\ LinkInv /\ \A d \in Nodes : FanIn(d)
-----------------------------------------------------------------------------
(* Stacks and the set of calls                                             *)

\* A call is in the set if it is somewhere in some stack.
LEMMA InCalls ==
  ASSUME NEW f
  PROVE  f \in Calls <=> \E r \in Nodes : \E i \in DOMAIN res[r] : f = res[r][i]
  BY DEF Calls

\* WillVisit in terms of the set.
LEMMA VisitsAreCalls ==
  ASSUME NEW u, NEW d
  PROVE  WillVisit(u, d) <=> \E f \in Calls : Looks(f, u, d)
  BY DEF WillVisit, Calls, Looks

\* The innermost call, and the stack without it.
LEMMA TopAndPop ==
  ASSUME TypeOK, NEW r \in Nodes, res[r] # <<>>
  PROVE  /\ Len(res[r]) \in Nat \ {0} /\ DOMAIN res[r] = 1..Len(res[r])
         /\ Top(r) \in Frames /\ Top(r) \in Calls
         /\ Pop(r) \in Seq(Frames) /\ Len(Pop(r)) = Len(res[r]) - 1
         /\ \A i \in 1..Len(res[r]) - 1 : Pop(r)[i] = res[r][i]
<1>1. res[r] \in Seq(Frames)
  BY DEF TypeOK
<1>2. Len(res[r]) \in Nat \ {0} /\ DOMAIN res[r] = 1..Len(res[r])
  BY <1>1, EmptySeq, LenProperties
<1>3. Top(r) \in Frames
  BY <1>1, <1>2, ElementOfSeq DEF Top
<1>4. Top(r) \in Calls
  BY <1>2, InCalls DEF Top
<1>5. PICK m : m = Len(res[r]) - 1
  OBVIOUS
<1>6. m \in Int /\ 1 \in Int /\ \A i \in 1..m : res[r][i] \in Frames
  BY <1>1, <1>2, <1>5, ElementOfSeq
<1>7. /\ SubSeq(res[r], 1, m) \in Seq(Frames)
      /\ Len(SubSeq(res[r], 1, m)) = IF 1 <= m THEN m - 1 + 1 ELSE 0
      /\ \A i \in 1..m - 1 + 1 : SubSeq(res[r], 1, m)[i] = res[r][1 + i - 1]
  BY <1>6, SubSeqProperties
<1>8. \A i \in 1..m : i \in 1..m - 1 + 1 /\ res[r][1 + i - 1] = res[r][i]
  BY <1>6
<1>9. Len(SubSeq(res[r], 1, m)) = m
  BY <1>2, <1>5, <1>6, <1>7
<1> QED BY <1>2, <1>3, <1>4, <1>5, <1>7, <1>8, <1>9 DEF Pop

\* A step that changes the innermost call of a resolver to f.
LEMMA TopBecomes ==
  ASSUME TypeOK, NEW r \in Nodes, res[r] # <<>>, NEW f \in Frames, res' = SetTop(r, f)
  PROVE  /\ res' \in [Nodes -> Seq(Frames)]
         /\ f \in Calls' /\ Calls' \subseteq Calls \cup {f}
         /\ Calls \ {Top(r)} \subseteq Calls'
<1>1. /\ Len(res[r]) \in Nat \ {0} /\ DOMAIN res[r] = 1..Len(res[r])
      /\ Pop(r) \in Seq(Frames) /\ Len(Pop(r)) = Len(res[r]) - 1
      /\ \A i \in 1..Len(res[r]) - 1 : Pop(r)[i] = res[r][i]
  BY TopAndPop
<1>2. PICK s, n : s = Append(Pop(r), f) /\ n = Len(res[r])
  OBVIOUS
<1>3. s \in Seq(Frames) /\ Len(s) = n /\ s[n] = f /\ \A i \in 1..n - 1 : s[i] = res[r][i]
  BY <1>1, <1>2, AppendProperties
<1>4. res' = [res EXCEPT ![r] = s] /\ res'[r] = s
  BY <1>2 DEF SetTop, TypeOK
<1>5. res' \in [Nodes -> Seq(Frames)] /\ \A x \in Nodes \ {r} : res'[x] = res[x]
  BY <1>3, <1>4 DEF TypeOK
<1>6. DOMAIN s = 1..n
  BY <1>3, LenProperties
<1>7. ASSUME NEW g, g \in Calls', g # f PROVE g \in Calls
  <2>1. PICK x \in Nodes : \E i \in DOMAIN res'[x] : g = res'[x][i]
    BY <1>7 DEF Calls
  <2>2. CASE x = r
    <3>1. PICK i \in 1..n : g = s[i]
      BY <1>4, <1>6, <2>1, <2>2
    <3>2. i \in 1..n - 1
      BY <1>1, <1>2, <1>3, <1>7, <3>1
    <3> QED BY <1>1, <1>2, <1>3, <3>1, <3>2, InCalls
  <2>3. CASE x # r
    BY <1>5, <2>1, <2>3, InCalls
  <2> QED BY <2>2, <2>3
<1>8. ASSUME NEW g, g \in Calls, g # Top(r) PROVE g \in Calls'
  <2>1. PICK x \in Nodes : \E i \in DOMAIN res[x] : g = res[x][i]
    BY <1>8, InCalls
  <2>2. CASE x = r
    <3>1. PICK i \in 1..n : g = res[r][i]
      BY <1>1, <1>2, <2>1, <2>2
    <3>2. i \in 1..n - 1
      BY <1>1, <1>2, <1>8, <3>1 DEF Top
    <3> QED BY <1>3, <1>4, <1>6, <3>1, <3>2 DEF Calls
  <2>3. CASE x # r
    BY <1>5, <2>1, <2>3 DEF Calls
  <2> QED BY <2>2, <2>3
<1>9. f \in Calls'
  BY <1>1, <1>2, <1>3, <1>4, <1>6 DEF Calls
<1> QED BY <1>5, <1>7, <1>8, <1>9

\* A step that also makes a call.
LEMMA TopCalls ==
  ASSUME TypeOK, NEW r \in Nodes, res[r] # <<>>, NEW f \in Frames, NEW g \in Frames,
         res' = [SetTop(r, f) EXCEPT ![r] = Append(@, g)]
  PROVE  /\ res' \in [Nodes -> Seq(Frames)]
         /\ f \in Calls' /\ g \in Calls' /\ Calls' \subseteq Calls \cup {f, g}
         /\ Calls \ {Top(r)} \subseteq Calls'
<1>1. /\ Len(res[r]) \in Nat \ {0} /\ DOMAIN res[r] = 1..Len(res[r])
      /\ Pop(r) \in Seq(Frames) /\ Len(Pop(r)) = Len(res[r]) - 1
      /\ \A i \in 1..Len(res[r]) - 1 : Pop(r)[i] = res[r][i]
  BY TopAndPop
<1>2. PICK q, s, n : q = Append(Pop(r), f) /\ s = Append(q, g) /\ n = Len(res[r])
  OBVIOUS
<1>3. q \in Seq(Frames) /\ Len(q) = n /\ q[n] = f /\ \A i \in 1..n - 1 : q[i] = res[r][i]
  BY <1>1, <1>2, AppendProperties
<1>4. s \in Seq(Frames) /\ Len(s) = n + 1 /\ s[n + 1] = g /\ \A i \in 1..n : s[i] = q[i]
  BY <1>2, <1>3, AppendProperties
<1>5. s[n] = f /\ \A i \in 1..n - 1 : s[i] = res[r][i]
  BY <1>1, <1>2, <1>3, <1>4
<1>6. res' = [res EXCEPT ![r] = s] /\ res'[r] = s
  <2>1. SetTop(r, f) = [res EXCEPT ![r] = q]
    BY <1>2 DEF SetTop
  <2> QED BY <1>2, <2>1 DEF TypeOK
<1>7. res' \in [Nodes -> Seq(Frames)] /\ \A x \in Nodes \ {r} : res'[x] = res[x]
  BY <1>4, <1>6 DEF TypeOK
<1>8. DOMAIN s = 1..n + 1
  BY <1>4, LenProperties
<1>9. ASSUME NEW h, h \in Calls', h # f, h # g PROVE h \in Calls
  <2>1. PICK x \in Nodes : \E i \in DOMAIN res'[x] : h = res'[x][i]
    BY <1>9 DEF Calls
  <2>2. CASE x = r
    <3>1. PICK i \in 1..n + 1 : h = s[i]
      BY <1>6, <1>8, <2>1, <2>2
    <3>2. i \in 1..n - 1
      BY <1>1, <1>2, <1>4, <1>5, <1>9, <3>1
    <3> QED BY <1>1, <1>2, <1>5, <3>1, <3>2, InCalls
  <2>3. CASE x # r
    BY <1>7, <2>1, <2>3, InCalls
  <2> QED BY <2>2, <2>3
<1>10. ASSUME NEW h, h \in Calls, h # Top(r) PROVE h \in Calls'
  <2>1. PICK x \in Nodes : \E i \in DOMAIN res[x] : h = res[x][i]
    BY <1>10, InCalls
  <2>2. CASE x = r
    <3>1. PICK i \in 1..n : h = res[r][i]
      BY <1>1, <1>2, <2>1, <2>2
    <3>2. i \in 1..n - 1
      BY <1>1, <1>2, <1>10, <3>1 DEF Top
    <3>3. h = s[i] /\ i \in DOMAIN s
      BY <1>1, <1>2, <1>5, <1>8, <3>1, <3>2
    <3> QED BY <1>6, <3>3 DEF Calls
  <2>3. CASE x # r
    BY <1>7, <2>1, <2>3 DEF Calls
  <2> QED BY <2>2, <2>3
<1>11. f \in Calls' /\ g \in Calls'
  <2>1. n \in DOMAIN s /\ n + 1 \in DOMAIN s
    BY <1>1, <1>2, <1>8
  <2>2. \A i \in DOMAIN s : s[i] \in Calls'
    BY <1>6 DEF Calls
  <2>3. s[n] = f /\ s[n + 1] = g
    BY <1>4, <1>5
  <2> QED BY <2>1, <2>2, <2>3
<1> QED BY <1>7, <1>9, <1>10, <1>11

\* A step that returns from the innermost call.
LEMMA TopReturns ==
  ASSUME TypeOK, NEW r \in Nodes, res[r] # <<>>, res' = [res EXCEPT ![r] = Pop(r)]
  PROVE  /\ res' \in [Nodes -> Seq(Frames)]
         /\ Calls' \subseteq Calls /\ Calls \ {Top(r)} \subseteq Calls'
<1>1. PICK s, n : s = Pop(r) /\ n = Len(res[r])
  OBVIOUS
<1>2. /\ n \in Nat \ {0} /\ DOMAIN res[r] = 1..n /\ s \in Seq(Frames) /\ Len(s) = n - 1
      /\ \A i \in 1..n - 1 : s[i] = res[r][i]
  BY <1>1, TopAndPop
<1>3. DOMAIN s = 1..n - 1 /\ res'[r] = s
  BY <1>1, <1>2, LenProperties DEF TypeOK
<1>4. res' \in [Nodes -> Seq(Frames)] /\ \A x \in Nodes \ {r} : res'[x] = res[x]
  BY <1>1, <1>2 DEF TypeOK
<1>5. ASSUME NEW h, h \in Calls' PROVE h \in Calls
  <2>1. PICK x \in Nodes : \E i \in DOMAIN res'[x] : h = res'[x][i]
    BY <1>5 DEF Calls
  <2>2. CASE x = r
    BY <1>2, <1>3, <2>1, <2>2, InCalls
  <2>3. CASE x # r
    BY <1>4, <2>1, <2>3, InCalls
  <2> QED BY <2>2, <2>3
<1>6. ASSUME NEW h, h \in Calls, h # Top(r) PROVE h \in Calls'
  <2>1. PICK x \in Nodes : \E i \in DOMAIN res[x] : h = res[x][i]
    BY <1>6, InCalls
  <2>2. CASE x = r
    <3>1. PICK i \in 1..n : h = res[r][i]
      BY <1>2, <2>1, <2>2
    <3>2. i \in 1..n - 1
      BY <1>1, <1>2, <1>6, <3>1 DEF Top
    <3> QED BY <1>2, <1>3, <3>1, <3>2 DEF Calls
  <2>3. CASE x # r
    BY <1>4, <2>1, <2>3 DEF Calls
  <2> QED BY <2>2, <2>3
<1> QED BY <1>4, <1>5, <1>6

\* The end of a node makes the outermost call; a crash loses a whole stack.
LEMMA StackStarts ==
  ASSUME TypeOK, NEW n \in Nodes, res[n] = <<>>, NEW f \in Frames,
         res' = [res EXCEPT ![n] = <<f>>]
  PROVE  res' \in [Nodes -> Seq(Frames)] /\ Calls' = Calls \cup {f}
<1>1. /\ res'[n] = <<f>> /\ \A x \in Nodes \ {n} : res'[x] = res[x]
      /\ res' \in [Nodes -> Seq(Frames)]
  BY DEF TypeOK
<1>2. DOMAIN res[n] = {} /\ DOMAIN res'[n] = {1} /\ res'[n][1] = f
  BY <1>1
<1>3. ASSUME NEW h PROVE h \in Calls' <=> h \in Calls \/ h = f
  <2>1. h \in Calls' <=> \E r \in Nodes : \E i \in DOMAIN res'[r] : h = res'[r][i]
    BY DEF Calls
  <2> QED BY <1>1, <1>2, <2>1, InCalls
<1> QED BY <1>1, <1>3

\* A crash loses the calls of one resolver.
LEMMA StackIsLost ==
  ASSUME TypeOK, NEW n \in Nodes, res' = [res EXCEPT ![n] = <<>>]
  PROVE  /\ res' \in [Nodes -> Seq(Frames)] /\ Calls' \subseteq Calls
         /\ \A f \in Calls \ Calls' : f.node \in {res[n][i].node : i \in DOMAIN res[n]}
<1>1. /\ res'[n] = <<>> /\ \A x \in Nodes \ {n} : res'[x] = res[x]
      /\ res' \in [Nodes -> Seq(Frames)]
  BY DEF TypeOK
<1>2. DOMAIN res'[n] = {}
  BY <1>1
<1>3. ASSUME NEW h
      PROVE  h \in Calls' <=> \E r \in Nodes \ {n} : \E i \in DOMAIN res[r] : h = res[r][i]
  <2>1. h \in Calls' <=> \E r \in Nodes : \E i \in DOMAIN res'[r] : h = res'[r][i]
    BY DEF Calls
  <2> QED BY <1>1, <1>2, <2>1
<1> QED BY <1>1, <1>3, InCalls
-----------------------------------------------------------------------------
(* A fan-in is not lost                                                    *)

\* What the states of the upstream jobs decide.
Decided(d) ==
  \/ \A u \in Upstream(d) : state[u] = "COMPLETED"
  \/ /\ \E u \in Upstream(d) : state[u] \in Failed
     /\ policy[d] # "continue" \/ \A u \in Upstream(d) : state[u] \in Ended

\* The verdict is one of four states, and BLOCKED if nothing is decided.
LEMMA VerdictDecides ==
  ASSUME TypeOK, NEW d \in Nodes
  PROVE  /\ Verdict(d) \in {"open", "BLOCKED", "SKIPPED", "CANCELLED"}
         /\ Verdict(d) # "BLOCKED" <=> Decided(d)
<1>1. PICK ups : ups = {state[u] : u \in Upstream(d)}
  OBVIOUS
<1>2. policy[d] \in Policies
  BY DEF TypeOK
<1>3. /\ ups \cap Failed # {} <=> \E u \in Upstream(d) : state[u] \in Failed
      /\ ups \subseteq Ended <=> \A u \in Upstream(d) : state[u] \in Ended
      /\ ups \subseteq {"COMPLETED"} <=> \A u \in Upstream(d) : state[u] = "COMPLETED"
  BY <1>1
<1>4. CASE ups \cap Failed # {}
  <2>1. Verdict(d) = CASE policy[d] = "continue" -> IF ups \subseteq Ended THEN "open" ELSE "BLOCKED"
                       [] policy[d] = "skip"     -> "SKIPPED"
                       [] policy[d] = "fail"     -> "CANCELLED"
    BY <1>1, <1>4 DEF Verdict
  <2>2. ~(ups \subseteq {"COMPLETED"})
    BY <1>4 DEF Failed
  <2>3. CASE policy[d] = "continue"
    BY <1>3, <1>4, <2>1, <2>2, <2>3 DEF Decided
  <2>4. CASE policy[d] = "skip"
    BY <1>3, <1>4, <2>1, <2>2, <2>4 DEF Decided
  <2>5. CASE policy[d] = "fail"
    BY <1>3, <1>4, <2>1, <2>2, <2>5 DEF Decided
  <2> QED BY <1>2, <2>3, <2>4, <2>5 DEF Policies
<1>5. CASE ups \cap Failed = {}
  <2>1. Verdict(d) = IF ups \subseteq {"COMPLETED"} THEN "open" ELSE "BLOCKED"
    BY <1>1, <1>5 DEF Verdict
  <2> QED BY <1>3, <1>5, <2>1 DEF Decided
<1> QED BY <1>4, <1>5

\* The same of the next state.
LEMMA VerdictWillDecide ==
  (\A d \in Nodes : TypeOK => (Verdict(d) # "BLOCKED" <=> Decided(d)))'
<1>1. \A d \in Nodes : TypeOK => (Verdict(d) # "BLOCKED" <=> Decided(d))
  BY VerdictDecides
<1> QED BY <1>1, PTL

\* The upstream jobs of d do not end unless somebody is going to tell d, and
\* who was going to do so still is.
Told(d) ==
  \A u \in Upstream(d) :
    /\ \/ state'[u] = state[u] \/ state'[u] \in {"open", "BLOCKED"}
       \/ state'[u] \in Ended /\ Pending(u, d)'
    /\ Pending(u, d) => Pending(u, d)'

\* A step after which every dependent that waits is still told keeps the fan-in.
LEMMA FanKeeps ==
  ASSUME TypeOK, TypeOK', edges' = edges, policy' = policy, NEW d \in Nodes, FanIn(d),
         state'[d] = state[d] \/ state'[d] \notin {"absent", "BLOCKED"}
           \/ (state'[d] = "BLOCKED" /\ state[d] = "absent" /\ Upstream(d) # {}),
         state[d] \in {"absent", "BLOCKED"} => Told(d)
  PROVE  FanIn(d)'
<1>1. Upstream(d)' = Upstream(d)
  BY DEF Upstream
<1>2. state'[d] = "BLOCKED" => Upstream(d)' # {}
  BY <1>1 DEF FanIn
<1>3. ASSUME state'[d] \in {"absent", "BLOCKED"}, Upstream(d) # {}, Verdict(d)' # "BLOCKED"
      PROVE  \E u \in Upstream(d) : Pending(u, d)'
  <2>1. Told(d) /\ state[d] \in {"absent", "BLOCKED"}
    BY <1>3
  <2>2. Decided(d)'
    BY <1>3, VerdictWillDecide
  <2>3. CASE \E u \in Upstream(d) : state'[u] # state[u] /\ state'[u] \in Ended
    BY <2>1, <2>3 DEF Told, Ended, Failed
  <2>4. CASE \A u \in Upstream(d) : state'[u] \in Ended => state'[u] = state[u]
    <3>1. Decided(d)
      BY <1>1, <2>2, <2>4 DEF Decided, Ended
    <3>2. Verdict(d) # "BLOCKED"
      BY <3>1, VerdictDecides
    <3> QED BY <1>3, <2>1, <3>2 DEF FanIn, Told
  <2> QED BY <2>3, <2>4
<1> QED BY <1>1, <1>2, <1>3 DEF FanIn
-----------------------------------------------------------------------------
(* The steps                                                               *)

\* What a call looks like when it is made.
LEMMA NewCall ==
  ASSUME NEW n \in Nodes
  PROVE  /\ Call(n) \in Frames /\ Call(n).node = n /\ Call(n).pc = "start"
         /\ Call(n).todo = {} /\ Call(n).dep = None
  BY DEF Call, Frames

\* A pending visit stays pending if its call stays or has one in its place.
LEMMA PendingKept ==
  ASSUME NEW u, NEW d, unresolved \subseteq unresolved',
         \A f \in Calls : Looks(f, u, d) =>
           u \in unresolved' \/ \E g \in Calls' : Looks(g, u, d)
  PROVE  Pending(u, d) => Pending(u, d)'
  BY DEF Pending, Looks

\* A job is created open or blocked, whatever its upstream jobs did meanwhile.
LEMMA CreateKeeps ==
  ASSUME Inv, NEW n \in Nodes, CreateNode(n)
  PROVE  Inv'
<1>1. /\ TypeOK /\ state[n] = "absent"
      /\ state' = [state EXCEPT ![n] = IF Upstream(n) = {} THEN "open" ELSE "BLOCKED"]
      /\ UNCHANGED <<edges, policy, linked, wf, res, retries, unresolved, reopened>>
  BY DEF Inv, CreateNode
<1>2. TypeOK'
  BY <1>1 DEF TypeOK
<1>3. Calls' = Calls /\ ~linked
  BY <1>1 DEF Calls, Inv, LinkInv
<1>4. CallsInv' /\ LinkInv'
  BY <1>1, <1>3 DEF Inv, CallsInv, LinkInv
<1>5. ASSUME NEW d \in Nodes PROVE FanIn(d)'
  <2>1. Told(d)
    BY <1>1, <1>3 DEF Told, Pending, Looks, TypeOK, Upstream
  <2>2. \/ state'[d] = state[d] \/ state'[d] \notin {"absent", "BLOCKED"}
        \/ (state'[d] = "BLOCKED" /\ state[d] = "absent" /\ Upstream(d) # {})
    BY <1>1 DEF TypeOK
  <2> QED BY <1>1, <1>2, <2>1, <2>2, FanKeeps DEF Inv
<1> QED BY <1>2, <1>4, <1>5 DEF Inv

\* The links change what later calls read, and no job.
LEMMA LinkKeeps ==
  ASSUME Inv, Link
  PROVE  Inv'
<1>1. /\ TypeOK /\ linked' = TRUE /\ \A n \in Nodes : state[n] # "absent"
      /\ UNCHANGED <<edges, policy, state, wf, res, retries, unresolved, reopened>>
  BY DEF Inv, Link
<1>2. TypeOK' /\ Calls' = Calls
  BY <1>1 DEF TypeOK, Calls
<1>3. CallsInv' /\ LinkInv'
  BY <1>1, <1>2 DEF Inv, CallsInv, LinkInv
<1>4. ASSUME NEW d \in Nodes PROVE FanIn(d)'
  <2>1. Told(d)
    BY <1>1, <1>2 DEF Told, Pending, Looks
  <2> QED BY <1>1, <1>2, <2>1, FanKeeps DEF Inv
<1> QED BY <1>2, <1>3, <1>4 DEF Inv

\* Who ends a job is going to tell its dependents.
LEMMA EndKeeps ==
  ASSUME Inv, NEW n \in Nodes, End(n)
  PROVE  Inv'
<1>1. /\ TypeOK /\ res[n] = <<>> /\ res' = [res EXCEPT ![n] = <<Call(n)>>]
      /\ UNCHANGED <<edges, policy, linked, wf, retries, unresolved, reopened>>
  BY DEF Inv, End
<1>2. PICK st \in {"COMPLETED", "FAILED", "CANCELLED"} : state' = [state EXCEPT ![n] = st]
  BY DEF End
<1>3. res' \in [Nodes -> Seq(Frames)] /\ Calls' = Calls \cup {Call(n)}
  BY <1>1, NewCall, StackStarts
<1>4. /\ state'[n] = st /\ \A m \in Nodes \ {n} : state'[m] = state[m]
      /\ state' \in [Nodes -> {"absent", "BLOCKED", "open"} \cup Ended]
  BY <1>1, <1>2 DEF TypeOK, Ended, Failed
<1>5. TypeOK'
  BY <1>1, <1>3, <1>4 DEF TypeOK
<1>6. CallsInv' /\ LinkInv'
  BY <1>1, <1>3, <1>4, NewCall DEF Inv, CallsInv, LinkInv
<1>7. ASSUME NEW d \in Nodes PROVE FanIn(d)'
  <2>1. ASSUME NEW u \in Upstream(d) PROVE Pending(u, d) => Pending(u, d)'
    BY <1>1, <1>3 DEF Pending, Looks
  <2>2. Pending(n, d)'
    BY <1>3, NewCall DEF Pending, Looks
  <2>3. Told(d)
    BY <1>2, <1>4, <2>1, <2>2 DEF Told, Upstream, Ended, Failed
  <2> QED BY <1>1, <1>2, <1>4, <1>5, <2>3, FanKeeps DEF Inv
<1> QED BY <1>5, <1>6, <1>7 DEF Inv

\* A cancelled start is an end that is known to be lost.
LEMMA CancelKeeps ==
  ASSUME Inv, NEW n \in Nodes, CancelBeforeStart(n)
  PROVE  Inv'
<1>1. /\ TypeOK /\ state' = [state EXCEPT ![n] = "CANCELLED"]
      /\ unresolved' = unresolved \cup {n}
      /\ UNCHANGED <<edges, policy, linked, wf, res, retries, reopened>>
  BY DEF Inv, CancelBeforeStart
<1>2. TypeOK' /\ Calls' = Calls
  BY <1>1 DEF TypeOK, Ended, Failed, Calls
<1>3. CallsInv' /\ LinkInv'
  BY <1>1, <1>2 DEF Inv, CallsInv, LinkInv, TypeOK
<1>4. ASSUME NEW d \in Nodes PROVE FanIn(d)'
  <2>1. Told(d)
    BY <1>1, <1>2 DEF Told, Pending, Looks, TypeOK, Upstream, Ended, Failed
  <2>2. state'[d] = state[d] \/ state'[d] \notin {"absent", "BLOCKED"}
    BY <1>1 DEF TypeOK
  <2> QED BY <1>1, <1>2, <2>1, <2>2, FanKeeps DEF Inv
<1> QED BY <1>2, <1>3, <1>4 DEF Inv

\* A job that is retried decides nothing.
LEMMA RetryKeeps ==
  ASSUME Inv, NEW n \in Nodes, Retry(n)
  PROVE  Inv'
<1>1. /\ TypeOK /\ state' = [state EXCEPT ![n] = "open"] /\ reopened' = TRUE
      /\ retries < MaxRetries /\ retries' = retries + 1
      /\ UNCHANGED <<edges, policy, linked, wf, res, unresolved>>
  BY DEF Inv, Retry
<1>2. TypeOK' /\ Calls' = Calls
  BY <1>1, NodeAssumption DEF TypeOK, Calls
<1>3. CallsInv' /\ LinkInv'
  BY <1>1, <1>2 DEF Inv, CallsInv, LinkInv, TypeOK
<1>4. ASSUME NEW d \in Nodes PROVE FanIn(d)'
  <2>1. Told(d)
    BY <1>1, <1>2 DEF Told, Pending, Looks, TypeOK, Upstream
  <2>2. state'[d] = state[d] \/ state'[d] \notin {"absent", "BLOCKED"}
    BY <1>1 DEF TypeOK
  <2> QED BY <1>1, <1>2, <2>1, <2>2, FanKeeps DEF Inv
<1> QED BY <1>2, <1>3, <1>4 DEF Inv

\* A crash loses calls, and their nodes are known to be lost.
LEMMA CrashKeeps ==
  ASSUME Inv, NEW n \in Nodes, Crash(n)
  PROVE  Inv'
<1>1. PICK lost : lost = {res[n][i].node : i \in DOMAIN res[n]}
  OBVIOUS
<1>2. /\ TypeOK /\ unresolved' = unresolved \cup lost /\ res' = [res EXCEPT ![n] = <<>>]
      /\ UNCHANGED <<edges, policy, state, linked, wf, retries, reopened>>
  BY <1>1 DEF Inv, Crash
<1>3. /\ res' \in [Nodes -> Seq(Frames)] /\ Calls' \subseteq Calls
      /\ \A f \in Calls \ Calls' : f.node \in lost
  BY <1>1, <1>2, StackIsLost
<1>4. lost \subseteq Nodes
  <2>1. res[n] \in Seq(Frames)
    BY <1>2 DEF TypeOK
  <2>2. ASSUME NEW i \in DOMAIN res[n] PROVE res[n][i].node \in Nodes
    <3>1. res[n][i] \in Frames
      BY <2>1, LenProperties, ElementOfSeq
    <3> QED BY <3>1 DEF Frames
  <2> QED BY <1>1, <2>2
<1>5. TypeOK'
  BY <1>2, <1>3, <1>4 DEF TypeOK
<1>6. CallsInv' /\ LinkInv'
  BY <1>2, <1>3 DEF Inv, CallsInv, LinkInv
<1>7. ASSUME NEW d \in Nodes PROVE FanIn(d)'
  <2>1. ASSUME NEW u \in Upstream(d) PROVE Pending(u, d) => Pending(u, d)'
    BY <1>2, <1>3, PendingKept DEF Looks
  <2>2. Told(d)
    BY <1>2, <2>1 DEF Told
  <2> QED BY <1>2, <1>5, <2>2, FanKeeps DEF Inv
<1> QED BY <1>5, <1>6, <1>7 DEF Inv

\* A resolver goes on, and loses no visit that is still to be made.
LEMMA TopKeeps ==
  ASSUME Inv, NEW r \in Nodes, res[r] # <<>>, NEW f \in Frames, res' = SetTop(r, f),
         UNCHANGED <<edges, policy, state, linked, wf, retries, reopened>>,
         unresolved \subseteq unresolved', unresolved' \subseteq Nodes,
         f.pc # "visit" \/ ~linked => f.todo = {} /\ f.dep = None,
         \A d \in Nodes : \A u \in Upstream(d) :
           state[d] \in {"absent", "BLOCKED"} /\ Looks(Top(r), u, d) =>
             u \in unresolved' \/ Looks(f, u, d)
  PROVE  Inv'
<1>1. TypeOK
  BY DEF Inv
<1>2. /\ res' \in [Nodes -> Seq(Frames)]
      /\ f \in Calls' /\ Calls' \subseteq Calls \cup {f}
      /\ Calls \ {Top(r)} \subseteq Calls'
  BY <1>1, TopBecomes
<1>3. TypeOK'
  BY <1>1, <1>2 DEF TypeOK
<1>4. CallsInv' /\ LinkInv'
  BY <1>2 DEF Inv, CallsInv, LinkInv
<1>5. ASSUME NEW d \in Nodes PROVE FanIn(d)'
  <2>1. ASSUME NEW u \in Upstream(d), state[d] \in {"absent", "BLOCKED"}
        PROVE  Pending(u, d) => Pending(u, d)'
    BY <1>2, <2>1, PendingKept
  <2>2. state[d] \in {"absent", "BLOCKED"} => Told(d)
    BY <2>1 DEF Told
  <2> QED BY <1>1, <1>3, <2>2, FanKeeps DEF Inv
<1> QED BY <1>3, <1>4, <1>5 DEF Inv

\* A call reads all dependents, or is known to have missed them.
LEMMA ReadDependentsKeeps ==
  ASSUME Inv, NEW r \in Nodes, ReadDependents(r)
  PROVE  Inv'
<1>1. /\ TypeOK /\ res[r] # <<>> /\ Top(r).pc = "start"
      /\ unresolved' = IF linked THEN unresolved ELSE unresolved \cup {Top(r).node}
      /\ UNCHANGED <<edges, policy, state, linked, wf, retries, reopened>>
  BY DEF Inv, ReadDependents
<1>2. Top(r) \in Frames /\ Top(r) \in Calls
  BY <1>1, TopAndPop
<1>3. PICK todo : todo = IF linked THEN Dependents(Top(r).node) ELSE {}
  OBVIOUS
<1>4. PICK f : f = [Top(r) EXCEPT !.pc = "visit", !.todo = todo]
  OBVIOUS
<1>5. todo \subseteq Nodes /\ f \in Frames /\ f.node = Top(r).node /\ f.pc = "visit"
      /\ f.todo = todo /\ f.dep = Top(r).dep
  BY <1>2, <1>3, <1>4 DEF Frames, Dependents
<1>6. res' = SetTop(r, f)
  BY <1>3, <1>4 DEF ReadDependents
<1>7. Top(r).dep = None
  BY <1>1, <1>2 DEF Inv, CallsInv
<1>8. unresolved \subseteq unresolved' /\ unresolved' \subseteq Nodes
  BY <1>1, <1>2 DEF TypeOK, Frames
<1>9. ASSUME NEW d \in Nodes, NEW u \in Upstream(d), Looks(Top(r), u, d)
      PROVE  u \in unresolved' \/ Looks(f, u, d)
  BY <1>1, <1>3, <1>5, <1>9 DEF Looks, Upstream, Dependents
<1>10. f.pc # "visit" \/ ~linked => f.todo = {} /\ f.dep = None
  BY <1>3, <1>5, <1>7
<1> QED BY <1>1, <1>5, <1>6, <1>8, <1>9, <1>10, TopKeeps

\* A blocked dependent is looked at further, any other need not be.
LEMMA ReadDependentKeeps ==
  ASSUME Inv, NEW r \in Nodes, NEW x \in Nodes, ReadDependent(r, x)
  PROVE  Inv'
<1>1. /\ TypeOK /\ res[r] # <<>> /\ Top(r).pc = "visit" /\ Top(r).dep = None /\ x \in Top(r).todo
      /\ UNCHANGED <<edges, policy, state, linked, wf, retries, unresolved, reopened>>
  BY DEF Inv, ReadDependent
<1>2. Top(r) \in Frames /\ Top(r) \in Calls
  BY <1>1, TopAndPop
<1>3. PICK dep : dep = IF state[x] = "BLOCKED" THEN x ELSE None
  OBVIOUS
<1>4. PICK f : f = [Top(r) EXCEPT !.todo = @ \ {x}, !.dep = dep]
  OBVIOUS
<1>5. /\ f \in Frames /\ f.node = Top(r).node /\ f.pc = "visit"
      /\ f.todo = Top(r).todo \ {x} /\ f.dep = dep
  BY <1>1, <1>2, <1>3, <1>4 DEF Frames
<1>6. res' = SetTop(r, f)
  BY <1>3, <1>4 DEF ReadDependent
<1>7. linked
  BY <1>1, <1>2 DEF Inv, CallsInv
<1>8. ASSUME NEW d \in Nodes, NEW u \in Upstream(d), Looks(Top(r), u, d),
             state[d] \in {"absent", "BLOCKED"}
      PROVE  Looks(f, u, d)
  <2>1. state[d] = "BLOCKED" /\ d # None
    BY <1>7, <1>8, NodeAssumption DEF Inv, LinkInv
  <2> QED BY <1>1, <1>3, <1>5, <1>8, <2>1 DEF Looks
<1>9. unresolved \subseteq unresolved' /\ unresolved' \subseteq Nodes
  BY <1>1 DEF TypeOK
<1> QED BY <1>1, <1>5, <1>6, <1>7, <1>8, <1>9, TopKeeps

\* The tally is a state of a workflow.
LEMMA TallyType == Tally \in WorkflowStates
  BY DEF Tally, WorkflowStates

\* A call that turns to the workflow row has visited everybody.
LEMMA ReadWorkflowKeeps ==
  ASSUME Inv, NEW r \in Nodes, ReadWorkflow(r)
  PROVE  Inv'
<1>1. /\ TypeOK /\ res[r] # <<>> /\ Top(r).pc = "visit" /\ Top(r).dep = None /\ Top(r).todo = {}
      /\ UNCHANGED <<edges, policy, state, linked, wf, retries, unresolved, reopened>>
  BY DEF Inv, ReadWorkflow
<1>2. Top(r) \in Frames
  BY <1>1, TopAndPop
<1>3. PICK seen : seen = IF Tally = wf THEN None ELSE Tally
  OBVIOUS
<1>4. PICK f : f = [Top(r) EXCEPT !.pc = "update", !.seen = seen]
  OBVIOUS
<1>5. seen \in WorkflowStates \cup {None}
  BY <1>3, TallyType
<1>6. f \in Frames /\ f.todo = {} /\ f.dep = None
  BY <1>1, <1>2, <1>4, <1>5 DEF Frames
<1>7. res' = SetTop(r, f)
  BY <1>3, <1>4 DEF ReadWorkflow
<1>8. ASSUME NEW d \in Nodes, NEW u \in Upstream(d) PROVE ~Looks(Top(r), u, d)
  BY <1>1, NodeAssumption DEF Looks
<1>9. unresolved \subseteq unresolved' /\ unresolved' \subseteq Nodes
  BY <1>1 DEF TypeOK
<1> QED BY <1>1, <1>6, <1>7, <1>8, <1>9, TopKeeps

\* A call that returns has no visit left to make.
LEMMA CommitKeeps ==
  ASSUME Inv, NEW r \in Nodes, CommitWorkflow(r)
  PROVE  Inv'
<1>1. /\ TypeOK /\ res[r] # <<>> /\ Top(r).pc = "update" /\ res' = [res EXCEPT ![r] = Pop(r)]
      /\ wf' \in {wf, Top(r).seen} /\ (Top(r).seen = None => wf' = wf)
      /\ UNCHANGED <<edges, policy, state, linked, retries, unresolved, reopened>>
  BY DEF Inv, CommitWorkflow
<1>2. Top(r) \in Frames /\ Top(r) \in Calls
  BY <1>1, TopAndPop
<1>3. /\ res' \in [Nodes -> Seq(Frames)]
      /\ Calls' \subseteq Calls /\ Calls \ {Top(r)} \subseteq Calls'
  BY <1>1, TopReturns
<1>4. wf' \in WorkflowStates
  BY <1>1, <1>2 DEF TypeOK, Frames
<1>5. TypeOK'
  BY <1>1, <1>3, <1>4 DEF TypeOK
<1>6. CallsInv' /\ LinkInv'
  BY <1>1, <1>3 DEF Inv, CallsInv, LinkInv
<1>7. ASSUME NEW d \in Nodes PROVE FanIn(d)'
  <2>1. \A u : ~Looks(Top(r), u, d)
    BY <1>1, <1>2, NodeAssumption DEF Inv, CallsInv, Looks
  <2>2. ASSUME NEW u \in Upstream(d) PROVE Pending(u, d) => Pending(u, d)'
    BY <1>1, <1>3, <2>1, PendingKept
  <2>3. Told(d)
    BY <1>1, <2>2 DEF Told
  <2> QED BY <1>1, <1>5, <2>3, FanKeeps DEF Inv
<1> QED BY <1>5, <1>6, <1>7 DEF Inv

\* What Resolve does: the write, the visit that is over, and the call for a
\* dependent that has ended by it.
ResolveEffect(r) ==
  \E d \in Nodes : \E f \in Frames :
    /\ res[r] # <<>> /\ Top(r).pc = "visit" /\ d = Top(r).dep /\ linked
    /\ f.node = Top(r).node /\ f.pc = "visit" /\ f.todo = Top(r).todo /\ f.dep = None
    /\ f.seen = Top(r).seen
    /\ state' = IF Verdict(d) = "BLOCKED" THEN state ELSE [state EXCEPT ![d] = Verdict(d)]
    /\ res' \in [Nodes -> Seq(Frames)]
    /\ f \in Calls' /\ Calls \ {Top(r)} \subseteq Calls'
    /\ IF Verdict(d) \in Failed
       THEN Call(d) \in Calls' /\ Calls' \subseteq Calls \cup {f, Call(d)}
       ELSE Calls' \subseteq Calls \cup {f}
    /\ reopened' = (reopened \/ (state[d] \in Ended /\ state'[d] # state[d]))
    /\ UNCHANGED <<edges, policy, linked, wf, retries, unresolved>>

\* Resolve has that effect.
LEMMA ResolveHasEffect ==
  ASSUME Inv, NEW r \in Nodes, Resolve(r)
  PROVE  ResolveEffect(r)
<1>1. PICK d, v : d = Top(r).dep /\ v = Verdict(d)
  OBVIOUS
<1>2. /\ TypeOK /\ res[r] # <<>> /\ d # None
      /\ state' = IF v = "BLOCKED" THEN state ELSE [state EXCEPT ![d] = v]
      /\ res' = Resolved(r, d, v)
      /\ reopened' = (reopened \/ (state[d] \in Ended /\ state'[d] # state[d]))
      /\ UNCHANGED <<edges, policy, linked, wf, retries, unresolved>>
  BY <1>1 DEF Inv, Resolve
<1>3. Top(r) \in Frames /\ Top(r) \in Calls
  BY <1>2, TopAndPop
<1>4. Top(r).pc = "visit" /\ linked /\ d \in Nodes
  BY <1>1, <1>2, <1>3 DEF Inv, CallsInv, Frames
<1>5. PICK f : f = [Top(r) EXCEPT !.dep = None]
  OBVIOUS
<1>6. /\ f \in Frames /\ f.node = Top(r).node /\ f.pc = "visit" /\ f.todo = Top(r).todo
      /\ f.dep = None /\ f.seen = Top(r).seen
  BY <1>3, <1>4, <1>5 DEF Frames
<1>7. CASE v \in Failed
  <2>1. res' = [SetTop(r, f) EXCEPT ![r] = Append(@, Call(d))]
    BY <1>2, <1>5, <1>7 DEF Resolved
  <2>2. /\ res' \in [Nodes -> Seq(Frames)]
        /\ f \in Calls' /\ Call(d) \in Calls' /\ Calls' \subseteq Calls \cup {f, Call(d)}
        /\ Calls \ {Top(r)} \subseteq Calls'
    <3>1. PICK g \in Frames : g = Call(d)
      BY <1>4, NewCall
    <3>2. res' = [SetTop(r, f) EXCEPT ![r] = Append(@, g)]
      BY <2>1, <3>1
    <3>3. TypeOK /\ res[r] # <<>> /\ f \in Frames
      BY <1>2, <1>6
    <3>4. /\ res' \in [Nodes -> Seq(Frames)]
          /\ f \in Calls' /\ g \in Calls' /\ Calls' \subseteq Calls \cup {f, g}
          /\ Calls \ {Top(r)} \subseteq Calls'
      BY ONLY <3>1, <3>2, <3>3, TopCalls
    <3> QED BY <3>1, <3>4
  <2> QED BY <1>1, <1>2, <1>4, <1>6, <1>7, <2>2 DEF ResolveEffect
<1>8. CASE v \notin Failed
  <2>1. res' = SetTop(r, f)
    BY <1>2, <1>5, <1>8 DEF Resolved
  <2>2. /\ res' \in [Nodes -> Seq(Frames)]
        /\ f \in Calls' /\ Calls' \subseteq Calls \cup {f}
        /\ Calls \ {Top(r)} \subseteq Calls'
    BY <1>2, <1>6, <2>1, TopBecomes
  <2> QED BY <1>1, <1>2, <1>4, <1>6, <1>8, <2>2 DEF ResolveEffect
<1> QED BY <1>7, <1>8

\* A dependent that is resolved need not be told any more, and tells its own.
LEMMA ResolveKeeps ==
  ASSUME Inv, NEW r \in Nodes, Resolve(r)
  PROVE  Inv'
<1>1. PICK x \in Nodes, f \in Frames :
        /\ res[r] # <<>> /\ Top(r).pc = "visit" /\ x = Top(r).dep /\ linked
        /\ f.node = Top(r).node /\ f.pc = "visit" /\ f.todo = Top(r).todo /\ f.dep = None
        /\ state' = IF Verdict(x) = "BLOCKED" THEN state ELSE [state EXCEPT ![x] = Verdict(x)]
        /\ res' \in [Nodes -> Seq(Frames)]
        /\ f \in Calls' /\ Calls \ {Top(r)} \subseteq Calls'
        /\ IF Verdict(x) \in Failed
           THEN Call(x) \in Calls' /\ Calls' \subseteq Calls \cup {f, Call(x)}
           ELSE Calls' \subseteq Calls \cup {f}
        /\ reopened' = (reopened \/ (state[x] \in Ended /\ state'[x] # state[x]))
        /\ UNCHANGED <<edges, policy, linked, wf, retries, unresolved>>
  BY ResolveHasEffect DEF ResolveEffect
<1>2. TypeOK
  BY DEF Inv
<1>3. PICK v : v = Verdict(x)
  OBVIOUS
<1>4. v \in {"open", "BLOCKED", "SKIPPED", "CANCELLED"} /\ (v # "BLOCKED" <=> Decided(x))
  BY <1>2, <1>3, VerdictDecides
<1>5. /\ state' \in [Nodes -> {"absent", "BLOCKED", "open"} \cup Ended]
      /\ \A n \in Nodes \ {x} : state'[n] = state[n]
      /\ v # "BLOCKED" => state'[x] = v
      /\ v = "BLOCKED" => state' = state
  BY <1>1, <1>2, <1>3, <1>4 DEF TypeOK, Ended, Failed
<1>6. reopened' \in BOOLEAN
  BY <1>1, <1>2 DEF TypeOK
<1>7. TypeOK'
  BY <1>1, <1>2, <1>5, <1>6 DEF TypeOK
<1>8. CallsInv'
  BY <1>1, NewCall DEF Inv, CallsInv
<1>9. LinkInv'
  BY <1>1, <1>4, <1>5 DEF Inv, LinkInv
<1>10. ASSUME NEW d \in Nodes PROVE FanIn(d)'
  <2>1. CASE d = x /\ v = "BLOCKED"
    <3>1. ~Decided(d) /\ state' = state
      BY <1>4, <1>5, <2>1
    <3>2. ~Decided(d)' /\ Upstream(d)' = Upstream(d)
      BY <1>1, <3>1 DEF Decided, Upstream
    <3>3. ~(Verdict(d)' # "BLOCKED")
      BY <1>7, <3>2, VerdictWillDecide
    <3> QED BY <3>1, <3>2, <3>3 DEF FanIn, Inv
  <2>2. CASE d = x /\ v # "BLOCKED"
    BY <1>4, <1>5, <2>2 DEF FanIn
  <2>3. CASE d # x
    <3>1. ASSUME NEW u \in Upstream(d) PROVE Pending(u, d) => Pending(u, d)'
      <4>1. Looks(Top(r), u, d) => Looks(f, u, d)
        BY <1>1, <2>3 DEF Looks
      <4> QED BY <1>1, <4>1, PendingKept
    <3>2. v \in Failed => Pending(x, d)'
      BY <1>1, <1>3, NewCall DEF Pending, Looks
    <3>3. Told(d)
      BY <1>4, <1>5, <3>1, <3>2 DEF Told, Upstream, Failed, Ended
    <3> QED BY <1>1, <1>2, <1>5, <1>7, <2>3, <3>3, FanKeeps DEF Inv
  <2> QED BY <2>1, <2>2, <2>3
<1> QED BY <1>7, <1>8, <1>9, <1>10 DEF Inv

\* Before the first job is created nothing is decided.
LEMMA InitInv ==
  ASSUME Init
  PROVE  Inv
<1>1. /\ edges \subseteq Nodes \X Nodes /\ policy \in [Nodes -> Policies]
      /\ state = [n \in Nodes |-> "absent"] /\ res = [n \in Nodes |-> <<>>]
      /\ linked = FALSE /\ wf = "RUNNING" /\ retries = 0 /\ unresolved = {} /\ reopened = FALSE
  BY NodeAssumption DEF Init
<1>2. TypeOK
  <2>1. res \in [Nodes -> Seq(Frames)] /\ 0 \in 0..MaxRetries
    BY <1>1, EmptySeq, NodeAssumption
  <2> QED BY <1>1, <2>1 DEF TypeOK, WorkflowStates
<1>3. Calls = {}
  BY <1>1 DEF Calls
<1>4. CallsInv /\ LinkInv
  BY <1>1, <1>3 DEF CallsInv, LinkInv
<1>5. ASSUME NEW d \in Nodes PROVE FanIn(d)
  <2>1. Upstream(d) # {} => ~Decided(d)
    BY <1>1 DEF Decided, Upstream, Failed
  <2> QED BY <1>1, <1>2, <2>1, VerdictDecides DEF FanIn
<1> QED BY <1>2, <1>4, <1>5 DEF Inv

\* Every step keeps the invariant.
LEMMA StepInv ==
  ASSUME Inv, [Next]_vars
  PROVE  Inv'
<1>1. CASE UNCHANGED vars
  <2>1. TypeOK' /\ Calls' = Calls /\ edges' = edges /\ policy' = policy /\ state' = state
        /\ linked' = linked /\ unresolved' = unresolved
    BY <1>1 DEF vars, Inv, TypeOK, Calls
  <2>2. CallsInv' /\ LinkInv'
    BY <2>1 DEF Inv, CallsInv, LinkInv
  <2>3. ASSUME NEW d \in Nodes PROVE FanIn(d)'
    <3>1. Told(d)
      BY <2>1 DEF Told, Pending, Looks
    <3> QED BY <2>1, <3>1, FanKeeps DEF Inv
  <2> QED BY <2>1, <2>2, <2>3 DEF Inv
<1>2. ASSUME NEW n \in Nodes, CreateNode(n) \/ End(n) \/ CancelBeforeStart(n) \/ Retry(n) \/ Crash(n)
      PROVE  Inv'
  BY <1>2, CreateKeeps, EndKeeps, CancelKeeps, RetryKeeps, CrashKeeps
<1>3. CASE Link
  BY <1>3, LinkKeeps
<1>4. ASSUME NEW r \in Nodes, ResolverStep(r) PROVE Inv'
  BY <1>4, ReadDependentsKeeps, ResolveKeeps, ReadWorkflowKeeps, CommitKeeps, ReadDependentKeeps
     DEF ResolverStep
<1> QED BY <1>1, <1>2, <1>3, <1>4 DEF Next

\* The invariant holds in every reachable state.
LEMMA Invariance == Spec => []Inv
<1>1. Init => Inv
  BY InitInv
<1>2. Inv /\ [Next]_vars => Inv'
  BY StepInv
<1> QED BY <1>1, <1>2, PTL DEF Spec

\* The graph, the jobs, the workflow row and the stacks of resolve_dependents
\* have their types in every reachable state.
THEOREM TypeCorrect == Spec => []TypeOK
<1>1. Inv => TypeOK
  BY DEF Inv
<1> QED BY <1>1, Invariance, PTL

\* A blocked job that the states of its upstream jobs have released, skipped or
\* cancelled is one that a call of resolve_dependents has yet to look at, or the
\* end of one of its upstream jobs was not passed on, of a crash, of a link that
\* was not there yet or of the cancelled branch of start_job.
THEOREM NoneLost == Spec => []NoReleaseIsLost
<1>1. ASSUME Inv PROVE NoReleaseIsLost
  <2> SUFFICES ASSUME NEW d \in Nodes, linked, state[d] = "BLOCKED", Verdict(d) # "BLOCKED"
               PROVE  \E u \in Upstream(d) : u \in unresolved \/ WillVisit(u, d)
    BY DEF NoReleaseIsLost
  <2>1. \E u \in Upstream(d) : Pending(u, d)
    BY <1>1 DEF Inv, FanIn
  <2> QED BY <2>1, VisitsAreCalls DEF Pending
<1> QED BY <1>1, Invariance, PTL
-----------------------------------------------------------------------------
(* The workflow is closed                                                  *)

Done == \A n \in Nodes : state[n] \in Ended

\* A call that has read what the states make of the row, or is going to.
Closes(f) == f.pc \in {"start", "visit"} \/ f.seen = Tally

\* While every end is passed on and final, the row and what the calls have read
\* of the states are true or from the time when the workflow was running; and
\* when the last job has ended somebody is going to close the row.
ClosedInv ==
  unresolved = {} /\ ~reopened =>
    /\ ~linked => wf = "RUNNING" /\ \A f \in Calls : f.pc = "start"
    /\ \A f \in Calls : f.pc = "update" => f.seen = None \/ (f.seen = Tally /\ Tally # "RUNNING")
    /\ wf \in {"RUNNING", Tally}
    /\ Done => wf = Tally \/ \E f \in Calls : Closes(f)

\* Once the rows are linked, the states say RUNNING until the last job has ended.
LEMMA TallyWhenLinked ==
  ASSUME LinkInv, linked
  PROVE  Tally = "RUNNING" <=> ~Done
  BY DEF LinkInv, Tally, Done

\* The tally depends on the states alone.
LEMMA TallyKept ==
  ASSUME \A n \in Nodes : state'[n] = state[n]
  PROVE  Tally' = Tally /\ Done' = Done
<1>1. PICK jobs : jobs = {n \in Nodes : state[n] # "absent"}
  OBVIOUS
<1>2. {n \in Nodes : state'[n] # "absent"} = jobs
  BY <1>1
<1>3. /\ (\E n \in jobs : state'[n] \notin Ended) <=> (\E n \in jobs : state[n] \notin Ended)
      /\ (\A n \in jobs : state'[n] \in {"COMPLETED", "SKIPPED"})
           <=> (\A n \in jobs : state[n] \in {"COMPLETED", "SKIPPED"})
  BY <1>1
<1>4. Tally = IF \E n \in jobs : state[n] \notin Ended THEN "RUNNING"
              ELSE IF \A n \in jobs : state[n] \in {"COMPLETED", "SKIPPED"} THEN "COMPLETED"
              ELSE "FAILED"
  BY <1>1 DEF Tally
<1>5. Tally' = IF \E n \in jobs : state'[n] \notin Ended THEN "RUNNING"
               ELSE IF \A n \in jobs : state'[n] \in {"COMPLETED", "SKIPPED"} THEN "COMPLETED"
               ELSE "FAILED"
  BY <1>2 DEF Tally
<1> QED BY <1>3, <1>4, <1>5 DEF Done

\* A step that moves jobs on and resolvers towards the row.
Advances ==
  /\ unresolved = {} /\ ~reopened /\ linked' = linked /\ wf' = wf
  /\ \A n \in Nodes : state[n] \in Ended => state'[n] = state[n]
  /\ \A f \in Calls' : f \in Calls \/ f.pc = "start" \/ (f.pc = "visit" /\ linked)
  /\ Done' => \E f \in Calls' : f.pc \in {"start", "visit"}

\* Such a step keeps the row closed or to be closed.
LEMMA AdvanceKeeps ==
  ASSUME Inv, ClosedInv, unresolved' = {} /\ ~reopened' => Advances
  PROVE  ClosedInv'
<1> SUFFICES ASSUME unresolved' = {}, ~reopened' PROVE ClosedInv'
  BY DEF ClosedInv
<1>1. /\ Advances
      /\ ~linked => wf = "RUNNING" /\ \A f \in Calls : f.pc = "start"
      /\ \A f \in Calls : f.pc = "update" => f.seen = None \/ (f.seen = Tally /\ Tally # "RUNNING")
      /\ wf \in {"RUNNING", Tally}
  BY DEF ClosedInv, Advances
<1>2. linked /\ Tally # "RUNNING" => Tally' = Tally
  <2> SUFFICES ASSUME linked, Tally # "RUNNING" PROVE Tally' = Tally
    OBVIOUS
  <2>1. Done
    BY TallyWhenLinked DEF Inv
  <2>2. \A n \in Nodes : state'[n] = state[n]
    BY <1>1, <2>1 DEF Done, Advances
  <2> QED BY <2>2, TallyKept
<1>3. ~linked' => wf' = "RUNNING" /\ \A f \in Calls' : f.pc = "start"
  BY <1>1 DEF Advances
<1>4. ASSUME NEW f \in Calls', f.pc = "update"
      PROVE  f.seen = None \/ (f.seen = Tally' /\ Tally' # "RUNNING")
  BY <1>1, <1>2, <1>4 DEF Advances
<1>5. wf' \in {"RUNNING", Tally'}
  BY <1>1, <1>2 DEF Advances
<1>6. Done' => \E f \in Calls' : Closes(f)'
  BY <1>1 DEF Advances, Closes
<1> QED BY <1>3, <1>4, <1>5, <1>6 DEF ClosedInv

\* What creates, ends and loses jobs keeps it.
LEMMA JobsCloseUp ==
  ASSUME Inv, ClosedInv, NEW n \in Nodes,
         CreateNode(n) \/ End(n) \/ CancelBeforeStart(n) \/ Retry(n) \/ Crash(n)
  PROVE  ClosedInv'
<1>1. TypeOK
  BY DEF Inv
<1>2. CASE CreateNode(n)
  <2>1. /\ state[n] = "absent" /\ state'[n] \in {"open", "BLOCKED"}
        /\ \A m \in Nodes \ {n} : state'[m] = state[m]
        /\ UNCHANGED <<linked, wf, res, unresolved, reopened>>
    BY <1>1, <1>2 DEF CreateNode, TypeOK
  <2>2. Calls' = Calls
    BY <2>1 DEF Calls
  <2>3. ~Done'
    BY <2>1 DEF Done, Ended, Failed
  <2>4. unresolved' = {} /\ ~reopened' => Advances
    BY <2>1, <2>2, <2>3 DEF Advances, Ended, Failed
  <2> QED BY <2>4, AdvanceKeeps
<1>3. CASE End(n)
  <2>1. /\ state[n] \in {"open", "BLOCKED"}
        /\ \A m \in Nodes \ {n} : state'[m] = state[m]
        /\ UNCHANGED <<linked, wf, unresolved, reopened>>
    BY <1>1, <1>3 DEF End, TypeOK
  <2>2. Calls' = Calls \cup {Call(n)}
    BY <1>1, <1>3, NewCall, StackStarts DEF End
  <2>3. unresolved' = {} /\ ~reopened' => Advances
    BY <2>1, <2>2, NewCall DEF Advances, Ended, Failed
  <2> QED BY <2>3, AdvanceKeeps
<1>4. CASE CancelBeforeStart(n) \/ Retry(n)
  BY <1>4 DEF CancelBeforeStart, Retry, ClosedInv
<1>5. CASE Crash(n)
  <2>1. res[n] # <<>> /\ unresolved' = unresolved \cup {res[n][i].node : i \in DOMAIN res[n]}
    BY <1>5 DEF Crash
  <2>2. Len(res[n]) \in DOMAIN res[n]
    BY <1>1, <2>1, TopAndPop
  <2>3. unresolved' # {}
    BY <2>1, <2>2
  <2> QED BY <2>3 DEF ClosedInv
<1> QED BY <1>2, <1>3, <1>4, <1>5

\* The visits of the resolvers keep it.
LEMMA VisitsCloseUp ==
  ASSUME Inv, ClosedInv, NEW r \in Nodes,
         ReadDependents(r) \/ (\E d \in Nodes : ReadDependent(r, d)) \/ Resolve(r)
  PROVE  ClosedInv'
<1>1. TypeOK
  BY DEF Inv
<1>2. CASE ReadDependents(r)
  <2>1. /\ res[r] # <<>> /\ Top(r).pc = "start"
        /\ unresolved' = IF linked THEN unresolved ELSE unresolved \cup {Top(r).node}
        /\ UNCHANGED <<state, linked, wf, reopened>>
    BY <1>2 DEF ReadDependents
  <2>2. Top(r) \in Frames
    BY <1>1, <2>1, TopAndPop
  <2>3. PICK todo : todo = IF linked THEN Dependents(Top(r).node) ELSE {}
    OBVIOUS
  <2>4. PICK f : f = [Top(r) EXCEPT !.pc = "visit", !.todo = todo]
    OBVIOUS
  <2>5. f \in Frames /\ f.pc = "visit"
    BY <2>2, <2>3, <2>4 DEF Frames, Dependents
  <2>6. res' = SetTop(r, f)
    BY <1>2, <2>3, <2>4 DEF ReadDependents
  <2>7. f \in Calls' /\ Calls' \subseteq Calls \cup {f}
    BY <1>1, <2>1, <2>5, <2>6, TopBecomes
  <2>8. unresolved' = {} /\ ~reopened' => Advances
    BY <2>1, <2>5, <2>7 DEF Advances
  <2> QED BY <2>8, AdvanceKeeps
<1>3. ASSUME NEW d \in Nodes, ReadDependent(r, d) PROVE ClosedInv'
  <2>1. /\ res[r] # <<>> /\ Top(r).pc = "visit" /\ d \in Top(r).todo
        /\ UNCHANGED <<state, linked, wf, unresolved, reopened>>
    BY <1>3 DEF ReadDependent
  <2>2. Top(r) \in Frames /\ Top(r) \in Calls
    BY <1>1, <2>1, TopAndPop
  <2>3. PICK dep : dep = IF state[d] = "BLOCKED" THEN d ELSE None
    OBVIOUS
  <2>4. PICK f : f = [Top(r) EXCEPT !.todo = @ \ {d}, !.dep = dep]
    OBVIOUS
  <2>5. f \in Frames /\ f.pc = "visit" /\ linked
    BY <2>1, <2>2, <2>3, <2>4 DEF Frames, Inv, CallsInv
  <2>6. res' = SetTop(r, f)
    BY <1>3, <2>3, <2>4 DEF ReadDependent
  <2>7. f \in Calls' /\ Calls' \subseteq Calls \cup {f}
    BY <1>1, <2>1, <2>5, <2>6, TopBecomes
  <2>8. unresolved' = {} /\ ~reopened' => Advances
    BY <2>1, <2>5, <2>7 DEF Advances
  <2> QED BY <2>8, AdvanceKeeps
<1>4. CASE Resolve(r)
  <2>1. PICK d \in Nodes, f \in Frames :
          /\ linked /\ f.pc = "visit" /\ f \in Calls'
          /\ state' = IF Verdict(d) = "BLOCKED" THEN state ELSE [state EXCEPT ![d] = Verdict(d)]
          /\ Calls' \subseteq Calls \cup {f, Call(d)}
          /\ reopened' = (reopened \/ (state[d] \in Ended /\ state'[d] # state[d]))
          /\ UNCHANGED <<linked, wf, unresolved>>
    BY <1>4, ResolveHasEffect DEF ResolveEffect
  <2>2. \A n \in Nodes \ {d} : state'[n] = state[n]
    BY <1>1, <2>1 DEF TypeOK
  <2>3. unresolved' = {} /\ ~reopened' => Advances
    BY <2>1, <2>2, NewCall DEF Advances
  <2> QED BY <2>3, AdvanceKeeps
<1> QED BY <1>2, <1>3, <1>4 DEF ResolverStep

\* What is read of the states is true when it is read, and nothing but RUNNING
\* stays true until it is written.
LEMMA ReadsCloseUp ==
  ASSUME Inv, ClosedInv, NEW r \in Nodes, ReadWorkflow(r)
  PROVE  ClosedInv'
<1> SUFFICES ASSUME unresolved' = {}, ~reopened' PROVE ClosedInv'
  BY DEF ClosedInv
<1>1. /\ TypeOK /\ res[r] # <<>> /\ Top(r).pc = "visit"
      /\ UNCHANGED <<state, linked, wf, unresolved, reopened>>
  BY DEF Inv, ReadWorkflow
<1>2. Top(r) \in Frames /\ Top(r) \in Calls
  BY <1>1, TopAndPop
<1>3. PICK seen : seen = IF Tally = wf THEN None ELSE Tally
  OBVIOUS
<1>4. PICK f : f = [Top(r) EXCEPT !.pc = "update", !.seen = seen]
  OBVIOUS
<1>5. seen \in WorkflowStates \cup {None}
  BY <1>3, TallyType
<1>6. f \in Frames /\ f.pc = "update" /\ f.seen = seen
  BY <1>2, <1>4, <1>5 DEF Frames
<1>7. res' = SetTop(r, f)
  BY <1>3, <1>4 DEF ReadWorkflow
<1>8. f \in Calls' /\ Calls' \subseteq Calls \cup {f} /\ Calls \ {Top(r)} \subseteq Calls'
  BY <1>1, <1>6, <1>7, TopBecomes
<1>9. Tally' = Tally /\ Done' = Done
  BY <1>1, TallyKept
<1>10. /\ linked
       /\ \A g \in Calls : g.pc = "update" => g.seen = None \/ (g.seen = Tally /\ Tally # "RUNNING")
       /\ wf \in {"RUNNING", Tally}
  BY <1>1, <1>2 DEF ClosedInv
<1>11. seen = None \/ (seen = Tally /\ Tally # "RUNNING")
  BY <1>3, <1>10
<1>12. \A g \in Calls' : g.pc = "update" => g.seen = None \/ (g.seen = Tally' /\ Tally' # "RUNNING")
  BY <1>6, <1>8, <1>9, <1>10, <1>11
<1>13. wf' = Tally' \/ \E g \in Calls' : Closes(g)'
  BY <1>1, <1>3, <1>6, <1>8, <1>9 DEF Closes
<1> QED BY <1>1, <1>9, <1>10, <1>12, <1>13 DEF ClosedInv

\* A call writes what it has read, and if that was nothing the row was right.
LEMMA CommitsCloseUp ==
  ASSUME Inv, ClosedInv, NEW r \in Nodes, CommitWorkflow(r)
  PROVE  ClosedInv'
<1> SUFFICES ASSUME unresolved' = {}, ~reopened' PROVE ClosedInv'
  BY DEF ClosedInv
<1>1. /\ TypeOK /\ res[r] # <<>> /\ Top(r).pc = "update" /\ res' = [res EXCEPT ![r] = Pop(r)]
      /\ wf' = (IF Top(r).seen = None THEN wf ELSE Top(r).seen)
      /\ UNCHANGED <<state, linked, unresolved, reopened>>
  BY DEF Inv, CommitWorkflow
<1>2. Top(r) \in Frames /\ Top(r) \in Calls
  BY <1>1, TopAndPop
<1>3. Calls' \subseteq Calls /\ Calls \ {Top(r)} \subseteq Calls'
  BY <1>1, TopReturns
<1>4. Tally' = Tally /\ Done' = Done /\ Tally # None
  BY <1>1, TallyKept, TallyType, NodeAssumption
<1>5. /\ linked
      /\ \A g \in Calls : g.pc = "update" => g.seen = None \/ (g.seen = Tally /\ Tally # "RUNNING")
      /\ wf \in {"RUNNING", Tally}
      /\ Done => wf = Tally \/ \E g \in Calls : Closes(g)
  BY <1>1, <1>2 DEF ClosedInv
<1>6. Top(r).seen = None \/ Top(r).seen = Tally
  BY <1>1, <1>2, <1>5
<1>7. wf' \in {"RUNNING", Tally'} /\ (wf = Tally => wf' = Tally')
  BY <1>1, <1>4, <1>5, <1>6
<1>8. ASSUME Done' PROVE wf' = Tally' \/ \E g \in Calls' : Closes(g)'
  <2>1. CASE wf = Tally
    BY <1>7, <2>1
  <2>2. ASSUME NEW g \in Calls, Closes(g) PROVE wf' = Tally' \/ \E h \in Calls' : Closes(h)'
    <3>1. CASE g = Top(r)
      BY <1>1, <1>4, <2>2, <3>1 DEF Closes
    <3>2. CASE g # Top(r)
      <4>1. g \in Calls' /\ Closes(g)'
        BY <1>3, <1>4, <2>2, <3>2 DEF Closes
      <4> QED BY <4>1
    <3> QED BY <3>1, <3>2
  <2> QED BY <1>4, <1>5, <1>8, <2>1, <2>2
<1> QED BY <1>1, <1>3, <1>4, <1>5, <1>7, <1>8 DEF ClosedInv

\* The links change nothing of it.
LEMMA QuietCloseUp ==
  ASSUME Inv, ClosedInv, Link \/ UNCHANGED vars
  PROVE  ClosedInv'
<1>1. /\ linked => linked'
      /\ UNCHANGED <<state, wf, res, unresolved, reopened>>
  BY DEF Link, vars
<1>2. Calls' = Calls
  BY <1>1 DEF Calls
<1>3. Tally' = Tally /\ Done' = Done
  BY <1>1, TallyKept
<1> QED BY <1>1, <1>2, <1>3 DEF ClosedInv, Closes

\* With all jobs ended, every end passed on and final, and no resolver left, the
\* workflow row says what _update_workflow makes of its jobs: of the resolvers
\* that write it from tallies of different ages the last one to matter is right.
THEOREM Closed == Spec => []WorkflowIsClosed
<1>1. ASSUME Init PROVE ClosedInv
  <2>1. ~Done /\ wf = "RUNNING" /\ Calls = {}
    BY <1>1, NodeAssumption DEF Init, Done, Ended, Failed, Calls
  <2> QED BY <2>1 DEF ClosedInv
<1>2. ASSUME Inv, ClosedInv, [Next]_vars PROVE ClosedInv'
  <2>1. CASE Link \/ UNCHANGED vars
    BY <1>2, <2>1, QuietCloseUp
  <2>2. ASSUME NEW n \in Nodes,
               CreateNode(n) \/ End(n) \/ CancelBeforeStart(n) \/ Retry(n) \/ Crash(n)
        PROVE  ClosedInv'
    BY <1>2, <2>2, JobsCloseUp
  <2>3. ASSUME NEW r \in Nodes, ResolverStep(r) PROVE ClosedInv'
    BY <1>2, <2>3, VisitsCloseUp, ReadsCloseUp, CommitsCloseUp DEF ResolverStep
  <2> QED BY <1>2, <2>1, <2>2, <2>3 DEF Next
<1>3. ASSUME Inv, ClosedInv PROVE WorkflowIsClosed
  <2> SUFFICES ASSUME unresolved = {}, ~reopened, \A n \in Nodes : state[n] \in Ended /\ res[n] = <<>>
               PROVE  wf = Tally
    BY DEF WorkflowIsClosed
  <2>1. Calls = {} /\ Done
    BY DEF Calls, Done
  <2> QED BY <1>3, <2>1 DEF ClosedInv
<1> QED BY <1>1, <1>2, <1>3, Invariance, PTL DEF Spec
-----------------------------------------------------------------------------
(* Dependencies are respected                                              *)

\* What the upstream jobs of d allow its state to be.
Allowed(d, st) ==
  /\ st \in {"open", "COMPLETED", "FAILED"} =>
       \A u \in Upstream(d) : \/ state[u] = "COMPLETED"
                              \/ policy[d] = "continue" /\ state[u] \in Ended
  /\ st = "SKIPPED" => policy[d] = "skip" /\ \E u \in Upstream(d) : state[u] \in Failed

\* A verdict gives nothing else.
LEMMA VerdictAllows ==
  ASSUME TypeOK, NEW d \in Nodes
  PROVE  Allowed(d, Verdict(d))
<1>1. PICK ups : ups = {state[u] : u \in Upstream(d)}
  OBVIOUS
<1>2. policy[d] \in Policies
  BY DEF TypeOK
<1>3. CASE ups \cap Failed # {}
  <2>1. Verdict(d) = CASE policy[d] = "continue" -> IF ups \subseteq Ended THEN "open" ELSE "BLOCKED"
                       [] policy[d] = "skip"     -> "SKIPPED"
                       [] policy[d] = "fail"     -> "CANCELLED"
    BY <1>1, <1>3 DEF Verdict
  <2>2. CASE policy[d] = "continue"
    BY <1>1, <2>1, <2>2 DEF Allowed
  <2>3. CASE policy[d] = "skip"
    BY <1>1, <1>3, <2>1, <2>3 DEF Allowed
  <2>4. CASE policy[d] = "fail"
    BY <2>1, <2>4 DEF Allowed
  <2> QED BY <1>2, <2>2, <2>3, <2>4 DEF Policies
<1>4. CASE ups \cap Failed = {}
  <2>1. Verdict(d) = IF ups \subseteq {"COMPLETED"} THEN "open" ELSE "BLOCKED"
    BY <1>1, <1>4 DEF Verdict
  <2> QED BY <1>1, <2>1 DEF Allowed
<1> QED BY <1>3, <1>4

\* While no job leaves its end, a step gives a job a state its upstream jobs
\* allow and takes no permission back.
LEMMA PermissionStep ==
  ASSUME Inv, [Next]_vars, DependenciesAreRespected, ~reopened'
  PROVE  /\ edges' = edges /\ policy' = policy
         /\ \A n \in Nodes : state[n] \in Ended => state'[n] = state[n]
         /\ \A d \in Nodes : Allowed(d, state'[d])
<1>1. TypeOK /\ ~reopened
  BY DEF Inv, TypeOK, Next, CreateNode, Link, End, CancelBeforeStart, Retry, Crash, ResolverStep,
         ReadDependents, ReadDependent, Resolve, ReadWorkflow, CommitWorkflow, vars
<1>2. \A d \in Nodes : Allowed(d, state[d])
  BY <1>1 DEF DependenciesAreRespected, Allowed
<1>3. edges' = edges /\ policy' = policy
  BY DEF Next, CreateNode, Link, End, CancelBeforeStart, Retry, Crash, ResolverStep,
         ReadDependents, ReadDependent, Resolve, ReadWorkflow, CommitWorkflow, vars
<1>4. CASE state' = state
  BY <1>2, <1>3, <1>4
<1>5. ASSUME NEW n \in Nodes, NEW st,
             state' = [state EXCEPT ![n] = st], Allowed(n, st), state[n] \notin Ended \/ st = state[n]
      PROVE  /\ \A m \in Nodes : state[m] \in Ended => state'[m] = state[m]
             /\ \A d \in Nodes : Allowed(d, state'[d])
  <2>1. \A m \in Nodes : state'[m] = IF m = n THEN st ELSE state[m]
    BY <1>1, <1>5 DEF TypeOK
  <2> QED BY <1>2, <1>5, <2>1
<1>6. ASSUME NEW n \in Nodes, CreateNode(n)
      PROVE  /\ \A m \in Nodes : state[m] \in Ended => state'[m] = state[m]
             /\ \A d \in Nodes : Allowed(d, state'[d])
  <2>1. PICK st : st = IF Upstream(n) = {} THEN "open" ELSE "BLOCKED"
    OBVIOUS
  <2>2. state' = [state EXCEPT ![n] = st] /\ state[n] \notin Ended
    BY <1>6, <2>1 DEF CreateNode, Ended, Failed
  <2>3. Allowed(n, st)
    BY <2>1 DEF Allowed
  <2> QED BY <1>5, <2>2, <2>3
<1>7. ASSUME NEW n \in Nodes, End(n) \/ CancelBeforeStart(n)
      PROVE  /\ \A m \in Nodes : state[m] \in Ended => state'[m] = state[m]
             /\ \A d \in Nodes : Allowed(d, state'[d])
  <2>1. PICK st : /\ state' = [state EXCEPT ![n] = st]
                  /\ \/ state[n] = "open" /\ st \in {"COMPLETED", "FAILED", "CANCELLED"}
                     \/ state[n] = "BLOCKED" /\ st = "CANCELLED"
    BY <1>7 DEF End, CancelBeforeStart
  <2>2. Allowed(n, st)
    BY <1>2, <2>1 DEF Allowed
  <2>3. state[n] \notin Ended
    BY <2>1 DEF Ended, Failed
  <2> QED BY <1>5, <2>1, <2>2, <2>3
<1>8. ASSUME NEW r \in Nodes, Resolve(r), state' # state
      PROVE  /\ \A m \in Nodes : state[m] \in Ended => state'[m] = state[m]
             /\ \A d \in Nodes : Allowed(d, state'[d])
  <2>1. PICK x, v : x = Top(r).dep /\ v = Verdict(x)
    OBVIOUS
  <2>2. /\ state' = [state EXCEPT ![x] = v]
        /\ reopened' = (reopened \/ (state[x] \in Ended /\ state'[x] # state[x]))
    BY <1>8, <2>1 DEF Resolve
  <2>3. x \in Nodes
    BY <1>1, <1>8, <2>1, TopAndPop DEF Resolve, Frames
  <2>4. state'[x] = v
    BY <1>1, <2>2, <2>3 DEF TypeOK
  <2>5. state[x] \notin Ended \/ v = state[x]
    BY <2>2, <2>4
  <2>6. Allowed(x, v)
    BY <1>1, <2>1, <2>3, VerdictAllows
  <2> QED BY <1>5, <2>2, <2>3, <2>5, <2>6
<1>9. ASSUME NEW n \in Nodes PROVE ~Retry(n)
  BY DEF Retry
<1>10. CASE UNCHANGED vars \/ Link \/ \E n \in Nodes : Crash(n)
  BY <1>4, <1>3, <1>10 DEF vars, Link, Crash
<1>11. ASSUME NEW r \in Nodes, ResolverStep(r)
       PROVE  /\ \A m \in Nodes : state[m] \in Ended => state'[m] = state[m]
              /\ \A d \in Nodes : Allowed(d, state'[d])
  <2>1. CASE Resolve(r)
    BY <1>4, <1>8, <2>1
  <2>2. CASE ReadDependents(r) \/ ReadWorkflow(r) \/ CommitWorkflow(r)
             \/ \E d \in Nodes : ReadDependent(r, d)
    BY <1>4, <2>2 DEF ReadDependents, ReadWorkflow, CommitWorkflow, ReadDependent
  <2> QED BY <1>11, <2>1, <2>2 DEF ResolverStep
<1> QED BY <1>3, <1>6, <1>7, <1>9, <1>10, <1>11 DEF Next

\* A job runs, has run, or was skipped only behind upstream jobs that allow it,
\* for any graph, any policies and any number of resolvers, as long as no job
\* is taken out of its end (resolve_dependents, lifecycle.py:280-326).
THEOREM Respected == Spec => []DependenciesAreRespected
<1>1. Init => DependenciesAreRespected
  BY DEF Init, DependenciesAreRespected
<1>2. ASSUME Inv, [Next]_vars, DependenciesAreRespected PROVE DependenciesAreRespected'
  <2> SUFFICES ASSUME ~reopened', NEW d \in Nodes
               PROVE  /\ state'[d] \in {"open", "COMPLETED", "FAILED"} =>
                           \A u \in Upstream(d)' : \/ state'[u] = "COMPLETED"
                                                   \/ policy'[d] = "continue" /\ state'[u] \in Ended
                      /\ state'[d] = "SKIPPED" =>
                           policy'[d] = "skip" /\ \E u \in Upstream(d)' : state'[u] \in Failed
    BY DEF DependenciesAreRespected
  <2>1. /\ edges' = edges /\ policy' = policy
        /\ \A n \in Nodes : state[n] \in Ended => state'[n] = state[n]
        /\ Allowed(d, state'[d])
    BY <1>2, PermissionStep
  <2>2. Upstream(d)' = Upstream(d) /\ Upstream(d) \subseteq Nodes
    BY <2>1 DEF Upstream
  <2>3. \A u \in Upstream(d) : state[u] \in Ended => state'[u] = state[u]
    BY <2>1, <2>2
  <2> QED BY <2>1, <2>2, <2>3 DEF Allowed, Ended, Failed
<1> QED BY <1>1, <1>2, Invariance, PTL DEF Spec
=============================================================================
