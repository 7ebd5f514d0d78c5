------------------------------ MODULE Workflow ------------------------------
(***************************************************************************)
(* A workflow: create_workflow and detect_cycle of app/services/jobs.py,   *)
(* resolve_dependents and _update_workflow of app/services/lifecycle.py.   *)
(*                                                                         *)
(* create_workflow commits its jobs one by one and the dependency rows at  *)
(* the end, so jobs run before their dependents are linked to them.  Who-  *)
(* ever ends a job (a worker, a reaper, the API) commits that first and    *)
(* resolves the dependents afterwards, one transaction per dependent, so   *)
(* any number of resolvers interleave, and a process may die between two   *)
(* of their steps.                                                         *)
(*                                                                         *)
(* QUEUED, CLAIMED, RUNNING and the retry states are one state "open", and *)
(* DEAD_LETTERED is FAILED: module JobLifecycle tells them apart.  Reading *)
(* the upstream states and committing the dependent is one step.           *)
(***************************************************************************)
EXTENDS Integers, FiniteSets, Sequences

CONSTANTS
  Nodes,
  Requests,    \* the requests made: who depends on whom, and the policies
  MaxRetries,  \* bound: manual retries in a behaviour
  None

Policies == {"fail", "skip", "continue"}

WorkflowStates == {"RUNNING", "COMPLETED", "FAILED"}

ASSUME NodeAssumption ==
  /\ IsFiniteSet(Nodes) /\ Nodes # {} /\ MaxRetries \in Nat
  /\ Requests \subseteq [edges: SUBSET (Nodes \X Nodes), policy: [Nodes -> Policies]]
  /\ None \notin Nodes \cup WorkflowStates

Failed == {"FAILED", "CANCELLED", "SKIPPED"}
Ended == Failed \cup {"COMPLETED"}

VARIABLES
  edges,       \* depends_on of the request: <<upstream, dependent>>
  policy,      \* on_dependency_failure of each node
  state,       \* the jobs table
  linked,      \* the job_dependencies rows are committed
  wf,          \* the state in the workflows row; its progress is left out
  res,         \* for each node: the resolver its end started, a stack of calls
  retries,     \* manual retries so far (bound only)
  unresolved,  \* history: nodes whose end was not passed on to all dependents
  reopened     \* history: a job left a state it had ended in

vars == <<edges, policy, state, linked, wf, res, retries, unresolved, reopened>>

\* One call of resolve_dependents: before it has read the dependents, with the
\* dependents it still has to visit, or with the workflow row it has read.
Frames == [node: Nodes, pc: {"start", "visit", "update"}, todo: SUBSET Nodes,
           dep: Nodes \cup {None},
           seen: WorkflowStates \cup {None}]

TypeOK ==
  /\ edges \subseteq Nodes \X Nodes
  /\ policy \in [Nodes -> Policies]
  /\ state \in [Nodes -> {"absent", "BLOCKED", "open"} \cup Ended]
  /\ linked \in BOOLEAN
  /\ wf \in WorkflowStates
  /\ res \in [Nodes -> Seq(Frames)]
  /\ retries \in 0..MaxRetries
  /\ unresolved \subseteq Nodes
  /\ reopened \in BOOLEAN
-----------------------------------------------------------------------------
(* The graph *)

Upstream(d) == {u \in Nodes : <<u, d>> \in edges}
Dependents(n) == {d \in Nodes : <<n, d>> \in edges}

\* detect_cycle, Kahn's algorithm: take away the nodes nothing left points to,
\* as long as there are any.  The result is the set of nodes never visited.
Peel[left \in SUBSET Nodes] ==
  LET roots == {n \in left : Upstream(n) \cap left = {}}
  IN  IF roots = {} THEN left ELSE Peel[left \ roots]

\* Mutant: a graph with a root is taken for one without a cycle.
HasCycleWithoutRoots == Nodes # {} /\ \A n \in Nodes : Upstream(n) # {}

HasCycle == Peel[Nodes] # {}

Init ==
  /\ \E req \in Requests : edges = req.edges /\ policy = req.policy
  /\ state = [n \in Nodes |-> "absent"]
  /\ linked = FALSE
  /\ wf = "RUNNING"
  /\ res = [n \in Nodes |-> <<>>]
  /\ retries = 0
  /\ unresolved = {}
  /\ reopened = FALSE
-----------------------------------------------------------------------------
(* create_workflow *)

\* The next node's job, committed on its own.
CreateNode(n) ==
  /\ ~HasCycle
  /\ state[n] = "absent"
  /\ state' = [state EXCEPT ![n] = IF Upstream(n) = {} THEN "open" ELSE "BLOCKED"]
  /\ UNCHANGED <<edges, policy, linked, wf, res, retries, unresolved, reopened>>

Link ==
  /\ ~HasCycle /\ ~linked
  /\ \A n \in Nodes : state[n] # "absent"
  /\ linked' = TRUE
  /\ UNCHANGED <<edges, policy, state, wf, res, retries, unresolved, reopened>>
-----------------------------------------------------------------------------
(* Jobs end *)

Call(n) == [node |-> n, pc |-> "start", todo |-> {}, dep |-> None,
            seen |-> None]

\* complete_job, _handle_failure and request_cancel: the commit, and the call
\* that follows it.  One resolver at a time per node is a bound.
End(n) ==
  /\ res[n] = <<>>
  /\ \/ /\ state[n] = "open"
        /\ \E st \in {"COMPLETED", "FAILED", "CANCELLED"} : state' = [state EXCEPT ![n] = st]
     \/ /\ state[n] = "BLOCKED"
        /\ state' = [state EXCEPT ![n] = "CANCELLED"]
  /\ res' = [res EXCEPT ![n] = <<Call(n)>>]
  /\ UNCHANGED <<edges, policy, linked, wf, retries, unresolved, reopened>>

\* start_job's cancelled branch ends a claimed job without resolving anything.
CancelBeforeStart(n) ==
  /\ state[n] = "open"
  /\ state' = [state EXCEPT ![n] = "CANCELLED"]
  /\ unresolved' = unresolved \cup {n}
  /\ UNCHANGED <<edges, policy, linked, wf, res, retries, reopened>>

\* A manual retry.
Retry(n) ==
  /\ state[n] \in {"FAILED", "CANCELLED"} /\ retries < MaxRetries
  /\ state' = [state EXCEPT ![n] = "open"]
  /\ retries' = retries + 1
  /\ reopened' = TRUE
  /\ UNCHANGED <<edges, policy, linked, wf, res, unresolved>>

\* The process dies with the calls it was making.
Crash(n) ==
  /\ res[n] # <<>>
  /\ unresolved' = unresolved \cup {res[n][i].node : i \in DOMAIN res[n]}
  /\ res' = [res EXCEPT ![n] = <<>>]
  /\ UNCHANGED <<edges, policy, state, linked, wf, retries, reopened>>
-----------------------------------------------------------------------------
(* resolve_dependents; the last frame of the stack is the innermost call *)

Top(r) == res[r][Len(res[r])]
Pop(r) == SubSeq(res[r], 1, Len(res[r]) - 1)
SetTop(r, f) == [res EXCEPT ![r] = Append(Pop(r), f)]

\* The SELECT of the dependents.
ReadDependents(r) ==
  /\ res[r] # <<>> /\ Top(r).pc = "start"
  /\ res' = SetTop(r, [Top(r) EXCEPT !.pc = "visit",
                                     !.todo = IF linked THEN Dependents(Top(r).node) ELSE {}])
  /\ unresolved' = IF linked THEN unresolved ELSE unresolved \cup {Top(r).node}
  /\ UNCHANGED <<edges, policy, state, linked, wf, retries, reopened>>

\* The next dependent is read; only a blocked one is looked at further.
ReadDependent(r, d) ==
  /\ res[r] # <<>> /\ Top(r).pc = "visit" /\ Top(r).dep = None /\ d \in Top(r).todo
  /\ res' = SetTop(r, [Top(r) EXCEPT !.todo = @ \ {d},
                                     !.dep = IF state[d] = "BLOCKED" THEN d ELSE None])
  /\ UNCHANGED <<edges, policy, state, linked, wf, retries, unresolved, reopened>>

\* Mutant: a job that goes on after failures does not wait for the others.
VerdictAtOnce(d) ==
  LET ups == {state[u] : u \in Upstream(d)}
  IN  IF ups \cap Failed # {}
      THEN CASE policy[d] = "continue" -> "open"
             [] policy[d] = "skip"     -> "SKIPPED"
             [] policy[d] = "fail"     -> "CANCELLED"
      ELSE IF ups \subseteq {"COMPLETED"} THEN "open" ELSE "BLOCKED"

\* What becomes of a blocked job, given the states of its upstream jobs.
Verdict(d) ==
  LET ups == {state[u] : u \in Upstream(d)}
  IN  IF ups \cap Failed # {}
      THEN CASE policy[d] = "continue" -> IF ups \subseteq Ended THEN "open" ELSE "BLOCKED"
             [] policy[d] = "skip"     -> "SKIPPED"
             [] policy[d] = "fail"     -> "CANCELLED"
      ELSE IF ups \subseteq {"COMPLETED"} THEN "open" ELSE "BLOCKED"

\* Mutant: only the jobs that ended by themselves are resolved.
ResolvedWithoutCascade(r, d, v) == SetTop(r, [Top(r) EXCEPT !.dep = None])

Resolved(r, d, v) ==
  LET after == SetTop(r, [Top(r) EXCEPT !.dep = None])
  IN  IF v \in Failed THEN [after EXCEPT ![r] = Append(@, Call(d))] ELSE after

\* The write, keyed on the id alone, and for a skipped or cancelled dependent
\* the recursive call.
Resolve(r) ==
  /\ res[r] # <<>> /\ Top(r).dep # None
  /\ LET d == Top(r).dep
         v == Verdict(d)
     IN /\ state' = IF v = "BLOCKED" THEN state ELSE [state EXCEPT ![d] = v]
        /\ res' = Resolved(r, d, v)
        /\ reopened' = (reopened \/ (state[d] \in Ended /\ state'[d] # state[d]))
  /\ UNCHANGED <<edges, policy, linked, wf, retries, unresolved>>

\* Mutant: a workflow whose jobs all ended alike is said to have ended so.
TallyOfOneKind ==
  LET ends == {state[n] : n \in {m \in Nodes : state[m] # "absent"}}
  IN  IF ~(ends \subseteq Ended) THEN "RUNNING"
      ELSE IF Cardinality(ends) = 1 THEN CHOOSE st \in ends : TRUE
      ELSE "FAILED"

\* What _update_workflow makes of the states of the workflow's jobs so far.
Tally ==
  LET jobs == {n \in Nodes : state[n] # "absent"}
  IN  IF \E n \in jobs : state[n] \notin Ended THEN "RUNNING"
      ELSE IF \A n \in jobs : state[n] \in {"COMPLETED", "SKIPPED"} THEN "COMPLETED"
      ELSE "FAILED"

\* Mutant: the commit writes the state whether or not it changed.
ReadToRewrite(r) ==
  /\ res[r] # <<>> /\ Top(r).pc = "visit" /\ Top(r).dep = None /\ Top(r).todo = {}
  /\ res' = SetTop(r, [Top(r) EXCEPT !.pc = "update", !.seen = Tally])
  /\ UNCHANGED <<edges, policy, state, linked, wf, retries, unresolved, reopened>>

\* The row is read with the states; a value that does not change is not
\* written by the commit.
ReadWorkflow(r) ==
  /\ res[r] # <<>> /\ Top(r).pc = "visit" /\ Top(r).dep = None /\ Top(r).todo = {}
  /\ res' = SetTop(r, [Top(r) EXCEPT !.pc = "update",
                                     !.seen = IF Tally = wf THEN None ELSE Tally])
  /\ UNCHANGED <<edges, policy, state, linked, wf, retries, unresolved, reopened>>

CommitWorkflow(r) ==
  /\ res[r] # <<>> /\ Top(r).pc = "update"
  /\ wf' = IF Top(r).seen = None THEN wf ELSE Top(r).seen
  /\ res' = [res EXCEPT ![r] = Pop(r)]
  /\ UNCHANGED <<edges, policy, state, linked, retries, unresolved, reopened>>
-----------------------------------------------------------------------------
ResolverStep(r) ==
  \/ ReadDependents(r) \/ Resolve(r) \/ ReadWorkflow(r) \/ CommitWorkflow(r)
  \/ \E d \in Nodes : ReadDependent(r, d)

Next ==
  \/ \E n \in Nodes : CreateNode(n) \/ End(n) \/ CancelBeforeStart(n) \/ Retry(n) \/ Crash(n)
  \/ Link
  \/ \E r \in Nodes : ResolverStep(r)

Spec == Init /\ [][Next]_vars
-----------------------------------------------------------------------------
\* detect_cycle finds exactly the graphs in which a node reaches itself.
Walks[k \in Nat] ==
  IF k = 0 THEN edges
  ELSE Walks[k - 1] \cup {<<p[1][1], p[2][2]>> :
         p \in {q \in Walks[k - 1] \X edges : q[1][2] = q[2][1]}}

CyclesAreDetected ==
  HasCycle <=> \E n \in Nodes : <<n, n>> \in Walks[Cardinality(Nodes)]

\* The calls for node u that have not looked at its dependent d yet.
WillVisit(u, d) ==
  \E r \in Nodes : \E i \in DOMAIN res[r] :
    LET f == res[r][i]
    IN  f.node = u /\ (f.pc = "start" \/ d \in f.todo \/ f.dep = d)

\* A job runs, has run, or was skipped only behind upstream jobs that allow it,
\* in whatever order the jobs and their links were committed and the resolvers
\* came, and for as long as no job is taken out of its end: all of them are
\* completed, or ended where its policy is to go on (lifecycle.py:292-326,
\* jobs.py:206, docs/TESTING.md:48).
DependenciesAreRespected ==
  ~reopened =>
    \A d \in Nodes :
      /\ state[d] \in {"open", "COMPLETED", "FAILED"} =>
           \A u \in Upstream(d) : \/ state[u] = "COMPLETED"
                                  \/ policy[d] = "continue" /\ state[u] \in Ended
      /\ state[d] = "SKIPPED" =>
           policy[d] = "skip" /\ \E u \in Upstream(d) : state[u] \in Failed

\* A fan-in is never lost: when the states of its upstream jobs decide about a
\* blocked job, the resolver of one of them has yet to visit it, unless the end
\* of an upstream job was never passed on.  Upstream jobs that end at the same
\* time are all committed before any of their resolvers looks.
NoReleaseIsLost ==
  \A d \in Nodes : linked /\ state[d] = "BLOCKED" /\ Verdict(d) # "BLOCKED" =>
    \E u \in Upstream(d) : u \in unresolved \/ WillVisit(u, d)

\* When everything has ended and every end was passed on, the workflow says so.
WorkflowIsClosed ==
  (/\ linked /\ unresolved = {} /\ ~reopened
   /\ \A n \in Nodes : state[n] \in Ended /\ res[n] = <<>>)
  => wf = Tally

\* A workflow does not stall: as long as a job has not ended, a job is open, a
\* resolver is at work, or the end of a job was not passed on.  It takes both
\* halves: no graph whose blocked jobs wait for each other is accepted
\* (jobs.py:190), and no fan-in is lost.
WorkflowsDoNotStall ==
  linked /\ (\E n \in Nodes : state[n] \notin Ended) =>
    unresolved # {} \/ \E n \in Nodes : state[n] = "open" \/ res[n] # <<>>

\* docs/ARCHITECTURE.md:72 and state_machine.py:27: nothing leads out of
\* COMPLETED.
CompletedIsFinal ==
  [][\A n \in Nodes : state[n] = "COMPLETED" => state'[n] = "COMPLETED"]_vars
=============================================================================
