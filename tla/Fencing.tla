------------------------------ MODULE Fencing ------------------------------
(***************************************************************************)
(* What leasing promises (docs/ARCHITECTURE.md:124-131), without the rows, *)
(* snapshots and sweeps that implement it: every grant of a job is         *)
(* numbered, has a token never used before and revokes the grant before    *)
(* it; a grant that was revoked never becomes valid again; and grants are  *)
(* never forgotten.                                                        *)
(***************************************************************************)
EXTENDS Integers

CONSTANTS Jobs, Workers, Tokens, None

VARIABLES
  grants,   \* every grant so far
  count,    \* of a job: its grants so far
  holder    \* of a job: the token that is valid now, or None

vars == <<grants, count, holder>>

Init ==
  /\ grants = {}
  /\ count = [j \in Jobs |-> 0]
  /\ holder = [j \in Jobs |-> None]

Grant(j, w, t) ==
  /\ \A g \in grants : g.token # t
  /\ grants' = grants \cup
       {[job |-> j, number |-> count[j] + 1, worker |-> w, token |-> t]}
  /\ count' = [count EXCEPT ![j] = @ + 1]
  /\ holder' = [holder EXCEPT ![j] = t]

Revoke(js) ==
  /\ holder' = [j \in Jobs |-> IF j \in js THEN None ELSE holder[j]]
  /\ UNCHANGED <<grants, count>>

Next ==
  \/ \E js \in SUBSET Jobs : Revoke(js)
  \/ \E j \in Jobs, w \in Workers, t \in Tokens : Grant(j, w, t)

Spec == Init /\ [][Next]_vars
=============================================================================
