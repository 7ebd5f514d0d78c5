----------------------------- MODULE MCCreation -----------------------------
(* Two sessions, one key, two recurring jobs; single and batch requests.     *)
EXTENDS Creation, TLC

CONSTANTS k1, r1, r2, s1, s2

MCRequests == {[items |-> <<k1>>, single |-> TRUE],
               [items |-> <<None>>, single |-> TRUE],
               [items |-> <<k1, None>>, single |-> FALSE]}
MCCron == [r \in Recs |-> IF r = r1 THEN {1, 2, 3} ELSE {2, 4}]
=============================================================================
