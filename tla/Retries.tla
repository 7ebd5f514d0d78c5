------------------------------ MODULE Retries ------------------------------
(***************************************************************************)
(* app/services/retries.py: which retry policies are usable, how long a    *)
(* job waits after its n-th failed attempt, and which failures are retried *)
(* at all.  A policy is a record with some of the fields of a full one, of *)
(* which any may be null (None); no policy is the record without fields.   *)
(* Delays are integers: the unit does not matter, and a random factor is   *)
(* any factor.                                                             *)
(***************************************************************************)
EXTENDS Integers

CONSTANT None

Strategies == {"fixed", "linear", "exponential"}

\* What stands in for a fallback that is missing or empty.
DefaultPolicy == [strategy |-> "exponential", base_delay |-> 5, max_delay |-> 300,
                  jitter |-> TRUE]

\* The fields of p that are not null, over all those of the fallback.
Merged(p, fallback) ==
  LET given == {k \in DOMAIN p : p[k] # None}
      under == IF DOMAIN fallback = {} THEN DefaultPolicy ELSE fallback
  IN  [k \in given \cup DOMAIN under |-> IF k \in given THEN p[k] ELSE under[k]]

Field(p, k, default) == IF k \in DOMAIN p THEN p[k] ELSE default

\* normalize_policy returns, instead of raising: ValueError of a strategy that is
\* unknown or null, TypeError of a delay that is null.
Usable(p, fallback) ==
  LET m == Merged(p, fallback)
  IN  /\ Field(m, "strategy", None) \in Strategies
      /\ Field(m, "base_delay", 5) # None /\ Field(m, "max_delay", 300) # None

Larger(a, b) == IF a < b THEN b ELSE a

Normalized(p, fallback) ==
  LET m    == Merged(p, fallback)
      base == Larger(0, Field(m, "base_delay", 5))
  IN  [strategy |-> m.strategy, base_delay |-> base,
       max_delay |-> Larger(base, Field(m, "max_delay", 300)),
       jitter |-> Field(m, "jitter", FALSE) = TRUE]

\* What create_queue and create_job let in: a policy usable over the defaults.
Accepted(p) == Usable(p, DefaultPolicy)

Uncapped(policy, n) ==
  CASE policy.strategy = "fixed"       -> policy.base_delay
    [] policy.strategy = "linear"      -> policy.base_delay * n
    [] policy.strategy = "exponential" -> policy.base_delay * 2^(n - 1)

Capped(policy, n) ==
  IF Uncapped(policy, n) < policy.max_delay THEN Uncapped(policy, n) ELSE policy.max_delay

\* The delays compute_delay may return: 50 to 100 per cent with jitter.
Delays(policy, n) ==
  IF policy.jitter THEN {d \in 0..Capped(policy, n) : 2 * d >= Capped(policy, n)}
  ELSE {Capped(policy, n)}

NonRetryable == {"non_retryable", "validation", "cancelled"}

IsRetryable(category) == category \notin NonRetryable
=============================================================================
