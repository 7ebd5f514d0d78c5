--------------------------- MODULE MCJobLifecycle ---------------------------
(* Instances of JobLifecycle for TLC. *)
EXTENDS JobLifecycle, TLC

Symmetry == Permutations(Workers) \cup Permutations(Schedulers)

\* Every queue has the policy the column defaults to.
DefaultPolicies == [q \in Queues |-> DefaultPolicy]

\* compute_delay on small policies: never above max_delay, never longer after an
\* earlier attempt than after a later one, and at least half of it with jitter.
SmallPolicies ==
  {Normalized([strategy |-> s, base_delay |-> b, max_delay |-> m, jitter |-> i], DefaultPolicy) :
     s \in Strategies, b \in -1..3, m \in 0..9, i \in BOOLEAN}

ASSUME DelaysBackOff ==
  \A p \in SmallPolicies, n \in 1..5 :
    /\ Delays(p, n) # {} /\ \A d \in Delays(p, n) : 0 <= d /\ d <= p.max_delay
    /\ Capped(p, n) <= Capped(p, n + 1)
    /\ \A d \in Delays(p, n), e \in Delays(p, n + 1) : d <= 2 * e

\* A queue's policy is accepted over the defaults and used without them
\* (queues.py:67, lifecycle.py:173): one without a strategy, or with a delay that
\* is null, is let in and raises at every failure; an empty one is as good as none.
ASSUME AcceptedPoliciesMayRaise ==
  /\ \A p \in {[base_delay |-> 2], [strategy |-> None], [strategy |-> "fixed", base_delay |-> None]} :
       Accepted(p) /\ ~Usable(<<>>, p)
  /\ Normalized(<<>>, <<>>) = DefaultPolicy
=============================================================================
