--------------------------- MODULE CreationProofs ---------------------------
(***************************************************************************)
(* Theorems of Creation that hold for any number of sessions, requests and *)
(* recurring jobs, any quota and any cron expressions.  The cursor's are   *)
(* about one row: whoever moves it has found it where it was loaded, at a  *)
(* due time.  The counter's are sums over sessions (Total): what sessions  *)
(* still owe jobs for is in the counter, and what they were approved for   *)
(* fits under the quota with one request each.                             *)
(***************************************************************************)
EXTENDS Creation, FiniteSetTheorems, SequenceTheorems, WellFoundedInduction, TLAPS

-----------------------------------------------------------------------------
(* Finite sets of numbers                                                    *)

Lowest(S, x) == x \in S /\ \A y \in S : x <= y
Highest(S, x) == x \in S /\ \A y \in S : x >= y

\* A finite set of numbers has a least and a greatest element: were there sets
\* without, a smallest such set would gain one with any of its elements removed.
LEMMA Extrema ==
  ASSUME NEW S \in SUBSET Nat, IsFiniteSet(S), S # {}
  PROVE  Lowest(S, Min(S)) /\ Highest(S, Max(S))
<1> DEFINE Bad == {T \in SUBSET S : T # {} /\ ~((\E x : Lowest(T, x)) /\ (\E x : Highest(T, x)))}
<1>1. Bad = {}
  <2> SUFFICES ASSUME Bad # {} PROVE FALSE
    OBVIOUS
  <2>1. IsWellFoundedOn(StrictSubsetOrdering(S), SUBSET S)
    BY FS_StrictSubsetOrderingWellFounded, FS_FiniteSubsetsOfFinite
  <2>2. PICK T \in Bad : \A U \in Bad : <<U, T>> \notin StrictSubsetOrdering(S)
    <3>1. Bad \subseteq SUBSET S
      OBVIOUS
    <3> HIDE DEF Bad
    <3> QED BY <2>1, <3>1, WFMin
  <2>3. PICK x \in T : TRUE
    OBVIOUS
  <2> DEFINE U == T \ {x}
  <2>4. <<U, T>> \in StrictSubsetOrdering(S)
    BY <2>3 DEF StrictSubsetOrdering
  <2>5. U = {} \/ ((\E l : Lowest(U, l)) /\ (\E h : Highest(U, h)))
    BY <2>2, <2>4
  <2>6. T = U \cup {x} /\ x \in Nat /\ U \in SUBSET Nat
    BY <2>3
  <2>7. CASE U = {}
    <3>1. Lowest(T, x) /\ Highest(T, x)
      BY <2>6, <2>7 DEF Lowest, Highest
    <3> QED BY <3>1
  <2>8. ASSUME NEW l, NEW h, Lowest(U, l), Highest(U, h)
        PROVE  FALSE
    <3>1. l \in Nat /\ h \in Nat
      BY <2>6, <2>8 DEF Lowest, Highest
    <3>2. Lowest(T, x) \/ Lowest(T, l)
      BY <2>6, <2>8, <3>1 DEF Lowest
    <3>3. Highest(T, x) \/ Highest(T, h)
      BY <2>6, <2>8, <3>1 DEF Highest
    <3> QED BY <3>2, <3>3
  <2> QED BY <2>5, <2>7, <2>8
<1>2. (\E x : Lowest(S, x)) /\ (\E x : Highest(S, x))
  BY <1>1
<1> QED BY <1>2 DEF Lowest, Highest, Min, Max

\* The next tick exists, because every expression names a time beyond the bound.
LEMMA NextTickIsNext ==
  ASSUME NEW r \in Recs, NEW t \in 0..MaxTime
  PROVE  /\ NextTick(r, t) \in Cron[r] /\ NextTick(r, t) \in Nat /\ t < NextTick(r, t)
         /\ \A k \in Cron[r] : t < k => NextTick(r, t) <= k
<1> DEFINE S == {k \in Cron[r] : k > t}
<1>1. Cron[r] \in SUBSET Nat /\ IsFiniteSet(Cron[r]) /\ MaxTime \in Nat
  BY ParameterAssumption
<1>2. S # {}
  <2>1. PICK k \in Cron[r] : k > MaxTime
    BY ParameterAssumption
  <2> QED BY <1>1, <2>1
<1>3. IsFiniteSet(S) /\ S \in SUBSET Nat
  BY <1>1, FS_Subset
<1>4. Lowest(S, Min(S))
  BY <1>2, <1>3, Extrema
<1>5. NextTick(r, t) = Min(S)
  BY DEF NextTick
<1> HIDE DEF NextTick
<1>6. NextTick(r, t) \in S /\ \A k \in S : NextTick(r, t) <= k
  BY <1>4, <1>5 DEF Lowest
<1> QED BY <1>1, <1>6

\* The maximum of two times in order.
LEMMA LaterOfTwo ==
  ASSUME NEW a \in Nat, NEW b \in Nat, a <= b
  PROVE  Max({a, b}) = b
<1>1. IsFiniteSet({a, b})
  <2>1. {a, b} = {a} \cup {b}
    OBVIOUS
  <2>2. IsFiniteSet({a})
    BY FS_Singleton
  <2>3. IsFiniteSet({a} \cup {b})
    BY <2>2, FS_AddElement
  <2> QED BY <2>1, <2>3
<1>2. Highest({a, b}, Max({a, b}))
  BY <1>1, Extrema
<1> QED BY <1>2 DEF Highest

\* No request has more jobs than the costliest.
LEMMA CostliestIsMost ==
  /\ Costliest \in Nat
  /\ \A q \in Requests : Len(q.items) \in Nat /\ Len(q.items) <= Costliest
<1> DEFINE S == {Len(q.items) : q \in Requests}
<1>1. \A q \in Requests : Len(q.items) \in Nat
  BY ParameterAssumption
<1>2. S \in SUBSET Nat /\ S # {} /\ IsFiniteSet(S)
  <2>1. IsFiniteSet(S)
    BY ParameterAssumption
  <2>2. S # {}
    <3>1. PICK q \in Requests : TRUE
      BY ParameterAssumption
    <3> QED BY <3>1
  <2> QED BY <1>1, <2>1, <2>2
<1>3. Highest(S, Max(S))
  BY <1>2, Extrema
<1> QED BY <1>1, <1>2, <1>3 DEF Costliest, Highest
-----------------------------------------------------------------------------
(* Types, and what a session has read                                        *)

AtRequest(c) == c.pc \in {"lookup", "quota", "charge", "insert"}

\* What a pass has read of a recurring job: a cursor that was due.
WasDue(c, r) == c.due[r] \in Cron[r] /\ c.due[r] <= c.at

SessionInv(c, time, jobs) ==
  /\ AtRequest(c) => /\ c.items # <<>> /\ Len(c.items) <= Costliest
                     /\ c.single => Len(c.items) = 1
  /\ c.at <= time
  /\ c.pc \in {"pass", "advance"} => \A r \in c.batch : WasDue(c, r)
  /\ c.pc = "advance" => c.rec \in Recs /\ WasDue(c, c.rec) /\ c.due[c.rec] \in jobs[c.rec]

TypeInv == TypeOK /\ \A s \in Sessions : SessionInv(ses[s], now, ticks)

\* The times of a cron expression are numbers within the bound of the clock.
LEMMA Bounds ==
  /\ MaxTime \in Nat /\ 0 \in 0..MaxTime
  /\ \A r \in Recs : Cron[r] \in SUBSET Nat /\ Cron[r] \in SUBSET Times
  /\ Times \in SUBSET Nat
  BY ParameterAssumption DEF Times

\* A session between two requests carries nothing.
LEMMA IdleSession == Idle \in SessionRows /\ (now \in Nat => SessionInv(Idle, now, ticks))
<1>1. Idle \in SessionRows
  BY Bounds DEF Idle, SessionRows, CounterRows
<1>2. Idle.pc = "idle" /\ Idle.at = 0
  BY DEF Idle
<1> QED BY <1>1, <1>2 DEF SessionInv, AtRequest

\* At the start nothing has been created.
LEMMA InitType == Init => TypeInv
<1> SUFFICES ASSUME Init PROVE TypeInv
  OBVIOUS
<1>1. TypeOK
  BY IdleSession, Bounds, ParameterAssumption DEF Init, TypeOK, CounterRows
<1> QED BY <1>1, IdleSession, Bounds DEF Init, TypeInv

\* A step of one session that leaves the clock and the jobs it has not made.
LEMMA OneSession ==
  ASSUME TypeInv, NEW s \in Sessions, NEW c \in SessionRows, ses' = [ses EXCEPT ![s] = c],
         now' = now, \A r \in Recs : ticks[r] \subseteq ticks'[r], SessionInv(c, now', ticks')
  PROVE  ses' \in [Sessions -> SessionRows] /\ \A x \in Sessions : SessionInv(ses'[x], now', ticks')
<1>1. ses \in [Sessions -> SessionRows]
  BY DEF TypeInv, TypeOK
<1>2. ses' \in [Sessions -> SessionRows] /\ ses'[s] = c
      /\ \A x \in Sessions \ {s} : ses'[x] = ses[x]
  BY <1>1
<1>3. SessionInv(ses'[s], now', ticks')
  BY <1>2 DEF SessionInv, AtRequest, WasDue
<1>4. ASSUME NEW x \in Sessions \ {s} PROVE SessionInv(ses'[x], now', ticks')
  <2>1. SessionInv(ses[x], now, ticks) /\ ses'[x] = ses[x]
    BY <1>2 DEF TypeInv
  <2> QED BY <2>1 DEF SessionInv, AtRequest, WasDue
<1> QED BY <1>2, <1>3, <1>4

\* A rollback gives the lock back and ends the session.
LEMMA RollbackType ==
  ASSUME TypeInv, NEW s \in Sessions, Rollback(s), now' = now, ticks' = ticks
  PROVE  /\ ses' \in [Sessions -> SessionRows] /\ \A x \in Sessions : SessionInv(ses'[x], now', ticks')
         /\ lock' \in Sessions \cup {None}
<1>1. now \in Nat /\ now' \in Nat /\ lock \in Sessions \cup {None}
  BY Bounds DEF TypeInv, TypeOK
<1>2. SessionInv(Idle, now', ticks')
  BY <1>1 DEF SessionInv, AtRequest, Idle
<1> HIDE DEF Idle
<1>3. ses' \in [Sessions -> SessionRows] /\ \A x \in Sessions : SessionInv(ses'[x], now', ticks')
  BY <1>2, IdleSession, OneSession DEF Rollback
<1> QED BY <1>1, <1>3 DEF Rollback

\* A request starts with its items and without a charge.
LEMMA StartRequestType ==
  ASSUME TypeInv, NEW s \in Sessions, NEW q \in Requests, StartRequest(s, q)
  PROVE  TypeInv'
<1> DEFINE c == [Idle EXCEPT !.pc = IF q.single THEN "lookup" ELSE "quota",
                             !.items = q.items, !.single = q.single]
<1>1. TypeOK /\ UNCHANGED <<now, keyed, made, ticks, used, lock, cursor, enabled, crashes>>
  BY DEF StartRequest, TypeInv
<1>2. ses' = [ses EXCEPT ![s] = c] /\ requests' \in 0..MaxRequests
  BY <1>1, ParameterAssumption DEF StartRequest, TypeOK
<1>3. /\ q.items \in Seq(Keys \cup {None}) /\ q.items # <<>> /\ q.single \in BOOLEAN
      /\ q.single => Len(q.items) = 1
      /\ Len(q.items) <= Costliest
  BY CostliestIsMost, ParameterAssumption
<1>4. c \in SessionRows
  BY <1>3, IdleSession DEF SessionRows
<1>5. /\ c.pc \in {"lookup", "quota"} /\ c.items = q.items /\ c.single = q.single /\ c.at = 0
  BY DEF Idle
<1> HIDE DEF c
<1>6. SessionInv(c, now', ticks')
  BY <1>1, <1>3, <1>5, Bounds DEF SessionInv, AtRequest, TypeOK
<1>7. ses' \in [Sessions -> SessionRows] /\ \A x \in Sessions : SessionInv(ses'[x], now', ticks')
  BY <1>1, <1>2, <1>4, <1>6, OneSession
<1> QED BY <1>1, <1>2, <1>7 DEF TypeInv, TypeOK

\* The look for a key leaves the tables alone.
LEMMA LookupType ==
  ASSUME TypeInv, NEW s \in Sessions, Lookup(s)
  PROVE  TypeInv'
<1>1. TypeOK /\ UNCHANGED <<now, keyed, made, ticks, used, cursor, enabled, requests, crashes>>
  BY DEF Lookup, TypeInv
<1>2. ses[s] \in SessionRows /\ SessionInv(ses[s], now, ticks) /\ ses[s].pc = "lookup"
  BY DEF Lookup, TypeInv, TypeOK
<1>3. /\ ses[s].items \in Seq(Keys \cup {None}) /\ ses[s].items # <<>>
      /\ Len(ses[s].items) <= Costliest /\ ses[s].single \in BOOLEAN
      /\ ses[s].single => Len(ses[s].items) = 1
      /\ ses[s].at <= now
  BY <1>2 DEF SessionInv, SessionRows, AtRequest
<1>4. CASE Rollback(s)
  BY <1>1, <1>4, RollbackType DEF TypeInv, TypeOK
<1>5. CASE /\ Len(ses[s].items) > 1
           /\ ses' = [ses EXCEPT ![s].items = Tail(@)] /\ UNCHANGED lock
  <2> DEFINE c == [ses[s] EXCEPT !.items = Tail(@)]
  <2>1. ses' = [ses EXCEPT ![s] = c]
    BY <1>5
  <2>2. /\ Tail(ses[s].items) \in Seq(Keys \cup {None})
        /\ Len(Tail(ses[s].items)) = Len(ses[s].items) - 1
        /\ Len(ses[s].items) \in Nat
    BY <1>3, HeadTailProperties
  <2>3. c \in SessionRows /\ c.pc = "lookup" /\ c.items = Tail(ses[s].items)
        /\ c.single = ses[s].single /\ c.at = ses[s].at
    BY <1>2, <2>2 DEF SessionRows
  <2> HIDE DEF c
  <2>4. c.items # <<>> /\ Len(c.items) <= Costliest /\ ~c.single
    <3>1. Len(c.items) > 0 /\ Len(c.items) <= Costliest
      BY <1>3, <1>5, <2>2, <2>3, CostliestIsMost
    <3>2. Len(ses[s].items) # 1
      <4>1. Len(ses[s].items) > 1
        BY <1>5, Zenon
      <4>2. \A n \in Nat : n > 1 => n # 1
        OBVIOUS
      <4> QED BY <2>2, <4>1, <4>2, Zenon
    <3>3. ~c.single
      BY <1>3, <2>3, <3>2, Zenon
    <3> QED BY <3>1, <3>3
  <2>5. SessionInv(c, now', ticks')
    BY <1>1, <1>3, <2>3, <2>4 DEF SessionInv, AtRequest
  <2>6. ses' \in [Sessions -> SessionRows] /\ \A x \in Sessions : SessionInv(ses'[x], now', ticks')
    BY <1>1, <2>1, <2>3, <2>5, OneSession
  <2> QED BY <1>1, <1>5, <2>6 DEF TypeInv, TypeOK
<1>6. CASE /\ ses' = [ses EXCEPT ![s].pc = IF ses[s].single THEN "quota" ELSE "insert"]
           /\ UNCHANGED lock
  <2> DEFINE c == [ses[s] EXCEPT !.pc = IF ses[s].single THEN "quota" ELSE "insert"]
  <2>1. ses' = [ses EXCEPT ![s] = c]
    BY <1>6
  <2>2. c \in SessionRows /\ c.pc \in {"quota", "insert"} /\ c.items = ses[s].items
        /\ c.single = ses[s].single /\ c.at = ses[s].at
    BY <1>2 DEF SessionRows
  <2> HIDE DEF c
  <2>3. SessionInv(c, now', ticks')
    BY <1>1, <1>3, <2>2 DEF SessionInv, AtRequest
  <2>4. ses' \in [Sessions -> SessionRows] /\ \A x \in Sessions : SessionInv(ses'[x], now', ticks')
    BY <1>1, <2>1, <2>2, <2>3, OneSession
  <2> QED BY <1>1, <1>6, <2>4 DEF TypeInv, TypeOK
<1> QED BY <1>4, <1>5, <1>6 DEF Lookup

\* The quota is read, not yet charged.
LEMMA ReadQuotaType ==
  ASSUME TypeInv, NEW s \in Sessions, ReadQuota(s)
  PROVE  TypeInv'
<1>1. TypeOK /\ UNCHANGED <<now, keyed, made, ticks, used, cursor, enabled, requests, crashes>>
  BY DEF ReadQuota, TypeInv
<1>2. ses[s] \in SessionRows /\ SessionInv(ses[s], now, ticks) /\ ses[s].pc = "quota" /\ used \in CounterRows
  BY DEF ReadQuota, TypeInv, TypeOK
<1>3. CASE Rollback(s)
  BY <1>1, <1>3, RollbackType DEF TypeInv, TypeOK
<1>4. CASE ses' = [ses EXCEPT ![s].pc = "charge", ![s].read = used] /\ UNCHANGED lock
  <2> DEFINE c == [ses[s] EXCEPT !.pc = "charge", !.read = used]
  <2>1. ses' = [ses EXCEPT ![s] = c]
    BY <1>4
  <2>2. c \in SessionRows /\ c.pc = "charge" /\ c.items = ses[s].items
        /\ c.single = ses[s].single /\ c.at = ses[s].at
    BY <1>2 DEF SessionRows
  <2> HIDE DEF c
  <2>3. SessionInv(c, now', ticks')
    BY <1>1, <1>2, <2>2 DEF SessionInv, AtRequest
  <2>4. ses' \in [Sessions -> SessionRows] /\ \A x \in Sessions : SessionInv(ses'[x], now', ticks')
    BY <1>1, <2>1, <2>2, <2>3, OneSession
  <2> QED BY <1>1, <1>4, <2>4 DEF TypeInv, TypeOK
<1> QED BY <1>3, <1>4 DEF ReadQuota

\* The increment takes the row lock of the counter.
LEMMA ChargeType ==
  ASSUME TypeInv, NEW s \in Sessions, Charge(s)
  PROVE  TypeInv'
<1>1. TypeOK /\ UNCHANGED <<now, keyed, made, ticks, used, cursor, enabled, requests, crashes>>
  BY DEF Charge, TypeInv
<1>2. ses[s] \in SessionRows /\ SessionInv(ses[s], now, ticks) /\ ses[s].pc = "charge"
  BY DEF Charge, TypeInv, TypeOK
<1>3. CASE Rollback(s)
  BY <1>1, <1>3, RollbackType DEF TypeInv, TypeOK
<1>4. CASE /\ lock' = s
           /\ ses' = [ses EXCEPT ![s].pc = IF ses[s].single THEN "insert" ELSE "lookup",
                                 ![s].charged = Len(ses[s].items)]
  <2> DEFINE c == [ses[s] EXCEPT !.pc = IF ses[s].single THEN "insert" ELSE "lookup",
                                 !.charged = Len(ses[s].items)]
  <2>1. ses' = [ses EXCEPT ![s] = c]
    BY <1>4
  <2>2. Len(ses[s].items) \in Nat
    BY <1>2 DEF SessionRows
  <2>3. c \in SessionRows /\ c.pc \in {"insert", "lookup"} /\ c.items = ses[s].items
        /\ c.single = ses[s].single /\ c.at = ses[s].at
    BY <1>2, <2>2 DEF SessionRows
  <2> HIDE DEF c
  <2>4. SessionInv(c, now', ticks')
    BY <1>1, <1>2, <2>3 DEF SessionInv, AtRequest
  <2>5. ses' \in [Sessions -> SessionRows] /\ \A x \in Sessions : SessionInv(ses'[x], now', ticks')
    BY <1>1, <2>1, <2>3, <2>4, OneSession
  <2> QED BY <1>1, <1>4, <2>5 DEF TypeInv, TypeOK
<1> QED BY <1>3, <1>4 DEF Charge

\* The insert makes a job, or loses the race for its key.
LEMMA InsertType ==
  ASSUME TypeInv, NEW s \in Sessions, Insert(s)
  PROVE  TypeInv'
<1> DEFINE k == Head(ses[s].items)
           rest == Tail(ses[s].items)
           next == [ses[s] EXCEPT !.pc = "lookup", !.items = rest, !.charged = 0]
<1>1. TypeOK /\ UNCHANGED <<now, ticks, cursor, enabled, requests, crashes>>
  BY DEF Insert, TypeInv
<1>2. ses[s] \in SessionRows /\ SessionInv(ses[s], now, ticks) /\ ses[s].pc = "insert"
  BY DEF Insert, TypeInv, TypeOK
<1>3. CASE Rollback(s) /\ UNCHANGED <<keyed, made, used>>
  BY <1>1, <1>3, RollbackType DEF TypeInv, TypeOK
<1>4. CASE /\ keyed' = keyed \cup ({k} \ {None}) /\ made' = made + 1
           /\ used' = (IF lock = s THEN Charged(s) ELSE used)
           /\ lock' = (IF lock = s THEN None ELSE lock)
           /\ ses' = [ses EXCEPT ![s] = IF rest = <<>> THEN Idle ELSE next]
  <2>1. /\ ses[s].items \in Seq(Keys \cup {None}) /\ ses[s].items # <<>>
        /\ Len(ses[s].items) <= Costliest /\ ses[s].charged \in Nat
        /\ ses[s].single => Len(ses[s].items) = 1
        /\ ses[s].at <= now
    BY <1>2 DEF SessionInv, SessionRows, AtRequest
  <2>2. /\ rest \in Seq(Keys \cup {None}) /\ Len(rest) = Len(ses[s].items) - 1
        /\ Len(ses[s].items) \in Nat /\ k \in Keys \cup {None}
    BY <2>1, HeadTailProperties
  <2>3. keyed' \subseteq Keys /\ made' \in Nat /\ lock' \in Sessions \cup {None}
    BY <1>1, <1>4, <2>2 DEF TypeOK
  <2>4. used' \in CounterRows
    BY <1>1, <1>4, <2>1, ParameterAssumption DEF TypeOK, CounterRows, Charged, Counter
  <2> HIDE DEF rest
  <2>5. next \in SessionRows /\ next.pc = "lookup" /\ next.items = rest
        /\ next.single = ses[s].single /\ next.at = ses[s].at
    BY <1>2, <2>2 DEF SessionRows
  <2> HIDE DEF next
  <2>6. rest # <<>> => SessionInv(next, now', ticks')
    <3> SUFFICES ASSUME rest # <<>> PROVE SessionInv(next, now', ticks')
      OBVIOUS
    <3>1. Len(rest) > 0 /\ Len(rest) <= Costliest
      BY <2>1, <2>2, CostliestIsMost
    <3>2. ~next.single
      BY <2>1, <2>2, <2>5, <3>1
    <3> QED BY <1>1, <2>1, <2>5, <3>1, <3>2 DEF SessionInv, AtRequest
  <2>7. SessionInv(Idle, now', ticks')
    BY <1>1, Bounds DEF SessionInv, AtRequest, Idle, TypeOK
  <2> HIDE DEF Idle
  <2>8. ses' \in [Sessions -> SessionRows] /\ \A x \in Sessions : SessionInv(ses'[x], now', ticks')
    <3> DEFINE c == IF rest = <<>> THEN Idle ELSE next
    <3>1. c \in SessionRows /\ SessionInv(c, now', ticks')
      BY <2>5, <2>6, <2>7, IdleSession
    <3>2. ses' = [ses EXCEPT ![s] = c]
      BY <1>4
    <3> HIDE DEF c
    <3> QED BY <1>1, <3>1, <3>2, OneSession
  <2> QED BY <1>1, <2>3, <2>4, <2>8 DEF TypeInv, TypeOK
<1> QED BY <1>3, <1>4 DEF Insert


\* A pass keeps the cursors of the due rows as they were read.
LEMMA StartPassType ==
  ASSUME TypeInv, NEW s \in Sessions, StartPass(s)
  PROVE  TypeInv'
<1> DEFINE due == [r \in Recs |-> IF IsDue(r) THEN cursor[r] ELSE None]
           c == [Idle EXCEPT !.pc = "pass", !.batch = {r \in Recs : IsDue(r)}, !.at = now,
                             !.due = due]
<1>1. /\ TypeOK
      /\ UNCHANGED <<now, keyed, made, ticks, used, lock, cursor, enabled, requests, crashes>>
      /\ ses' = [ses EXCEPT ![s] = c]
  BY DEF StartPass, TypeInv
<1>2. \A r \in Recs : IsDue(r) => cursor[r] \in Cron[r] /\ cursor[r] <= now
  BY <1>1 DEF TypeOK, IsDue
<1>3. due \in [Recs -> Times \cup {None}] /\ \A r \in Recs : IsDue(r) => due[r] = cursor[r]
  BY <1>1 DEF TypeOK
<1> HIDE DEF due
<1>4. /\ c \in SessionRows /\ c.pc = "pass" /\ c.batch = {r \in Recs : IsDue(r)}
      /\ c.at = now /\ c.due = due
  BY <1>1, <1>3, IdleSession DEF SessionRows, Idle, TypeOK
<1> HIDE DEF c
<1>5. SessionInv(c, now', ticks')
  BY <1>1, <1>2, <1>3, <1>4, Bounds DEF SessionInv, AtRequest, WasDue, TypeOK
<1>6. ses' \in [Sessions -> SessionRows] /\ \A x \in Sessions : SessionInv(ses'[x], now', ticks')
  BY <1>1, <1>4, <1>5, OneSession
<1> QED BY <1>1, <1>6 DEF TypeInv, TypeOK

\* A materialised tick is one the cursor stood at.
LEMMA MaterializeType ==
  ASSUME TypeInv, NEW s \in Sessions, NEW r \in Recs, Materialize(s, r)
  PROVE  TypeInv'
<1> DEFINE t == ses[s].due[r]
           b == IF t \in ticks[r] THEN {} ELSE ses[s].batch \ {r}
           c == [ses[s] EXCEPT !.pc = "advance", !.rec = r, !.batch = b]
<1>1. /\ TypeOK
      /\ UNCHANGED <<now, keyed, made, used, lock, cursor, enabled, requests, crashes>>
      /\ ses[s].pc = "pass" /\ r \in ses[s].batch
      /\ ticks' = [ticks EXCEPT ![r] = @ \cup {t}]
      /\ ses' = [ses EXCEPT ![s] = c]
  BY DEF Materialize, TypeInv
<1>2. ses[s] \in SessionRows /\ SessionInv(ses[s], now, ticks)
  BY DEF TypeInv, TypeOK
<1>3. t \in Cron[r] /\ t \in Times /\ WasDue(ses[s], r) /\ \A x \in ses[s].batch : WasDue(ses[s], x)
  BY <1>1, <1>2, Bounds DEF SessionInv, WasDue
<1> HIDE DEF t
<1>4. /\ ticks' \in [Recs -> SUBSET Times] /\ \A x \in Recs : ticks'[x] \subseteq Cron[x]
      /\ \A x \in Recs : ticks[x] \subseteq ticks'[x]
      /\ t \in ticks'[r]
  BY <1>1, <1>3 DEF TypeOK
<1>5. b \in SUBSET Recs /\ b \subseteq ses[s].batch
  BY <1>2 DEF SessionRows
<1> HIDE DEF b
<1>6. /\ c \in SessionRows /\ c.pc = "advance" /\ c.batch = b /\ c.rec = r
      /\ c.at = ses[s].at /\ c.due = ses[s].due
  BY <1>2, <1>5 DEF SessionRows
<1> HIDE DEF c
<1>7. SessionInv(c, now', ticks')
  <2>1. t = c.due[r]
    BY <1>6 DEF t
  <2>2. c.at <= now'
    BY <1>1, <1>2, <1>6 DEF SessionInv
  <2>3. \A x \in c.batch : WasDue(c, x)
    BY <1>3, <1>5, <1>6 DEF WasDue
  <2>4. WasDue(c, c.rec) /\ c.due[c.rec] \in ticks'[c.rec]
    BY <1>3, <1>4, <1>6, <2>1 DEF WasDue
  <2> QED BY <1>6, <2>2, <2>3, <2>4 DEF SessionInv, AtRequest
<1>8. ses' \in [Sessions -> SessionRows] /\ \A x \in Sessions : SessionInv(ses'[x], now', ticks')
  BY <1>1, <1>4, <1>6, <1>7, OneSession
<1> QED BY <1>1, <1>4, <1>8 DEF TypeInv, TypeOK

\* Where an update of the cursor goes: to the first tick after the pass began.
LEMMA AdvanceIsNext ==
  ASSUME TypeInv, NEW s \in Sessions, Advance(s)
  PROVE  LET r == ses[s].rec IN
         /\ r \in Recs /\ ses[s].due[r] \in Cron[r] /\ ses[s].due[r] \in ticks[r]
         /\ ses[s].at \in 0..MaxTime /\ ses[s].due[r] <= ses[s].at /\ ses[s].at <= now
         /\ CursorAfter(s, r) = NextTick(r, ses[s].at)
<1> DEFINE r == ses[s].rec
           t == ses[s].due[r]
<1>1. ses[s] \in SessionRows /\ SessionInv(ses[s], now, ticks) /\ ses[s].pc = "advance"
  BY DEF Advance, TypeInv, TypeOK
<1>2. /\ r \in Recs /\ t \in Cron[r] /\ t \in ticks[r]
      /\ ses[s].at \in 0..MaxTime /\ t <= ses[s].at /\ ses[s].at <= now
  BY <1>1 DEF SessionInv, SessionRows, WasDue
<1>3. t \in Nat /\ ses[s].at \in Nat
  BY <1>2, Bounds
<1>4. Max({t, ses[s].at}) = ses[s].at
  BY <1>2, <1>3, LaterOfTwo
<1> QED BY <1>2, <1>4 DEF CursorAfter

\* The cursor is set to a time of its own cron expression.
LEMMA AdvanceType ==
  ASSUME TypeInv, NEW s \in Sessions, Advance(s)
  PROVE  TypeInv'
<1> DEFINE next == [ses[s] EXCEPT !.pc = "pass", !.rec = None]
           c == IF ses[s].batch = {} THEN Idle ELSE next
           r == ses[s].rec
<1>1. /\ TypeOK
      /\ UNCHANGED <<now, keyed, made, ticks, used, lock, enabled, requests, crashes>>
      /\ ses[s].pc = "advance" /\ cursor' = Advanced(s, r)
      /\ ses' = [ses EXCEPT ![s] = c]
  BY DEF Advance, TypeInv
<1>2. ses[s] \in SessionRows /\ SessionInv(ses[s], now, ticks)
  BY DEF TypeInv, TypeOK
<1>3. /\ r \in Recs /\ CursorAfter(s, r) \in Cron[r] /\ CursorAfter(s, r) \in Times
  BY AdvanceIsNext, NextTickIsNext, Bounds
<1> HIDE DEF r
<1>4. /\ cursor' \in [Recs -> Times \cup {None}]
      /\ \A x \in Recs : cursor'[x] \in Cron[x] \cup {None}
  BY <1>1, <1>3 DEF TypeOK, Advanced
<1>5. /\ next \in SessionRows /\ next.pc = "pass" /\ next.batch = ses[s].batch
      /\ next.at = ses[s].at /\ next.due = ses[s].due
  BY <1>2 DEF SessionRows
<1> HIDE DEF next
<1>6. SessionInv(next, now', ticks')
  BY <1>1, <1>2, <1>5 DEF SessionInv, AtRequest, WasDue
<1>7. SessionInv(Idle, now', ticks')
  BY <1>1, Bounds DEF SessionInv, AtRequest, Idle, TypeOK
<1> HIDE DEF Idle
<1>8. c \in SessionRows /\ SessionInv(c, now', ticks')
  BY <1>5, <1>6, <1>7, IdleSession
<1> HIDE DEF c
<1>9. ses' \in [Sessions -> SessionRows] /\ \A x \in Sessions : SessionInv(ses'[x], now', ticks')
  BY <1>1, <1>8, OneSession
<1> QED BY <1>1, <1>4, <1>9 DEF TypeInv, TypeOK

\* Every step keeps the types.
LEMMA NextType == TypeInv /\ [Next]_vars => TypeInv'
<1> SUFFICES ASSUME TypeInv, [Next]_vars PROVE TypeInv'
  OBVIOUS
<1>1. ASSUME NEW s \in Sessions, Step(s) PROVE TypeInv'
  <2>1. CASE \E r \in Recs : Materialize(s, r)
    BY <2>1, MaterializeType
  <2>2. CASE StartPass(s) \/ Advance(s)
    BY <2>2, StartPassType, AdvanceType
  <2> QED BY <1>1, <2>1, <2>2, LookupType, ReadQuotaType, ChargeType, InsertType DEF Step
<1>2. ASSUME NEW s \in Sessions, Crash(s) PROVE TypeInv'
  <2>1. /\ TypeOK /\ Rollback(s) /\ crashes < MaxCrashes /\ crashes' = crashes + 1
        /\ UNCHANGED <<now, keyed, made, ticks, used, cursor, enabled, requests>>
    BY <1>2 DEF Crash, TypeInv
  <2>2. crashes' \in 0..MaxCrashes
    BY <2>1, ParameterAssumption DEF TypeOK
  <2> QED BY <2>1, <2>2, RollbackType DEF TypeInv, TypeOK
<1>3. ASSUME NEW r \in Recs, CreateRecurring(r) PROVE TypeInv'
  <2>1. /\ TypeOK /\ cursor' = [cursor EXCEPT ![r] = NextTick(r, now)]
        /\ UNCHANGED <<now, keyed, made, ticks, used, lock, enabled, ses, requests, crashes>>
    BY <1>3 DEF CreateRecurring, TypeInv
  <2>2. NextTick(r, now) \in Cron[r] /\ NextTick(r, now) \in Times
    BY <2>1, NextTickIsNext, Bounds DEF TypeOK
  <2> QED BY <2>1, <2>2 DEF TypeInv, TypeOK
<1>4. ASSUME NEW r \in Recs, Toggle(r) PROVE TypeInv'
  BY <1>4 DEF Toggle, TypeInv, TypeOK
<1>5. CASE Tick
  <2>1. /\ TypeOK /\ now' = now + 1 /\ now < MaxTime
        /\ UNCHANGED <<keyed, made, ticks, used, lock, cursor, enabled, ses, requests, crashes>>
    BY <1>5 DEF Tick, TypeInv
  <2>2. now \in 0..MaxTime /\ now' \in 0..MaxTime
    BY <2>1, Bounds DEF TypeOK
  <2>3. ASSUME NEW s \in Sessions PROVE SessionInv(ses'[s], now', ticks')
    <3>1. ses[s] \in SessionRows /\ SessionInv(ses[s], now, ticks)
      BY DEF TypeInv, TypeOK
    <3>2. ses[s].at <= now'
      BY <2>1, <2>2, <3>1, Bounds DEF SessionInv, SessionRows
    <3> QED BY <2>1, <3>1, <3>2 DEF SessionInv
  <2> QED BY <2>1, <2>2, <2>3 DEF TypeInv, TypeOK
<1>6. CASE UNCHANGED vars
  BY <1>6 DEF vars, TypeInv, TypeOK
<1> QED BY <1>1, <1>2, <1>3, <1>4, <1>5, <1>6, StartRequestType DEF Next

\* Hence they hold in every reachable state.
LEMMA TypeInvariant == Spec => []TypeInv
BY InitType, NextType, PTL DEF Spec

\* Every table and every session stays of its type; in particular next_run_at
\* is always a time of its own cron expression.
THEOREM TypeCorrect == Spec => []TypeOK
<1>1. TypeInv => TypeOK
  BY DEF TypeInv
<1> QED BY <1>1, TypeInvariant, PTL
-----------------------------------------------------------------------------
(* The cursor of a recurring job                                             *)

\* What a step does to a cursor that is there.
CursorStep(r) ==
  /\ cursor'[r] \in Nat /\ cursor[r] <= cursor'[r]
  /\ cursor'[r] # cursor[r] =>
       /\ cursor[r] \in ticks[r]
       /\ \A t \in Cron[r] : cursor[r] < t /\ t < cursor'[r] => t <= now

\* Whoever writes a cursor has found it where it read it, and moves it on.
LEMMA CursorSteps ==
  ASSUME TypeInv, [Next]_vars, NEW r \in Recs, cursor[r] # None
  PROVE  CursorStep(r)
<1>1. cursor[r] \in Cron[r] /\ cursor[r] \in Nat /\ cursor \in [Recs -> Times \cup {None}]
  BY Bounds DEF TypeInv, TypeOK
<1>2. ASSUME NEW s \in Sessions, Advance(s) PROVE CursorStep(r)
  <2> DEFINE q == ses[s].rec
             n == NextTick(q, ses[s].at)
  <2>1. /\ q \in Recs /\ ses[s].due[q] \in Cron[q] /\ ses[s].due[q] \in ticks[q]
        /\ ses[s].at \in 0..MaxTime /\ ses[s].due[q] <= ses[s].at /\ ses[s].at <= now
        /\ CursorAfter(s, q) = n
    BY <1>2, AdvanceIsNext
  <2>2. cursor' = [cursor EXCEPT ![q] = IF @ = ses[s].due[q] THEN n ELSE @]
    BY <1>2, <2>1 DEF Advance, Advanced
  <2>3. /\ n \in Nat /\ ses[s].at < n /\ \A k \in Cron[q] : ses[s].at < k => n <= k
        /\ now \in Nat /\ \A k \in Cron[q] : k \in Nat
    BY <2>1, NextTickIsNext, Bounds DEF TypeInv, TypeOK
  <2> HIDE DEF q, n
  <2>4. CASE r = q /\ cursor[r] = ses[s].due[q]
    <3>1. cursor'[r] = n
      BY <1>1, <2>2, <2>4
    <3> QED BY <1>1, <2>1, <2>3, <2>4, <3>1, Bounds DEF CursorStep
  <2>5. CASE ~(r = q /\ cursor[r] = ses[s].due[q])
    BY <1>1, <2>1, <2>2, <2>5 DEF CursorStep
  <2> QED BY <2>4, <2>5
<1>3. ASSUME NEW q \in Recs, CreateRecurring(q) PROVE CursorStep(r)
  BY <1>1, <1>3 DEF CreateRecurring, CursorStep
<1>4. ASSUME cursor' = cursor PROVE CursorStep(r)
  BY <1>1, <1>4 DEF CursorStep
<1>5. ASSUME NEW s \in Sessions, Step(s), ~Advance(s) PROVE cursor' = cursor
  <2>1. CASE \E q \in Recs : Materialize(s, q)
    BY <2>1 DEF Materialize
  <2>2. CASE Lookup(s) \/ ReadQuota(s)
    BY <2>2 DEF Lookup, ReadQuota
  <2>3. CASE Charge(s) \/ Insert(s)
    BY <2>3 DEF Charge, Insert
  <2> QED BY <1>5, <2>1, <2>2, <2>3 DEF Step, StartPass
<1>6. ASSUME NEW s \in Sessions, Crash(s) \/ \E q \in Requests : StartRequest(s, q)
      PROVE  cursor' = cursor
  BY <1>6 DEF Crash, StartRequest
<1>7. ASSUME NEW q \in Recs, Toggle(q) PROVE cursor' = cursor
  BY <1>7 DEF Toggle
<1>8. Tick \/ UNCHANGED vars => cursor' = cursor
  BY DEF Tick, vars
<1> QED BY <1>2, <1>3, <1>4, <1>5, <1>6, <1>7, <1>8 DEF Next

\* Schedulers whose passes overlap never move next_run_at backwards.
THEOREM NeverBack == Spec => CursorNeverGoesBack
<1>1. TypeInv /\ [Next]_vars
      => [\A r \in Recs : cursor[r] # None => cursor'[r] >= cursor[r]]_vars
  <2> SUFFICES ASSUME TypeInv, [Next]_vars, NEW r \in Recs, cursor[r] # None
               PROVE  cursor'[r] >= cursor[r]
    OBVIOUS
  <2>1. cursor[r] \in Nat
    BY Bounds DEF TypeInv, TypeOK
  <2> QED BY <2>1, CursorSteps DEF CursorStep
<1> QED BY <1>1, TypeInvariant, PTL DEF Spec, CursorNeverGoesBack

\* When next_run_at leaves a time the job of that time has been made, and every
\* time it jumps over had passed: of the missed times only one job is made.
THEOREM NotLost == Spec => TicksAreNotLost
<1>1. TypeInv /\ [Next]_vars
      => [\A r \in Recs : cursor[r] # None /\ cursor'[r] # cursor[r] =>
            /\ cursor[r] \in ticks[r]
            /\ \A t \in Cron[r] : cursor[r] < t /\ t < cursor'[r] => t <= now]_vars
  BY CursorSteps DEF CursorStep
<1> QED BY <1>1, TypeInvariant, PTL DEF Spec, TicksAreNotLost
-----------------------------------------------------------------------------
(* Sums over the sessions                                                    *)

\* The sum of f over the sessions is the number of its units.
Units(f) == {p \in Sessions \X (1..Costliest) : p[2] <= f[p[1]]}
Total(f) == Cardinality(Units(f))

Shares == [Sessions -> 0..Costliest]

\* The units of one session are as many as its share.
LEMMA UnitsOfOne ==
  ASSUME NEW s \in Sessions, NEW n \in 0..Costliest
  PROVE  IsFiniteSet({s} \X (1..n)) /\ Cardinality({s} \X (1..n)) = n
<1>1. n \in Nat
  BY CostliestIsMost
<1>2. IsFiniteSet({s}) /\ Cardinality({s}) = 1
  BY FS_Singleton
<1>3. IsFiniteSet(1..n) /\ Cardinality(1..n) = n
  BY <1>1, FS_Interval
<1>4. Cardinality({s} \X (1..n)) = 1 * n
  BY <1>2, <1>3, FS_Product
<1> QED BY <1>1, <1>2, <1>3, <1>4, FS_Product

\* The shares of all sessions but one are bounded by the costliest request.
LEMMA TotalOfOthers ==
  ASSUME NEW f \in Shares, NEW s \in Sessions
  PROVE  LET O == {p \in Units(f) : p[1] # s} IN
         /\ IsFiniteSet(O) /\ Cardinality(O) \in Nat
         /\ Cardinality(O) <= (Cardinality(Sessions) - 1) * Costliest
         /\ Total(f) = Cardinality(O) + f[s]
<1> DEFINE O == {p \in Units(f) : p[1] # s}
           R == Sessions \ {s}
           B == 1..Costliest
<1>1. Costliest \in Nat /\ IsFiniteSet(Sessions)
  BY CostliestIsMost, ParameterAssumption
<1>2. IsFiniteSet(R) /\ Cardinality(R) = Cardinality(Sessions) - 1
  BY <1>1, FS_RemoveElement
<1>3. IsFiniteSet(B) /\ Cardinality(B) = Costliest
  BY <1>1, FS_Interval
<1>4. IsFiniteSet(R \X B)
      /\ Cardinality(R \X B) = (Cardinality(Sessions) - 1) * Costliest
  <2>1. IsFiniteSet(R \X B) /\ Cardinality(R \X B) = Cardinality(R) * Cardinality(B)
    BY <1>2, <1>3, FS_Product
  <2> QED BY <1>2, <1>3, <2>1, Zenon
<1>5. O \subseteq R \X B
  BY DEF Units
<1>6. IsFiniteSet(O) /\ Cardinality(O) \in Nat /\ Cardinality(O) <= Cardinality(R \X B)
  BY <1>4, <1>5, FS_Subset, FS_CardinalityType
<1>7. f[s] \in 0..Costliest
  BY DEF Shares
<1>8. Units(f) = O \cup ({s} \X (1..f[s])) /\ O \cap ({s} \X (1..f[s])) = {}
  BY <1>1, <1>7 DEF Units
<1>9. IsFiniteSet({s} \X (1..f[s])) /\ Cardinality({s} \X (1..f[s])) = f[s]
  BY <1>7, UnitsOfOne
<1> HIDE DEF O
<1>10. Cardinality(Units(f)) = Cardinality(O) + f[s] - Cardinality({})
  BY <1>6, <1>8, <1>9, FS_Union
<1>11. Cardinality({}) = 0
  BY FS_EmptySet
<1> QED BY <1>1, <1>4, <1>6, <1>7, <1>10, <1>11 DEF O, Total

\* What changes for one session changes the sum by as much.
LEMMA TotalChange ==
  ASSUME NEW f \in Shares, NEW g \in Shares, NEW s \in Sessions,
         \A x \in Sessions \ {s} : g[x] = f[x]
  PROVE  /\ Total(f) \in Nat /\ Total(g) \in Nat
         /\ Total(g) + f[s] = Total(f) + g[s]
         /\ Total(g) <= (Cardinality(Sessions) - 1) * Costliest + g[s]
<1> DEFINE O(h) == {p \in Units(h) : p[1] # s}
<1>1. O(f) = O(g)
  BY DEF Units
<1>2. /\ Cardinality(O(f)) \in Nat /\ Total(f) = Cardinality(O(f)) + f[s]
  BY TotalOfOthers
<1>3. /\ Cardinality(O(g)) \in Nat /\ Total(g) = Cardinality(O(g)) + g[s]
      /\ Cardinality(O(g)) <= (Cardinality(Sessions) - 1) * Costliest
  BY TotalOfOthers
<1>4. f[s] \in Nat /\ g[s] \in Nat
  BY CostliestIsMost DEF Shares
<1>5. (Cardinality(Sessions) - 1) * Costliest \in Int
  <2>1. Cardinality(Sessions) \in Nat
    BY ParameterAssumption, FS_CardinalityType
  <2> QED BY <2>1, CostliestIsMost
<1> HIDE DEF O
<1> QED BY <1>1, <1>2, <1>3, <1>4, <1>5

\* Nothing adds up to nothing.
LEMMA TotalOfNothing == [s \in Sessions |-> 0] \in Shares /\ Total([s \in Sessions |-> 0]) = 0
<1>1. [s \in Sessions |-> 0] \in Shares
  BY CostliestIsMost DEF Shares
<1>2. Units([s \in Sessions |-> 0]) = {}
  BY CostliestIsMost DEF Units
<1> QED BY <1>1, <1>2, FS_EmptySet DEF Total
-----------------------------------------------------------------------------
(* What the sessions owe, and what they may still charge                     *)

\* A session that has changed the counter has charged for all it has left; a
\* single job is inserted only under its charge.
Holding(s, c, l) ==
  /\ l = s => /\ c.pc \in {"lookup", "insert"} /\ (c.pc = "lookup" => ~c.single)
              /\ Len(c.items) <= c.charged /\ c.charged <= Costliest
  /\ c.pc = "insert" /\ c.single => l = s

\* The jobs of a batch that its committed charge has paid for, and that are
\* still to be made.
Owes(s, c, l) ==
  IF c.pc \in {"lookup", "insert"} /\ ~c.single /\ l # s THEN Len(c.items) ELSE 0

\* What has passed the quota and is not committed yet.
Approved(s, c, l) ==
  IF c.pc = "charge" THEN Len(c.items) ELSE IF l = s THEN c.charged ELSE 0

Owed == [s \in Sessions |-> Owes(s, ses[s], lock)]
AllApproved == [s \in Sessions |-> Approved(s, ses[s], lock)]

AllHolding == \A s \in Sessions : Holding(s, ses[s], lock)

ChargeInv ==
  /\ TypeInv /\ AllHolding
  /\ made + Total(Owed) <= Counter(used)
  /\ Counter(used) + Total(AllApproved) <= Quota + (Cardinality(Sessions) - 1) * Costliest

SharesTyped == Owed \in Shares /\ AllApproved \in Shares

\* What sessions owe and what they were approved for are shares of that kind.
LEMMA SharesType == TypeInv /\ AllHolding => SharesTyped
<1> SUFFICES ASSUME TypeInv, AllHolding PROVE SharesTyped
  OBVIOUS
<1>1. ASSUME NEW s \in Sessions
      PROVE  Owes(s, ses[s], lock) \in 0..Costliest /\ Approved(s, ses[s], lock) \in 0..Costliest
  <2>1. ses[s] \in SessionRows /\ SessionInv(ses[s], now, ticks) /\ Holding(s, ses[s], lock)
    BY DEF TypeInv, TypeOK, AllHolding
  <2>2. /\ Len(ses[s].items) \in Nat /\ ses[s].charged \in Nat /\ Costliest \in Nat
        /\ AtRequest(ses[s]) => Len(ses[s].items) <= Costliest
    BY <2>1, CostliestIsMost DEF SessionRows, SessionInv
  <2>3. Owes(s, ses[s], lock) \in 0..Costliest
    BY <2>2 DEF Owes, AtRequest
  <2>4. Approved(s, ses[s], lock) \in 0..Costliest
    BY <2>1, <2>2 DEF Approved, AtRequest, Holding
  <2> QED BY <2>3, <2>4
<1> QED BY <1>1 DEF SharesTyped, Shares, Owed, AllApproved

\* What a step of one session does to the counter, to the jobs made and to the
\* sums: it makes no job without a charge, and it either charges no more than
\* was approved or finds the quota kept.
Pays(s) ==
  /\ \A x \in Sessions \ {s} : ses'[x] = ses[x] /\ (lock' = x <=> lock = x)
  /\ Holding(s, ses'[s], lock')
  /\ made' + Owes(s, ses'[s], lock') + Counter(used)
       <= made + Owes(s, ses[s], lock) + Counter(used')
  /\ \/ Counter(used') + Approved(s, ses'[s], lock') <= Counter(used) + Approved(s, ses[s], lock)
     \/ Counter(used') + Approved(s, ses'[s], lock') <= Quota

\* A step of one session that pays for what it makes keeps the account.
LEMMA PaidStep ==
  ASSUME ChargeInv, TypeInv', NEW s \in Sessions, Pays(s)
  PROVE  ChargeInv'
<1>1. TypeInv /\ AllHolding
  BY DEF ChargeInv
<1>2. ASSUME NEW x \in Sessions \ {s}
      PROVE  /\ Holding(x, ses'[x], lock')
             /\ Owes(x, ses'[x], lock') = Owes(x, ses[x], lock)
             /\ Approved(x, ses'[x], lock') = Approved(x, ses[x], lock)
  <2>1. ses'[x] = ses[x] /\ (lock' = x <=> lock = x) /\ Holding(x, ses[x], lock)
    BY <1>1 DEF Pays, AllHolding
  <2> QED BY <2>1 DEF Holding, Owes, Approved
<1>3. AllHolding'
  BY <1>2 DEF Pays, AllHolding
<1>4. Owed \in Shares /\ AllApproved \in Shares
  BY <1>1, SharesType DEF SharesTyped
<1>5. Owed' \in Shares /\ AllApproved' \in Shares
  <2>1. SharesTyped'
    BY <1>3, SharesType, PTL
  <2> QED BY <2>1 DEF SharesTyped
<1> DEFINE o == Owes(s, ses[s], lock)
           p == Owes(s, ses'[s], lock')
           a == Approved(s, ses[s], lock)
           b == Approved(s, ses'[s], lock')
           C == (Cardinality(Sessions) - 1) * Costliest
<1>6. /\ Owed[s] = o /\ AllApproved[s] = a /\ Owed'[s] = p /\ AllApproved'[s] = b
      /\ \A x \in Sessions \ {s} : Owed'[x] = Owed[x] /\ AllApproved'[x] = AllApproved[x]
  BY <1>2 DEF Owed, AllApproved
<1>7. /\ o \in Nat /\ p \in Nat /\ a \in Nat /\ b \in Nat
  BY <1>4, <1>5, <1>6, CostliestIsMost DEF Shares
<1>8. /\ Total(Owed) \in Nat /\ Total(Owed') \in Nat /\ Total(Owed') + o = Total(Owed) + p
  BY <1>4, <1>5, <1>6, TotalChange
<1>9. /\ Total(AllApproved) \in Nat /\ Total(AllApproved') \in Nat
      /\ Total(AllApproved') + a = Total(AllApproved) + b
      /\ Total(AllApproved') <= C + b
  BY <1>4, <1>5, <1>6, TotalChange
<1>10. /\ made \in Nat /\ made' \in Nat /\ Counter(used) \in Nat /\ Counter(used') \in Nat
       /\ Quota \in Nat /\ C \in Int
  <2>1. made \in Nat /\ made' \in Nat /\ Counter(used) \in Nat /\ Counter(used') \in Nat
    BY <1>1, ParameterAssumption DEF TypeInv, TypeOK, Counter, CounterRows
  <2>2. Cardinality(Sessions) \in Nat
    BY ParameterAssumption, FS_CardinalityType
  <2> QED BY <2>1, <2>2, CostliestIsMost, ParameterAssumption
<1>11. /\ made' + p + Counter(used) <= made + o + Counter(used')
       /\ \/ Counter(used') + b <= Counter(used) + a
          \/ Counter(used') + b <= Quota
  BY DEF Pays
<1>12. /\ made + Total(Owed) <= Counter(used)
       /\ Counter(used) + Total(AllApproved) <= Quota + C
  BY DEF ChargeInv
<1> HIDE DEF o, p, a, b, C
<1>13. made' + Total(Owed') <= Counter(used')
  BY <1>7, <1>8, <1>10, <1>11, <1>12
<1>14. Counter(used') + Total(AllApproved') <= Quota + C
  BY <1>7, <1>9, <1>10, <1>11, <1>12
<1> QED BY <1>3, <1>13, <1>14 DEF ChargeInv, C

\* What is known of a session before its step.
Known(s) ==
  /\ ses \in [Sessions -> SessionRows] /\ lock \in Sessions \cup {None}
  /\ Len(ses[s].items) \in Nat /\ ses[s].charged \in Nat /\ ses[s].single \in BOOLEAN
  /\ Counter(used) \in Nat /\ made \in Nat /\ None \notin Sessions
  /\ Holding(s, ses[s], lock)
  /\ AtRequest(ses[s]) => /\ ses[s].items # <<>> /\ Len(ses[s].items) <= Costliest
                          /\ ses[s].single => Len(ses[s].items) = 1

\* What a session may rely on.
LEMMA ToKnow ==
  ASSUME ChargeInv, NEW s \in Sessions
  PROVE  Known(s)
<1>1. TypeOK /\ SessionInv(ses[s], now, ticks) /\ Holding(s, ses[s], lock)
  BY DEF ChargeInv, TypeInv, AllHolding
<1>2. ses[s] \in SessionRows
  BY <1>1 DEF TypeOK
<1>3. Len(ses[s].items) \in Nat /\ ses[s].charged \in Nat /\ ses[s].single \in BOOLEAN
  BY <1>2 DEF SessionRows
<1>4. Counter(used) \in Nat /\ made \in Nat /\ None \notin Sessions
  BY <1>1, ParameterAssumption DEF TypeOK, Counter, CounterRows
<1> QED BY <1>1, <1>3, <1>4 DEF Known, TypeOK, SessionInv

\* A session that steps without the lock and with nothing left to charge or to
\* make gains nothing; what it gave up was not committed.
LEMMA PaysNothing ==
  ASSUME NEW s \in Sessions, Known(s), NEW c \in SessionRows, ses' = [ses EXCEPT ![s] = c],
         made' = made, used' = used,
         lock' = (IF lock = s THEN None ELSE lock),
         c.pc \in {"idle", "quota", "pass", "advance"} \/ (c.pc = "lookup" /\ c.single)
  PROVE  Pays(s)
<1>1. ses'[s] = c /\ \A x \in Sessions \ {s} : ses'[x] = ses[x]
  BY DEF Known
<1>2. lock' # s /\ \A x \in Sessions \ {s} : (lock' = x <=> lock = x)
  BY DEF Known
<1>3. Owes(s, c, lock') = 0 /\ Approved(s, c, lock') = 0
  BY <1>2 DEF Owes, Approved
<1>4. Owes(s, ses[s], lock) \in Nat /\ Approved(s, ses[s], lock) \in Nat
  BY DEF Owes, Approved, Known
<1>5. Holding(s, c, lock')
  BY <1>2 DEF Holding
<1>6. made \in Nat /\ Counter(used) \in Nat
  BY DEF Known
<1> QED BY <1>1, <1>2, <1>3, <1>4, <1>5, <1>6 DEF Pays

\* A rollback takes the uncommitted charge back.
LEMMA RollbackPays ==
  ASSUME NEW s \in Sessions, Known(s), Rollback(s), made' = made, used' = used
  PROVE  Pays(s)
<1>1. Idle.pc = "idle"
  BY DEF Idle
<1> HIDE DEF Idle
<1> QED BY <1>1, IdleSession, PaysNothing DEF Rollback

\* A start, a materialisation and an advance charge nothing.
LEMMA StartPays ==
  ASSUME NEW s \in Sessions, Known(s),
         StartPass(s) \/ (\E q \in Requests : StartRequest(s, q)) \/ Advance(s)
           \/ (\E r \in Recs : Materialize(s, r)),
         TypeInv'
  PROVE  Pays(s)
<1>1. lock # s
  BY DEF Known, Holding, StartPass, StartRequest, Advance, Materialize
<1>2. made' = made /\ used' = used /\ lock' = lock
  BY DEF StartPass, StartRequest, Advance, Materialize
<1>3. ses' \in [Sessions -> SessionRows]
  BY DEF TypeInv, TypeOK
<1>4. ses' = [ses EXCEPT ![s] = ses'[s]]
  <2>1. CASE StartPass(s) \/ Advance(s)
    BY <1>3, <2>1 DEF Known, StartPass, Advance
  <2>2. CASE \E q \in Requests : StartRequest(s, q)
    BY <1>3, <2>2 DEF Known, StartRequest
  <2>3. CASE \E r \in Recs : Materialize(s, r)
    BY <1>3, <2>3 DEF Known, Materialize
  <2> QED BY <2>1, <2>2, <2>3
<1>5. \/ ses'[s].pc \in {"idle", "quota", "pass", "advance"}
      \/ ses'[s].pc = "lookup" /\ ses'[s].single
  <2>1. CASE StartPass(s)
    BY <2>1 DEF Known, StartPass, Idle
  <2>2. CASE \E q \in Requests : StartRequest(s, q)
    <3>1. PICK q \in Requests : StartRequest(s, q)
      BY <2>2
    <3>2. q.single \in BOOLEAN
      BY ParameterAssumption
    <3>3. CASE q.single
      BY <3>1, <3>3 DEF Known, StartRequest, Idle
    <3>4. CASE ~q.single
      BY <3>1, <3>4 DEF Known, StartRequest, Idle
    <3> QED BY <3>2, <3>3, <3>4
  <2>3. CASE Advance(s)
    <3>1. ses[s] \in SessionRows
      BY DEF Known
    <3>2. ses'[s] = IF ses[s].batch = {} THEN Idle ELSE [ses[s] EXCEPT !.pc = "pass", !.rec = None]
      BY <2>3 DEF Known, Advance
    <3> QED BY <3>1, <3>2 DEF Idle, SessionRows
  <2>4. CASE \E r \in Recs : Materialize(s, r)
    <3>1. PICK r \in Recs : Materialize(s, r)
      BY <2>4
    <3>2. PICK b : ses'[s] = [ses[s] EXCEPT !.pc = "advance", !.rec = r, !.batch = b]
      BY <3>1 DEF Known, Materialize
    <3>3. ses[s] \in SessionRows
      BY DEF Known
    <3> QED BY <3>2, <3>3 DEF SessionRows
  <2> QED BY <2>1, <2>2, <2>3, <2>4
<1>6. ses'[s] \in SessionRows
  BY <1>3
<1>7. lock' = IF lock = s THEN None ELSE lock
  BY <1>1, <1>2
<1> DEFINE c == ses'[s]
<1> HIDE DEF c
<1> QED BY <1>2, <1>4, <1>5, <1>6, <1>7, PaysNothing DEF c

\* A look for a key charges nothing, or ends the request and takes its charge back.
LEMMA LookupPays ==
  ASSUME NEW s \in Sessions, Known(s), Lookup(s)
  PROVE  Pays(s)
<1> DEFINE c == ses[s]
<1>1. /\ UNCHANGED <<made, used>> /\ c.pc = "lookup" /\ c \in SessionRows
  BY DEF Lookup, Known
<1>2. CASE Rollback(s)
  BY <1>1, <1>2, RollbackPays
<1>3. CASE /\ Len(c.items) > 1 /\ ses' = [ses EXCEPT ![s].items = Tail(@)] /\ UNCHANGED lock
  <2> DEFINE d == [c EXCEPT !.items = Tail(@)]
  <2>1. ses'[s] = d /\ \A x \in Sessions \ {s} : ses'[x] = ses[x]
    BY <1>3 DEF Known
  <2>2. Len(Tail(c.items)) = Len(c.items) - 1
    BY <1>1, <1>3, HeadTailProperties DEF SessionRows
  <2>3. d.pc = c.pc /\ d.single = c.single /\ d.charged = c.charged /\ d.items = Tail(c.items)
    BY <1>1 DEF SessionRows
  <2>4. /\ Len(c.items) \in Nat /\ c.charged \in Nat /\ Costliest \in Nat
        /\ Counter(used) \in Nat /\ made \in Nat /\ Holding(s, c, lock)
    BY CostliestIsMost DEF Known
  <2> HIDE DEF c, d
  <2>5. Holding(s, d, lock)
    BY <1>1, <2>2, <2>3, <2>4 DEF Holding
  <2>6. Owes(s, d, lock) <= Owes(s, c, lock) /\ Owes(s, d, lock) \in Int /\ Owes(s, c, lock) \in Int
    BY <1>1, <2>2, <2>3, <2>4 DEF Owes
  <2>7. Approved(s, d, lock) = Approved(s, c, lock) /\ Approved(s, c, lock) \in Nat
    BY <1>1, <2>3, <2>4 DEF Approved
  <2>8. made' = made /\ used' = used /\ lock' = lock
    BY <1>1, <1>3
  <2>9. /\ made' + Owes(s, d, lock') + Counter(used) <= made + Owes(s, c, lock) + Counter(used')
        /\ Counter(used') + Approved(s, d, lock') <= Counter(used) + Approved(s, c, lock)
    BY <2>4, <2>6, <2>7, <2>8
  <2> QED BY <2>1, <2>5, <2>8, <2>9 DEF Pays, c
<1>4. CASE /\ ses' = [ses EXCEPT ![s].pc = IF ses[s].single THEN "quota" ELSE "insert"]
           /\ UNCHANGED lock
  <2>1. CASE c.single
    <3> DEFINE d == [c EXCEPT !.pc = "quota"]
    <3>1. ses' = [ses EXCEPT ![s] = d] /\ d \in SessionRows /\ d.pc = "quota"
      BY <1>1, <1>4, <2>1 DEF SessionRows
    <3>2. lock # s
      BY <1>1, <2>1 DEF Known, Holding
    <3> HIDE DEF d
    <3> QED BY <1>1, <1>4, <3>1, <3>2, PaysNothing
  <2>2. CASE ~c.single
    <3> DEFINE d == [c EXCEPT !.pc = "insert"]
    <3>1. ses'[s] = d /\ \A x \in Sessions \ {s} : ses'[x] = ses[x]
      BY <1>4, <2>2 DEF Known
    <3>2. d.pc = "insert" /\ d.single = c.single /\ d.charged = c.charged /\ d.items = c.items
      BY <1>1 DEF SessionRows
    <3>3. /\ Len(c.items) \in Nat /\ c.charged \in Nat
          /\ Counter(used) \in Nat /\ made \in Nat /\ Holding(s, c, lock)
      BY DEF Known
    <3> HIDE DEF c, d
    <3>4. /\ Holding(s, d, lock) /\ Owes(s, d, lock) = Owes(s, c, lock)
          /\ Approved(s, d, lock) = Approved(s, c, lock)
          /\ Approved(s, c, lock) \in Nat /\ Owes(s, c, lock) \in Nat
      BY <1>1, <2>2, <3>2, <3>3 DEF Holding, Owes, Approved
    <3> QED BY <1>1, <1>4, <3>1, <3>3, <3>4 DEF Pays, c
  <2> QED BY <2>1, <2>2
<1> QED BY <1>2, <1>3, <1>4 DEF Lookup

\* Reading the quota charges nothing.
LEMMA ReadQuotaPays ==
  ASSUME NEW s \in Sessions, Known(s), ReadQuota(s)
  PROVE  Pays(s)
<1> DEFINE c == ses[s]
           d == [c EXCEPT !.pc = "charge", !.read = used]
<1>1. UNCHANGED <<made, used>> /\ c.pc = "quota" /\ c \in SessionRows
  BY DEF ReadQuota, Known
<1>2. CASE Rollback(s)
  BY <1>1, <1>2, RollbackPays
<1>3. CASE /\ HasQuota(used, Len(c.items))
           /\ ses' = [ses EXCEPT ![s].pc = "charge", ![s].read = used] /\ UNCHANGED lock
  <2>1. ses'[s] = d /\ \A x \in Sessions \ {s} : ses'[x] = ses[x]
    BY <1>3 DEF Known
  <2>2. d.pc = "charge" /\ d.items = c.items
    BY <1>1 DEF SessionRows
  <2>3. /\ Len(c.items) \in Nat /\ Counter(used) \in Nat /\ made \in Nat /\ Holding(s, c, lock)
        /\ Counter(used) + Len(c.items) <= Quota
    BY <1>3 DEF Known, HasQuota
  <2> HIDE DEF c, d
  <2>4. lock # s
    BY <1>1, <2>3 DEF Holding
  <2>5. /\ Holding(s, d, lock) /\ Owes(s, d, lock) = 0 /\ Owes(s, c, lock) = 0
        /\ Approved(s, d, lock) = Len(c.items)
    BY <1>1, <2>2, <2>4 DEF Holding, Owes, Approved
  <2>6. made' = made /\ used' = used /\ lock' = lock
    BY <1>1, <1>3
  <2> QED BY <2>1, <2>3, <2>5, <2>6 DEF Pays, c
<1> QED BY <1>2, <1>3 DEF ReadQuota

\* The charge is what the quota was read for.
LEMMA ChargePays ==
  ASSUME NEW s \in Sessions, Known(s), Charge(s)
  PROVE  Pays(s)
<1> DEFINE c == ses[s]
           d == [c EXCEPT !.pc = IF c.single THEN "insert" ELSE "lookup",
                          !.charged = Len(c.items)]
<1>1. UNCHANGED <<made, used>> /\ c.pc = "charge" /\ c \in SessionRows /\ lock = None
  BY DEF Charge, Known
<1>2. CASE Rollback(s)
  BY <1>1, <1>2, RollbackPays
<1>3. CASE /\ lock' = s
           /\ ses' = [ses EXCEPT ![s].pc = IF ses[s].single THEN "insert" ELSE "lookup",
                                 ![s].charged = Len(ses[s].items)]
  <2>1. ses'[s] = d /\ \A x \in Sessions \ {s} : ses'[x] = ses[x]
    BY <1>3 DEF Known
  <2>2. /\ d.items = c.items /\ d.single = c.single /\ d.charged = Len(c.items)
        /\ d.pc \in {"insert", "lookup"} /\ (d.pc = "lookup" => ~c.single)
    BY <1>1 DEF SessionRows
  <2>3. /\ Len(c.items) \in Nat /\ Len(c.items) <= Costliest
        /\ Counter(used) \in Nat /\ made \in Nat /\ None \notin Sessions
    BY <1>1 DEF Known, AtRequest
  <2> HIDE DEF c, d
  <2>4. Holding(s, d, s)
    BY <2>2, <2>3 DEF Holding
  <2>5. /\ Owes(s, d, s) = 0 /\ Owes(s, c, lock) = 0
        /\ Approved(s, d, s) = Len(c.items) /\ Approved(s, c, lock) = Len(c.items)
    BY <1>1, <2>2 DEF Owes, Approved
  <2>6. made' = made /\ used' = used /\ lock' = s
    BY <1>1, <1>3
  <2>7. \A x \in Sessions \ {s} : lock' # x /\ lock # x
    BY <1>1, <2>3, <2>6
  <2> QED BY <2>1, <2>3, <2>4, <2>5, <2>6, <2>7 DEF Pays, c
<1> QED BY <1>2, <1>3 DEF Charge

\* The commit of one job.
LEMMA InsertPaid ==
  ASSUME NEW s \in Sessions, Known(s), ses[s].pc = "insert",
         \A x \in Sessions \ {s} : ses'[x] = ses[x],
         made' = made + 1,
         used' = (IF lock = s THEN Charged(s) ELSE used),
         lock' = (IF lock = s THEN None ELSE lock),
         \/ ses'[s].pc = "idle" /\ Len(ses[s].items) = 1
         \/ /\ ses'[s].pc = "lookup" /\ ~ses'[s].single /\ ~ses[s].single
            /\ Len(ses'[s].items) = Len(ses[s].items) - 1
  PROVE  Pays(s)
<1> DEFINE c == ses[s]
           d == ses'[s]
<1>1. /\ Len(c.items) \in Nat /\ c.charged \in Nat /\ Counter(used) \in Nat /\ made \in Nat
      /\ None \notin Sessions /\ c.single \in BOOLEAN /\ Holding(s, c, lock)
      /\ lock \in Sessions \cup {None}
  BY DEF Known
<1>2. lock' # s /\ \A x \in Sessions \ {s} : (lock' = x <=> lock = x)
  BY <1>1
<1>3. Holding(s, d, lock') /\ Approved(s, d, lock') = 0
  BY <1>2 DEF Holding, Approved
<1>4. Owes(s, d, lock') = Len(c.items) - 1
  <2>1. CASE d.pc = "idle" /\ Len(c.items) = 1
    BY <2>1 DEF Owes
  <2>2. CASE d.pc = "lookup" /\ ~d.single /\ Len(d.items) = Len(c.items) - 1
    BY <1>2, <2>2 DEF Owes
  <2> QED BY <2>1, <2>2
<1>5. CASE lock = s
  <2>1. Counter(used') = Counter(used) + c.charged
    BY <1>1, <1>5, ParameterAssumption DEF Charged, Counter
  <2>2. Owes(s, c, lock) = 0 /\ Approved(s, c, lock) = c.charged /\ Len(c.items) <= c.charged
    BY <1>1, <1>5 DEF Owes, Approved, Holding
  <2> QED BY <1>1, <1>2, <1>3, <1>4, <2>1, <2>2 DEF Pays
<1>6. CASE lock # s
  <2>1. ~c.single
    BY <1>1, <1>6 DEF Holding
  <2>2. Owes(s, c, lock) = Len(c.items) /\ Approved(s, c, lock) = 0
    BY <1>6, <2>1 DEF Owes, Approved
  <2>3. used' = used
    BY <1>6
  <2> QED BY <1>1, <1>2, <1>3, <1>4, <2>2, <2>3 DEF Pays
<1> QED BY <1>5, <1>6

\* The job that is inserted has been charged for.
LEMMA InsertPays ==
  ASSUME NEW s \in Sessions, Known(s), Insert(s)
  PROVE  Pays(s)
<1> DEFINE c == ses[s]
           rest == Tail(c.items)
           d == IF rest = <<>> THEN Idle
                ELSE [c EXCEPT !.pc = "lookup", !.items = rest, !.charged = 0]
<1>1. c.pc = "insert" /\ c \in SessionRows
  BY DEF Insert, Known
<1>2. CASE Rollback(s) /\ UNCHANGED <<keyed, made, used>>
  BY <1>2, RollbackPays
<1>3. CASE /\ made' = made + 1
           /\ used' = (IF lock = s THEN Charged(s) ELSE used)
           /\ lock' = (IF lock = s THEN None ELSE lock)
           /\ ses' = [ses EXCEPT ![s] = d]
  <2>1. ses'[s] = d /\ \A x \in Sessions \ {s} : ses'[x] = ses[x]
    BY <1>3 DEF Known
  <2>2. /\ Len(c.items) \in Nat /\ c.charged \in Nat /\ Counter(used) \in Nat /\ made \in Nat
        /\ None \notin Sessions /\ c.single \in BOOLEAN /\ Holding(s, c, lock)
        /\ c.single => Len(c.items) = 1
        /\ lock \in Sessions \cup {None}
    BY <1>1 DEF Known, AtRequest
  <2>4. c.items # <<>> /\ Len(rest) = Len(c.items) - 1 /\ (Len(rest) = 0 <=> rest = <<>>)
    <3>1. c.items # <<>> /\ c.items \in Seq(Keys \cup {None})
      BY <1>1 DEF Known, AtRequest, SessionRows
    <3>2. Len(rest) = Len(c.items) - 1 /\ rest \in Seq(Keys \cup {None})
      BY <3>1, HeadTailProperties
    <3> HIDE DEF rest
    <3>3. Len(rest) = 0 <=> rest = <<>>
      BY <3>2, EmptySeq
    <3> QED BY <3>1, <3>2, <3>3
  <2>5. CASE rest = <<>>
    <3>1. d.pc = "idle"
      BY <2>5 DEF Idle
    <3>2. Len(c.items) = 1
      BY <2>2, <2>4, <2>5
    <3>3. ses'[s].pc = "idle"
      BY <2>1, <3>1
    <3> QED BY <1>1, <1>3, <2>1, <3>2, <3>3, InsertPaid
  <2>6. CASE rest # <<>>
    <3>1. d.pc = "lookup" /\ d.items = rest /\ d.single = c.single
      BY <1>1, <2>6 DEF SessionRows
    <3>2. Len(c.items) # 1 /\ Len(d.items) = Len(c.items) - 1
      BY <2>2, <2>4, <2>6, <3>1
    <3>3. ~c.single
      BY <2>2, <3>2, Zenon
    <3>4. ses'[s].pc = "lookup" /\ ~ses'[s].single /\ Len(ses'[s].items) = Len(c.items) - 1
      BY <2>1, <3>1, <3>2, <3>3
    <3> QED BY <1>1, <1>3, <2>1, <3>3, <3>4, InsertPaid
  <2> QED BY <2>5, <2>6
<1> QED BY <1>2, <1>3 DEF Insert

\* At the start nothing is charged and nothing made.
LEMMA InitCharge == Init => ChargeInv
<1> SUFFICES ASSUME Init PROVE ChargeInv
  OBVIOUS
<1>1. None \notin Sessions
  BY ParameterAssumption
<1>2. ASSUME NEW s \in Sessions
      PROVE  /\ Holding(s, ses[s], lock)
             /\ Owes(s, ses[s], lock) = 0 /\ Approved(s, ses[s], lock) = 0
  BY <1>1 DEF Init, Idle, Holding, Owes, Approved
<1>3. Owed = [s \in Sessions |-> 0] /\ AllApproved = [s \in Sessions |-> 0]
  BY <1>2 DEF Owed, AllApproved
<1>4. Total(Owed) = 0 /\ Total(AllApproved) = 0
  BY <1>3, TotalOfNothing
<1>5. made = 0 /\ Counter(used) = 0
  BY DEF Init, Counter
<1>6. (Cardinality(Sessions) - 1) * Costliest \in Nat /\ Quota \in Nat
  <2>1. Cardinality(Sessions) \in Nat /\ Cardinality(Sessions) # 0
    BY ParameterAssumption, FS_CardinalityType, FS_EmptySet
  <2>2. Cardinality(Sessions) - 1 \in Nat
    BY <2>1
  <2> QED BY <2>2, CostliestIsMost, ParameterAssumption
<1> QED BY <1>2, <1>4, <1>5, <1>6, InitType DEF ChargeInv, AllHolding

\* Every step keeps the account.
LEMMA NextCharge == ChargeInv /\ [Next]_vars => ChargeInv'
<1> SUFFICES ASSUME ChargeInv, [Next]_vars PROVE ChargeInv'
  OBVIOUS
<1>1. TypeInv'
  BY NextType DEF ChargeInv
<1>2. ASSUME NEW s \in Sessions,
             Step(s) \/ Crash(s) \/ \E q \in Requests : StartRequest(s, q)
      PROVE  ChargeInv'
  <2>1. Known(s)
    BY ToKnow
  <2>2. Pays(s)
    <3>1. CASE Crash(s)
      BY <2>1, <3>1, RollbackPays DEF Crash
    <3>2. CASE \E q \in Requests : StartRequest(s, q)
      BY <1>1, <2>1, <3>2, StartPays
    <3>3. CASE Step(s)
      BY <1>1, <2>1, <3>3, StartPays, LookupPays, ReadQuotaPays, ChargePays, InsertPays DEF Step
    <3> QED BY <1>2, <3>1, <3>2, <3>3
  <2> QED BY <1>1, <2>2, PaidStep
<1>3. ASSUME UNCHANGED <<made, used, lock, ses>> PROVE ChargeInv'
  <2>1. Owed' = Owed /\ AllApproved' = AllApproved
    BY <1>3 DEF Owed, AllApproved
  <2>2. AllHolding'
    BY <1>3 DEF ChargeInv, AllHolding
  <2> HIDE DEF Owed, AllApproved
  <2> QED BY <1>1, <1>3, <2>1, <2>2 DEF ChargeInv
<1>4. ASSUME NEW r \in Recs, CreateRecurring(r) \/ Toggle(r) PROVE ChargeInv'
  BY <1>3, <1>4 DEF CreateRecurring, Toggle
<1>5. CASE Tick
  BY <1>3, <1>5 DEF Tick
<1>6. CASE UNCHANGED vars
  BY <1>3, <1>6 DEF vars
<1> QED BY <1>2, <1>4, <1>5, <1>6 DEF Next

\* Hence it is right in every reachable state.
LEMMA ChargeInvariant == Spec => []ChargeInv
BY InitCharge, NextCharge, PTL DEF Spec

\* Every job of the API has been charged for: enforce_quotas charges a batch
\* before its jobs are made, and a rollback takes back the charge only with all
\* the jobs it would have paid for.
THEOREM Charges == Spec => []JobsAreCharged
<1>1. ChargeInv => JobsAreCharged
  <2> SUFFICES ASSUME ChargeInv PROVE JobsAreCharged
    OBVIOUS
  <2>1. Owed \in Shares
    BY SharesType DEF ChargeInv, SharesTyped
  <2>2. PICK s \in Sessions : TRUE
    BY ParameterAssumption
  <2>3. Total(Owed) \in Nat
    BY <2>1, <2>2, TotalChange
  <2>4. made \in Nat /\ Counter(used) \in Nat
    BY <2>2, ToKnow DEF Known
  <2> QED BY <2>3, <2>4 DEF ChargeInv, JobsAreCharged
<1> QED BY <1>1, ChargeInvariant, PTL

\* The quota is exceeded by no more than what the other sessions had been
\* approved for, because each of them reads the counter before it charges.
THEOREM QuotaOvershoot == Spec => []QuotaOvershootIsBounded
<1>1. ChargeInv => QuotaOvershootIsBounded
  <2> SUFFICES ASSUME ChargeInv PROVE QuotaOvershootIsBounded
    OBVIOUS
  <2>1. AllApproved \in Shares
    BY SharesType DEF ChargeInv, SharesTyped
  <2>2. PICK s \in Sessions : TRUE
    BY ParameterAssumption
  <2>3. Total(AllApproved) \in Nat
    BY <2>1, <2>2, TotalChange
  <2>4. Counter(used) \in Nat
    BY <2>2, ToKnow DEF Known
  <2>5. (Cardinality(Sessions) - 1) * Costliest \in Int /\ Quota \in Nat
    <3>1. Cardinality(Sessions) \in Nat
      BY ParameterAssumption, FS_CardinalityType
    <3> QED BY <3>1, CostliestIsMost, ParameterAssumption
  <2> QED BY <2>3, <2>4, <2>5 DEF ChargeInv, QuotaOvershootIsBounded
<1> QED BY <1>1, ChargeInvariant, PTL
=============================================================================
