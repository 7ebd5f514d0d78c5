--------------------------- MODULE WebhooksProofs ---------------------------
(***************************************************************************)
(* Theorems of Webhooks that hold for any number of schedulers, deliveries *)
(* and endpoints and for any budgets.  What each step of a dispatcher does *)
(* to its session is stated once (the section on sessions); the invariants *)
(* about deliveries and endpoints are proved from it.                      *)
(***************************************************************************)
EXTENDS Webhooks, TLAPS

\* A session that has posted its delivery and not yet recorded the answer.
Answered(c) == c.pc = "commit" /\ c.answer \in {"ok", "error"}

\* What a session has in hand was pending when it was read, so that one more
\* attempt is within the budget.
HandInv(c) ==
  /\ c.pc = "idle" => c.batch = {}
  /\ c.pc \in {"idle", "next"} => c.d = None
  /\ c.pc \in {"post", "commit"} => c.d \in Deliveries
  /\ c.pc = "commit" => c.answer # "none"
  /\ c.pc = "post" \/ Answered(c) => c.held = EndpointOf[c.d]
  /\ c.d \notin c.batch
  /\ \A d \in c.batch \cup ({c.d} \ {None}) :
       c.snap[d].status \in Pending /\ c.snap[d].attempts < MaxAttempts

\* A pending delivery has attempts left, and the deliveries of an endpoint go
\* with it.
RowInv(d) ==
  /\ row[d].status \in Pending => row[d].attempts < MaxAttempts
  /\ row[d].status = "absent" => row[d] = Absent
  /\ row[d].status # "absent" => ep[EndpointOf[d]].exists

TypeInv ==
  /\ TypeOK
  /\ \A s \in Schedulers : HandInv(sch[s])
  /\ \A d \in Deliveries : RowInv(d)
-----------------------------------------------------------------------------
(* Sessions                                                                  *)

\* The limits of attempts and failures are positive.
LEMMA Budget == /\ MaxAttempts \in Nat \ {0} /\ DisableAfter \in Nat \ {0}
                /\ 0 \in 0..MaxAttempts
  BY ParameterAssumption

\* A dispatcher between two batches has nothing in hand.
LEMMA IdleSession == Idle \in Sessions /\ HandInv(Idle) /\ Absent \in Rows
<1>1. Absent \in Rows
  BY Budget DEF Absent, Rows, Statuses
<1>2. [d \in Deliveries |-> Absent] \in [Deliveries -> Rows]
  BY <1>1
<1>3. Idle \in Sessions
  BY <1>2 DEF Idle, Sessions, NoEndpoint, EndpointRows
<1> QED BY <1>1, <1>3 DEF Idle, HandInv, Answered

\* A dispatcher reads a batch and the endpoints with it.
LEMMA SelectEffect ==
  ASSUME TypeInv, NEW s \in Schedulers, SelectBatch(s)
  PROVE  /\ sch' \in [Schedulers -> Sessions] /\ \A r \in Schedulers \ {s} : sch'[r] = sch[r]
         /\ InHand(s) = {} /\ sch[s].pc = "idle"
         /\ sch'[s].pc = "next" /\ sch'[s].d = None /\ sch'[s].held = None
         /\ \E B \in SUBSET Due :
              /\ sch'[s].batch = B /\ InHand(s)' = B
              /\ \A d \in B : sch'[s].snap[d] = row[d]
              /\ shared' = shared \cup (B \cap UNION {InHand(r) : r \in Schedulers \ {s}})
<1>1. sch \in [Schedulers -> Sessions] /\ row \in [Deliveries -> Rows]
  BY DEF TypeInv, TypeOK
<1>2. PICK B \in SUBSET Due :
        /\ sch' = [sch EXCEPT ![s] =
             [Idle EXCEPT !.pc = "next", !.batch = B,
                          !.snap = [d \in Deliveries |-> IF d \in B THEN row[d] ELSE Absent]]]
        /\ shared' = shared \cup (B \cap UNION {InHand(r) : r \in Schedulers \ {s}})
  BY DEF SelectBatch
<1> DEFINE snap == [d \in Deliveries |-> IF d \in B THEN row[d] ELSE Absent]
           c == [Idle EXCEPT !.pc = "next", !.batch = B, !.snap = snap]
<1>3. snap \in [Deliveries -> Rows] /\ \A d \in B : snap[d] = row[d]
  BY <1>1, IdleSession DEF Due
<1>4. B \in SUBSET Deliveries
  BY DEF Due
<1>5. sch' = [sch EXCEPT ![s] = c]
  BY <1>2
<1> HIDE DEF snap
<1>6. /\ c \in Sessions /\ c.pc = "next" /\ c.batch = B /\ c.snap = snap
      /\ c.d = None /\ c.held = None
  BY <1>3, <1>4, IdleSession DEF Idle, Sessions
<1> HIDE DEF c
<1>7. sch' \in [Schedulers -> Sessions] /\ sch'[s] = c /\ \A r \in Schedulers \ {s} : sch'[r] = sch[r]
  BY <1>1, <1>5, <1>6
<1>8. sch[s].pc = "idle" /\ sch[s].batch = {} /\ sch[s].d = None
  BY DEF SelectBatch, TypeInv, HandInv
<1>9. InHand(s) = {} /\ InHand(s)' = B
  BY <1>6, <1>7, <1>8 DEF InHand
<1>10. /\ sch'[s].batch = B /\ InHand(s)' = B
       /\ \A d \in B : sch'[s].snap[d] = row[d]
       /\ shared' = shared \cup (B \cap UNION {InHand(r) : r \in Schedulers \ {s}})
  BY <1>2, <1>3, <1>6, <1>7, <1>9
<1>11. sch'[s].pc = "next" /\ sch'[s].d = None /\ sch'[s].held = None
  BY <1>6, <1>7
<1> QED BY <1>7, <1>8, <1>9, <1>10, <1>11

\* It takes the next delivery of its batch.
LEMMA TakeEffect ==
  ASSUME TypeInv, NEW s \in Schedulers, NEW d \in Deliveries, Take(s, d)
  PROVE  /\ sch' \in [Schedulers -> Sessions] /\ \A r \in Schedulers \ {s} : sch'[r] = sch[r]
         /\ InHand(s)' = InHand(s) /\ d \in InHand(s)
         /\ sch[s].pc = "next" /\ sch[s].d = None
         /\ sch'[s].batch = sch[s].batch \ {d} /\ sch'[s].d = d /\ sch'[s].snap = sch[s].snap
         /\ sch'[s].held \in {EndpointOf[d], None}
         /\ \/ /\ sch'[s].pc = "post" /\ sch'[s].held = EndpointOf[d]
               /\ ep[EndpointOf[d]].exists /\ sch'[s].ep.active
            \/ sch'[s].pc = "commit" /\ sch'[s].answer = "disabled"
         /\ \/ sch[s].held = EndpointOf[d] /\ sch'[s].ep = sch[s].ep
            \/ sch'[s].ep = ep[EndpointOf[d]]
<1> DEFINE e == EndpointOf[d]
           found == IF sch[s].held = e /\ ep[e].exists THEN sch[s].ep ELSE ep[e]
           usable == found.exists /\ found.active
           c == [sch[s] EXCEPT !.pc = IF usable THEN "post" ELSE "commit",
                               !.batch = @ \ {d},
                               !.d = d,
                               !.held = IF found.exists THEN e ELSE None,
                               !.ep = found,
                               !.answer = IF usable THEN "none" ELSE "disabled"]
<1>1. /\ sch \in [Schedulers -> Sessions] /\ ep \in [Endpoints -> EndpointRows]
      /\ e \in Endpoints /\ sch[s] \in Sessions
  BY ParameterAssumption DEF TypeInv, TypeOK
<1>2. found \in EndpointRows /\ usable \in BOOLEAN
  BY <1>1 DEF Sessions, EndpointRows
<1>3. sch' = [sch EXCEPT ![s] = c]
  BY DEF Take
<1>4. usable => found.exists /\ ep[e].exists /\ found.active
  OBVIOUS
<1>5. (found = sch[s].ep /\ sch[s].held = e) \/ found = ep[e]
  OBVIOUS
<1> HIDE DEF found, usable
<1>6. /\ c \in Sessions /\ c.batch = sch[s].batch \ {d} /\ c.d = d /\ c.snap = sch[s].snap
      /\ c.pc = (IF usable THEN "post" ELSE "commit")
      /\ c.held = (IF found.exists THEN e ELSE None) /\ c.ep = found
      /\ c.answer = (IF usable THEN "none" ELSE "disabled")
  BY <1>1, <1>2 DEF Sessions
<1> HIDE DEF c
<1>7. sch' \in [Schedulers -> Sessions] /\ sch'[s] = c /\ \A r \in Schedulers \ {s} : sch'[r] = sch[r]
  BY <1>1, <1>3, <1>6
<1>8. sch[s].pc = "next" /\ d \in sch[s].batch /\ sch[s].d = None
  BY DEF Take, TypeInv, HandInv
<1>9. InHand(s)' = InHand(s) /\ d \in InHand(s)
  BY <1>6, <1>7, <1>8, ParameterAssumption DEF InHand
<1> QED BY <1>4, <1>5, <1>6, <1>7, <1>8, <1>9

\* It posts once and keeps the answer.
LEMMA PostEffect ==
  ASSUME TypeInv, NEW s \in Schedulers, Post(s)
  PROVE  /\ sch' \in [Schedulers -> Sessions] /\ \A r \in Schedulers \ {s} : sch'[r] = sch[r]
         /\ InHand(s)' = InHand(s) /\ sch[s].pc = "post" /\ sch'[s].pc = "commit"
         /\ sch'[s].batch = sch[s].batch /\ sch'[s].d = sch[s].d /\ sch'[s].snap = sch[s].snap
         /\ sch'[s].held = sch[s].held /\ sch'[s].ep = sch[s].ep
         /\ sch[s].d \in Deliveries /\ sch[s].d \in InHand(s)
         /\ \/ /\ sch'[s].answer = "ok" /\ acked' = acked \cup {sch[s].d} /\ failures' = failures
            \/ /\ sch'[s].answer = "error" /\ acked' = acked
               /\ failures' = [failures EXCEPT ![EndpointOf[sch[s].d]] = @ + 1]
<1>1. sch \in [Schedulers -> Sessions] /\ sch[s] \in Sessions
  BY DEF TypeInv, TypeOK
<1>2. PICK a \in {"ok", "error"} : sch' = [sch EXCEPT ![s].pc = "commit", ![s].answer = a]
  BY DEF Post
<1>3. /\ sch' \in [Schedulers -> Sessions] /\ \A r \in Schedulers \ {s} : sch'[r] = sch[r]
      /\ sch'[s].pc = "commit" /\ sch'[s].answer = a
      /\ sch'[s].batch = sch[s].batch /\ sch'[s].d = sch[s].d /\ sch'[s].snap = sch[s].snap
      /\ sch'[s].held = sch[s].held /\ sch'[s].ep = sch[s].ep
  BY <1>1, <1>2 DEF Sessions
<1>4. sch[s].pc = "post" /\ sch[s].d \in Deliveries
  BY DEF Post, TypeInv, HandInv
<1>5. \/ /\ sch'[s].answer = "ok" /\ acked' = acked \cup {sch[s].d} /\ failures' = failures
      \/ /\ sch'[s].answer = "error" /\ acked' = acked
         /\ failures' = [failures EXCEPT ![EndpointOf[sch[s].d]] = @ + 1]
  BY <1>1 DEF Post, Sessions
<1> QED BY <1>3, <1>4, <1>5, ParameterAssumption DEF InHand

\* The failures in a row go on, or end with a 2xx that nothing races.
LEMMA PostStreak ==
  ASSUME TypeInv, NEW s \in Schedulers, Post(s)
  PROVE  LET e == EndpointOf[sch[s].d]
         IN  /\ streak' \in [Endpoints -> Nat \cup {None}]
             /\ \A x \in Endpoints \ {e} : streak'[x] = streak[x]
             /\ streak'[e] # None =>
                  /\ streak[e] # None
                  /\ \/ sch'[s].answer = "ok" /\ HoldsAlone(s, e) /\ streak'[e] = 0
                     \/ sch'[s].answer = "error" /\ streak'[e] = streak[e] + 1
<1> DEFINE e == EndpointOf[sch[s].d]
           count(n) == streak' = [streak EXCEPT ![e] = n]
<1>1. /\ streak \in [Endpoints -> Nat \cup {None}] /\ e \in Endpoints
      /\ sch \in [Schedulers -> Sessions] /\ None \notin Nat
  BY PostEffect, ParameterAssumption DEF TypeInv, TypeOK
<1>2. \/ /\ sch' = [sch EXCEPT ![s].pc = "commit", ![s].answer = "ok"]
         /\ count(IF streak[e] # None /\ HoldsAlone(s, e) THEN 0 ELSE None)
      \/ /\ sch' = [sch EXCEPT ![s].pc = "commit", ![s].answer = "error"]
         /\ count(IF streak[e] # None THEN streak[e] + 1 ELSE None)
  BY DEF Post
<1>3. /\ sch' = [sch EXCEPT ![s].pc = "commit", ![s].answer = "ok"] => sch'[s].answer = "ok"
      /\ sch' = [sch EXCEPT ![s].pc = "commit", ![s].answer = "error"] => sch'[s].answer = "error"
  BY <1>1 DEF Sessions
<1>4. \A n \in Nat \cup {None} :
        count(n) => /\ streak' \in [Endpoints -> Nat \cup {None}] /\ streak'[e] = n
                    /\ \A x \in Endpoints \ {e} : streak'[x] = streak[x]
  BY <1>1
<1>5. CASE streak[e] = None
  <2>1. count(None)
    BY <1>2, <1>5
  <2> QED BY <1>4, <2>1
<1>6. CASE streak[e] # None
  <2>1. streak[e] + 1 \in Nat /\ streak[e] \in Nat
    BY <1>1, <1>6
  <2>2. \/ sch'[s].answer = "ok" /\ HoldsAlone(s, e) /\ count(0)
        \/ sch'[s].answer = "ok" /\ ~HoldsAlone(s, e) /\ count(None)
        \/ sch'[s].answer = "error" /\ count(streak[e] + 1)
    BY <1>2, <1>3, <1>6
  <2> HIDE DEF count
  <2>3. CASE sch'[s].answer = "ok" /\ HoldsAlone(s, e) /\ count(0)
    BY <1>4, <1>6, <2>3
  <2>4. CASE sch'[s].answer = "ok" /\ ~HoldsAlone(s, e) /\ count(None)
    BY <1>4, <1>6, <2>4
  <2>5. CASE sch'[s].answer = "error" /\ count(streak[e] + 1)
    BY <1>4, <1>6, <2>1, <2>5
  <2> QED BY <2>2, <2>3, <2>4, <2>5
<1> QED BY <1>5, <1>6

\* What an answer makes of the endpoint object.
LEMMA EndpointAfter ==
  ASSUME NEW e \in EndpointRows, NEW answer \in {"ok", "error", "disabled"}
  PROVE  /\ Endpoint(e, answer) \in EndpointRows
         /\ answer = "ok" => Endpoint(e, answer).active = e.active /\ Endpoint(e, answer).count = 0
         /\ answer = "error" =>
              /\ Endpoint(e, answer).count = e.count + 1
              /\ Endpoint(e, answer).active = (e.active /\ e.count + 1 < DisableAfter)
         /\ answer = "disabled" => Endpoint(e, answer) = e
<1>1. CASE answer = "ok"
  BY <1>1 DEF Endpoint, EndpointRows
<1>2. CASE answer = "error"
  <2> DEFINE b == e.active /\ e.count + 1 < DisableAfter
  <2>1. Endpoint(e, answer) = [e EXCEPT !.count = @ + 1, !.active = b]
    BY <1>2 DEF Endpoint
  <2>2. b \in BOOLEAN
    BY DEF EndpointRows
  <2>3. PICK v \in BOOLEAN : v = b
    BY <2>2
  <2>4. PICK n \in Nat : n = e.count + 1
    BY DEF EndpointRows
  <2>5. Endpoint(e, answer) = [e EXCEPT !.count = n, !.active = v]
    BY <2>1, <2>3, <2>4
  <2> HIDE DEF b
  <2>6. /\ Endpoint(e, answer) \in EndpointRows
        /\ Endpoint(e, answer).count = n /\ Endpoint(e, answer).active = v
    BY <2>5 DEF EndpointRows
  <2> QED BY <1>2, <2>3, <2>4, <2>6 DEF b
<1>3. CASE answer = "disabled"
  BY <1>3 DEF Endpoint
<1> QED BY <1>1, <1>2, <1>3

\* What a commit leaves of the session: the rest of the batch, or nothing.
LEMMA CommitSession ==
  ASSUME TypeInv, NEW s \in Schedulers, Commit(s)
  PROVE  /\ sch' \in [Schedulers -> Sessions] /\ \A r \in Schedulers \ {s} : sch'[r] = sch[r]
         /\ sch[s].pc = "commit" /\ sch[s].d \in Deliveries /\ sch[s].d \in InHand(s)
         /\ sch'[s].pc \in {"idle", "next"} /\ sch'[s].d = None
         /\ sch'[s].pc = "idle" => sch'[s].batch = {}
         /\ InHand(s)' = sch'[s].batch /\ sch'[s].batch \in SUBSET sch[s].batch
         /\ \A x \in sch'[s].batch : sch'[s].snap[x] = sch[s].snap[x]
         /\ \/ sch'[s].held = None
            \/ /\ sch'[s].held = sch[s].held
               /\ sch'[s].ep = Endpoint(sch[s].ep, sch[s].answer)
         /\ sch[s].answer \in {"ok", "error", "disabled"}
<1> DEFINE d == sch[s].d
           new == Endpoint(sch[s].ep, sch[s].answer)
           next == [sch[s] EXCEPT !.pc = "next", !.ep = new, !.d = None, !.answer = "none",
                                  !.snap[d] = Absent]
<1>1. sch \in [Schedulers -> Sessions] /\ sch[s] \in Sessions
  BY DEF TypeInv, TypeOK
<1>2. /\ sch[s].pc = "commit" /\ d \in Deliveries /\ d \notin sch[s].batch
      /\ sch[s].answer \in {"ok", "error", "disabled"}
  BY <1>1 DEF Commit, TypeInv, HandInv, Sessions
<1>3. new \in EndpointRows
  <2>1. sch[s].ep \in EndpointRows
    BY <1>1 DEF Sessions
  <2> QED BY <1>2, <2>1, EndpointAfter
<1>4. sch' = [sch EXCEPT ![s] = Idle] \/ sch' = [sch EXCEPT ![s] = next]
  <2>1. CASE row[d].status = "absent"
    BY <2>1 DEF Commit
  <2>2. CASE row[d].status # "absent"
    <3>1. sch' = [sch EXCEPT ![s] = IF sch[s].batch = {} THEN Idle ELSE next]
      BY <2>2 DEF Commit
    <3> HIDE DEF next
    <3> QED BY <3>1
  <2> QED BY <2>1, <2>2
<1> HIDE DEF new
<1>5. /\ next \in Sessions /\ next.pc = "next" /\ next.d = None /\ next.batch = sch[s].batch
      /\ next.held = sch[s].held /\ next.ep = new
      /\ \A x \in sch[s].batch : next.snap[x] = sch[s].snap[x]
  <2>1. [sch[s].snap EXCEPT ![d] = Absent] \in [Deliveries -> Rows]
    BY <1>1, IdleSession DEF Sessions
  <2>2. \A x \in sch[s].batch : [sch[s].snap EXCEPT ![d] = Absent][x] = sch[s].snap[x]
    BY <1>1, <1>2 DEF Sessions
  <2> QED BY <1>1, <1>3, <2>1, <2>2 DEF Sessions
<1>6. /\ Idle.pc = "idle" /\ Idle.d = None /\ Idle.batch = {} /\ Idle.held = None
  BY DEF Idle
<1> HIDE DEF next, Idle
<1>7. /\ sch' \in [Schedulers -> Sessions] /\ \A r \in Schedulers \ {s} : sch'[r] = sch[r]
      /\ sch'[s] = Idle \/ sch'[s] = next
  BY <1>1, <1>4, <1>5, IdleSession
<1>8. InHand(s)' = sch'[s].batch
  BY <1>5, <1>6, <1>7 DEF InHand
<1>9. d \in InHand(s)
  BY <1>2, ParameterAssumption DEF InHand
<1>10. CASE sch'[s] = Idle
  BY <1>2, <1>6, <1>7, <1>8, <1>9, <1>10
<1>11. CASE sch'[s] = next
  BY <1>2, <1>5, <1>7, <1>8, <1>9, <1>11 DEF new
<1> QED BY <1>7, <1>10, <1>11

\* What a commit makes of the tables.
LEMMA CommitRow ==
  ASSUME TypeInv, NEW s \in Schedulers, Commit(s), row[sch[s].d].status # "absent"
  PROVE  LET d == sch[s].d
             n == sch[s].snap[d].attempts + 1
             r == row'[d]
             e == EndpointOf[d]
         IN  /\ row' \in [Deliveries -> Rows] /\ ep' \in [Endpoints -> EndpointRows]
             /\ \A x \in Deliveries \ {d} : row'[x] = row[x]
             /\ \A x \in Endpoints \ {e} : ep'[x] = ep[x]
             /\ ep'[e].exists = ep[e].exists
             /\ n \in 1..MaxAttempts
             /\ \/ /\ sch[s].answer = "disabled"
                   /\ r.status = "disabled" /\ r.attempts = row[d].attempts /\ ep' = ep
                \/ /\ sch[s].answer = "ok" /\ r.status = "delivered" /\ r.attempts = n
                   /\ ep'[e].active = ep[e].active /\ ep'[e].count \in {0, ep[e].count}
                   /\ sch[s].ep = ep[e] => ep'[e].count = 0
                \/ /\ sch[s].answer = "error" /\ r.attempts = n
                   /\ r.status \in {row[d].status, IF n = MaxAttempts THEN "failed" ELSE "retrying"}
                   /\ r.status \in Pending => n < MaxAttempts
                   /\ \/ ep'[e].active = ep[e].active
                      \/ ~ep'[e].active /\ sch[s].ep.count + 1 >= DisableAfter
                   /\ ep'[e].count \in {sch[s].ep.count + 1, ep[e].count}
<1> DEFINE d == sch[s].d
           e == EndpointOf[d]
           snap == sch[s].snap[d]
           answer == sch[s].answer
           old == sch[s].ep
           n == Attempts(snap, answer)
           status == Column(snap.status, Status(answer, n), row[d].status)
           attempts == Column(snap.attempts, n, row[d].attempts)
           active == Column(old.active, Endpoint(old, answer).active, ep[e].active)
           count == Column(old.count, Endpoint(old, answer).count, ep[e].count)
<1>1. /\ row \in [Deliveries -> Rows] /\ ep \in [Endpoints -> EndpointRows]
      /\ sch[s] \in Sessions
  BY DEF TypeInv, TypeOK
<1>2. d \in Deliveries /\ answer \in {"ok", "error", "disabled"} /\ d \in InHand(s)
  BY CommitSession
<1>3. e \in Endpoints /\ ep[e] \in EndpointRows /\ old \in EndpointRows /\ row[d] \in Rows
  BY <1>1, <1>2, ParameterAssumption DEF Sessions
<1>4. snap \in Rows /\ snap.status \in Pending /\ snap.attempts < MaxAttempts
  <2>1. d \in sch[s].batch \cup ({sch[s].d} \ {None})
    BY <1>2 DEF InHand
  <2> QED BY <1>1, <1>2, <2>1 DEF TypeInv, HandInv, Sessions
<1>5. snap.attempts \in Nat /\ snap.attempts + 1 \in 1..MaxAttempts
  BY <1>4, Budget DEF Rows
<1>6. /\ row' = [row EXCEPT ![d] = [status |-> status, attempts |-> attempts]]
      /\ ep' = [ep EXCEPT ![e].active = active, ![e].count = count]
  <2>1. row' = [row EXCEPT ![d] = [status |-> status, attempts |-> attempts]]
    BY DEF Commit
  <2>2. ep' = [ep EXCEPT ![e].active = active, ![e].count = count]
    BY DEF Commit
  <2> QED BY <2>1, <2>2
<1>7. \/ /\ answer = "disabled" /\ n = snap.attempts
         /\ status = "disabled" /\ attempts = row[d].attempts
      \/ /\ answer = "ok" /\ n = snap.attempts + 1
         /\ status = "delivered" /\ attempts = n
      \/ /\ answer = "error" /\ n = snap.attempts + 1 /\ attempts = n
         /\ status \in {row[d].status, IF n = MaxAttempts THEN "failed" ELSE "retrying"}
         /\ status \in Pending => n < MaxAttempts
  BY <1>2, <1>4, <1>5, Budget DEF Attempts, Status, Column, Pending
<1>8. status \in Statuses /\ attempts \in 0..MaxAttempts
  BY <1>3, <1>5, <1>7, Budget DEF Rows, Statuses, Pending
<1>9. \/ answer = "disabled" /\ active = ep[e].active /\ count = ep[e].count
      \/ /\ answer = "ok" /\ active = ep[e].active /\ count \in {0, ep[e].count}
         /\ old = ep[e] => count = 0
      \/ /\ answer = "error" /\ count \in {old.count + 1, ep[e].count}
         /\ active = ep[e].active \/ (active = FALSE /\ old.count + 1 >= DisableAfter)
  <2>1. CASE answer = "disabled"
    BY <1>3, <2>1, EndpointAfter DEF Column
  <2>2. CASE answer = "ok"
    BY <1>3, <2>2, EndpointAfter DEF Column
  <2>3. CASE answer = "error"
    <3>1. /\ Endpoint(old, answer).count = old.count + 1
          /\ Endpoint(old, answer).active = (old.active /\ old.count + 1 < DisableAfter)
      BY <1>3, <2>3, EndpointAfter
    <3>2. old.count \in Nat /\ old.active \in BOOLEAN
      BY <1>3 DEF EndpointRows
    <3>3. old.count + 1 < DisableAfter \/ old.count + 1 >= DisableAfter
      BY <3>2, Budget
    <3>4. old.count + 1 >= DisableAfter => ~(old.count + 1 < DisableAfter)
      BY <3>2, Budget
    <3>5. count \in {old.count + 1, ep[e].count}
      BY <3>1 DEF Column
    <3>6. CASE old.count + 1 < DisableAfter
      BY <2>3, <3>1, <3>2, <3>5, <3>6 DEF Column
    <3>7. CASE ~(old.count + 1 < DisableAfter)
      BY <2>3, <3>1, <3>2, <3>3, <3>5, <3>7 DEF Column
    <3> QED BY <3>6, <3>7
  <2> QED BY <1>2, <2>1, <2>2, <2>3
<1>10. active \in BOOLEAN /\ count \in Nat
  <2>1. ep[e].active \in BOOLEAN /\ ep[e].count \in Nat /\ old.count + 1 \in Nat
    BY <1>3 DEF EndpointRows
  <2> HIDE DEF active, count, old, e
  <2>2. active \in BOOLEAN
    BY <1>9, <2>1, Zenon
  <2>3. count \in Nat
    BY <1>9, <2>1
  <2> QED BY <2>2, <2>3
<1> HIDE DEF status, attempts, active, count
<1>11. /\ row' \in [Deliveries -> Rows] /\ \A x \in Deliveries \ {d} : row'[x] = row[x]
       /\ row'[d].status = status /\ row'[d].attempts = attempts
  BY <1>1, <1>2, <1>6, <1>8 DEF Rows
<1>12. /\ ep' \in [Endpoints -> EndpointRows] /\ \A x \in Endpoints \ {e} : ep'[x] = ep[x]
       /\ ep'[e].exists = ep[e].exists /\ ep'[e].active = active /\ ep'[e].count = count
  BY <1>1, <1>3, <1>6, <1>10 DEF EndpointRows
<1>13. active = ep[e].active /\ count = ep[e].count => ep' = ep
  BY <1>1, <1>3, <1>6 DEF EndpointRows
<1> HIDE DEF n
<1> QED BY <1>5, <1>7, <1>9, <1>11, <1>12, <1>13

\* A crash loses the batch and changes no table.
LEMMA CrashEffect ==
  ASSUME TypeInv, NEW s \in Schedulers, Crash(s)
  PROVE  /\ sch' \in [Schedulers -> Sessions] /\ \A r \in Schedulers \ {s} : sch'[r] = sch[r]
         /\ sch'[s] = Idle /\ InHand(s)' = {} /\ crashes' = crashes + 1
<1>1. sch' = [sch EXCEPT ![s] = Idle] /\ sch \in [Schedulers -> Sessions]
  BY DEF Crash, TypeInv, TypeOK
<1>2. Idle.batch = {} /\ Idle.d = None
  BY DEF Idle
<1> HIDE DEF Idle
<1>3. sch' \in [Schedulers -> Sessions] /\ sch'[s] = Idle /\ \A r \in Schedulers \ {s} : sch'[r] = sch[r]
  BY <1>1, IdleSession
<1> QED BY <1>2, <1>3 DEF Crash, InHand
-----------------------------------------------------------------------------
(* Types and budgets                                                         *)

\* At the start there are no deliveries and no batches.
LEMMA InitType == Init => TypeInv
<1> SUFFICES ASSUME Init PROVE TypeInv
  OBVIOUS
<1>1. TypeOK
  BY IdleSession, Budget, ParameterAssumption DEF Init, TypeOK, EndpointRows
<1>2. \A s \in Schedulers : HandInv(sch[s])
  BY IdleSession DEF Init
<1>3. \A d \in Deliveries : RowInv(d)
  BY DEF Init, RowInv, Absent, Pending
<1> QED BY <1>1, <1>2, <1>3 DEF TypeInv

\* A new delivery, of a queue or a replay, of an endpoint that exists.
LEMMA InsertEffect ==
  ASSUME TypeInv, NEW d \in Deliveries, Enqueue(d) \/ Replay(d)
  PROVE  /\ UNCHANGED <<ep, sch, posts, acked, failures, streak, shared, crashes>>
         /\ row' \in [Deliveries -> Rows] /\ \A x \in Deliveries \ {d} : row'[x] = row[x]
         /\ row[d].status = "absent" /\ row'[d].status = "pending" /\ row'[d].attempts = 0
         /\ posts[d] = 0 /\ ep[EndpointOf[d]].exists
<1>1. row' = [row EXCEPT ![d].status = "pending"] /\ row \in [Deliveries -> Rows]
  BY DEF Enqueue, Replay, TypeInv, TypeOK
<1>2. row[d].status = "absent" /\ row[d] = Absent /\ posts[d] = 0
  BY DEF Enqueue, Replay, TypeInv, RowInv
<1>3. ep[EndpointOf[d]].exists
  BY DEF Enqueue, Replay, TypeInv, RowInv
<1>4. /\ row' \in [Deliveries -> Rows] /\ \A x \in Deliveries \ {d} : row'[x] = row[x]
      /\ row'[d].status = "pending" /\ row'[d].attempts = 0
  BY <1>1, <1>2 DEF Rows, Statuses, Pending, Absent
<1> QED BY <1>2, <1>3, <1>4 DEF Enqueue, Replay

\* The deletion of an endpoint takes its deliveries with it.
LEMMA DeleteEffect ==
  ASSUME TypeInv, NEW e \in Endpoints, Delete(e)
  PROVE  /\ UNCHANGED <<sch, posts, acked, failures, streak, shared, crashes>>
         /\ row' \in [Deliveries -> Rows] /\ ep' \in [Endpoints -> EndpointRows]
         /\ \A x \in Endpoints \ {e} : ep'[x] = ep[x]
         /\ ep'[e] = NoEndpoint
         /\ \A d \in Deliveries : row'[d] = IF EndpointOf[d] = e THEN Absent ELSE row[d]
<1>1. row \in [Deliveries -> Rows] /\ ep \in [Endpoints -> EndpointRows]
  BY DEF TypeInv, TypeOK
<1>2. NoEndpoint \in EndpointRows
  BY DEF NoEndpoint, EndpointRows
<1> QED BY <1>1, <1>2, IdleSession DEF Delete

\* Every step keeps the types.
LEMMA NextType == TypeInv /\ [Next]_vars => TypeInv'
<1> SUFFICES ASSUME TypeInv, [Next]_vars PROVE TypeInv'
  OBVIOUS
<1>0. TypeOK
  BY DEF TypeInv
<1>1. ASSUME NEW d \in Deliveries, Enqueue(d) \/ Replay(d)
      PROVE  TypeInv'
  <2>1. TypeOK'
    BY <1>0, <1>1, InsertEffect DEF TypeOK
  <2>2. \A x \in Deliveries : RowInv(x)'
    BY <1>1, InsertEffect, Budget DEF RowInv, TypeInv, Pending
  <2>3. \A s \in Schedulers : HandInv(sch[s])'
    BY <1>1, InsertEffect DEF TypeInv
  <2> QED BY <2>1, <2>2, <2>3 DEF TypeInv
<1>2. ASSUME NEW e \in Endpoints, Delete(e)
      PROVE  TypeInv'
  <2>1. TypeOK'
    BY <1>0, <1>2, DeleteEffect DEF TypeOK
  <2>2. \A x \in Deliveries : RowInv(x)'
    BY <1>2, DeleteEffect, ParameterAssumption DEF RowInv, TypeInv, Absent, Pending
  <2>3. \A s \in Schedulers : HandInv(sch[s])'
    BY <1>2, DeleteEffect DEF TypeInv
  <2> QED BY <2>1, <2>2, <2>3 DEF TypeInv
<1>3. ASSUME NEW s \in Schedulers, SelectBatch(s)
      PROVE  TypeInv'
  <2>1. UNCHANGED <<row, ep, posts, acked, failures, streak, crashes>>
    BY <1>3 DEF SelectBatch
  <2>2. TypeOK'
    BY <1>0, <1>3, <2>1, SelectEffect DEF TypeOK, Due
  <2>3. HandInv(sch[s])'
    <3>1. sch'[s].pc = "next" /\ sch'[s].d = None /\ sch'[s].batch \in SUBSET Due
      BY <1>3, SelectEffect
    <3>2. \A d \in sch'[s].batch : sch'[s].snap[d] = row[d]
      BY <1>3, SelectEffect
    <3>3. \A d \in Due : row[d].status \in Pending /\ row[d].attempts < MaxAttempts
      BY DEF Due, TypeInv, RowInv
    <3>4. None \notin sch'[s].batch
      BY <3>1, ParameterAssumption DEF Due
    <3> QED BY <3>1, <3>2, <3>3, <3>4 DEF HandInv, Answered
  <2> QED BY <1>3, <2>1, <2>2, <2>3, SelectEffect DEF TypeInv, RowInv
<1>4. ASSUME NEW s \in Schedulers, NEW d \in Deliveries, Take(s, d)
      PROVE  TypeInv'
  <2>1. UNCHANGED <<row, ep, posts, acked, failures, shared, crashes>>
    BY <1>4 DEF Take
  <2>4. streak' \in [Endpoints -> Nat \cup {None}]
    BY <1>0, <1>4 DEF Take, TypeOK
  <2>2. TypeOK'
    BY <1>0, <1>4, <2>1, <2>4, TakeEffect DEF TypeOK
  <2>3. HandInv(sch[s])'
    <3>1. \A x \in InHand(s) : /\ sch[s].snap[x].status \in Pending
                               /\ sch[s].snap[x].attempts < MaxAttempts
      BY DEF TypeInv, HandInv, InHand
    <3>2. \A x \in InHand(s)' : /\ sch'[s].snap[x].status \in Pending
                                /\ sch'[s].snap[x].attempts < MaxAttempts
      BY <1>4, <3>1, TakeEffect
    <3> QED BY <1>4, <3>2, TakeEffect DEF HandInv, Answered, InHand
  <2> QED BY <1>4, <2>1, <2>2, <2>3, TakeEffect DEF TypeInv, RowInv
<1>5. ASSUME NEW s \in Schedulers, Post(s)
      PROVE  TypeInv'
  <2>1. UNCHANGED <<row, ep, shared, crashes>>
    BY <1>5 DEF Post
  <2>2. posts' \in [Deliveries -> Nat]
    <3>1. posts' = [posts EXCEPT ![sch[s].d] = @ + 1] /\ sch[s].d \in Deliveries
      BY <1>5, PostEffect DEF Post
    <3> QED BY <1>0, <3>1 DEF TypeOK
  <2>3. failures' \in [Endpoints -> Nat] /\ acked' \subseteq Deliveries
    BY <1>0, <1>5, PostEffect, ParameterAssumption DEF TypeOK
  <2>4. TypeOK'
    BY <1>0, <1>5, <2>1, <2>2, <2>3, PostEffect, PostStreak DEF TypeOK
  <2>5. HandInv(sch[s])'
    BY <1>5, PostEffect DEF TypeInv, HandInv, Answered
  <2> QED BY <1>5, <2>1, <2>4, <2>5, PostEffect DEF TypeInv, RowInv
<1>6. ASSUME NEW s \in Schedulers, Commit(s)
      PROVE  TypeInv'
  <2>1. UNCHANGED <<posts, acked, failures, streak, shared, crashes>>
    BY <1>6 DEF Commit
  <2>2. HandInv(sch[s])'
    <3>1. \A x \in sch[s].batch : /\ sch[s].snap[x].status \in Pending
                                  /\ sch[s].snap[x].attempts < MaxAttempts
      BY DEF TypeInv, HandInv
    <3>2. None \notin sch[s].batch
      BY <1>0, ParameterAssumption DEF TypeOK, Sessions
    <3> QED BY <1>6, <3>1, <3>2, CommitSession DEF HandInv, Answered
  <2>3. CASE row[sch[s].d].status = "absent"
    <3>1. row' = row /\ ep' = ep
      BY <1>6, <2>3 DEF Commit
    <3>2. TypeOK'
      BY <1>0, <1>6, <2>1, <3>1, CommitSession DEF TypeOK
    <3> QED BY <1>6, <2>2, <3>1, <3>2, CommitSession DEF TypeInv, RowInv
  <2>4. CASE row[sch[s].d].status # "absent"
    <3> DEFINE d == sch[s].d
    <3>1. TypeOK'
      BY <1>0, <1>6, <2>1, <2>4, CommitSession, CommitRow DEF TypeOK
    <3>2. d \in Deliveries
      BY <1>6, CommitSession
    <3>3. /\ \A x \in Deliveries \ {d} : row'[x] = row[x]
          /\ \A x \in Endpoints : ep'[x].exists = ep[x].exists
          /\ row'[d].status # "absent"
          /\ row'[d].status \in Pending => row'[d].attempts < MaxAttempts
      BY <1>6, <2>4, CommitRow DEF Pending
    <3>4. \A x \in Deliveries : RowInv(x)'
      BY <2>4, <3>2, <3>3, ParameterAssumption DEF TypeInv, RowInv
    <3> QED BY <1>6, <2>2, <3>1, <3>4, CommitSession DEF TypeInv
  <2> QED BY <2>3, <2>4
<1>7. ASSUME NEW s \in Schedulers, Crash(s)
      PROVE  TypeInv'
  <2>1. UNCHANGED <<row, ep, posts, acked, failures, shared>>
    BY <1>7 DEF Crash
  <2>2. crashes' \in 0..MaxCrashes
    BY <1>0, <1>7, ParameterAssumption DEF Crash, TypeOK
  <2>5. streak' \in [Endpoints -> Nat \cup {None}]
    BY <1>0, <1>7 DEF Crash, TypeOK
  <2>3. TypeOK'
    BY <1>0, <1>7, <2>1, <2>2, <2>5, CrashEffect DEF TypeOK
  <2>4. HandInv(sch[s])'
    BY <1>7, CrashEffect, IdleSession
  <2> QED BY <1>7, <2>1, <2>3, <2>4, CrashEffect DEF TypeInv, RowInv
<1>8. CASE UNCHANGED vars
  BY <1>8 DEF vars, TypeInv, TypeOK, RowInv
<1> QED BY <1>1, <1>2, <1>3, <1>4, <1>5, <1>6, <1>7, <1>8 DEF Next, Dispatch

\* Hence they hold in every reachable state.
LEMMA TypeInvariant == Spec => []TypeInv
<1> QED BY InitType, NextType, PTL DEF Spec

\* Every table and every session of the dispatchers is well-typed; above all, no
\* scheduler, however stale its batch, ever counts an attempt beyond the budget.
THEOREM TypeCorrect == Spec => []TypeOK
<1>1. TypeInv => TypeOK
  BY DEF TypeInv
<1> QED BY <1>1, TypeInvariant, PTL
-----------------------------------------------------------------------------
(* Outcomes                                                                  *)

\* What a session holds is no better than what has happened: a snapshot counts
\* requests that were made, an answer was received, a failure count is one of
\* the endpoint's failures.
EarnedBy(c) ==
  /\ \A d \in c.batch \cup ({c.d} \ {None}) : c.snap[d].attempts <= posts[d]
  /\ Answered(c) => c.snap[c.d].attempts < posts[c.d]
  /\ Answered(c) /\ c.answer = "ok" => c.d \in acked
  /\ c.held # None => c.ep.count <= failures[c.held]
  /\ Answered(c) /\ c.answer = "error" => c.ep.count < failures[c.held]

\* An endpoint is disabled only after that many failures, in a row or not.
EarnedDisabling ==
  \A e \in Endpoints : ep[e].exists /\ ~ep[e].active => failures[e] >= DisableAfter

EarnedInv ==
  /\ OutcomesAreEarned /\ EarnedDisabling
  /\ \A e \in Endpoints : ep[e].count <= failures[e]
  /\ \A s \in Schedulers : EarnedBy(sch[s])

\* What the receivers have seen is never taken back.
LEMMA HistoryGrows ==
  ASSUME TypeInv, [Next]_vars
  PROVE  /\ posts \in [Deliveries -> Nat] /\ posts' \in [Deliveries -> Nat]
         /\ failures \in [Endpoints -> Nat] /\ failures' \in [Endpoints -> Nat]
         /\ \A d \in Deliveries : posts[d] <= posts'[d]
         /\ \A e \in Endpoints : failures[e] <= failures'[e]
         /\ acked \subseteq acked'
<1>1. TypeOK /\ TypeOK'
  BY NextType DEF TypeInv
<1>2. ASSUME NEW s \in Schedulers, Post(s)
      PROVE  /\ \A d \in Deliveries : posts[d] <= posts'[d]
             /\ \A e \in Endpoints : failures[e] <= failures'[e]
             /\ acked \subseteq acked'
  <2>1. posts' = [posts EXCEPT ![sch[s].d] = @ + 1]
    BY <1>2 DEF Post
  <2> QED BY <1>1, <1>2, <2>1, PostEffect DEF TypeOK
<1>3. CASE UNCHANGED <<posts, acked, failures>>
  BY <1>1, <1>3 DEF TypeOK
<1>4. /\ \A d \in Deliveries : Enqueue(d) \/ Replay(d) => UNCHANGED <<posts, acked, failures>>
      /\ \A e \in Endpoints : Delete(e) => UNCHANGED <<posts, acked, failures>>
  BY DEF Enqueue, Replay, Delete
<1>5. \A s \in Schedulers : SelectBatch(s) \/ Commit(s) \/ Crash(s) =>
        UNCHANGED <<posts, acked, failures>>
  BY DEF SelectBatch, Commit, Crash
<1>6. \A s \in Schedulers, d \in Deliveries : Take(s, d) => UNCHANGED <<posts, acked, failures>>
  BY DEF Take
<1>7. UNCHANGED vars => UNCHANGED <<posts, acked, failures>>
  BY DEF vars
<1>8. /\ \A d \in Deliveries : posts[d] <= posts'[d]
      /\ \A e \in Endpoints : failures[e] <= failures'[e]
      /\ acked \subseteq acked'
  BY <1>2, <1>3, <1>4, <1>5, <1>6, <1>7 DEF Next, Dispatch
<1> QED BY <1>1, <1>8 DEF TypeOK

\* Every step keeps that what is recorded, or in hand, has happened.
LEMMA EarnedStep ==
  ASSUME TypeInv, EarnedInv, [Next]_vars
  PROVE  EarnedInv'
<1>0. TypeOK
  BY DEF TypeInv
<1>1. ASSUME NEW s \in Schedulers, sch'[s] = sch[s]
      PROVE  EarnedBy(sch[s])'
  <2> DEFINE c == sch[s]
  <2>1. /\ c.batch \in SUBSET Deliveries /\ \A d \in Deliveries : c.snap[d].attempts \in Nat
        /\ c.d \in Deliveries \cup {None} /\ c.held \in Endpoints \cup {None}
        /\ c.ep.count \in Nat
        /\ Answered(c) => c.d \in Deliveries /\ c.held \in Endpoints
    <3>1. c \in Sessions /\ HandInv(c)
      BY <1>0 DEF TypeInv, TypeOK
    <3>2. \A r \in Rows : r.attempts \in Nat
      BY Budget DEF Rows
    <3> HIDE DEF c
    <3>3. /\ c.batch \in SUBSET Deliveries /\ c.snap \in [Deliveries -> Rows]
          /\ c.d \in Deliveries \cup {None} /\ c.held \in Endpoints \cup {None}
          /\ c.ep \in EndpointRows
      BY <3>1 DEF Sessions
    <3>4. Answered(c) => c.d \in Deliveries /\ c.held \in Endpoints
      BY <3>1, ParameterAssumption DEF HandInv, Answered
    <3> QED BY <3>2, <3>3, <3>4 DEF EndpointRows
  <2>2. EarnedBy(c) /\ sch'[s] = c
    BY <1>1 DEF EarnedInv
  <2> HIDE DEF c
  <2>3. \A d \in c.batch \cup ({c.d} \ {None}) : c.snap[d].attempts <= posts'[d]
    BY <2>1, <2>2, HistoryGrows DEF EarnedBy
  <2>4. Answered(c) => c.snap[c.d].attempts < posts'[c.d]
    <3>1. ASSUME Answered(c) PROVE c.d \in Deliveries /\ c.snap[c.d].attempts < posts[c.d]
      BY <2>1, <2>2, <3>1 DEF EarnedBy
    <3>2. \A d \in Deliveries : /\ posts[d] \in Nat /\ posts'[d] \in Nat /\ posts[d] <= posts'[d]
                                /\ c.snap[d].attempts \in Nat
      BY <2>1, HistoryGrows
    <3> QED BY <3>1, <3>2
  <2>5. c.held # None => c.ep.count <= failures'[c.held]
    <3>1. \A e \in Endpoints : /\ failures[e] \in Nat /\ failures'[e] \in Nat
                               /\ failures[e] <= failures'[e]
      BY HistoryGrows
    <3>2. c.held # None => c.ep.count <= failures[c.held]
      BY <2>2 DEF EarnedBy
    <3> QED BY <2>1, <3>1, <3>2
  <2>6. Answered(c) /\ c.answer = "error" => c.ep.count < failures'[c.held]
    <3>1. \A e \in Endpoints : /\ failures[e] \in Nat /\ failures'[e] \in Nat
                               /\ failures[e] <= failures'[e]
      BY HistoryGrows
    <3>2. Answered(c) /\ c.answer = "error" => c.ep.count < failures[c.held]
      BY <2>2 DEF EarnedBy
    <3> QED BY <2>1, <3>1, <3>2
  <2>7. Answered(c) /\ c.answer = "ok" => c.d \in acked'
    BY <2>2, HistoryGrows DEF EarnedBy
  <2> QED BY <2>2, <2>3, <2>4, <2>5, <2>6, <2>7 DEF EarnedBy, Answered
<1>2. ASSUME UNCHANGED <<row, ep>>
      PROVE  /\ OutcomesAreEarned' /\ EarnedDisabling'
             /\ \A e \in Endpoints : ep'[e].count <= failures'[e]
  <2>1. /\ \A d \in Deliveries : row[d].attempts \in Nat
        /\ \A e \in Endpoints : ep[e].count \in Nat
    BY <1>0, Budget DEF TypeOK, Rows, EndpointRows
  <2> QED BY <1>2, <2>1, HistoryGrows, Budget DEF EarnedInv, OutcomesAreEarned, EarnedDisabling
<1>3. ASSUME NEW d \in Deliveries, Enqueue(d) \/ Replay(d)
      PROVE  EarnedInv'
  <2>1. OutcomesAreEarned' /\ EarnedDisabling'
    BY <1>0, <1>3, InsertEffect DEF EarnedInv, OutcomesAreEarned, EarnedDisabling, TypeOK
  <2> QED BY <1>1, <1>3, <2>1, InsertEffect DEF EarnedInv
<1>4. ASSUME NEW e \in Endpoints, Delete(e)
      PROVE  EarnedInv'
  <2>1. OutcomesAreEarned' /\ EarnedDisabling' /\ \A x \in Endpoints : ep'[x].count <= failures'[x]
    BY <1>0, <1>4, DeleteEffect, HistoryGrows
       DEF EarnedInv, OutcomesAreEarned, EarnedDisabling, NoEndpoint, Absent
  <2> QED BY <1>1, <1>4, <2>1, DeleteEffect DEF EarnedInv
<1>5. ASSUME NEW s \in Schedulers, SelectBatch(s)
      PROVE  EarnedInv'
  <2>1. UNCHANGED <<row, ep, posts, acked, failures, streak, crashes>>
    BY <1>5 DEF SelectBatch
  <2>2. EarnedBy(sch[s])'
    <3>1. /\ sch'[s].batch \in SUBSET Due /\ sch'[s].d = None /\ sch'[s].held = None
          /\ sch'[s].pc = "next" /\ \A d \in sch'[s].batch : sch'[s].snap[d] = row[d]
      BY <1>5, SelectEffect
    <3>2. \A d \in Due : row[d].attempts <= posts[d]
      BY DEF Due, EarnedInv, OutcomesAreEarned
    <3> QED BY <2>1, <3>1, <3>2 DEF EarnedBy, Answered
  <2> QED BY <1>1, <1>2, <1>5, <2>1, <2>2, SelectEffect DEF EarnedInv
<1>6. ASSUME NEW s \in Schedulers, NEW d \in Deliveries, Take(s, d)
      PROVE  EarnedInv'
  <2>1. UNCHANGED <<row, ep, posts, acked, failures, crashes>>
    BY <1>6 DEF Take
  <2>2. EarnedBy(sch[s])'
    <3>1. \A x \in InHand(s) : sch[s].snap[x].attempts <= posts[x]
      BY DEF EarnedInv, EarnedBy, InHand
    <3>2. \A x \in InHand(s)' : sch'[s].snap[x].attempts <= posts[x]
      BY <1>6, <3>1, TakeEffect
    <3>3. sch'[s].ep.count <= failures[EndpointOf[d]]
      BY <1>6, TakeEffect, ParameterAssumption DEF EarnedInv, EarnedBy
    <3>4. ~Answered(sch'[s]) /\ sch'[s].held \in {EndpointOf[d], None}
      BY <1>6, TakeEffect DEF Answered
    <3> QED BY <2>1, <3>2, <3>3, <3>4 DEF EarnedBy, InHand
  <2> QED BY <1>1, <1>2, <1>6, <2>1, <2>2, TakeEffect DEF EarnedInv
<1>7. ASSUME NEW s \in Schedulers, Post(s)
      PROVE  EarnedInv'
  <2>1. UNCHANGED <<row, ep>>
    BY <1>7 DEF Post
  <2>2. EarnedBy(sch[s])'
    <3> DEFINE c == sch[s]
               d == c.d
    <3>1. d \in Deliveries /\ d \in InHand(s) /\ c.held = EndpointOf[d] /\ c.held \in Endpoints
          /\ c.held # None
      BY <1>7, PostEffect, ParameterAssumption DEF TypeInv, HandInv
    <3>2. /\ c \in Sessions /\ c.snap[d].attempts \in Nat /\ c.ep.count \in Nat
          /\ c.batch \in SUBSET Deliveries /\ \A x \in Deliveries : c.snap[x].attempts \in Nat
      BY <1>0, <3>1, Budget DEF TypeOK, Sessions, Rows, EndpointRows
    <3>3. /\ \A x \in c.batch \cup ({d} \ {None}) : c.snap[x].attempts <= posts[x]
          /\ c.snap[d].attempts <= posts[d] /\ c.ep.count <= failures[c.held]
      BY <3>1, ParameterAssumption DEF EarnedInv, EarnedBy
    <3>4. posts'[d] = posts[d] + 1
      BY <1>7, <3>1, HistoryGrows DEF Post
    <3>5. /\ sch'[s].batch = c.batch /\ sch'[s].d = d /\ sch'[s].snap = c.snap
          /\ sch'[s].held = c.held /\ sch'[s].ep = c.ep
          /\ \/ /\ sch'[s].answer = "ok" /\ acked' = acked \cup {d} /\ failures' = failures
             \/ /\ sch'[s].answer = "error" /\ acked' = acked
                /\ failures' = [failures EXCEPT ![c.held] = @ + 1]
      BY <1>7, <3>1, PostEffect
    <3> HIDE DEF c, d
    <3>6. \A x \in c.batch \cup ({d} \ {None}) : c.snap[x].attempts <= posts'[x]
      BY <3>1, <3>2, <3>3, HistoryGrows
    <3>7. c.snap[d].attempts < posts'[d]
      BY <3>1, <3>2, <3>3, <3>4, HistoryGrows
    <3>8. c.ep.count <= failures'[c.held]
      BY <3>1, <3>2, <3>3, HistoryGrows
    <3>9. sch'[s].answer = "error" => c.ep.count < failures'[c.held]
      BY <3>1, <3>2, <3>3, <3>5, HistoryGrows
    <3>10. sch'[s].answer = "ok" => d \in acked'
      BY <3>5
    <3> QED BY <3>5, <3>6, <3>7, <3>8, <3>9, <3>10 DEF EarnedBy
  <2> QED BY <1>1, <1>2, <1>7, <2>1, <2>2, PostEffect DEF EarnedInv
<1>8. ASSUME NEW s \in Schedulers, Commit(s)
      PROVE  EarnedInv'
  <2> DEFINE c == sch[s]
             d == c.d
             e == EndpointOf[d]
  <2>1. UNCHANGED <<posts, acked, failures, streak, shared, crashes>>
    BY <1>8 DEF Commit
  <2>2. /\ d \in Deliveries /\ e \in Endpoints /\ e # None /\ c.answer \in {"ok", "error", "disabled"}
        /\ c.answer \in {"ok", "error"} => Answered(c) /\ c.held = e
    <3>1. d \in Deliveries /\ c.pc = "commit" /\ c.answer \in {"ok", "error", "disabled"}
      BY <1>8, CommitSession
    <3>2. e \in Endpoints /\ e # None
      BY <3>1, ParameterAssumption
    <3>3. HandInv(c)
      BY DEF TypeInv
    <3> HIDE DEF c
    <3> QED BY <3>1, <3>2, <3>3 DEF HandInv, Answered
  <2>3. c.ep \in EndpointRows /\ c.ep.count \in Nat /\ failures[e] \in Nat
        /\ c.held \in Endpoints \cup {None} /\ c.snap[d].attempts \in Nat
    BY <1>0, <2>2, Budget DEF TypeOK, Sessions, EndpointRows, Rows
  <2>4. EarnedBy(sch[s])'
    <3>1. \A x \in c.batch : c.snap[x].attempts <= posts[x]
      BY DEF EarnedInv, EarnedBy
    <3>2. /\ ~Answered(sch'[s]) /\ sch'[s].d = None /\ sch'[s].batch \in SUBSET c.batch
          /\ \A x \in sch'[s].batch : sch'[s].snap[x] = c.snap[x]
      BY <1>8, CommitSession DEF Answered
    <3>3. sch'[s].held # None => sch'[s].ep.count <= failures[sch'[s].held]
      <4>1. Endpoint(c.ep, c.answer).count \in {0, c.ep.count, c.ep.count + 1}
        BY <2>2, <2>3, EndpointAfter
      <4>2. c.answer # "error" => Endpoint(c.ep, c.answer).count \in {0, c.ep.count}
        BY <2>2, <2>3, EndpointAfter
      <4>3. c.held # None => c.ep.count <= failures[c.held] /\ failures[c.held] \in Nat
        BY <2>3, <1>0 DEF EarnedInv, EarnedBy, TypeOK
      <4>4. c.answer = "error" => c.ep.count < failures[c.held]
        BY <2>2 DEF EarnedInv, EarnedBy
      <4>5. sch'[s].held # None =>
              sch'[s].held = c.held /\ sch'[s].ep = Endpoint(c.ep, c.answer)
        BY <1>8, CommitSession
      <4> HIDE DEF c
      <4> QED BY <2>3, <4>1, <4>2, <4>3, <4>4, <4>5
    <3> QED BY <2>1, <3>1, <3>2, <3>3 DEF EarnedBy
  <2>5. OutcomesAreEarned' /\ EarnedDisabling' /\ \A x \in Endpoints : ep'[x].count <= failures'[x]
    <3>1. CASE row[d].status = "absent"
      BY <1>2, <1>8, <3>1 DEF Commit
    <3>2. CASE row[d].status # "absent"
      <4> DEFINE n == c.snap[d].attempts + 1
                 r == row'[d]
      <4>1. c.answer \in {"ok", "error"} => n <= posts[d]
        <5>1. c.answer \in {"ok", "error"} => c.snap[d].attempts < posts[d]
          BY <2>2 DEF EarnedInv, EarnedBy
        <5> QED BY <2>2, <2>3, <5>1, HistoryGrows
      <4>2. /\ c.answer = "ok" => d \in acked
            /\ c.answer = "error" => c.ep.count < failures[e]
        BY <2>2 DEF EarnedInv, EarnedBy
      <4>3. /\ row[d].attempts <= posts[d]
            /\ row[d].status = "delivered" => d \in acked
            /\ row[d].status = "failed" => posts[d] >= MaxAttempts
            /\ ep[e].exists /\ ~ep[e].active => failures[e] >= DisableAfter
            /\ ep[e].count <= failures[e]
        BY <2>2 DEF EarnedInv, OutcomesAreEarned, EarnedDisabling
      <4>4. /\ \A x \in Deliveries \ {d} : row'[x] = row[x]
            /\ \A x \in Endpoints \ {e} : ep'[x] = ep[x]
            /\ ep'[e].exists = ep[e].exists
            /\ n \in 1..MaxAttempts
            /\ \/ /\ c.answer = "disabled"
                  /\ r.status = "disabled" /\ r.attempts = row[d].attempts /\ ep' = ep
               \/ /\ c.answer = "ok" /\ r.status = "delivered" /\ r.attempts = n
                  /\ ep'[e].active = ep[e].active /\ ep'[e].count \in {0, ep[e].count}
               \/ /\ c.answer = "error" /\ r.attempts = n
                  /\ r.status \in {row[d].status, IF n = MaxAttempts THEN "failed" ELSE "retrying"}
                  /\ r.status \in Pending => n < MaxAttempts
                  /\ \/ ep'[e].active = ep[e].active
                     \/ ~ep'[e].active /\ c.ep.count + 1 >= DisableAfter
                  /\ ep'[e].count \in {c.ep.count + 1, ep[e].count}
        BY <1>8, <3>2, CommitRow
      <4>5. posts[d] \in Nat
        BY <2>2, HistoryGrows
      <4> HIDE DEF c, d, e, n, r
      <4>6. /\ r.attempts <= posts[d]
            /\ r.status = "delivered" => d \in acked
            /\ r.status = "failed" => posts[d] >= MaxAttempts
        BY <4>1, <4>2, <4>3, <4>4, <4>5, Budget
      <4>7. ep'[e].exists /\ ~ep'[e].active => failures[e] >= DisableAfter
        BY <2>3, <4>2, <4>3, <4>4, Budget
      <4>8. ep'[e].count <= failures[e]
        BY <2>3, <4>2, <4>3, <4>4
      <4>9. OutcomesAreEarned' /\ EarnedDisabling'
        BY <2>1, <4>4, <4>6, <4>7 DEF EarnedInv, OutcomesAreEarned, EarnedDisabling, r
      <4>10. \A x \in Endpoints : ep'[x].count <= failures'[x]
        BY <2>1, <4>4, <4>8 DEF EarnedInv
      <4> QED BY <4>9, <4>10
    <3> QED BY <3>1, <3>2
  <2> QED BY <1>1, <1>8, <2>4, <2>5, CommitSession DEF EarnedInv
<1>9. ASSUME NEW s \in Schedulers, Crash(s)
      PROVE  EarnedInv'
  <2>1. UNCHANGED <<row, ep, posts, acked, failures, shared>>
    BY <1>9 DEF Crash
  <2>2. EarnedBy(sch[s])'
    BY <1>9, CrashEffect DEF EarnedBy, Idle, Answered
  <2> QED BY <1>1, <1>2, <1>9, <2>1, <2>2, CrashEffect DEF EarnedInv
<1>10. CASE UNCHANGED vars
  BY <1>1, <1>2, <1>10 DEF vars, EarnedInv
<1> QED BY <1>3, <1>4, <1>5, <1>6, <1>7, <1>8, <1>9, <1>10 DEF Next, Dispatch

\* Whatever schedulers overwrite each other's deliveries and endpoints: a
\* delivery counts as delivered only if a receiver has said so, as failed only
\* after the whole budget was posted (scheduler_service.py:170-226).
THEOREM Earned == Spec => []OutcomesAreEarned
<1>1. Init => EarnedInv
  BY ParameterAssumption DEF Init, EarnedInv, EarnedBy, OutcomesAreEarned, EarnedDisabling, Idle, Absent, Answered
<1>2. TypeInv /\ EarnedInv /\ [Next]_vars => EarnedInv'
  BY EarnedStep
<1>3. EarnedInv => OutcomesAreEarned
  BY DEF EarnedInv
<1> QED BY <1>1, <1>2, <1>3, TypeInvariant, PTL DEF Spec
-----------------------------------------------------------------------------
(* Failures in a row                                                         *)

\* The failures of its endpoint that a session knows of.
HeldCount(c) == IF Answered(c) /\ c.answer = "error" THEN c.ep.count + 1 ELSE c.ep.count

\* While no 2xx has raced: nobody counts more failures than there were in a row,
\* but for the time between a 2xx and its commit, when its session alone holds
\* the endpoint, as it is.
CountsARow(e) ==
  /\ ~ep[e].active => streak[e] >= DisableAfter
  /\ \A s, r \in Schedulers : Resets(s, e) /\ sch[r].held = e => r = s
  /\ \A s \in Schedulers : Resets(s, e) => sch[s].ep = ep[e]
  /\ (\A s \in Schedulers : ~Resets(s, e)) =>
       /\ ep[e].count <= streak[e]
       /\ \A s \in Schedulers : sch[s].held = e => HeldCount(sch[s]) <= streak[e]

\* A session posts only to an active endpoint, and a delivery that is gone from
\* under it is gone with the endpoint.
HandsInv(s) ==
  /\ sch[s].pc = "post" => sch[s].ep.active
  /\ \A d \in InHand(s) : row[d].status = "absent" => ~ep[EndpointOf[d]].exists

StreakInv ==
  /\ \A e \in Endpoints : ep[e].exists /\ streak[e] # None => CountsARow(e)
  /\ \A s \in Schedulers : HandsInv(s)

\* The numbers these invariants compare.
LEMMA CountTypes ==
  ASSUME TypeInv, NEW e \in Endpoints
  PROVE  /\ ep[e].count \in Nat /\ (streak[e] # None => streak[e] \in Nat)
         /\ ep[e] \in EndpointRows
         /\ \A s \in Schedulers : /\ sch[s].ep \in EndpointRows /\ sch[s].ep.count \in Nat
                                  /\ HeldCount(sch[s]) \in Nat
<1>1. ep[e] \in EndpointRows /\ streak[e] \in Nat \cup {None}
      /\ \A s \in Schedulers : sch[s].ep \in EndpointRows
  BY DEF TypeInv, TypeOK, Sessions
<1>2. \A r \in EndpointRows : r.count \in Nat
  BY DEF EndpointRows
<1> QED BY <1>1, <1>2 DEF HeldCount

\* An endpoint whose row a step leaves alone, and which sessions keep as they
\* hold it, or let go of.
LEMMA SameRow ==
  ASSUME NEW e \in Endpoints, CountsARow(e), streak'[e] = streak[e], ep'[e] = ep[e],
         \A s \in Schedulers : sch'[s].held = e =>
           /\ sch[s].held = e /\ sch'[s].ep = sch[s].ep /\ HeldCount(sch'[s]) = HeldCount(sch[s])
           /\ Resets(s, e)' => Resets(s, e),
         \A s \in Schedulers : Resets(s, e) => Resets(s, e)'
  PROVE  CountsARow(e)'
<1>1. \A s \in Schedulers : Resets(s, e)' => sch'[s].held = e
  BY DEF Resets
<1>2. \A s \in Schedulers : Resets(s, e)' <=> Resets(s, e)
  BY <1>1
<1>3. \A s, r \in Schedulers : Resets(s, e)' /\ sch'[r].held = e => r = s
  BY <1>2 DEF CountsARow
<1>4. \A s \in Schedulers : Resets(s, e)' => sch'[s].ep = ep'[e]
  BY <1>1, <1>2 DEF CountsARow
<1>5. (\A s \in Schedulers : ~Resets(s, e)') =>
        /\ ep'[e].count <= streak'[e]
        /\ \A s \in Schedulers : sch'[s].held = e => HeldCount(sch'[s]) <= streak'[e]
  BY <1>2 DEF CountsARow
<1>6. ~ep'[e].active => streak'[e] >= DisableAfter
  BY DEF CountsARow
<1> HIDE DEF Resets, HeldCount
<1> QED BY <1>3, <1>4, <1>5, <1>6 DEF CountsARow

\* A delivery and its endpoint, or the absence of both, stay under a session.
LEMMA HandsStep ==
  ASSUME TypeInv, \A s \in Schedulers : HandsInv(s), [Next]_vars
  PROVE  \A s \in Schedulers : HandsInv(s)'
<1>1. \A s \in Schedulers : sch'[s] = sch[s] => InHand(s)' = InHand(s)
  BY DEF InHand
<1>2. ASSUME NEW d \in Deliveries, Enqueue(d) \/ Replay(d)
      PROVE  \A s \in Schedulers : HandsInv(s)'
  <2>1. sch' = sch /\ ep' = ep
    BY <1>2, InsertEffect
  <2>2. \A x \in Deliveries : row'[x].status = "absent" => row[x].status = "absent"
    BY <1>2, InsertEffect
  <2>3. \A s \in Schedulers : InHand(s) \subseteq Deliveries
    BY DEF InHand, TypeInv, TypeOK, Sessions
  <2> QED BY <1>1, <2>1, <2>2, <2>3 DEF HandsInv
<1>3. ASSUME NEW e \in Endpoints, Delete(e)
      PROVE  \A s \in Schedulers : HandsInv(s)'
  <2>1. \A d \in Deliveries : row'[d].status = "absent" =>
          row[d].status = "absent" \/ ~ep'[EndpointOf[d]].exists
    BY <1>3, DeleteEffect DEF NoEndpoint
  <2>2. \A d \in Deliveries : ep'[EndpointOf[d]].exists => ep[EndpointOf[d]].exists
    BY <1>3, DeleteEffect, ParameterAssumption DEF NoEndpoint
  <2>3. \A s \in Schedulers : InHand(s) \subseteq Deliveries
    BY DEF InHand, TypeInv, TypeOK, Sessions
  <2> QED BY <1>1, <1>3, <2>1, <2>2, <2>3, DeleteEffect DEF HandsInv
<1>4. ASSUME NEW c \in Schedulers, SelectBatch(c)
      PROVE  \A s \in Schedulers : HandsInv(s)'
  <2>1. UNCHANGED <<row, ep>>
    BY <1>4 DEF SelectBatch
  <2>2. \A d \in InHand(c)' : row[d].status # "absent"
    BY <1>4, SelectEffect DEF Due, Pending
  <2> QED BY <1>1, <1>4, <2>1, <2>2, SelectEffect DEF HandsInv
<1>5. ASSUME NEW c \in Schedulers, NEW d \in Deliveries, Take(c, d)
      PROVE  \A s \in Schedulers : HandsInv(s)'
  <2>1. UNCHANGED <<row, ep>>
    BY <1>5 DEF Take
  <2> QED BY <1>1, <1>5, <2>1, TakeEffect DEF HandsInv
<1>6. ASSUME NEW c \in Schedulers, Post(c)
      PROVE  \A s \in Schedulers : HandsInv(s)'
  <2>1. UNCHANGED <<row, ep>>
    BY <1>6 DEF Post
  <2> QED BY <1>1, <1>6, <2>1, PostEffect DEF HandsInv
<1>7. ASSUME NEW c \in Schedulers, Commit(c)
      PROVE  \A s \in Schedulers : HandsInv(s)'
  <2>1. /\ \A d \in Deliveries : row'[d].status = "absent" => row[d].status = "absent"
        /\ \A x \in Endpoints : ep'[x].exists = ep[x].exists
    <3>1. CASE row[sch[c].d].status = "absent"
      BY <1>7, <3>1 DEF Commit
    <3>2. CASE row[sch[c].d].status # "absent"
      BY <1>7, <3>2, CommitRow
    <3> QED BY <3>1, <3>2
  <2>2. /\ \A s \in Schedulers \ {c} : sch'[s] = sch[s]
        /\ sch'[c].pc # "post" /\ InHand(c)' \subseteq InHand(c)
    BY <1>7, CommitSession DEF InHand
  <2>3. \A s \in Schedulers : InHand(s) \subseteq Deliveries
    BY DEF InHand, TypeInv, TypeOK, Sessions
  <2> QED BY <1>1, <2>1, <2>2, <2>3, ParameterAssumption DEF HandsInv
<1>8. ASSUME NEW c \in Schedulers, Crash(c)
      PROVE  \A s \in Schedulers : HandsInv(s)'
  <2>1. UNCHANGED <<row, ep>>
    BY <1>8 DEF Crash
  <2> QED BY <1>1, <1>8, <2>1, CrashEffect DEF HandsInv, Idle
<1>9. CASE UNCHANGED vars
  BY <1>1, <1>9 DEF vars, HandsInv
<1> QED BY <1>2, <1>3, <1>4, <1>5, <1>6, <1>7, <1>8, <1>9 DEF Next, Dispatch

\* A session takes an endpoint as the row has it, or as it holds it already.
LEMMA TakeCounts ==
  ASSUME TypeInv, NEW e \in Endpoints, CountsARow(e), streak[e] # None, streak'[e] # None,
         NEW s \in Schedulers, NEW d \in Deliveries, Take(s, d)
  PROVE  CountsARow(e)'
<1>1. /\ ep' = ep /\ streak'[e] = streak[e]
      /\ EndpointOf[d] = e => \A r \in Schedulers : ~Resets(r, e)
  <2>1. streak \in [Endpoints -> Nat \cup {None}]
    BY DEF TypeInv, TypeOK
  <2>2. CASE \E r \in Schedulers : Resets(r, EndpointOf[d])
    <3>1. streak' = [streak EXCEPT ![EndpointOf[d]] = None]
      BY <2>2 DEF Take
    <3>2. EndpointOf[d] # e
      BY <2>1, <3>1
    <3> QED BY <2>1, <3>1, <3>2 DEF Take
  <2>3. CASE ~ \E r \in Schedulers : Resets(r, EndpointOf[d])
    <3>1. streak' = streak
      BY <2>3 DEF Take
    <3> QED BY <2>3, <3>1 DEF Take
  <2> QED BY <2>2, <2>3
<1>2. /\ \A r \in Schedulers \ {s} : sch'[r] = sch[r]
      /\ sch[s].pc = "next" /\ sch'[s].held \in {EndpointOf[d], None} /\ EndpointOf[d] # None
      /\ ~Answered(sch'[s])
      /\ \/ sch[s].held = EndpointOf[d] /\ sch'[s].ep = sch[s].ep
         \/ sch'[s].ep = ep[EndpointOf[d]]
  BY TakeEffect, ParameterAssumption DEF Answered
<1>3. \A x \in Endpoints : ~Resets(s, x) /\ ~Resets(s, x)'
  BY <1>2, ParameterAssumption DEF Resets, Answered
<1>4. \A r \in Schedulers \ {s} : /\ Resets(r, e)' <=> Resets(r, e)
                                  /\ HeldCount(sch'[r]) = HeldCount(sch[r])
  BY <1>2 DEF Resets
<1>5. CASE EndpointOf[d] = e
  <2>1. ep[e].count <= streak[e] /\ \A r \in Schedulers : sch[r].held = e => HeldCount(sch[r]) <= streak[e]
    BY <1>1, <1>5 DEF CountsARow
  <2>2. \A r \in Schedulers : ~Resets(r, e)'
    BY <1>1, <1>3, <1>4, <1>5
  <2>3. HeldCount(sch'[s]) <= streak[e]
    <3>1. HeldCount(sch'[s]) = sch'[s].ep.count
      BY <1>2 DEF HeldCount
    <3>2. HeldCount(sch[s]) = sch[s].ep.count
      BY <1>2 DEF HeldCount, Answered
    <3> QED BY <1>2, <1>5, <2>1, <3>1, <3>2
  <2>4. \A r \in Schedulers : sch'[r].held = e => HeldCount(sch'[r]) <= streak[e]
    BY <1>2, <1>4, <2>1, <2>3
  <2>5. ~ep'[e].active => streak'[e] >= DisableAfter
    BY <1>1 DEF CountsARow
  <2> HIDE DEF HeldCount, Resets
  <2> QED BY <1>1, <2>1, <2>2, <2>4, <2>5 DEF CountsARow
<1>6. CASE EndpointOf[d] # e
  <2>1. sch'[s].held # e
    BY <1>2, <1>6, ParameterAssumption
  <2> QED BY <1>1, <1>2, <1>3, <1>4, <2>1, SameRow
<1> QED BY <1>5, <1>6

\* A failure is one more in the row for everybody; a 2xx that nothing races
\* starts the row anew, as its commit will.
LEMMA PostCounts ==
  ASSUME TypeInv, NEW e \in Endpoints, CountsARow(e), streak'[e] # None,
         NEW s \in Schedulers, HandsInv(s), Post(s)
  PROVE  CountsARow(e)'
<1> DEFINE d == sch[s].d
<1>1. /\ \A r \in Schedulers \ {s} : sch'[r] = sch[r]
      /\ sch[s].pc = "post" /\ sch'[s].pc = "commit" /\ sch'[s].answer \in {"ok", "error"}
      /\ sch'[s].held = sch[s].held /\ sch'[s].ep = sch[s].ep /\ ep' = ep
  BY PostEffect DEF Post
<1>2. sch[s].held = EndpointOf[d]
  BY <1>1 DEF TypeInv, HandInv
<1>3. \A r \in Schedulers \ {s} : /\ Resets(r, e)' <=> Resets(r, e)
                                  /\ HeldCount(sch'[r]) = HeldCount(sch[r])
  BY <1>1 DEF Resets
<1>4. ~Resets(s, e)
  BY <1>1 DEF Resets
<1>5. CASE EndpointOf[d] # e
  <2>1. streak'[e] = streak[e]
    BY <1>5, PostStreak
  <2>2. sch'[s].held # e /\ ~Resets(s, e)'
    BY <1>1, <1>2, <1>5 DEF Resets
  <2> QED BY <1>1, <1>3, <1>4, <2>1, <2>2, SameRow
<1>6. CASE EndpointOf[d] = e
  <2>1. /\ streak[e] # None
        /\ \/ sch'[s].answer = "ok" /\ HoldsAlone(s, e) /\ streak'[e] = 0
           \/ sch'[s].answer = "error" /\ streak'[e] = streak[e] + 1
    BY <1>6, PostStreak
  <2>2. \A r \in Schedulers : ~Resets(r, e)
    BY <1>1, <1>2, <1>4, <1>6 DEF CountsARow
  <2>3. /\ ep[e].count <= streak[e]
        /\ \A r \in Schedulers : sch[r].held = e => HeldCount(sch[r]) <= streak[e]
        /\ ~ep[e].active => streak[e] >= DisableAfter
    BY <2>2 DEF CountsARow
  <2>4. /\ ep[e].count \in Nat /\ streak[e] \in Nat
        /\ \A r \in Schedulers : HeldCount(sch[r]) \in Nat /\ sch[r].ep.count \in Nat
    BY <2>1, CountTypes
  <2>5. CASE sch'[s].answer = "ok" /\ HoldsAlone(s, e) /\ streak'[e] = 0
    <3>1. Resets(s, e)'
      BY <1>1, <1>2, <1>6, <2>5 DEF Resets
    <3>2. \A r \in Schedulers : Resets(r, e)' => r = s
      BY <1>3, <2>2
    <3>3. \A r \in Schedulers : sch'[r].held = e => r = s
      BY <1>1, <2>5 DEF HoldsAlone
    <3>4. sch'[s].ep = ep'[e] /\ ep'[e].active
      BY <1>1, <2>5 DEF HoldsAlone, HandsInv
    <3> HIDE DEF Resets, HeldCount
    <3> QED BY <3>1, <3>2, <3>3, <3>4 DEF CountsARow
  <2>6. CASE sch'[s].answer = "error" /\ streak'[e] = streak[e] + 1
    <3>1. \A r \in Schedulers : ~Resets(r, e)'
      BY <1>3, <2>2, <2>6 DEF Resets
    <3>2. HeldCount(sch'[s]) = HeldCount(sch[s]) + 1
      BY <1>1, <2>6 DEF HeldCount, Answered
    <3> HIDE DEF Resets, HeldCount
    <3>3. ep'[e].count <= streak'[e]
      BY <1>1, <2>3, <2>4, <2>6
    <3>4. \A r \in Schedulers : sch'[r].held = e => HeldCount(sch'[r]) <= streak'[e]
      BY <1>1, <1>3, <2>3, <2>4, <2>6, <3>2
    <3>5. ~ep'[e].active => streak'[e] >= DisableAfter
      BY <1>1, <2>3, <2>4, <2>6, Budget
    <3> QED BY <3>1, <3>3, <3>4, <3>5 DEF CountsARow
  <2> QED BY <2>1, <2>5, <2>6
<1> QED BY <1>5, <1>6

\* A commit writes a count that somebody held, or the 0 of the 2xx.
LEMMA CommitCounts ==
  ASSUME TypeInv, NEW e \in Endpoints, CountsARow(e), streak[e] # None, ep'[e].exists,
         NEW s \in Schedulers, HandsInv(s), Commit(s)
  PROVE  CountsARow(e)'
<1> DEFINE d == sch[s].d
           answer == sch[s].answer
           old == sch[s].ep
<1>1. /\ \A r \in Schedulers \ {s} : sch'[r] = sch[r]
      /\ sch[s].pc = "commit" /\ d \in Deliveries /\ d \in InHand(s)
      /\ sch'[s].pc \in {"idle", "next"} /\ answer \in {"ok", "error", "disabled"}
      /\ sch'[s].held = None \/ (sch'[s].held = sch[s].held /\ sch'[s].ep = Endpoint(old, answer))
  BY CommitSession
<1>2. answer \in {"ok", "error"} => sch[s].held = EndpointOf[d]
  BY <1>1 DEF TypeInv, HandInv, Answered
<1>3. \A r \in Schedulers \ {s} : /\ Resets(r, e)' <=> Resets(r, e)
                                  /\ HeldCount(sch'[r]) = HeldCount(sch[r])
  BY <1>1 DEF Resets
<1>4. ~Resets(s, e)' /\ HeldCount(sch'[s]) = sch'[s].ep.count
  BY <1>1 DEF Resets, HeldCount, Answered
<1>5. streak' = streak /\ e # None
  BY ParameterAssumption DEF Commit
<1>6. /\ ep[e].count \in Nat /\ streak[e] \in Nat /\ old \in EndpointRows /\ old.count \in Nat
      /\ \A r \in Schedulers : HeldCount(sch[r]) \in Nat
  BY CountTypes
<1>7. CASE ep'[e] = ep[e] /\ (answer = "disabled" \/ EndpointOf[d] # e)
  <2>1. ~Resets(s, e)
    BY <1>2, <1>7 DEF Resets
  <2>2. sch'[s].held = e =>
          /\ sch[s].held = e /\ sch'[s].ep = old /\ HeldCount(sch'[s]) = HeldCount(sch[s])
    <3> SUFFICES ASSUME sch'[s].held = e
                 PROVE  sch[s].held = e /\ sch'[s].ep = old /\ HeldCount(sch'[s]) = HeldCount(sch[s])
      OBVIOUS
    <3>1. sch[s].held = e /\ sch'[s].ep = Endpoint(old, answer)
      BY <1>1, <1>5
    <3>2. answer = "disabled"
      BY <1>1, <1>2, <1>7, <3>1
    <3>3. sch'[s].ep = old
      BY <3>1, <3>2, <1>6, EndpointAfter
    <3> QED BY <1>4, <3>1, <3>2, <3>3 DEF HeldCount, Answered
  <2>3. \A r \in Schedulers : Resets(r, e) => Resets(r, e)'
    BY <1>3, <2>1
  <2>4. \A r \in Schedulers : sch'[r].held = e =>
          /\ sch[r].held = e /\ sch'[r].ep = sch[r].ep /\ HeldCount(sch'[r]) = HeldCount(sch[r])
          /\ Resets(r, e)' => Resets(r, e)
    BY <1>1, <1>3, <1>4, <2>2
  <2>5. streak'[e] = streak[e] /\ ep'[e] = ep[e]
    BY <1>5, <1>7
  <2> HIDE DEF Resets, HeldCount
  <2> QED BY <2>3, <2>4, <2>5, SameRow
<1>8. CASE row[d].status = "absent"
  <2>1. ep' = ep
    BY <1>8 DEF Commit
  <2>2. EndpointOf[d] # e
    BY <1>1, <1>8, <2>1 DEF HandsInv
  <2> QED BY <1>7, <2>1, <2>2
<1>9. CASE row[d].status # "absent" /\ (answer = "disabled" \/ EndpointOf[d] # e)
  <2>1. ep'[e] = ep[e]
    BY <1>9, CommitRow
  <2> QED BY <1>7, <1>9, <2>1
<1>10. CASE row[d].status # "absent" /\ answer = "ok" /\ EndpointOf[d] = e
  <2>1. Resets(s, e)
    BY <1>1, <1>2, <1>10 DEF Resets
  <2>2. sch[s].ep = ep[e] /\ \A r \in Schedulers : sch[r].held = e => r = s
    BY <2>1 DEF CountsARow
  <2>3. ep'[e].active = ep[e].active /\ ep'[e].count = 0
    BY <1>10, <2>2, CommitRow
  <2>4. \A r \in Schedulers : ~Resets(r, e)'
    BY <1>1, <1>4, <2>2 DEF Resets
  <2>5. sch'[s].held = e => HeldCount(sch'[s]) = 0
    BY <1>1, <1>4, <1>5, <1>6, <1>10, EndpointAfter
  <2>6. \A r \in Schedulers : sch'[r].held = e => HeldCount(sch'[r]) <= streak'[e]
    BY <1>1, <1>5, <1>6, <2>2, <2>5
  <2>7. ~ep'[e].active => streak'[e] >= DisableAfter
    BY <1>5, <2>3 DEF CountsARow
  <2>8. ep'[e].count <= streak'[e]
    BY <1>5, <1>6, <2>3
  <2> HIDE DEF Resets, HeldCount
  <2> QED BY <2>4, <2>6, <2>7, <2>8 DEF CountsARow
<1>11. CASE row[d].status # "absent" /\ answer = "error" /\ EndpointOf[d] = e
  <2>1. \A r \in Schedulers : ~Resets(r, e)
    BY <1>2, <1>11 DEF Resets, CountsARow
  <2>2. /\ ep[e].count <= streak[e]
        /\ \A r \in Schedulers : sch[r].held = e => HeldCount(sch[r]) <= streak[e]
        /\ ~ep[e].active => streak[e] >= DisableAfter
    BY <2>1 DEF CountsARow
  <2>3. HeldCount(sch[s]) = old.count + 1
    BY <1>1, <1>11 DEF HeldCount, Answered
  <2>4. old.count + 1 <= streak[e]
    BY <1>2, <1>11, <2>2, <2>3
  <2>5. /\ ep'[e].active = ep[e].active \/ (~ep'[e].active /\ old.count + 1 >= DisableAfter)
        /\ ep'[e].count \in {old.count + 1, ep[e].count}
    BY <1>11, CommitRow
  <2>6. \A r \in Schedulers : ~Resets(r, e)'
    BY <1>3, <1>4, <2>1
  <2>7. sch'[s].held = e => HeldCount(sch'[s]) = old.count + 1
    BY <1>1, <1>4, <1>5, <1>6, <1>11, EndpointAfter
  <2>8. \A r \in Schedulers : sch'[r].held = e => HeldCount(sch'[r]) <= streak'[e]
    BY <1>1, <1>3, <1>5, <2>2, <2>4, <2>7
  <2>9. ~ep'[e].active => streak'[e] >= DisableAfter
    BY <1>5, <1>6, <2>2, <2>4, <2>5, Budget
  <2>10. ep'[e].count <= streak'[e]
    BY <1>5, <1>6, <2>2, <2>4, <2>5
  <2> HIDE DEF Resets, HeldCount
  <2> QED BY <2>6, <2>8, <2>9, <2>10 DEF CountsARow
<1> QED BY <1>1, <1>8, <1>9, <1>10, <1>11

\* Every step keeps what is counted to the failures in a row.
LEMMA StreakStep ==
  ASSUME TypeInv, StreakInv, [Next]_vars
  PROVE  StreakInv'
<1>1. \A s \in Schedulers : HandsInv(s)'
  BY HandsStep DEF StreakInv
<1>2. SUFFICES ASSUME NEW e \in Endpoints, ep'[e].exists, streak'[e] # None
               PROVE  CountsARow(e)'
  BY <1>1 DEF StreakInv
<1>3. ASSUME ep'[e] = ep[e], streak'[e] = streak[e],
             \A s \in Schedulers : \/ sch'[s] = sch[s]
                                   \/ ~Resets(s, e) /\ sch'[s].held = None
      PROVE  CountsARow(e)'
  <2>1. e # None /\ CountsARow(e)
    BY <1>2, <1>3, ParameterAssumption DEF StreakInv
  <2>2. \A s \in Schedulers : sch'[s] = sch[s] =>
          /\ HeldCount(sch'[s]) = HeldCount(sch[s]) /\ Resets(s, e)' <=> Resets(s, e)
    BY DEF Resets
  <2> HIDE DEF Resets, HeldCount
  <2>3. \A s \in Schedulers : sch'[s].held = e =>
          /\ sch[s].held = e /\ sch'[s].ep = sch[s].ep /\ HeldCount(sch'[s]) = HeldCount(sch[s])
          /\ Resets(s, e)' => Resets(s, e)
    BY <1>3, <2>1, <2>2
  <2>4. \A s \in Schedulers : Resets(s, e) => Resets(s, e)'
    BY <1>3, <2>2
  <2> QED BY <1>3, <2>1, <2>3, <2>4, SameRow
<1>4. ASSUME NEW d \in Deliveries, Enqueue(d) \/ Replay(d)
      PROVE  CountsARow(e)'
  BY <1>3, <1>4, InsertEffect
<1>5. ASSUME NEW x \in Endpoints, Delete(x)
      PROVE  CountsARow(e)'
  <2>1. x # e
    BY <1>2, <1>5, DeleteEffect DEF NoEndpoint
  <2> QED BY <1>3, <1>5, <2>1, DeleteEffect
<1>6. ASSUME NEW s \in Schedulers, SelectBatch(s)
      PROVE  CountsARow(e)'
  <2>1. UNCHANGED <<ep, streak>>
    BY <1>6 DEF SelectBatch
  <2> QED BY <1>3, <1>6, <2>1, SelectEffect DEF Resets
<1>7. ASSUME NEW s \in Schedulers, NEW d \in Deliveries, Take(s, d)
      PROVE  CountsARow(e)'
  <2>1. ep' = ep /\ streak[e] # None
    BY <1>2, <1>7 DEF Take, TypeInv, TypeOK
  <2> QED BY <1>2, <1>7, <2>1, TakeCounts DEF StreakInv
<1>8. ASSUME NEW s \in Schedulers, Post(s)
      PROVE  CountsARow(e)'
  <2>1. ep' = ep /\ streak[e] # None
    BY <1>2, <1>8, PostStreak DEF Post
  <2> QED BY <1>2, <1>8, <2>1, PostCounts DEF StreakInv
<1>9. ASSUME NEW s \in Schedulers, Commit(s)
      PROVE  CountsARow(e)'
  <2>1. ep[e].exists /\ streak' = streak
    <3>1. CASE row[sch[s].d].status = "absent"
      BY <1>2, <1>9, <3>1 DEF Commit
    <3>2. CASE row[sch[s].d].status # "absent"
      <4>1. streak' = streak
        BY <1>9 DEF Commit
      <4> QED BY <1>2, <1>9, <3>2, <4>1, CommitRow
    <3> QED BY <3>1, <3>2
  <2> QED BY <1>2, <1>9, <2>1, CommitCounts DEF StreakInv
<1>10. ASSUME NEW s \in Schedulers, Crash(s)
       PROVE  CountsARow(e)'
  <2>1. ep' = ep /\ streak'[e] = (IF Resets(s, e) THEN None ELSE streak[e])
    BY <1>10 DEF Crash
  <2>2. ~Resets(s, e) /\ streak'[e] = streak[e]
    BY <1>2, <2>1
  <2>3. sch'[s].held = None /\ \A r \in Schedulers \ {s} : sch'[r] = sch[r]
    BY <1>10, CrashEffect DEF Idle
  <2> QED BY <1>3, <2>1, <2>2, <2>3
<1>11. CASE UNCHANGED vars
  BY <1>3, <1>11 DEF vars
<1> QED BY <1>4, <1>5, <1>6, <1>7, <1>8, <1>9, <1>10, <1>11 DEF Next, Dispatch

\* docs/SECURITY.md:38-39 and scheduler_service.py:43 of any number of sessions
\* that share endpoints: one is disabled only after that many failures in a row,
\* unless a 2xx of it raced, and after that many failures in all even then.
THEOREM DisabledInARow == Spec => []DisabledForFailuresInARow
<1>1. Init => StreakInv
  BY Budget, ParameterAssumption
     DEF Init, StreakInv, CountsARow, HandsInv, Resets, HeldCount, InHand, Idle, Answered
<1>2. TypeInv /\ StreakInv /\ [Next]_vars => StreakInv'
  BY StreakStep
<1>3. Init => EarnedInv
  BY ParameterAssumption DEF Init, EarnedInv, EarnedBy, OutcomesAreEarned, EarnedDisabling, Idle, Absent, Answered
<1>4. TypeInv /\ EarnedInv /\ [Next]_vars => EarnedInv'
  BY EarnedStep
<1>5. StreakInv /\ EarnedInv => DisabledForFailuresInARow
  BY DEF StreakInv, CountsARow, EarnedInv, EarnedDisabling, DisabledForFailuresInARow
<1> QED BY <1>1, <1>2, <1>3, <1>4, <1>5, TypeInvariant, PTL DEF Spec
-----------------------------------------------------------------------------
(* Deliveries that one scheduler at a time has in hand                       *)

\* Session c posts, or has posted, a delivery it has in hand.
Posted(c, d) == IF Answered(c) /\ c.d = d THEN 1 ELSE 0

\* The session alone has the delivery: the row is as it was read, or gone for
\* good, and only requests that a crash has forgotten are not counted.
AloneWith(c, d) ==
  /\ row[d].status # "absent" => row[d] = c.snap[d]
  /\ row[d].status = "absent" => ~ep[EndpointOf[d]].exists
  /\ posts[d] <= c.snap[d].attempts + Posted(c, d) + crashes

Exact(d) ==
  /\ \A s, r \in Schedulers : d \in InHand(s) /\ d \in InHand(r) => s = r
  /\ \A s \in Schedulers : d \in InHand(s) => AloneWith(sch[s], d)
  /\ (\A s \in Schedulers : d \notin InHand(s)) =>
       posts[d] <= (IF row[d].status = "absent" THEN MaxAttempts ELSE row[d].attempts) + crashes
  /\ d \in acked => posts[d] > 0
  /\ d \in acked /\ crashes = 0 /\ row[d].status # "absent" =>
       \/ row[d].status = "delivered"
       \/ \E s \in Schedulers : sch[s].d = d /\ Answered(sch[s]) /\ sch[s].answer = "ok"

ExactInv == \A d \in Deliveries \ shared : Exact(d)

\* Sessions and rows of the deliveries a step does not touch.
LEMMA SameExact ==
  ASSUME NEW d \in Deliveries, Exact(d), crashes' = crashes,
         row'[d] = row[d], posts'[d] = posts[d], d \in acked' => d \in acked,
         ep'[EndpointOf[d]].exists => ep[EndpointOf[d]].exists,
         \A s \in Schedulers :
           /\ d \in InHand(s)' <=> d \in InHand(s)
           /\ d \in InHand(s) => /\ sch'[s].snap[d] = sch[s].snap[d]
                                 /\ Posted(sch'[s], d) = Posted(sch[s], d)
           /\ sch[s].d = d /\ Answered(sch[s]) => sch'[s] = sch[s]
  PROVE  Exact(d)'
<1>1. \A s, r \in Schedulers : d \in InHand(s)' /\ d \in InHand(r)' => s = r
  BY DEF Exact
<1>2. \A s \in Schedulers : d \in InHand(s)' => AloneWith(sch[s], d)'
  <2> SUFFICES ASSUME NEW s \in Schedulers, d \in InHand(s)'
               PROVE  AloneWith(sch[s], d)'
    OBVIOUS
  <2>1. AloneWith(sch[s], d)
    BY DEF Exact
  <2>2. sch'[s].snap[d] = sch[s].snap[d] /\ Posted(sch[s], d)' = Posted(sch[s], d)
    BY DEF Posted, Answered
  <2> QED BY <2>1, <2>2 DEF AloneWith
<1>3. (\A s \in Schedulers : d \notin InHand(s)') => (\A s \in Schedulers : d \notin InHand(s))
  OBVIOUS
<1>4. \A s \in Schedulers : sch[s].d = d /\ Answered(sch[s]) => sch'[s] = sch[s]
  OBVIOUS
<1> QED BY <1>1, <1>2, <1>3, <1>4 DEF Exact, Answered

\* What is known of the delivery that a session is working on.
LEMMA HandTypes ==
  ASSUME TypeInv, NEW s \in Schedulers, NEW d \in Deliveries
  PROVE  /\ sch[s].snap[d].attempts \in Nat /\ row[d].attempts \in Nat
         /\ row[d].attempts <= MaxAttempts /\ posts[d] \in Nat /\ crashes \in Nat
         /\ Posted(sch[s], d) \in {0, 1}
         /\ d \in InHand(s) => /\ sch[s].snap[d].status \in Pending
                               /\ sch[s].snap[d].attempts < MaxAttempts
<1>1. sch[s].snap \in [Deliveries -> Rows] /\ row \in [Deliveries -> Rows] /\ posts[d] \in Nat
      /\ crashes \in Nat
  BY ParameterAssumption DEF TypeInv, TypeOK, Sessions
<1>2. \A r \in Rows : r.attempts \in Nat /\ r.attempts <= MaxAttempts
  BY Budget DEF Rows
<1>3. d \in InHand(s) => /\ sch[s].snap[d].status \in Pending
                         /\ sch[s].snap[d].attempts < MaxAttempts
  BY DEF TypeInv, HandInv, InHand
<1> QED BY <1>1, <1>2, <1>3 DEF Posted

\* Every step keeps the count of a delivery only one dispatcher has had.
LEMMA ExactStep ==
  ASSUME TypeInv, ExactInv, [Next]_vars
  PROVE  ExactInv'
<1>0. shared \subseteq shared' /\ TypeInv'
  <2>1. shared \subseteq shared'
    <3>1. \A s \in Schedulers : SelectBatch(s) => shared \subseteq shared'
      BY SelectEffect
    <3>2. \A s \in Schedulers : Post(s) \/ Commit(s) \/ Crash(s) => UNCHANGED shared
      BY DEF Post, Commit, Crash
    <3>3. \A s \in Schedulers, x \in Deliveries : Take(s, x) => UNCHANGED shared
      BY DEF Take
    <3>4. /\ \A x \in Deliveries : Enqueue(x) \/ Replay(x) => UNCHANGED shared
          /\ \A e \in Endpoints : Delete(e) => UNCHANGED shared
      BY DEF Enqueue, Replay, Delete
    <3>5. UNCHANGED vars => UNCHANGED shared
      BY DEF vars
    <3> QED BY <3>1, <3>2, <3>3, <3>4, <3>5 DEF Next, Dispatch
  <2> QED BY <2>1, NextType
<1> SUFFICES ASSUME NEW d \in Deliveries \ shared'
             PROVE  Exact(d)'
  BY DEF ExactInv
<1>a. Exact(d)
  BY <1>0 DEF ExactInv
<1>b. \A s \in Schedulers : sch'[s] = sch[s] => InHand(s)' = InHand(s)
  BY DEF InHand
<1>1. ASSUME NEW x \in Deliveries, Enqueue(x) \/ Replay(x)
      PROVE  Exact(d)'
  <2>1. UNCHANGED <<ep, sch, posts, acked, failures, streak, shared, crashes>>
    BY <1>1, InsertEffect
  <2>2. CASE x # d
    BY <1>1, <1>a, <1>b, <2>1, <2>2, InsertEffect, SameExact
  <2>3. CASE x = d
    <3>1. row[d].status = "absent" /\ posts[d] = 0 /\ ep[EndpointOf[d]].exists
      BY <1>1, <2>3, InsertEffect
    <3>2. \A s \in Schedulers : d \notin InHand(s)
      BY <1>a, <3>1 DEF Exact, AloneWith
    <3>3. d \notin acked
      BY <1>a, <3>1 DEF Exact
    <3>4. \A s \in Schedulers : d \notin InHand(s)'
      BY <1>b, <2>1, <3>2
    <3>5. posts'[d] <= row'[d].attempts + crashes' /\ row'[d].status # "absent"
      BY <1>1, <2>1, <2>3, <3>1, InsertEffect DEF TypeInv, TypeOK
    <3> QED BY <2>1, <3>3, <3>4, <3>5 DEF Exact
  <2> QED BY <2>2, <2>3
<1>2. ASSUME NEW e \in Endpoints, Delete(e)
      PROVE  Exact(d)'
  <2>1. UNCHANGED <<sch, posts, acked, failures, streak, shared, crashes>>
    BY <1>2, DeleteEffect
  <2>2. CASE EndpointOf[d] # e
    <3>1. row'[d] = row[d] /\ ep'[EndpointOf[d]] = ep[EndpointOf[d]]
      BY <1>2, <2>2, DeleteEffect, ParameterAssumption
    <3> QED BY <1>a, <1>b, <2>1, <3>1, SameExact
  <2>3. CASE EndpointOf[d] = e
    <3>1. row'[d].status = "absent" /\ ~ep'[EndpointOf[d]].exists
      BY <1>2, <2>3, DeleteEffect DEF Absent, NoEndpoint
    <3>2. \A s \in Schedulers : d \in InHand(s)' => AloneWith(sch[s], d)'
      BY <1>a, <1>b, <2>1, <3>1 DEF Exact, AloneWith, Posted, Answered
    <3>3. (\A s \in Schedulers : d \notin InHand(s)') => posts'[d] <= MaxAttempts + crashes'
      <4> SUFFICES ASSUME \A s \in Schedulers : d \notin InHand(s)'
                   PROVE  posts[d] <= MaxAttempts + crashes
        BY <2>1
      <4>1. posts[d] <= (IF row[d].status = "absent" THEN MaxAttempts ELSE row[d].attempts) + crashes
        BY <1>a, <1>b, <2>1 DEF Exact
      <4>2. /\ row[d].attempts \in Nat /\ row[d].attempts <= MaxAttempts
            /\ posts[d] \in Nat /\ crashes \in Nat
        BY Budget, ParameterAssumption DEF TypeInv, TypeOK, Rows
      <4> QED BY <4>1, <4>2, Budget
    <3> QED BY <1>a, <1>b, <2>1, <3>1, <3>2, <3>3 DEF Exact
  <2> QED BY <2>2, <2>3
<1>3. ASSUME NEW s \in Schedulers, SelectBatch(s)
      PROVE  Exact(d)'
  <2>1. UNCHANGED <<row, ep, posts, acked, failures, streak, crashes>>
    BY <1>3 DEF SelectBatch
  <2>2. /\ \A r \in Schedulers \ {s} : sch'[r] = sch[r] /\ InHand(r)' = InHand(r)
        /\ InHand(s) = {} /\ sch[s].pc = "idle" /\ sch'[s].pc = "next" /\ sch'[s].d = None
    BY <1>3, <1>b, SelectEffect
  <2>3. CASE d \in InHand(s)'
    <3>1. row[d].status \in Pending /\ sch'[s].snap[d] = row[d]
      BY <1>3, <2>3, SelectEffect DEF Due
    <3>2. \A r \in Schedulers \ {s} : d \notin InHand(r)
      BY <1>3, <2>3, SelectEffect
    <3>3. posts[d] <= row[d].attempts + crashes
      BY <1>a, <2>2, <3>1, <3>2 DEF Exact, Pending
    <3>4. Posted(sch[s], d)' = 0
      BY <2>2 DEF Posted, Answered
    <3>5. row[d].attempts \in Nat /\ crashes \in Nat
      BY Budget, ParameterAssumption DEF TypeInv, TypeOK, Rows
    <3>6. AloneWith(sch[s], d)'
      BY <2>1, <3>1, <3>3, <3>4, <3>5 DEF AloneWith, Pending
    <3>7. \A r \in Schedulers : d \in InHand(r)' => r = s
      BY <2>2, <3>2
    <3>8. d \in acked => posts[d] > 0
      BY <1>a DEF Exact
    <3>9. d \in acked /\ crashes = 0 /\ row[d].status # "absent" =>
            \/ row[d].status = "delivered"
            \/ \E r \in Schedulers : sch'[r].d = d /\ Answered(sch'[r]) /\ sch'[r].answer = "ok"
      BY <1>a, <2>2 DEF Exact, Answered
    <3> QED BY <2>1, <2>3, <3>6, <3>7, <3>8, <3>9 DEF Exact, Answered
  <2>4. CASE d \notin InHand(s)'
    BY <1>a, <2>1, <2>2, <2>4, SameExact DEF Answered
  <2> QED BY <2>3, <2>4
<1>4. ASSUME NEW s \in Schedulers, NEW x \in Deliveries, Take(s, x)
      PROVE  Exact(d)'
  <2>1. UNCHANGED <<row, ep, posts, acked, failures, shared, crashes>>
    BY <1>4 DEF Take
  <2>2. /\ \A r \in Schedulers : InHand(r)' = InHand(r)
        /\ \A r \in Schedulers \ {s} : sch'[r] = sch[r]
        /\ sch'[s].snap = sch[s].snap /\ ~Answered(sch[s]) /\ ~Answered(sch'[s])
    BY <1>4, <1>b, TakeEffect DEF Answered
  <2>3. Posted(sch'[s], d) = Posted(sch[s], d)
    BY <2>2 DEF Posted
  <2> QED BY <1>a, <2>1, <2>2, <2>3, SameExact
<1>5. ASSUME NEW s \in Schedulers, Post(s)
      PROVE  Exact(d)'
  <2>1. UNCHANGED <<row, ep, shared, crashes>>
    BY <1>5 DEF Post
  <2>2. /\ \A r \in Schedulers : InHand(r)' = InHand(r)
        /\ \A r \in Schedulers \ {s} : sch'[r] = sch[r]
        /\ sch'[s].snap = sch[s].snap /\ sch'[s].d = sch[s].d
        /\ ~Answered(sch[s]) /\ sch'[s].pc = "commit" /\ sch'[s].answer \in {"ok", "error"}
    BY <1>5, <1>b, PostEffect DEF Answered
  <2>3. posts' = [posts EXCEPT ![sch[s].d] = @ + 1] /\ sch[s].d \in Deliveries
    BY <1>5, PostEffect DEF Post
  <2>4. posts \in [Deliveries -> Nat]
    BY DEF TypeInv, TypeOK
  <2>5. CASE d # sch[s].d
    <3>1. posts'[d] = posts[d] /\ (d \in acked' => d \in acked)
      BY <1>5, <2>3, <2>4, <2>5, PostEffect
    <3>2. Posted(sch'[s], d) = Posted(sch[s], d)
      BY <2>2, <2>5 DEF Posted
    <3> QED BY <1>a, <2>1, <2>2, <3>1, <3>2, SameExact
  <2>6. CASE d = sch[s].d
    <3>1. d \in InHand(s) /\ AloneWith(sch[s], d)
      BY <1>5, <1>a, <2>6, PostEffect DEF Exact
    <3>2. Posted(sch[s], d) = 0 /\ Posted(sch[s], d)' = 1
      BY <2>2, <2>6 DEF Posted, Answered
    <3>3. posts'[d] = posts[d] + 1
      BY <2>3, <2>4, <2>6
    <3>4. posts[d] \in Nat /\ crashes \in Nat /\ sch[s].snap[d].attempts \in Nat
          /\ sch[s].snap[d].status \in Pending
      BY <3>1, HandTypes
    <3>5. posts'[d] <= sch'[s].snap[d].attempts + Posted(sch[s], d)' + crashes'
      <4>1. posts[d] <= sch[s].snap[d].attempts + 0 + crashes
        BY <3>1, <3>2 DEF AloneWith
      <4> QED BY <2>1, <2>2, <3>2, <3>3, <3>4, <4>1
    <3>6. AloneWith(sch[s], d)'
      BY <2>1, <2>2, <3>1, <3>5 DEF AloneWith
    <3>7. \A r \in Schedulers : d \in InHand(r)' => r = s
      BY <1>a, <2>2, <3>1 DEF Exact
    <3>8. d \in acked /\ crashes = 0 /\ row[d].status # "absent" => FALSE
      <4> SUFFICES ASSUME d \in acked, crashes = 0, row[d].status # "absent" PROVE FALSE
        OBVIOUS
      <4>1. row[d].status \in Pending
        BY <3>1, <3>4 DEF AloneWith
      <4>2. PICK r \in Schedulers : sch[r].d = d /\ Answered(sch[r])
        BY <1>a, <4>1 DEF Exact, Pending
      <4>3. d \in InHand(r)
        BY <4>2, ParameterAssumption DEF InHand
      <4>4. r = s
        BY <1>a, <3>1, <4>3 DEF Exact
      <4> QED BY <2>2, <4>2, <4>4
    <3>9. d \in acked' /\ crashes' = 0 /\ row'[d].status # "absent" =>
            sch'[s].d = d /\ Answered(sch[s])' /\ sch'[s].answer = "ok"
      BY <1>5, <2>1, <2>2, <2>6, <3>8, PostEffect DEF Answered
    <3>10. posts'[d] > 0
      BY <3>3, <3>4
    <3> QED BY <2>2, <3>1, <3>6, <3>7, <3>9, <3>10 DEF Exact
  <2> QED BY <2>5, <2>6
<1>6. ASSUME NEW s \in Schedulers, Commit(s)
      PROVE  Exact(d)'
  <2> DEFINE x == sch[s].d
  <2>1. UNCHANGED <<posts, acked, failures, streak, shared, crashes>>
    BY <1>6 DEF Commit
  <2>2. /\ \A r \in Schedulers \ {s} : sch'[r] = sch[r] /\ InHand(r)' = InHand(r)
        /\ ~Answered(sch'[s]) /\ x \in InHand(s) /\ InHand(s)' \in SUBSET sch[s].batch
        /\ \A y \in InHand(s)' : sch'[s].snap[y] = sch[s].snap[y]
        /\ x \in Deliveries /\ sch[s].batch \in SUBSET InHand(s) /\ x \notin sch[s].batch
        /\ sch[s].pc = "commit" /\ sch[s].answer \in {"ok", "error", "disabled"}
    <3>1. /\ \A r \in Schedulers \ {s} : sch'[r] = sch[r]
          /\ sch[s].pc = "commit" /\ x \in Deliveries /\ x \in InHand(s)
          /\ sch'[s].pc \in {"idle", "next"}
          /\ InHand(s)' = sch'[s].batch /\ sch'[s].batch \in SUBSET sch[s].batch
          /\ \A y \in sch'[s].batch : sch'[s].snap[y] = sch[s].snap[y]
          /\ sch[s].answer \in {"ok", "error", "disabled"}
      BY <1>6, CommitSession
    <3>2. x \notin sch[s].batch /\ sch[s].batch \in SUBSET InHand(s)
      BY DEF TypeInv, HandInv, InHand
    <3>3. \A r \in Schedulers \ {s} : InHand(r)' = InHand(r)
      BY <1>b, <3>1
    <3> HIDE DEF x
    <3> QED BY <3>1, <3>2, <3>3 DEF Answered
  <2>3. /\ posts[d] \in Nat /\ crashes \in Nat /\ sch[s].snap[d].attempts \in Nat
        /\ row[d].attempts \in Nat /\ row[d].attempts <= MaxAttempts
        /\ d \in InHand(s) => /\ sch[s].snap[d].status \in Pending
                              /\ sch[s].snap[d].attempts < MaxAttempts
    BY HandTypes
  <2>4. ep'[EndpointOf[d]].exists = ep[EndpointOf[d]].exists
    <3>1. CASE row[x].status = "absent"
      BY <1>6, <3>1 DEF Commit
    <3>2. CASE row[x].status # "absent"
      BY <1>6, <3>2, CommitRow, ParameterAssumption
    <3> QED BY <3>1, <3>2
  <2>5. CASE d # x
    <3>1. row'[d] = row[d]
      <4>1. CASE row[x].status = "absent"
        BY <1>6, <4>1 DEF Commit
      <4>2. CASE row[x].status # "absent"
        BY <1>6, <2>5, <4>2, CommitRow
      <4> QED BY <4>1, <4>2
    <3>2. Posted(sch'[s], d) = 0 /\ Posted(sch[s], d) = 0
      BY <2>2, <2>5 DEF Posted
    <3>3. CASE d \in InHand(s)' <=> d \in InHand(s)
      BY <1>a, <2>1, <2>2, <2>4, <2>5, <3>1, <3>2, <3>3, SameExact
    <3>4. CASE d \in InHand(s) /\ d \notin InHand(s)'
      <4>1. \A r \in Schedulers : d \notin InHand(r)'
        BY <1>a, <2>2, <3>4 DEF Exact
      <4>2. AloneWith(sch[s], d)
        BY <1>a, <3>4 DEF Exact
      <4>3. posts[d] <= (IF row[d].status = "absent" THEN MaxAttempts ELSE row[d].attempts) + crashes
        <5>1. /\ posts[d] <= sch[s].snap[d].attempts + 0 + crashes
              /\ row[d].status # "absent" => row[d].attempts = sch[s].snap[d].attempts
          BY <3>2, <4>2 DEF AloneWith
        <5> QED BY <2>3, <3>4, <5>1, Budget
      <4>4. \A r \in Schedulers : sch[r].d = d => r # s
        BY <2>5
      <4> QED BY <1>a, <2>1, <2>2, <3>1, <4>1, <4>3, <4>4 DEF Exact, Answered
    <3>5. d \in InHand(s)' => d \in InHand(s)
      BY <2>2
    <3> QED BY <3>3, <3>4, <3>5
  <2>6. CASE d = x
    <3>1. \A r \in Schedulers : d \notin InHand(r)'
      BY <1>a, <2>2, <2>6 DEF Exact
    <3>2. AloneWith(sch[s], d)
      BY <1>a, <2>2, <2>6 DEF Exact
    <3>3. d \in acked => posts[d] > 0
      BY <1>a DEF Exact
    <3>4. CASE row[x].status = "absent"
      <4>1. row'[d].status = "absent"
        BY <1>6, <2>6, <3>4 DEF Commit
      <4>2. /\ posts[d] <= sch[s].snap[d].attempts + Posted(sch[s], d) + crashes
            /\ Posted(sch[s], d) \in {0, 1}
        BY <3>2 DEF AloneWith, Posted
      <4>3. posts[d] <= MaxAttempts + crashes
        BY <2>2, <2>3, <2>6, <4>2, Budget
      <4> QED BY <2>1, <3>1, <3>3, <4>1, <4>3 DEF Exact
    <3>5. CASE row[x].status # "absent"
      <4>1. /\ row[d] = sch[s].snap[d] /\ row[d].status \in Pending
        BY <2>2, <2>3, <2>6, <3>2, <3>5 DEF AloneWith
      <4>2. \/ sch[s].answer = "disabled" /\ row'[d].attempts = row[d].attempts
               /\ row'[d].status = "disabled"
            \/ /\ sch[s].answer = "ok" /\ row'[d].status = "delivered"
               /\ row'[d].attempts = sch[s].snap[d].attempts + 1
            \/ /\ sch[s].answer = "error"
               /\ row'[d].status \in {row[d].status, "failed", "retrying"}
               /\ row'[d].attempts = sch[s].snap[d].attempts + 1
        BY <1>6, <2>6, <3>5, CommitRow
      <4>3. /\ posts[d] <= sch[s].snap[d].attempts + Posted(sch[s], d) + crashes
            /\ Posted(sch[s], d) \in {0, 1}
            /\ sch[s].answer = "disabled" => Posted(sch[s], d) = 0
        BY <3>2 DEF AloneWith, Posted, Answered
      <4>4. posts[d] <= row'[d].attempts + crashes
        BY <2>3, <4>1, <4>2, <4>3
      <4>5. d \in acked /\ crashes = 0 => row'[d].status = "delivered"
        <5> SUFFICES ASSUME d \in acked, crashes = 0 PROVE row'[d].status = "delivered"
          OBVIOUS
        <5>1. PICK r \in Schedulers : sch[r].d = d /\ Answered(sch[r]) /\ sch[r].answer = "ok"
          BY <1>a, <4>1 DEF Exact, Pending
        <5>2. d \in InHand(r)
          BY <5>1, ParameterAssumption DEF InHand
        <5>3. r = s
          BY <1>a, <2>2, <2>6, <5>2 DEF Exact
        <5> QED BY <4>2, <5>1, <5>3
      <4>6. row'[d].status # "absent"
        BY <4>1, <4>2 DEF Pending
      <4> QED BY <2>1, <3>1, <3>3, <4>4, <4>5, <4>6 DEF Exact
    <3> QED BY <3>4, <3>5
  <2> QED BY <2>5, <2>6
<1>7. ASSUME NEW s \in Schedulers, Crash(s)
      PROVE  Exact(d)'
  <2>1. UNCHANGED <<row, ep, posts, acked, failures, shared>> /\ crashes' = crashes + 1
    BY <1>7 DEF Crash
  <2>2. /\ \A r \in Schedulers \ {s} : sch'[r] = sch[r] /\ InHand(r)' = InHand(r)
        /\ InHand(s)' = {}
    BY <1>7, <1>b, CrashEffect
  <2>3. ASSUME NEW r \in Schedulers
        PROVE /\ posts[d] \in Nat /\ crashes \in Nat /\ sch[r].snap[d].attempts \in Nat
              /\ row[d].attempts \in Nat /\ Posted(sch[r], d) \in {0, 1}
              /\ d \in InHand(r) => sch[r].snap[d].attempts < MaxAttempts
    BY HandTypes
  <2>4. \A r \in Schedulers : d \in InHand(r)' => AloneWith(sch[r], d)'
    <3> SUFFICES ASSUME NEW r \in Schedulers, d \in InHand(r)'
                 PROVE  AloneWith(sch[r], d)'
      OBVIOUS
    <3>1. r # s /\ sch'[r] = sch[r] /\ AloneWith(sch[r], d)
      BY <1>a, <2>2 DEF Exact
    <3>2. Posted(sch[r], d)' = Posted(sch[r], d)
      BY <3>1 DEF Posted, Answered
    <3> QED BY <2>1, <2>3, <3>1, <3>2 DEF AloneWith
  <2>5. (\A r \in Schedulers : d \notin InHand(r)') =>
          posts[d] <= (IF row[d].status = "absent" THEN MaxAttempts ELSE row[d].attempts)
                        + (crashes + 1)
    <3> SUFFICES ASSUME \A r \in Schedulers : d \notin InHand(r)'
                 PROVE  posts[d] <= (IF row[d].status = "absent" THEN MaxAttempts
                                     ELSE row[d].attempts) + (crashes + 1)
      OBVIOUS
    <3>1. CASE d \in InHand(s)
      <4>1. AloneWith(sch[s], d)
        BY <1>a, <3>1 DEF Exact
      <4>2. /\ posts[d] <= sch[s].snap[d].attempts + Posted(sch[s], d) + crashes
            /\ row[d].status # "absent" => row[d].attempts = sch[s].snap[d].attempts
        BY <4>1 DEF AloneWith
      <4> QED BY <2>3, <3>1, <4>2, Budget
    <3>2. CASE d \notin InHand(s)
      <4>1. \A r \in Schedulers : d \notin InHand(r)
        BY <2>2, <3>2
      <4> QED BY <1>a, <2>3, <4>1, Budget DEF Exact
    <3> QED BY <3>1, <3>2
  <2>6. crashes' # 0
    BY <2>1, <2>3
  <2> QED BY <1>a, <2>1, <2>2, <2>4, <2>5, <2>6 DEF Exact
<1>8. CASE UNCHANGED vars
  BY <1>8, <1>a, <1>b, SameExact DEF vars
<1> QED BY <1>1, <1>2, <1>3, <1>4, <1>5, <1>6, <1>7, <1>8 DEF Next, Dispatch

\* A delivery that no two schedulers ever had in hand at once is exact: a crash
\* repeats at most one request each, and an acknowledged delivery is recorded
\* so (scheduler_service.py:170-226), for any number of schedulers.
THEOREM UnsharedIsExact == Spec => []UnsharedDeliveriesAreExact
<1>1. Init => ExactInv
  BY IdleSession, ParameterAssumption
     DEF Init, ExactInv, Exact, InHand, Idle, Absent, AloneWith, Answered
<1>2. TypeInv /\ ExactInv /\ [Next]_vars => ExactInv'
  BY ExactStep
<1>3. TypeInv /\ ExactInv => UnsharedDeliveriesAreExact
  <2> SUFFICES ASSUME TypeInv, ExactInv, NEW d \in Deliveries \ shared
               PROVE  /\ posts[d] <= MaxAttempts + crashes
                      /\ (/\ d \in acked /\ crashes = 0 /\ row[d].status # "absent"
                          /\ \A s \in Schedulers : sch[s].d # d)
                         => row[d].status = "delivered"
    BY DEF UnsharedDeliveriesAreExact
  <2>1. Exact(d)
    BY DEF ExactInv
  <2>2. posts[d] <= MaxAttempts + crashes
    <3>1. CASE \E s \in Schedulers : d \in InHand(s)
      <4>1. PICK s \in Schedulers : d \in InHand(s)
        BY <3>1
      <4>2. posts[d] <= sch[s].snap[d].attempts + Posted(sch[s], d) + crashes
        BY <2>1, <4>1 DEF Exact, AloneWith
      <4>3. /\ posts[d] \in Nat /\ crashes \in Nat /\ sch[s].snap[d].attempts \in Nat
            /\ Posted(sch[s], d) \in {0, 1} /\ sch[s].snap[d].attempts < MaxAttempts
        BY <4>1, HandTypes
      <4> QED BY <4>2, <4>3, Budget
    <3>2. CASE ~ \E s \in Schedulers : d \in InHand(s)
      <4>1. /\ posts[d] \in Nat /\ crashes \in Nat /\ row[d].attempts \in Nat
            /\ row[d].attempts <= MaxAttempts
        BY Budget, ParameterAssumption DEF TypeInv, TypeOK, Rows
      <4> QED BY <2>1, <3>2, <4>1, Budget DEF Exact
    <3> QED BY <3>1, <3>2
  <2> QED BY <2>1, <2>2 DEF Exact
<1> QED BY <1>1, <1>2, <1>3, TypeInvariant, PTL DEF Spec
=============================================================================
