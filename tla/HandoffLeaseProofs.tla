------------------------- MODULE HandoffLeaseProofs -------------------------
(***************************************************************************)
(* Proofs about HandoffLease, for every value of the constants: type       *)
(* correctness; the safety of settlements; then who may own a row and for  *)
(* how long, what a promotion freezes, and that the handoff table          *)
(* implements FencedLease.  The latter all follow from one lemma that says *)
(* what a step does to one row.                                            *)
(***************************************************************************)
EXTENDS HandoffLease, TLAPS

\* The smaller and the larger of two naturals are naturals.
LEMMA LowerHigher ==
  ASSUME NEW x \in Nat, NEW y \in Nat
  PROVE  /\ Lower(x, y) \in Nat /\ Higher(x, y) \in Nat
         /\ Lower(x, y) <= x /\ Lower(x, y) <= y
         /\ Higher(x, y) >= x /\ Higher(x, y) >= y
BY DEF Lower, Higher

\* The row before its publication is a row.
LEMMA AbsentRow == Absent \in Rows
BY DEF Absent, Rows, Statuses, Operations, NoLease

\* Replacing the claim columns of a row yields a row.
LEMMA ClaimColumns ==
  ASSUME NEW r \in Rows, NEW s \in Statuses, NEW a \in Actors \cup {NoActor},
         NEW t \in Tokens \cup {NoToken}, NEW l \in Nat, NEW g \in Nat,
         NEW d \in Operations \cup {"none"}, NEW x \in Reasons \cup {NoReason}
  PROVE  [r EXCEPT !.status = s, !.by = a, !.token = t, !.lease = l,
                   !.generation = g, !.disposition = d, !.reason = x] \in Rows
<1> DEFINE r1 == [r EXCEPT !.status = s, !.by = a, !.token = t]
<1> DEFINE r2 == [r1 EXCEPT !.lease = l, !.generation = g]
<1> DEFINE r3 == [r2 EXCEPT !.disposition = d, !.reason = x]
<1>1. r1 \in Rows  BY DEF Rows
<1>2. r2 \in Rows  BY <1>1 DEF Rows
<1>3. r3 \in Rows  BY <1>2 DEF Rows
<1>4. r3 = [r EXCEPT !.status = s, !.by = a, !.token = t, !.lease = l,
                     !.generation = g, !.disposition = d, !.reason = x]
  BY Zenon
<1>5. QED  BY <1>3, <1>4, Zenon

\* Every update of a row in the code yields a row again.
LEMMA RowUpdates ==
  ASSUME NEW r \in Rows, now \in Nat
  PROVE  /\ ExpireOnList(r) \in Rows
         /\ \A a \in Actors, t \in Tokens, s \in 1..MaxLease : ClaimRow(r, a, t, s) \in Rows
         /\ \A l \in Nat : [r EXCEPT !.lease = l] \in Rows
         /\ AcknowledgeRow(r) \in Rows
         /\ \A x \in Reasons \cup {NoReason} : NackRow(r, x) \in Rows
<1>1. ExpireOnList(r) \in Rows
  BY DEF ExpireOnList, Rows, Statuses
<1>2. ASSUME NEW a \in Actors, NEW t \in Tokens, NEW s \in 1..MaxLease
      PROVE  ClaimRow(r, a, t, s) \in Rows
  <2>1. now + s \in Nat /\ r.expires \in Nat /\ r.generation + 1 \in Nat
    BY BoundsAssumption DEF Rows
  <2>2. Lower(now + s, r.expires) \in Nat
    BY <2>1, LowerHigher
  <2>3. "claimed" \in Statuses
    BY DEF Statuses
  <2>4. QED  BY <2>1, <2>2, <2>3, ClaimColumns, Zenon DEF ClaimRow
<1>3. ASSUME NEW l \in Nat PROVE [r EXCEPT !.lease = l] \in Rows
  BY DEF Rows
<1>4. AcknowledgeRow(r) \in Rows
  BY DEF AcknowledgeRow, Rows, Statuses, Operations
<1>5. ASSUME NEW x \in Reasons \cup {NoReason} PROVE NackRow(r, x) \in Rows
  BY DEF NackRow, Rows, Statuses, Operations, NoLease
<1>6. QED  BY <1>1, <1>2, <1>3, <1>4, <1>5

\* A request that is under way is a request, with a receipt of its handoff.
LEMMA BusyRequest ==
  ASSUME TypeOK, NEW c \in Connections, Busy(c)
  PROVE  /\ conn[c] \in Requests
         /\ conn[c].handoff \in Handoffs
         /\ conn[c].receipt \in Receipts
         /\ handoff[conn[c].handoff] \in Rows
BY DEF TypeOK, Busy, Requests

\* Answering changes only the answer of one connection.
LEMMA AnswerType ==
  ASSUME TypeOK, NEW c \in Connections, Busy(c), NEW a \in Answers, Answer(c, a)
  PROVE  conn' \in [Connections -> Requests \cup {Idle}]
BY BusyRequest DEF TypeOK, Answer, Requests

\* Recording keeps the receipts of every handoff receipts.
LEMMA RecordType ==
  ASSUME TypeOK, NEW h \in Handoffs, NEW q \in Receipts, Record(h, q)
  PROVE  receipts' \in [Handoffs -> SUBSET Receipts]
BY DEF TypeOK, Record

(***************************************************************************)
(* Type correctness.                                                       *)
(***************************************************************************)

\* Every step of the handoff table keeps its types.
LEMMA TypeInductive == TypeOK /\ [Next]_vars => TypeOK'
<1> SUFFICES ASSUME TypeOK, [Next]_vars PROVE TypeOK'
  OBVIOUS
<1>1. ASSUME NEW h \in Handoffs, NEW v \in {1, 2}, NEW a \in Actors \cup {NoActor}, Push(h, v, a)
      PROVE  TypeOK'
  <2>1. [Absent EXCEPT !.status = "pending", !.expires = now + Retention,
                       !.version = v, !.recipient = a] \in Rows
    <3> DEFINE r1 == [Absent EXCEPT !.status = "pending", !.expires = now + Retention]
    <3>1. now + Retention \in Nat /\ "pending" \in Statuses
      BY BoundsAssumption DEF TypeOK, Statuses
    <3>2. r1 \in Rows
      BY <3>1, AbsentRow DEF Rows
    <3>3. [r1 EXCEPT !.version = v, !.recipient = a] \in Rows
      BY <3>2 DEF Rows
    <3>4. QED  BY <3>3, Zenon
  <2>2. QED  BY <1>1, <2>1 DEF TypeOK, Push, InsertHandoff
<1>2. CASE List
  BY <1>2, RowUpdates DEF TypeOK, List
<1>3. ASSUME NEW h \in Handoffs, NEW a \in Actors, Pull(h, a)
      PROVE  TypeOK'
  <2>1. [handoff[h] EXCEPT !.status = "claimed", !.by = a, !.token = NoToken, !.lease = NoLease,
              !.generation = @ + 1, !.disposition = "none", !.reason = NoReason] \in Rows
    <3>1. handoff[h] \in Rows /\ "claimed" \in Statuses /\ NoLease \in Nat
          /\ handoff[h].generation + 1 \in Nat
      BY DEF TypeOK, Rows, Statuses, NoLease
    <3>2. QED  BY <3>1, ClaimColumns, Zenon
  <2>2. QED  BY <1>3, <2>1 DEF TypeOK, Pull, TakeOnce
<1>4. ASSUME NEW h \in Handoffs, NEW a \in Actors, NEW t \in Tokens, NEW s \in 1..MaxLease,
             NEW v \in {1, 2}, Claim(h, a, t, s, v)
      PROVE  TypeOK'
  <2>1. ClaimRow(handoff[h], a, t, s) \in Rows
    BY RowUpdates DEF TypeOK
  <2>2. [by |-> a, token |-> t, generation |-> handoff[h].generation + 1] \in Grants
    BY DEF TypeOK, Rows, Grants
  <2>3. QED  BY <1>4, <2>1, <2>2 DEF TypeOK, Claim, ClaimLease
<1>5. ASSUME NEW h \in Handoffs, NEW d \in 1..(MaxTime + MaxLease), NEW g \in grants[h],
             Renew(h, g, d)
      PROVE  TypeOK'
  <2>1. handoff[h] \in Rows /\ d \in Nat /\ handoff[h].lease \in Nat /\ handoff[h].expires \in Nat
    BY DEF TypeOK, Rows
  <2>2. Higher(handoff[h].lease, Lower(d, handoff[h].expires)) \in Nat
    BY <2>1, LowerHigher
  <2>3. [handoff[h] EXCEPT !.lease = Higher(handoff[h].lease, Lower(d, handoff[h].expires))] \in Rows
    BY <2>1, <2>2, RowUpdates DEF TypeOK
  <2>4. QED  BY <1>5, <2>1, <2>3 DEF TypeOK, Renew
<1>6. ASSUME NEW h \in Handoffs, Promote(h)
      PROVE  TypeOK'
  <2> DEFINE fenced == [handoff[h] EXCEPT !.status = "pending", !.by = NoActor, !.token = NoToken,
                         !.lease = NoLease, !.generation = @ + 1, !.disposition = "none",
                         !.reason = NoReason]
  <2>1. fenced \in Rows
    <3>1. handoff[h] \in Rows /\ "pending" \in Statuses /\ NoLease \in Nat
          /\ handoff[h].generation + 1 \in Nat
      BY DEF TypeOK, Rows, Statuses, NoLease
    <3>2. QED  BY <3>1, ClaimColumns, Zenon
  <2>2. [fenced EXCEPT !.managed = TRUE] \in Rows
    <3> HIDE DEF fenced
    <3>1. QED  BY <2>1 DEF Rows
  <2>3. handoff' = [handoff EXCEPT ![h] = [fenced EXCEPT !.managed = TRUE]]
    BY <1>6, Zenon DEF Promote
  <2>4. QED
    <3> HIDE DEF fenced
    <3>1. QED  BY <1>6, <2>2, <2>3 DEF TypeOK, Promote
<1>7. ASSUME NEW c \in Connections, NEW h \in Handoffs, NEW g \in grants[h],
             NEW op \in Operations, NEW x \in Reasons \cup {NoReason}, Request(c, h, g, op, x)
      PROVE  TypeOK'
  <2>1. ReceiptOf(g, op, x) \in Receipts
    BY DEF TypeOK, Grants, ReceiptOf, Receipts
  <2>2. LookUp(h, ReceiptOf(g, op, x)) \in Answers
    BY DEF LookUp, Answers
  <2>3. [handoff |-> h, receipt |-> ReceiptOf(g, op, x),
         answer |-> LookUp(h, ReceiptOf(g, op, x))] \in Requests
    BY <2>1, <2>2 DEF Requests
  <2>4. QED  BY <1>7, <2>3 DEF TypeOK, Request
<1>8. ASSUME NEW c \in Connections, Abort(c)
      PROVE  TypeOK'
  BY <1>8 DEF TypeOK, Abort
<1>9. ASSUME NEW c \in Connections, Refuse(c) \/ Repeat(c)
      PROVE  TypeOK'
  <2>1. Busy(c) /\ \E a \in Answers : Answer(c, a)
    BY <1>9 DEF Refuse, Repeat, Answers
  <2>2. QED  BY <1>9, <2>1, AnswerType DEF TypeOK, Refuse, Repeat
<1>10. ASSUME NEW c \in Connections, Acknowledge(c) \/ Nack(c)
       PROVE  TypeOK'
  <2>1. Busy(c) /\ Answer(c, "done")
    BY <1>10 DEF Acknowledge, Nack, Commit
  <2>2. conn' \in [Connections -> Requests \cup {Idle}]
    BY <2>1, AnswerType DEF Answers
  <2>3. receipts' \in [Handoffs -> SUBSET Receipts]
    BY <1>10, <2>1, BusyRequest, RecordType DEF Acknowledge, Nack, Commit
  <2>4. PICK row \in Rows : handoff' = [handoff EXCEPT ![conn[c].handoff] = row]
    <3>1. conn[c].receipt.reason \in Reasons \cup {NoReason}
      BY <2>1, BusyRequest DEF Receipts
    <3>2. QED
      BY <1>10, <2>1, <3>1, BusyRequest, RowUpdates DEF TypeOK, Acknowledge, Nack, Commit
  <2>5. QED  BY <1>10, <2>2, <2>3, <2>4 DEF TypeOK, Acknowledge, Nack, Commit
<1>11. CASE Tick
  BY <1>11 DEF TypeOK, Tick
<1>12. CASE UNCHANGED vars
  BY <1>12 DEF TypeOK, vars
<1>13. ASSUME NEW c \in Connections, NEW h \in Handoffs, NEW g \in grants[h],
              \/ Request(c, h, g, "acknowledged", NoReason)
              \/ \E x \in Reasons : Request(c, h, g, "nacked", x)
       PROVE  TypeOK'
  BY <1>7, <1>13 DEF Operations
<1>14. QED
  BY <1>1, <1>2, <1>3, <1>4, <1>5, <1>6, <1>8, <1>9, <1>10, <1>11, <1>12, <1>13 DEF Next

\* The handoff table, its receipts and the requests on it keep their types.
THEOREM TypeCorrect == Spec => []TypeOK
<1>1. Init => TypeOK
  BY DEF Init, TypeOK, Absent, Rows, Statuses, Operations, NoLease
<1>2. QED  BY <1>1, TypeInductive, PTL DEF Spec

(***************************************************************************)
(* Settlements are safe: each update of a row keeps RowInv.                *)
(***************************************************************************)

\* A new owner, with a token that settled nothing, under the next generation.
LEMMA NewOwner ==
  ASSUME NEW r \in Rows, NEW R \in SUBSET Receipts, NEW G \in SUBSET Grants,
         NEW H \in SUBSET Grants, NEW u \in Rows,
         RowInv(r, R, G), r.status \in {"pending", "claimed"},
         u.status \in {"pending", "claimed"}, u.generation = r.generation + 1,
         u.disposition = "none",
         \A q \in R : ~(q.by = u.by /\ q.token = u.token),
         \A g \in H : g \in G \/ g.generation = u.generation,
         u.status = "claimed" /\ u.token # NoToken =>
           [by |-> u.by, token |-> u.token, generation |-> u.generation] \in H
  PROVE  RowInv(u, R, H)
<1>1. r.generation \in Nat /\ \A g \in G : g.generation \in Nat
  BY DEF Rows, Grants
<1>2. \A q \in R : q.generation \in Nat /\ q.op \in Operations
  BY DEF Receipts
<1>3. \A q \in R : q.op # "acknowledged" /\ q.generation < u.generation
  BY <1>1, <1>2 DEF RowInv
<1>4. \A g \in H : g.generation \in 1..u.generation
  BY <1>1 DEF RowInv
<1>5. QED  BY <1>1, <1>2, <1>3, <1>4 DEF RowInv

\* An update that touches neither status, claim nor disposition.
LEMMA SameClaim ==
  ASSUME NEW r \in Rows, NEW R, NEW G, NEW u \in Rows, RowInv(r, R, G),
         u.status = r.status \/ (r.status = "pending" /\ u.status = "expired"),
         u.by = r.by, u.token = r.token, u.generation = r.generation,
         u.disposition = r.disposition, u.reason = r.reason
  PROVE  RowInv(u, R, G)
BY DEF RowInv, Matches, ReceiptOf

\* A settlement under the current claim leaves its own receipt, the only one of
\* its generation and of its token.
LEMMA NewReceipt ==
  ASSUME NEW r \in Rows, NEW R \in SUBSET Receipts, NEW G \in SUBSET Grants, NEW u \in Rows,
         NEW q \in Receipts, RowInv(r, R, G), r.status = "claimed", Matches(r, q),
         r.generation \in Nat \ {0},
         u.by = r.by, u.token = r.token, u.generation = r.generation,
         u.disposition = q.op, u.reason = q.reason,
         \/ q.op = "acknowledged" /\ u.status = "acknowledged"
         \/ q.op = "nacked" /\ u.status = "pending"
  PROVE  RowInv(u, R \cup {q}, G)
<1>1. q = ReceiptOf(u, u.disposition, u.reason)
  BY DEF ReceiptOf, Receipts, Matches
<1>2. \A p \in R : p.generation # q.generation /\ ~(p.by = q.by /\ p.token = q.token)
  BY DEF RowInv, Matches
<1>3. \A p \in R : p.op # "acknowledged"
  BY DEF RowInv
<1>4. q.op \in Operations /\ q.op # "none" /\ q.generation = r.generation
  BY DEF Receipts, Operations, Matches
<1>5. \A p, m \in R \cup {q} :
        p.generation = m.generation \/ (p.by = m.by /\ p.token = m.token) => p = m
  BY <1>2 DEF RowInv
<1>6. \A p \in R \cup {q} : p.generation \in 1..u.generation
  BY <1>4 DEF RowInv
<1>7. \A p \in R \cup {q} : p.generation = u.generation => Matches(u, p) /\ u.disposition = p.op
  BY <1>2, <1>4 DEF Matches
<1>8. \A p \in R \cup {q} :
        p.op = "acknowledged" => u.status = "acknowledged" /\ Matches(u, p)
  BY <1>3, <1>4 DEF Matches
<1>9. QED  BY <1>1, <1>4, <1>5, <1>6, <1>7, <1>8 DEF RowInv

(***************************************************************************)
(* One step of the specification, seen from one row.                       *)
(***************************************************************************)

\* Active at the time t, so that a step can be spoken of without a prime.
ActiveAt(r, t) == r.status = "claimed" /\ r.lease # NoLease /\ r.lease > t /\ r.expires > t

\* From the row r with receipts R and grants G at time t to u, S and H at time
\* v: only the current, active claim leaves a receipt, and a claim that is not
\* active never becomes active again under the same generation.
RowStep(r, R, G, u, S, H, t, v) ==
  /\ RowInv(u, S, H)
  /\ u.generation >= r.generation
  /\ R \subseteq S
  /\ \A q \in S : q \in R \/ (Matches(r, q) /\ ActiveAt(r, t))
  /\ \A q \in Receipts :
       q.generation <= r.generation /\ Matches(u, q) /\ ActiveAt(u, v)
         => Matches(r, q) /\ ActiveAt(r, t)

\* Time alone is such a step, and so is a row nothing happens to.
LEMMA RowWaits ==
  ASSUME NEW r \in Rows, NEW R, NEW G, NEW t \in Nat, NEW v \in Nat, t <= v, RowInv(r, R, G)
  PROVE  RowStep(r, R, G, r, R, G, t, v)
BY DEF RowStep, ActiveAt, Rows

\* A row that gets a new owner, or loses its last one, under the next generation.
LEMMA RowFenced ==
  ASSUME NEW r \in Rows, NEW R \in SUBSET Receipts, NEW G \in SUBSET Grants,
         NEW H \in SUBSET Grants, NEW u \in Rows, NEW t \in Nat,
         RowInv(r, R, G), r.status \in {"pending", "claimed"},
         u.status \in {"pending", "claimed"}, u.generation = r.generation + 1,
         u.disposition = "none",
         \A q \in R : ~(q.by = u.by /\ q.token = u.token),
         \A g \in H : g \in G \/ g.generation = u.generation,
         u.status = "claimed" /\ u.token # NoToken =>
           [by |-> u.by, token |-> u.token, generation |-> u.generation] \in H
  PROVE  RowStep(r, R, G, u, R, H, t, t)
<1>1. RowInv(u, R, H)
  BY NewOwner
<1>2. r.generation \in Nat
  BY DEF Rows
<1>3. \A q \in Receipts : q.generation <= r.generation => ~Matches(u, q)
  BY <1>2 DEF Matches, Receipts
<1>4. QED  BY <1>1, <1>2, <1>3 DEF RowStep

\* A row that keeps its claim and does not become active.
LEMMA RowSame ==
  ASSUME NEW r \in Rows, NEW R \in SUBSET Receipts, NEW G, NEW u \in Rows, NEW t \in Nat,
         RowInv(r, R, G),
         u.status = r.status \/ (r.status = "pending" /\ u.status = "expired"),
         u.by = r.by, u.token = r.token, u.generation = r.generation,
         u.disposition = r.disposition, u.reason = r.reason,
         u = r \/ u.status # "claimed" \/ ActiveAt(r, t)
  PROVE  RowStep(r, R, G, u, R, G, t, t)
<1>1. RowInv(u, R, G)
  BY SameClaim
<1>2. u.generation >= r.generation
  BY DEF Rows
<1>3. QED  BY <1>1, <1>2 DEF RowStep, ActiveAt, Matches

\* A row that is settled.
LEMMA RowSettled ==
  ASSUME NEW r \in Rows, NEW R \in SUBSET Receipts, NEW G \in SUBSET Grants, NEW u \in Rows,
         NEW q \in Receipts, NEW t \in Nat, RowInv(r, R, G), ActiveAt(r, t), Matches(r, q),
         r.generation # 0,
         u.by = r.by, u.token = r.token, u.generation = r.generation,
         u.disposition = q.op, u.reason = q.reason,
         \/ q.op = "acknowledged" /\ u.status = "acknowledged"
         \/ q.op = "nacked" /\ u.status = "pending"
  PROVE  RowStep(r, R, G, u, R \cup {q}, G, t, t)
<1>1. r.status = "claimed" /\ r.generation \in Nat \ {0}
  BY DEF ActiveAt, Rows
<1>2. RowInv(u, R \cup {q}, G)
  BY <1>1, NewReceipt
<1>3. u.generation >= r.generation /\ u.status # "claimed"
  BY <1>1
<1>4. QED  BY <1>2, <1>3 DEF RowStep, ActiveAt

\* What a request is to its row, at the time t.
RequestAt(d, r, R, t) ==
  /\ d.receipt.generation \in 1..r.generation
  /\ d.receipt.op = "acknowledged" => d.receipt.reason = NoReason
  /\ d.answer \in {"done", "already"} => d.receipt \in R
  /\ d.answer = "refused" => ~(Matches(r, d.receipt) /\ ActiveAt(r, t))
  /\ d.answer = "refused" /\ d.receipt.op = "acknowledged" => d.receipt \notin R

\* A step of its row keeps what a request knows.
LEMMA RequestKept ==
  ASSUME NEW d \in Requests, NEW r \in Rows, NEW u \in Rows, NEW R, NEW S, NEW G, NEW H,
         NEW t \in Nat, NEW v \in Nat,
         RequestAt(d, r, R, t), RowStep(r, R, G, u, S, H, t, v)
  PROVE  RequestAt(d, u, S, v)
<1>1. d.receipt \in Receipts /\ r.generation \in Nat /\ u.generation \in Nat
      /\ d.receipt.generation \in Nat
  BY DEF Requests, Rows, Receipts
<1>2. u.generation >= r.generation /\ R \subseteq S
  BY DEF RowStep
<1>3. d.receipt.generation \in 1..u.generation
  BY <1>1, <1>2 DEF RequestAt
<1>4. Matches(u, d.receipt) /\ ActiveAt(u, v) => Matches(r, d.receipt) /\ ActiveAt(r, t)
  BY <1>1 DEF RowStep, RequestAt
<1>5. d.receipt \in S => d.receipt \in R \/ (Matches(r, d.receipt) /\ ActiveAt(r, t))
  BY DEF RowStep
<1>6. QED  BY <1>2, <1>3, <1>4, <1>5 DEF RequestAt

\* Active, before and after a step, in terms of the clock.
LEMMA ActiveNow ==
  ASSUME NEW r, r.status # "absent" \/ r.status # "claimed"
  PROVE  Active(r) <=> ActiveAt(r, now)
BY DEF Active, ActiveAt, Running, Retained

\* The settlement invariant, with the clock as a parameter.
SettlementAt ==
  /\ \A h \in Handoffs : RowInv(handoff[h], receipts[h], grants[h])
  /\ \A c \in Connections : conn[c] # Idle =>
       RequestAt(conn[c], handoff[conn[c].handoff], receipts[conn[c].handoff], now)

\* It is the same invariant.
LEMMA SettlementAtIsInv == SettlementInv <=> SettlementAt
BY ActiveNow DEF SettlementInv, SettlementAt, RequestInv, RequestAt

\* A handoff no transaction touched: only time went by.
LEMMA Untouched ==
  ASSUME TypeOK, TypeOK', SettlementAt, NEW h \in Handoffs, now <= now',
         handoff'[h] = handoff[h], receipts'[h] = receipts[h], grants'[h] = grants[h]
  PROVE  RowStep(handoff[h], receipts[h], grants[h],
                 handoff'[h], receipts'[h], grants'[h], now, now')
BY RowWaits DEF TypeOK, SettlementAt

\* Every step is a RowStep of every handoff.
LEMMA EveryRowSteps ==
  ASSUME TypeOK, TypeOK', SettlementAt, [Next]_vars, NEW h \in Handoffs
  PROVE  RowStep(handoff[h], receipts[h], grants[h],
                 handoff'[h], receipts'[h], grants'[h], now, now')
<1> DEFINE Goal(k) == RowStep(handoff[k], receipts[k], grants[k],
                              handoff'[k], receipts'[k], grants'[k], now, now')
<1>0. /\ handoff \in [Handoffs -> Rows] /\ handoff' \in [Handoffs -> Rows]
      /\ handoff[h] \in Rows /\ handoff'[h] \in Rows
      /\ receipts[h] \in SUBSET Receipts /\ grants[h] \in SUBSET Grants
      /\ grants'[h] \in SUBSET Grants
      /\ receipts \in [Handoffs -> SUBSET Receipts] /\ grants \in [Handoffs -> SUBSET Grants]
      /\ now \in Nat /\ now' \in Nat
      /\ RowInv(handoff[h], receipts[h], grants[h])
      /\ handoff[h].generation \in Nat
  BY DEF TypeOK, SettlementAt, Rows
<1>1. CASE handoff'[h] = handoff[h] /\ receipts' = receipts /\ grants' = grants /\ now' = now
  BY <1>1, <1>0, Untouched
<1>2. ASSUME NEW k \in Handoffs, NEW v \in {1, 2}, NEW a \in Actors \cup {NoActor}, Push(k, v, a)
      PROVE  Goal(h)
  <2>1. CASE k # h
    BY <2>1, <1>2, <1>0, <1>1 DEF Push, InsertHandoff
  <2>2. CASE k = h
    <3> DEFINE u == [Absent EXCEPT !.status = "pending", !.expires = now + Retention,
                                   !.version = v, !.recipient = a]
    <3>1. handoff'[h] = u
      BY <1>2, <2>2, <1>0 DEF Push, InsertHandoff
    <3>2. /\ u.status = "pending" /\ u.generation = 0 /\ u.disposition = "none"
          /\ u.by = NoActor /\ u.token = NoToken
      BY DEF Absent
    <3>3. handoff[h].status = "absent" /\ handoff[h].generation = 0
      BY <1>2, <2>2, <1>0 DEF Push, InsertHandoff, RowInv
    <3>4. receipts[h] = {} /\ grants[h] = {}
      BY <3>3, <1>0 DEF RowInv
    <3>5. receipts'[h] = {} /\ grants'[h] = {} /\ now' = now
      BY <3>4, <1>2 DEF Push, InsertHandoff
    <3> HIDE DEF u
    <3>6. RowInv(u, {}, {})
      BY <3>2 DEF RowInv
    <3>7. RowStep(handoff[h], {}, {}, u, {}, {}, now, now)
      BY <3>2, <3>3, <3>6 DEF RowStep, ActiveAt
    <3>8. QED  BY <3>1, <3>4, <3>5, <3>7
  <2>3. QED  BY <2>1, <2>2
<1>3. CASE List
  <2>1. handoff'[h] = ExpireOnList(handoff[h]) /\ UNCHANGED <<receipts, grants, now>>
    BY <1>3 DEF List
  <2> DEFINE u == ExpireOnList(handoff[h])
  <2>2. CASE u = handoff[h]
    BY <2>1, <2>2, <1>1
  <2>3. CASE u # handoff[h]
    <3>1. handoff[h].status = "pending" /\ u = [handoff[h] EXCEPT !.status = "expired"]
      BY <2>3 DEF ExpireOnList
    <3>2. /\ u.status = "expired" /\ u.by = handoff[h].by /\ u.token = handoff[h].token
          /\ u.generation = handoff[h].generation /\ u.reason = handoff[h].reason
          /\ u.disposition = handoff[h].disposition /\ u \in Rows
      BY <3>1, <1>0 DEF Rows, Statuses
    <3> HIDE DEF u
    <3>3. RowStep(handoff[h], receipts[h], grants[h], u, receipts[h], grants[h], now, now)
      BY <3>1, <3>2, <1>0, RowSame
    <3>4. QED  BY <2>1, <3>3 DEF u
  <2>4. QED  BY <2>2, <2>3
<1>4. ASSUME NEW k \in Handoffs, NEW a \in Actors, Pull(k, a)
      PROVE  Goal(h)
  <2>1. CASE k # h
    BY <2>1, <1>4, <1>0, <1>1 DEF Pull, TakeOnce
  <2>2. CASE k = h
    <3>1. /\ handoff[h].status = "pending" /\ UNCHANGED <<receipts, grants, now>>
          /\ handoff'[h].status = "claimed" /\ handoff'[h].token = NoToken
          /\ handoff'[h].generation = handoff[h].generation + 1
          /\ handoff'[h].disposition = "none"
      <4>1. handoff'[h] = [handoff[h] EXCEPT !.status = "claimed", !.by = a, !.token = NoToken,
               !.lease = NoLease, !.generation = @ + 1, !.disposition = "none", !.reason = NoReason]
        BY <1>4, <2>2, <1>0, Zenon DEF Pull, TakeOnce
      <4>2. handoff[h].status = "pending" /\ UNCHANGED <<receipts, grants, now>>
        BY <1>4, <2>2 DEF Pull, TakeOnce
      <4>3. QED  BY <4>1, <4>2, <1>0 DEF Rows
    <3>2. \A q \in receipts[h] : q.token # NoToken
      BY <1>0, NullAssumption DEF Receipts
    <3>3. RowStep(handoff[h], receipts[h], grants[h], handoff'[h], receipts[h], grants[h], now, now)
      BY <3>1, <3>2, <1>0, RowFenced
    <3>4. QED  BY <3>1, <3>3
  <2>3. QED  BY <2>1, <2>2
<1>5. ASSUME NEW k \in Handoffs, NEW a \in Actors, NEW t \in Tokens, NEW s \in 1..MaxLease,
             NEW v \in {1, 2}, Claim(k, a, t, s, v)
      PROVE  Goal(h)
  <2>1. CASE k # h
    BY <2>1, <1>5, <1>0, Untouched DEF Claim, ClaimLease
  <2>2. CASE k = h
    <3>1. /\ handoff[h].status \in {"pending", "claimed"} /\ UNCHANGED <<receipts, now>>
          /\ handoff'[h].status = "claimed" /\ handoff'[h].by = a /\ handoff'[h].token = t
          /\ handoff'[h].generation = handoff[h].generation + 1
          /\ handoff'[h].disposition = "none"
      <4>1. handoff'[h] = ClaimRow(handoff[h], a, t, s)
        BY <1>5, <2>2, <1>0, Zenon DEF Claim, ClaimLease
      <4>2. handoff[h].status \in {"pending", "claimed"} /\ UNCHANGED <<receipts, now>>
        BY <1>5, <2>2 DEF Claim, ClaimLease, Claimable, Recoverable
      <4>3. QED  BY <4>1, <4>2, <1>0 DEF Rows, ClaimRow
    <3>2. \A q \in receipts[h] : ~(q.by = a /\ q.token = t)
      BY <1>5, <2>2 DEF Claim, ClaimLease, Spent
    <3>3. \A g \in grants'[h] : g \in grants[h] \/ g.generation = handoff[h].generation + 1
      BY <1>5, <2>2, <1>0 DEF Claim, ClaimLease
    <3>4. [by |-> a, token |-> t, generation |-> handoff[h].generation + 1] \in grants'[h]
      BY <1>5, <2>2, <1>0 DEF Claim
    <3>5. RowStep(handoff[h], receipts[h], grants[h], handoff'[h], receipts[h], grants'[h], now, now)
      BY <3>1, <3>2, <3>3, <3>4, <1>0, RowFenced
    <3>6. QED  BY <3>1, <3>5
  <2>3. QED  BY <2>1, <2>2
<1>6. ASSUME NEW k \in Handoffs, NEW d \in 1..(MaxTime + MaxLease), NEW g \in grants[k],
             Renew(k, g, d)
      PROVE  Goal(h)
  <2>1. CASE k # h
    BY <2>1, <1>6, <1>0, <1>1 DEF Renew
  <2>2. CASE k = h
    <3> DEFINE l == Higher(handoff[h].lease, Lower(d, handoff[h].expires))
    <3>1. handoff'[h] = [handoff[h] EXCEPT !.lease = l] /\ UNCHANGED <<receipts, grants, now>>
      BY <1>6, <2>2, <1>0 DEF Renew
    <3> HIDE DEF l
    <3>2. /\ handoff'[h].status = handoff[h].status /\ handoff'[h].by = handoff[h].by
          /\ handoff'[h].token = handoff[h].token
          /\ handoff'[h].generation = handoff[h].generation
          /\ handoff'[h].reason = handoff[h].reason
          /\ handoff'[h].disposition = handoff[h].disposition
      BY <3>1, <1>0 DEF Rows
    <3>3. ActiveAt(handoff[h], now)
      BY <1>6, <2>2 DEF Renew, Active, ActiveAt, Running, Retained
    <3>4. RowStep(handoff[h], receipts[h], grants[h], handoff'[h], receipts[h], grants[h], now, now)
      BY <3>2, <3>3, <1>0, RowSame
    <3>5. QED  BY <3>1, <3>4
  <2>3. QED  BY <2>1, <2>2
<1>7. ASSUME NEW k \in Handoffs, Promote(k)
      PROVE  Goal(h)
  <2>1. CASE k # h
    BY <2>1, <1>7, <1>0, <1>1 DEF Promote
  <2>2. CASE k = h
    <3> DEFINE u == [handoff[h] EXCEPT !.status = "pending", !.by = NoActor, !.token = NoToken,
                       !.lease = NoLease, !.generation = @ + 1, !.disposition = "none",
                       !.reason = NoReason]
    <3>1. /\ u.status = "pending" /\ u.token = NoToken /\ u.disposition = "none"
          /\ u.generation = handoff[h].generation + 1
      BY <1>0 DEF Rows
    <3>2. u \in Rows
      <4>1. "pending" \in Statuses /\ NoLease \in Nat /\ handoff[h].generation + 1 \in Nat
        BY <1>0 DEF Statuses, NoLease
      <4>2. QED  BY <4>1, <1>0, ClaimColumns, Zenon
    <3>3. handoff'[h] = [u EXCEPT !.managed = TRUE] /\ UNCHANGED <<receipts, grants, now>>
      BY <1>7, <2>2, <1>0, Zenon DEF Promote
    <3> HIDE DEF u
    <3>4. /\ handoff'[h].status = "pending" /\ handoff'[h].token = NoToken
          /\ handoff'[h].disposition = "none"
          /\ handoff'[h].generation = handoff[h].generation + 1
      BY <3>1, <3>2, <3>3 DEF Rows
    <3>5. \A q \in receipts[h] : q.token # NoToken
      BY <1>0, NullAssumption DEF Receipts
    <3>6. handoff[h].status \in {"pending", "claimed"}
      BY <1>7, <2>2 DEF Promote, Recoverable
    <3>7. RowStep(handoff[h], receipts[h], grants[h], handoff'[h], receipts[h], grants[h], now, now)
      BY <3>4, <3>5, <3>6, <1>0, RowFenced
    <3>8. QED  BY <3>3, <3>7
  <2>3. QED  BY <2>1, <2>2
<1>8. ASSUME NEW c \in Connections, Acknowledge(c) \/ Nack(c)
      PROVE  Goal(h)
  <2>1. /\ Busy(c) /\ conn[c] # Idle /\ conn[c] \in Requests /\ conn[c].handoff \in Handoffs
        /\ conn[c].receipt \in Receipts
    BY <1>8, BusyRequest DEF Acknowledge, Nack, Busy
  <2> DEFINE k == conn[c].handoff
  <2> DEFINE q == conn[c].receipt
  <2>2. UNCHANGED <<now, grants>>
    BY <1>8 DEF Acknowledge, Nack, Commit
  <2>3. CASE k # h
    BY <1>8, <2>1, <2>2, <2>3, <1>0, Untouched DEF Acknowledge, Nack, Commit, Record
  <2>4. CASE k = h
    <3>1. /\ Matches(handoff[h], q) /\ ActiveAt(handoff[h], now)
      BY <1>8, <2>4 DEF Acknowledge, Nack, Active, ActiveAt, Running, Retained
    <3>2. /\ q.generation \in 1..handoff[h].generation
          /\ q.op = "acknowledged" => q.reason = NoReason
      BY <2>1, <2>4 DEF SettlementAt, RequestAt
    <3>3. receipts'[h] = receipts[h] \cup {q}
      <4>1. ~\E p \in receipts[h] : p.by = q.by /\ p.token = q.token
        BY <3>1, <1>0 DEF RowInv, ActiveAt, Matches
      <4>2. Record(h, q)
        BY <1>8, <2>4 DEF Acknowledge, Nack, Commit
      <4>3. QED  BY <4>1, <4>2, <1>0 DEF Record
    <3>4. /\ handoff'[h].by = handoff[h].by /\ handoff'[h].token = handoff[h].token
          /\ handoff'[h].generation = handoff[h].generation
          /\ handoff'[h].disposition = q.op /\ handoff'[h].reason = q.reason
          /\ \/ q.op = "acknowledged" /\ handoff'[h].status = "acknowledged"
             \/ q.op = "nacked" /\ handoff'[h].status = "pending"
      <4>1. CASE Acknowledge(c)
        <5>1. handoff'[h] = AcknowledgeRow(handoff[h]) /\ q.op = "acknowledged"
          BY <4>1, <2>4, <1>0 DEF Acknowledge, Commit
        <5>2. QED  BY <5>1, <3>2, <1>0 DEF AcknowledgeRow, Rows
      <4>2. CASE Nack(c)
        <5>1. handoff'[h] = NackRow(handoff[h], q.reason) /\ q.op = "nacked"
          BY <4>2, <2>4, <1>0 DEF Nack, Commit
        <5>2. QED  BY <5>1, <1>0 DEF NackRow, Rows
      <4>3. QED  BY <4>1, <4>2, <1>8
    <3>5. RowStep(handoff[h], receipts[h], grants[h],
                  handoff'[h], receipts[h] \cup {q}, grants[h], now, now)
      BY <3>1, <3>2, <3>4, <2>1, <1>0, RowSettled
    <3>6. QED  BY <2>2, <3>3, <3>5
  <2>5. QED  BY <2>3, <2>4
<1>9. CASE Tick
  BY <1>9, <1>0, Untouched DEF Tick
<1>10. CASE UNCHANGED vars
  BY <1>10, <1>1 DEF vars
<1>11. ASSUME NEW c \in Connections,
              \/ \E k \in Handoffs, op \in Operations, x \in Reasons \cup {NoReason} :
                   \E g \in grants[k] : Request(c, k, g, op, x)
              \/ Abort(c) \/ Refuse(c) \/ Repeat(c)
       PROVE  Goal(h)
  BY <1>11, <1>1 DEF Request, Abort, Refuse, Repeat
<1>12. QED
  BY <1>2, <1>3, <1>4, <1>5, <1>6, <1>7, <1>8, <1>9, <1>10, <1>11 DEF Next, Operations

\* A request that just found no answer waits for its row; one that found its
\* receipt, or the same settlement with another reason, is answered.
LEMMA RequestLooksUp ==
  ASSUME TypeOK, SettlementAt, NEW h \in Handoffs, NEW g \in grants[h],
         NEW op \in Operations, NEW x \in Reasons \cup {NoReason},
         op = "acknowledged" => x = NoReason
  PROVE  RequestAt([handoff |-> h, receipt |-> ReceiptOf(g, op, x),
                    answer |-> LookUp(h, ReceiptOf(g, op, x))], handoff[h], receipts[h], now)
<1> DEFINE rcpt == ReceiptOf(g, op, x)
<1>1. /\ rcpt.generation = g.generation /\ rcpt.by = g.by /\ rcpt.token = g.token
      /\ rcpt.op = op /\ rcpt.reason = x
  BY DEF ReceiptOf
<1>2. rcpt.generation \in 1..handoff[h].generation
  BY <1>1 DEF SettlementAt, RowInv
<1>3. CASE LookUp(h, rcpt) = "already"
  BY <1>1, <1>2, <1>3 DEF LookUp, RequestAt
<1>4. CASE LookUp(h, rcpt) = "refused"
  <2>1. rcpt \notin receipts[h]
    BY <1>4 DEF LookUp
  <2>2. PICK q \in receipts[h] : Matches(q, rcpt) /\ q.op = op
    BY <1>1, <1>4 DEF LookUp
  <2>3. ~(Matches(handoff[h], rcpt) /\ ActiveAt(handoff[h], now))
    <3>1. RowInv(handoff[h], receipts[h], grants[h]) /\ q.op # "none"
      BY <2>2 DEF SettlementAt, Operations
    <3>2. Matches(handoff[h], rcpt) => q.generation = handoff[h].generation
      BY <2>2 DEF Matches
    <3>3. QED  BY <3>1, <3>2 DEF RowInv, ActiveAt
  <2>4. QED  BY <1>1, <1>2, <1>4, <2>1, <2>3 DEF RequestAt
<1>5. CASE LookUp(h, rcpt) = "pending"
  BY <1>1, <1>2, <1>5 DEF RequestAt
<1>6. QED  BY <1>3, <1>4, <1>5 DEF LookUp

\* An acknowledgement that is refused, or repeated, tells the truth.
LEMMA RequestAnswered ==
  ASSUME TypeOK, SettlementAt, NEW c \in Connections, Refuse(c) \/ Repeat(c)
  PROVE  /\ conn' = [conn EXCEPT ![c] = [conn[c] EXCEPT !.answer = conn'[c].answer]]
         /\ RequestAt([conn[c] EXCEPT !.answer = conn'[c].answer],
                      handoff[conn[c].handoff], receipts[conn[c].handoff], now)
<1> DEFINE h == conn[c].handoff
           r == handoff[h]
           rcpt == conn[c].receipt
<1>1. /\ Busy(c) /\ conn[c] # Idle /\ conn[c] \in Requests /\ h \in Handoffs
      /\ rcpt \in Receipts /\ r \in Rows
  BY BusyRequest DEF Refuse, Repeat, Busy
<1>2. RowInv(r, receipts[h], grants[h]) /\ RequestAt(conn[c], r, receipts[h], now)
  BY <1>1 DEF SettlementAt
<1>3. CASE Refuse(c)
  <2>1. /\ Answer(c, "refused")
        /\ \/ ~Matches(r, rcpt)
           \/ ~SettledSince(r, rcpt) /\ ~Active(r)
           \/ SettledSince(r, rcpt) /\ r.reason # rcpt.reason
    BY <1>3 DEF Refuse
  <2>2. ~(Matches(r, rcpt) /\ ActiveAt(r, now))
    BY <2>1, ActiveNow DEF SettledSince, ActiveAt
  <2>3. rcpt.op = "acknowledged" => rcpt \notin receipts[h]
    <3> SUFFICES ASSUME rcpt.op = "acknowledged", rcpt \in receipts[h] PROVE FALSE
      OBVIOUS
    <3>1. r.status = "acknowledged" /\ Matches(r, rcpt) /\ r.disposition = "acknowledged"
      BY <1>2 DEF RowInv
    <3>2. r.reason # rcpt.reason
      BY <2>1, <3>1 DEF SettledSince
    <3>3. ReceiptOf(r, r.disposition, r.reason) \in receipts[h]
      BY <1>2, <3>1 DEF RowInv
    <3>4. ReceiptOf(r, r.disposition, r.reason).generation = rcpt.generation
          /\ ReceiptOf(r, r.disposition, r.reason).reason = r.reason
      BY <3>1 DEF ReceiptOf, Matches
    <3>5. QED  BY <1>2, <3>2, <3>3, <3>4 DEF RowInv
  <2>4. conn' = [conn EXCEPT ![c] = [conn[c] EXCEPT !.answer = "refused"]]
        /\ conn'[c].answer = "refused"
    BY <2>1, <1>1 DEF Answer, TypeOK, Requests
  <2>5. QED  BY <1>1, <1>2, <2>2, <2>3, <2>4 DEF RequestAt, Requests
<1>4. CASE Repeat(c)
  <2>1. Answer(c, "already") /\ Matches(r, rcpt) /\ SettledSince(r, rcpt) /\ r.reason = rcpt.reason
    BY <1>4 DEF Repeat
  <2>2. r.disposition = rcpt.op /\ r.disposition # "none"
    BY <1>1, <2>1 DEF SettledSince, Receipts, Operations
  <2>3. rcpt = ReceiptOf(r, r.disposition, r.reason)
    BY <1>1, <2>1, <2>2 DEF ReceiptOf, Matches, Receipts
  <2>4. rcpt \in receipts[h]
    BY <1>2, <2>2, <2>3 DEF RowInv
  <2>5. conn' = [conn EXCEPT ![c] = [conn[c] EXCEPT !.answer = "already"]]
        /\ conn'[c].answer = "already"
    BY <2>1, <1>1 DEF Answer, TypeOK, Requests
  <2>6. QED  BY <1>1, <1>2, <2>4, <2>5 DEF RequestAt, Requests
<1>5. QED  BY <1>3, <1>4

\* Every step keeps the settlement invariant.
LEMMA SettlementInductive ==
  TypeOK /\ TypeOK' /\ SettlementAt /\ [Next]_vars => SettlementAt'
<1> SUFFICES ASSUME TypeOK, TypeOK', SettlementAt, [Next]_vars PROVE SettlementAt'
  OBVIOUS
<1>1. \A h \in Handoffs : RowInv(handoff'[h], receipts'[h], grants'[h])
  BY EveryRowSteps DEF RowStep
<1>2. ASSUME NEW d \in Requests, RequestAt(d, handoff[d.handoff], receipts[d.handoff], now)
      PROVE  RequestAt(d, handoff'[d.handoff], receipts'[d.handoff], now')
  <2>1. d.handoff \in Handoffs
    BY DEF Requests
  <2>2. /\ handoff[d.handoff] \in Rows /\ handoff'[d.handoff] \in Rows
        /\ now \in Nat /\ now' \in Nat
    BY <2>1 DEF TypeOK
  <2>3. QED  BY <1>2, <2>1, <2>2, EveryRowSteps, RequestKept
<1>3. ASSUME NEW c \in Connections, conn'[c] # Idle
      PROVE  RequestAt(conn'[c], handoff'[conn'[c].handoff], receipts'[conn'[c].handoff], now')
  <2>1. conn'[c] \in Requests /\ (conn[c] # Idle => conn[c] \in Requests)
    BY <1>3 DEF TypeOK
  <2>2. CASE conn'[c] = conn[c]
    BY <1>2, <1>3, <2>1, <2>2 DEF SettlementAt
  <2>3. ASSUME NEW h \in Handoffs, NEW g \in grants[h], NEW op \in Operations,
               NEW x \in Reasons \cup {NoReason}, op = "acknowledged" => x = NoReason,
               NEW b \in Connections, Request(b, h, g, op, x)
        PROVE  RequestAt(conn'[c], handoff'[conn'[c].handoff], receipts'[conn'[c].handoff], now')
    <3>1. CASE b # c
      BY <2>2, <2>3, <3>1 DEF Request, TypeOK
    <3>2. CASE b = c
      <4> DEFINE d == [handoff |-> h, receipt |-> ReceiptOf(g, op, x),
                       answer |-> LookUp(h, ReceiptOf(g, op, x))]
      <4>1. conn'[c] = d
        BY <2>3, <3>2 DEF Request, TypeOK
      <4>2. RequestAt(d, handoff[h], receipts[h], now)
        BY <2>3, RequestLooksUp
      <4>3. d \in Requests /\ d.handoff = h
        BY <2>1, <4>1
      <4> HIDE DEF d
      <4>4. QED  BY <1>2, <4>1, <4>2, <4>3
    <3>3. QED  BY <3>1, <3>2
  <2>4. ASSUME NEW b \in Connections, Refuse(b) \/ Repeat(b)
        PROVE  RequestAt(conn'[c], handoff'[conn'[c].handoff], receipts'[conn'[c].handoff], now')
    <3> DEFINE d == [conn[b] EXCEPT !.answer = conn'[b].answer]
    <3>1. conn' = [conn EXCEPT ![b] = d]
          /\ RequestAt(d, handoff[conn[b].handoff], receipts[conn[b].handoff], now)
      BY <2>4, RequestAnswered
    <3>2. conn[b] \in Requests
      BY <2>4, BusyRequest DEF Refuse, Repeat
    <3>3. d.handoff = conn[b].handoff
      BY <3>2 DEF Requests
    <3> HIDE DEF d
    <3>4. CASE b # c
      BY <2>2, <3>1, <3>4 DEF TypeOK
    <3>5. CASE b = c
      <4>1. conn'[c] = d
        BY <3>1, <3>5 DEF TypeOK
      <4>2. QED  BY <1>2, <2>1, <3>1, <3>3, <4>1
    <3>6. QED  BY <3>4, <3>5
  <2>5. ASSUME NEW b \in Connections, Acknowledge(b) \/ Nack(b)
        PROVE  RequestAt(conn'[c], handoff'[conn'[c].handoff], receipts'[conn'[c].handoff], now')
    <3>1. /\ conn[b] # Idle /\ conn[b] \in Requests /\ Answer(b, "done")
      BY <2>5, BusyRequest DEF Acknowledge, Nack, Commit, Busy
    <3>2. CASE b # c
      BY <2>2, <3>1, <3>2 DEF Answer, TypeOK
    <3>3. CASE b = c
      <4> DEFINE h == conn[c].handoff
                 q == conn[c].receipt
      <4>1. /\ conn'[c].handoff = h /\ conn'[c].receipt = q /\ conn'[c].answer = "done"
            /\ h \in Handoffs /\ q \in Receipts
        BY <3>1, <3>3 DEF Answer, TypeOK, Requests
      <4>2. RequestAt(conn[c], handoff[h], receipts[h], now)
        BY <3>1, <3>3 DEF SettlementAt
      <4>3. handoff'[h].generation = handoff[h].generation
        <5>1. CASE Acknowledge(c)
          BY <4>1, <5>1 DEF Acknowledge, Commit, AcknowledgeRow, TypeOK, Rows
        <5>2. CASE Nack(c)
          BY <4>1, <5>2 DEF Nack, Commit, NackRow, TypeOK, Rows
        <5>3. QED  BY <2>5, <3>3, <5>1, <5>2
      <4>4. q \in receipts'[h]
        <5>1. handoff[h].status = "claimed" /\ Matches(handoff[h], q)
          BY <2>5, <3>3 DEF Acknowledge, Nack, Active
        <5>2. RowInv(handoff[h], receipts[h], grants[h])
          BY <4>1 DEF SettlementAt
        <5>3. ~\E p \in receipts[h] : p.by = q.by /\ p.token = q.token
          BY <5>1, <5>2 DEF RowInv, Matches
        <5>4. Record(h, q)
          BY <2>5, <3>3 DEF Acknowledge, Nack, Commit
        <5>5. QED  BY <4>1, <5>3, <5>4 DEF Record, TypeOK
      <4>5. QED  BY <4>1, <4>2, <4>3, <4>4 DEF RequestAt
    <3>4. QED  BY <3>2, <3>3
  <2>6. ASSUME NEW b \in Connections, Abort(b)
        PROVE  RequestAt(conn'[c], handoff'[conn'[c].handoff], receipts'[conn'[c].handoff], now')
    BY <1>3, <2>2, <2>6 DEF Abort, TypeOK
  <2>7. CASE UNCHANGED conn
    BY <2>2, <2>7
  <2>8. QED
    BY <2>3, <2>4, <2>5, <2>6, <2>7 DEF Next, vars, Operations, Push, List, Pull, Claim, Renew,
       Promote, Tick
<1>4. QED  BY <1>1, <1>3 DEF SettlementAt

\* The inductive invariant holds of every behaviour.
THEOREM SettlementsAreSafe == Spec => [](TypeOK /\ SettlementInv)
<1>1. Init => SettlementAt
  BY DEF Init, SettlementAt, RowInv, Absent
<1>2. Spec => [](TypeOK /\ SettlementAt)
  BY <1>1, TypeCorrect, SettlementInductive, PTL DEF Spec
<1>3. QED  BY <1>2, SettlementAtIsInv, PTL

\* An acknowledged handoff is delivered to one receiver, for good.
THEOREM DeliveryIsFinal == Spec => []DeliveredOnce
<1>1. SettlementInv => DeliveredOnce
  BY DEF SettlementInv, RowInv, DeliveredOnce
<1>2. QED  BY <1>1, SettlementsAreSafe, PTL

\* Whatever settlements race, a claim generation is settled at most once, a token
\* that settled a handoff never owns it again, and what was delivered stays so.
THEOREM SettlementsStayFinal == Spec => []SettlementsAreFinal
<1>1. SettlementInv => SettledOnce
  BY DEF SettlementInv, RowInv, SettledOnce
<1>2. SettlementInv => SpentTokenNeverOwns
  BY DEF SettlementInv, RowInv, SpentTokenNeverOwns
<1>3. QED  BY <1>1, <1>2, SettlementsAreSafe, DeliveryIsFinal, PTL DEF SettlementsAreFinal

\* What was answered as done is on record.
THEOREM AnswersStayDurable == Spec => []AnswersAreDurable
<1>1. SettlementInv => AnswersAreDurable
  BY DEF SettlementInv, RequestInv, AnswersAreDurable
<1>2. QED  BY <1>1, SettlementsAreSafe, PTL

\* A refused acknowledgement never happened.
THEOREM AckIdempotent == Spec => []AckRefusalIsFinal
<1>1. SettlementInv => AckRefusalIsFinal
  BY DEF SettlementInv, RequestInv, AckRefusalIsFinal, RefusalIsFinal
<1>2. QED  BY <1>1, SettlementsAreSafe, PTL

\* What a caller was told of a settlement stays true.
THEOREM AnswersStayTrue == Spec => []AnswersStand
BY AnswersStayDurable, AckIdempotent, PTL DEF AnswersStand

(***************************************************************************)
(* What may happen to the row r, its receipts R and its grants G at the    *)
(* time t, when they become u, S and H.                                    *)
(***************************************************************************)

\* Whom the row is for and under which service and schema version it lives.
SameTerms(r, u) ==
  /\ u.recipient = r.recipient
  /\ u.version = r.version
  /\ u.expires = r.expires

SameClaimant(r, u) ==
  /\ u.by = r.by
  /\ u.token = r.token
  /\ u.generation = r.generation

RowPushed(r, u) ==
  /\ r.status = "absent" /\ u.status = "pending"
  /\ u.by = NoActor /\ u.lease = NoLease /\ u.generation = 0 /\ ~u.managed
  /\ u.recipient # NoActor => u.version = 2

RowExpired(r, u) ==
  /\ r.status = "pending" /\ u.status = "expired"
  /\ ~r.managed /\ ~u.managed
  /\ SameClaimant(r, u) /\ u.lease = r.lease

RowPulled(r, u) ==
  /\ r.status = "pending" /\ u.status = "claimed" /\ r.version = 1
  /\ ~r.managed /\ ~u.managed
  /\ u.lease = NoLease /\ u.generation = r.generation + 1

RowClaimed(r, u, t) ==
  /\ r.status = "pending" \/ (r.status = "claimed" /\ r.lease # NoLease /\ r.lease <= t)
  /\ u.status = "claimed" /\ ~r.managed /\ ~u.managed
  /\ u.by \in Actors /\ u.token \in Tokens /\ OpenTo(r, u.by)
  /\ u.generation = r.generation + 1
  /\ u.lease # NoLease /\ u.lease > t /\ u.lease <= u.expires /\ u.lease <= t + MaxLease

RowRenewed(r, u, t) ==
  /\ ActiveAt(r, t) /\ u.status = "claimed" /\ ~r.managed /\ ~u.managed
  /\ SameClaimant(r, u)
  /\ u.lease = r.lease \/ (u.lease > r.lease /\ u.lease <= r.expires /\ u.lease <= t + MaxLease)

RowPromoted(r, u, t) ==
  /\ r.status = "pending" \/ (r.status = "claimed" /\ r.lease # NoLease /\ r.lease <= t)
  /\ ~r.managed /\ u.managed
  /\ u.status = "pending" /\ u.by = NoActor /\ u.lease = NoLease
  /\ u.generation = r.generation + 1

RowSettles(r, u, q, t) ==
  /\ ActiveAt(r, t) /\ Matches(r, q)
  /\ u.status \in {"acknowledged", "pending"} /\ u.managed = r.managed
  /\ SameClaimant(r, u)
  /\ u.lease \in {r.lease, NoLease}

RowMove(r, R, G, u, S, H, t, v) ==
  \/ u = r /\ S = R /\ H = G /\ t <= v
  \/ v = t /\ S = R /\ H = G /\ RowPushed(r, u)
  \/ /\ v = t /\ SameTerms(r, u)
     /\ \/ S = R /\ H = G /\ RowExpired(r, u)
        \/ S = R /\ H = G /\ RowPulled(r, u)
        \/ /\ S = R /\ RowClaimed(r, u, t)
           /\ H = G \cup {[by |-> u.by, token |-> u.token, generation |-> u.generation]}
        \/ S = R /\ H = G /\ RowRenewed(r, u, t)
        \/ S = R /\ H = G /\ RowPromoted(r, u, t)
        \/ H = G /\ \E q \in Receipts : S = R \cup {q} /\ RowSettles(r, u, q, t)

\* Every step moves every row in one of these ways.
LEMMA EveryRowMoves ==
  ASSUME TypeOK, TypeOK', SettlementAt, [Next]_vars, NEW h \in Handoffs
  PROVE  RowMove(handoff[h], receipts[h], grants[h],
                 handoff'[h], receipts'[h], grants'[h], now, now')
<1> DEFINE Goal == RowMove(handoff[h], receipts[h], grants[h],
                           handoff'[h], receipts'[h], grants'[h], now, now')
<1>0. /\ handoff \in [Handoffs -> Rows] /\ handoff[h] \in Rows /\ handoff'[h] \in Rows
      /\ receipts \in [Handoffs -> SUBSET Receipts] /\ grants \in [Handoffs -> SUBSET Grants]
      /\ now \in Nat /\ now' \in Nat
      /\ RowInv(handoff[h], receipts[h], grants[h])
      /\ handoff[h].generation \in Nat /\ handoff[h].lease \in Nat /\ handoff[h].expires \in Nat
  BY DEF TypeOK, SettlementAt, Rows
<1>1. CASE handoff'[h] = handoff[h] /\ receipts'[h] = receipts[h] /\ grants'[h] = grants[h]
           /\ now <= now'
  BY <1>1 DEF RowMove
<1>2. ASSUME NEW k \in Handoffs, NEW v \in {1, 2}, NEW a \in Actors \cup {NoActor}, Push(k, v, a)
      PROVE  Goal
  <2>1. CASE k # h
    BY <2>1, <1>2, <1>0, <1>1 DEF Push, InsertHandoff
  <2>2. CASE k = h
    <3>1. /\ handoff'[h] = [Absent EXCEPT !.status = "pending", !.expires = now + Retention,
                                          !.version = v, !.recipient = a]
          /\ handoff[h].status = "absent" /\ (a # NoActor => v = 2)
          /\ UNCHANGED <<receipts, grants, now>>
      BY <1>2, <2>2, <1>0, Zenon DEF Push, InsertHandoff
    <3>2. RowPushed(handoff[h], handoff'[h])
      BY <3>1 DEF RowPushed, Absent
    <3>3. QED  BY <3>1, <3>2, Zenon DEF RowMove
  <2>3. QED  BY <2>1, <2>2
<1>3. CASE List
  <2>1. handoff'[h] = ExpireOnList(handoff[h]) /\ UNCHANGED <<receipts, grants, now>>
    BY <1>3 DEF List
  <2>2. CASE handoff'[h] = handoff[h]
    BY <2>1, <2>2, <1>0, <1>1
  <2>3. CASE handoff'[h] # handoff[h]
    <3>1. /\ handoff[h].status = "pending" /\ ~handoff[h].managed
          /\ handoff'[h] = [handoff[h] EXCEPT !.status = "expired"]
      BY <2>1, <2>3 DEF ExpireOnList
    <3>2. RowExpired(handoff[h], handoff'[h]) /\ SameTerms(handoff[h], handoff'[h])
      BY <3>1, <1>0 DEF RowExpired, SameTerms, SameClaimant, Rows
    <3>3. QED  BY <2>1, <3>2, Zenon DEF RowMove
  <2>4. QED  BY <2>2, <2>3
<1>4. ASSUME NEW k \in Handoffs, NEW a \in Actors, Pull(k, a)
      PROVE  Goal
  <2>1. CASE k # h
    BY <2>1, <1>4, <1>0, <1>1 DEF Pull, TakeOnce
  <2>2. CASE k = h
    <3>1. /\ handoff'[h] = [handoff[h] EXCEPT !.status = "claimed", !.by = a, !.token = NoToken,
               !.lease = NoLease, !.generation = @ + 1, !.disposition = "none", !.reason = NoReason]
          /\ handoff[h].status = "pending" /\ ~handoff[h].managed /\ handoff[h].version = 1
          /\ UNCHANGED <<receipts, grants, now>>
      BY <1>4, <2>2, <1>0, Zenon DEF Pull, TakeOnce
    <3>2. RowPulled(handoff[h], handoff'[h]) /\ SameTerms(handoff[h], handoff'[h])
      BY <3>1, <1>0 DEF RowPulled, SameTerms, Rows
    <3>3. QED  BY <3>1, <3>2, Zenon DEF RowMove
  <2>3. QED  BY <2>1, <2>2
<1>5. ASSUME NEW k \in Handoffs, NEW a \in Actors, NEW t \in Tokens, NEW s \in 1..MaxLease,
             NEW v \in {1, 2}, Claim(k, a, t, s, v)
      PROVE  Goal
  <2>1. CASE k # h
    BY <2>1, <1>5, <1>0, <1>1 DEF Claim, ClaimLease
  <2>2. CASE k = h
    <3> DEFINE l == Lower(now + s, handoff[h].expires)
    <3>1. /\ handoff'[h] = [handoff[h] EXCEPT !.status = "claimed", !.by = a, !.token = t,
               !.lease = l, !.generation = @ + 1, !.disposition = "none", !.reason = NoReason]
          /\ Retained(handoff[h]) /\ Recoverable(handoff[h]) /\ ~handoff[h].managed
          /\ OpenTo(handoff[h], a)
          /\ grants'[h] = grants[h] \cup
               {[by |-> a, token |-> t, generation |-> handoff[h].generation + 1]}
          /\ UNCHANGED <<receipts, now>>
      BY <1>5, <2>2, <1>0, Zenon DEF Claim, ClaimLease, Claimable, ClaimRow
    <3>2. l # NoLease /\ l > now /\ l <= handoff[h].expires /\ l <= now + MaxLease
      BY <3>1, <1>0, BoundsAssumption DEF Lower, Retained, NoLease
    <3> HIDE DEF l
    <3>3. /\ handoff'[h].by = a /\ handoff'[h].token = t /\ handoff'[h].lease = l
          /\ handoff'[h].status = "claimed" /\ handoff'[h].managed = handoff[h].managed
          /\ handoff'[h].generation = handoff[h].generation + 1
          /\ SameTerms(handoff[h], handoff'[h])
      BY <3>1, <1>0 DEF Rows, SameTerms
    <3>4. RowClaimed(handoff[h], handoff'[h], now)
      BY <3>1, <3>2, <3>3, <1>0 DEF RowClaimed, Recoverable, RanOut, SameTerms
    <3>5. grants'[h] = grants[h] \cup {[by |-> handoff'[h].by, token |-> handoff'[h].token,
                                        generation |-> handoff'[h].generation]}
      BY <3>1, <3>3
    <3>6. QED  BY <3>1, <3>3, <3>4, <3>5, Zenon DEF RowMove
  <2>3. QED  BY <2>1, <2>2
<1>6. ASSUME NEW k \in Handoffs, NEW d \in 1..(MaxTime + MaxLease), NEW g \in grants[k],
             Renew(k, g, d)
      PROVE  Goal
  <2>1. CASE k # h
    BY <2>1, <1>6, <1>0, <1>1 DEF Renew
  <2>2. CASE k = h
    <3> DEFINE l == Higher(handoff[h].lease, Lower(d, handoff[h].expires))
    <3>1. /\ handoff'[h] = [handoff[h] EXCEPT !.lease = l] /\ Active(handoff[h])
          /\ ~handoff[h].managed /\ (d > handoff[h].lease => d <= now + MaxLease)
          /\ UNCHANGED <<receipts, grants, now>>
      BY <1>6, <2>2, <1>0, Zenon DEF Renew
    <3>2. \/ l = handoff[h].lease
          \/ l > handoff[h].lease /\ l <= handoff[h].expires /\ l <= now + MaxLease
      BY <3>1, <1>0, BoundsAssumption DEF Higher, Lower
    <3> HIDE DEF l
    <3>3. /\ handoff'[h].lease = l /\ handoff'[h].status = handoff[h].status
          /\ handoff'[h].managed = handoff[h].managed
          /\ SameClaimant(handoff[h], handoff'[h]) /\ SameTerms(handoff[h], handoff'[h])
      BY <3>1, <1>0 DEF Rows, SameClaimant, SameTerms
    <3>4. RowRenewed(handoff[h], handoff'[h], now)
      BY <3>1, <3>2, <3>3 DEF RowRenewed, Active, ActiveAt, Running, Retained
    <3>5. QED  BY <3>1, <3>3, <3>4, Zenon DEF RowMove
  <2>3. QED  BY <2>1, <2>2
<1>7. ASSUME NEW k \in Handoffs, Promote(k)
      PROVE  Goal
  <2>1. CASE k # h
    BY <2>1, <1>7, <1>0, <1>1 DEF Promote
  <2>2. CASE k = h
    <3>1. /\ handoff'[h] = [handoff[h] EXCEPT !.status = "pending", !.by = NoActor,
                       !.token = NoToken, !.lease = NoLease, !.generation = @ + 1,
                       !.disposition = "none", !.reason = NoReason, !.managed = TRUE]
          /\ Recoverable(handoff[h]) /\ ~handoff[h].managed
          /\ UNCHANGED <<receipts, grants, now>>
      BY <1>7, <2>2, <1>0, Zenon DEF Promote
    <3>2. RowPromoted(handoff[h], handoff'[h], now) /\ SameTerms(handoff[h], handoff'[h])
      BY <3>1, <1>0 DEF RowPromoted, SameTerms, Rows, Recoverable, RanOut
    <3>3. QED  BY <3>1, <3>2, Zenon DEF RowMove
  <2>3. QED  BY <2>1, <2>2
<1>8. ASSUME NEW c \in Connections, Acknowledge(c) \/ Nack(c)
      PROVE  Goal
  <2> DEFINE k == conn[c].handoff
             q == conn[c].receipt
  <2>1. k \in Handoffs /\ q \in Receipts /\ UNCHANGED <<now, grants>>
    BY <1>8, BusyRequest DEF Acknowledge, Nack, Commit
  <2>2. CASE k # h
    BY <1>8, <2>1, <2>2, <1>0, <1>1 DEF Acknowledge, Nack, Commit, Record
  <2>3. CASE k = h
    <3>1. Matches(handoff[h], q) /\ ActiveAt(handoff[h], now)
      BY <1>8, <2>3 DEF Acknowledge, Nack, Active, ActiveAt, Running, Retained
    <3>2. receipts'[h] = receipts[h] \cup {q}
      <4>1. ~\E p \in receipts[h] : p.by = q.by /\ p.token = q.token
        BY <3>1, <1>0 DEF RowInv, ActiveAt, Matches
      <4>2. Record(h, q)
        BY <1>8, <2>3 DEF Acknowledge, Nack, Commit
      <4>3. QED  BY <4>1, <4>2, <1>0 DEF Record
    <3>3. handoff'[h] = AcknowledgeRow(handoff[h]) \/ handoff'[h] = NackRow(handoff[h], q.reason)
      BY <1>8, <2>3, <1>0 DEF Acknowledge, Nack, Commit
    <3>4. /\ handoff'[h].status \in {"acknowledged", "pending"}
          /\ handoff'[h].lease \in {handoff[h].lease, NoLease}
          /\ handoff'[h].managed = handoff[h].managed
          /\ SameClaimant(handoff[h], handoff'[h]) /\ SameTerms(handoff[h], handoff'[h])
      BY <3>3, <1>0 DEF AcknowledgeRow, NackRow, Rows, SameClaimant, SameTerms
    <3>5. RowSettles(handoff[h], handoff'[h], q, now)
      BY <3>1, <3>4 DEF RowSettles
    <3>6. QED  BY <2>1, <3>2, <3>4, <3>5, Zenon DEF RowMove
  <2>4. QED  BY <2>2, <2>3
<1>9. CASE Tick
  BY <1>9, <1>0, <1>1 DEF Tick
<1>10. CASE UNCHANGED vars
  BY <1>10, <1>0, <1>1 DEF vars
<1>11. ASSUME NEW c \in Connections,
              \/ \E k \in Handoffs, op \in Operations, x \in Reasons \cup {NoReason} :
                   \E g \in grants[k] : Request(c, k, g, op, x)
              \/ Abort(c) \/ Refuse(c) \/ Repeat(c)
       PROVE  Goal
  BY <1>11, <1>0, <1>1 DEF Request, Abort, Refuse, Repeat
<1>12. QED
  BY <1>2, <1>3, <1>4, <1>5, <1>6, <1>7, <1>8, <1>9, <1>10, <1>11 DEF Next, Operations

(***************************************************************************)
(* Who may own a row, and for how long.                                    *)
(***************************************************************************)

\* What a row r with receipts R and grants G is at the time t: a promoted row
\* has no owner, a directed row is version 2 and nobody else's, a lease names
\* its claimant and is bounded while it runs.
RowOwned(r, R, G, t) ==
  /\ r.managed => r.status = "pending"
  /\ r.recipient # NoActor =>
       /\ r.version = 2
       /\ r.by \in {NoActor, r.recipient}
       /\ \A g \in G : g.by = r.recipient
       /\ \A q \in R : q.by = r.recipient
  /\ r.lease # NoLease /\ r.lease > t => r.lease <= r.expires /\ r.lease <= t + MaxLease
  /\ r.status = "claimed" /\ r.lease # NoLease => r.by \in Actors /\ r.token \in Tokens

OwnedAt == \A h \in Handoffs : RowOwned(handoff[h], receipts[h], grants[h], now)

\* Each of the moves keeps it.
LEMMA RowOwnedKept ==
  ASSUME NEW r \in Rows, NEW R \in SUBSET Receipts, NEW G \in SUBSET Grants,
         NEW u \in Rows, NEW S \in SUBSET Receipts, NEW H \in SUBSET Grants,
         NEW t \in Nat, NEW v \in Nat,
         RowInv(r, R, G), RowOwned(r, R, G, t), RowMove(r, R, G, u, S, H, t, v)
  PROVE  RowOwned(u, S, H, v)
<1>0. /\ r.lease \in Nat /\ u.lease \in Nat /\ r.expires \in Nat /\ u.expires \in Nat
      /\ MaxLease \in Nat /\ t + MaxLease \in Nat /\ v + MaxLease \in Nat
      /\ r.managed \in BOOLEAN /\ u.managed \in BOOLEAN
  BY BoundsAssumption DEF Rows
<1>1. CASE u = r /\ S = R /\ H = G /\ t <= v
  BY <1>1, <1>0 DEF RowOwned, NoLease
<1>2. CASE v = t /\ S = R /\ H = G /\ RowPushed(r, u)
  <2>1. R = {} /\ G = {}
    BY <1>2 DEF RowInv, RowPushed
  <2>2. QED  BY <1>2, <2>1, <1>0 DEF RowOwned, RowPushed
<1>3. CASE v = t /\ SameTerms(r, u) /\ S = R /\ H = G /\ RowExpired(r, u)
  BY <1>3, <1>0 DEF RowOwned, RowExpired, SameTerms, SameClaimant
<1>4. CASE v = t /\ SameTerms(r, u) /\ S = R /\ H = G /\ RowPulled(r, u)
  BY <1>4, <1>0 DEF RowOwned, RowPulled, SameTerms
<1>5. CASE /\ v = t /\ SameTerms(r, u) /\ S = R /\ RowClaimed(r, u, t)
           /\ H = G \cup {[by |-> u.by, token |-> u.token, generation |-> u.generation]}
  BY <1>5, <1>0 DEF RowOwned, RowClaimed, SameTerms, OpenTo
<1>6. CASE v = t /\ SameTerms(r, u) /\ S = R /\ H = G /\ RowRenewed(r, u, t)
  BY <1>6, <1>0 DEF RowOwned, RowRenewed, SameTerms, SameClaimant, ActiveAt, NoLease
<1>7. CASE v = t /\ SameTerms(r, u) /\ S = R /\ H = G /\ RowPromoted(r, u, t)
  BY <1>7, <1>0 DEF RowOwned, RowPromoted, SameTerms
<1>8. ASSUME NEW q \in Receipts, v = t, SameTerms(r, u), H = G, S = R \cup {q},
             RowSettles(r, u, q, t)
      PROVE  RowOwned(u, S, H, v)
  <2>1. r.status = "claimed" /\ ~r.managed /\ q.by = r.by /\ q.by # NoActor
    BY <1>8, NullAssumption DEF RowOwned, RowSettles, ActiveAt, Matches, Receipts
  <2>2. u.recipient # NoActor => \A p \in S : p.by = u.recipient
    BY <1>8, <2>1 DEF RowOwned, SameTerms
  <2>3. QED
    BY <1>8, <2>1, <2>2, <1>0 DEF RowOwned, RowSettles, SameTerms, SameClaimant, NoLease
<1>9. QED
  BY <1>1, <1>2, <1>3, <1>4, <1>5, <1>6, <1>7, <1>8, Zenon DEF RowMove

\* Every step keeps the rows so owned.
LEMMA OwnedInductive ==
  TypeOK /\ TypeOK' /\ SettlementAt /\ OwnedAt /\ [Next]_vars => OwnedAt'
<1> SUFFICES ASSUME TypeOK, TypeOK', SettlementAt, OwnedAt, [Next]_vars, NEW h \in Handoffs
             PROVE  RowOwned(handoff'[h], receipts'[h], grants'[h], now')
  BY Zenon DEF OwnedAt
<1>1. /\ handoff[h] \in Rows /\ handoff'[h] \in Rows /\ now \in Nat /\ now' \in Nat
      /\ receipts[h] \in SUBSET Receipts /\ receipts'[h] \in SUBSET Receipts
      /\ grants[h] \in SUBSET Grants /\ grants'[h] \in SUBSET Grants
  BY DEF TypeOK
<1>2. RowInv(handoff[h], receipts[h], grants[h])
      /\ RowOwned(handoff[h], receipts[h], grants[h], now)
  BY DEF SettlementAt, OwnedAt
<1>3. RowMove(handoff[h], receipts[h], grants[h],
              handoff'[h], receipts'[h], grants'[h], now, now')
  BY EveryRowMoves
<1>4. QED  BY <1>1, <1>2, <1>3, RowOwnedKept

\* Rows, settlements and ownership fit together in every reachable state.
THEOREM OwnershipIsSafe == Spec => [](TypeOK /\ SettlementAt /\ OwnedAt)
<1>1. Init => OwnedAt
  <2>1. RowOwned(Absent, {}, {}, 1)
    BY DEF RowOwned, Absent
  <2>2. QED  BY <2>1 DEF Init, OwnedAt
<1>2. TypeOK /\ SettlementInv => SettlementAt
  BY SettlementAtIsInv
<1>3. Spec => [](TypeOK /\ SettlementAt)
  BY <1>2, SettlementsAreSafe, PTL
<1>4. QED  BY <1>1, <1>3, OwnedInductive, PTL DEF Spec

\* A handoff with a fixed recipient is never owned, granted to or settled by
\* anyone else, through either claim protocol; and however a lease was claimed
\* and renewed, it ends in bounded time.
THEOREM OwnersStayEntitled == Spec => []OwnerIsEntitled
<1>1. OwnedAt => DirectedDelivery
  BY DEF OwnedAt, RowOwned, DirectedDelivery
<1>2. TypeOK /\ OwnedAt => LeaseIsBounded
  BY DEF TypeOK, Rows, OwnedAt, RowOwned, LeaseIsBounded, Running, Lower
<1>3. QED  BY <1>1, <1>2, OwnershipIsSafe, PTL DEF OwnerIsEntitled

\* No handoff operation touches a row that continuity took over, not even a
\* settlement that was under way.
THEOREM PromotionFreezes == Spec => PromotedIsFrozen
<1>1. ASSUME TypeOK, TypeOK', SettlementAt, OwnedAt, [Next]_vars, NEW h \in Handoffs,
             handoff[h].managed
      PROVE  handoff'[h] = handoff[h]
  <2>1. handoff[h].status = "pending"
    BY <1>1 DEF OwnedAt, RowOwned
  <2>2. RowMove(handoff[h], receipts[h], grants[h],
                handoff'[h], receipts'[h], grants'[h], now, now')
    BY <1>1, EveryRowMoves
  <2>3. QED
    BY <1>1, <2>1, <2>2 DEF RowMove, RowPushed, RowExpired, RowPulled, RowClaimed, RowRenewed,
       RowPromoted, RowSettles, ActiveAt
<1>2. TypeOK /\ TypeOK' /\ SettlementAt /\ OwnedAt /\ [Next]_vars
        => [\A h \in Handoffs : handoff[h].managed => handoff'[h] = handoff[h]]_vars
  BY <1>1
<1>3. QED  BY <1>2, OwnershipIsSafe, PTL DEF Spec, PromotedIsFrozen

(***************************************************************************)
(* The views of a row.                                                     *)
(***************************************************************************)

\* The status tool says "available" or "lease_expired" of a row exactly when
\* it is kept by this service, retained, and pending or abandoned.
LEMMA ClaimableState ==
  ASSUME NEW r \in Rows, now \in Nat, r.status # "absent"
  PROVE  DeliveryState(r) \in {"available", "lease_expired"}
           <=> ~r.managed /\ Retained(r) /\ (r.status = "pending" \/ (r.status = "claimed" /\ RanOut(r)))
<1>0. r.lease \in Nat /\ r.expires \in Nat /\ r.status \in Statuses /\ r.managed \in BOOLEAN
  BY DEF Rows
<1>1. CASE r.managed
  <2>1. DeliveryState(r) = "continuity_managed"
    BY <1>1 DEF DeliveryState
  <2>2. QED  BY <1>1, <2>1
<1>2. CASE ~r.managed /\ r.status = "acknowledged"
  <2>1. DeliveryState(r) = "acknowledged"
    BY <1>2 DEF DeliveryState
  <2>2. QED  BY <1>2, <2>1
<1>3. CASE ~r.managed /\ r.status # "acknowledged" /\ (r.expires <= now \/ r.status = "expired")
  <2>1. DeliveryState(r) = "expired"
    BY <1>3 DEF DeliveryState
  <2>2. QED  BY <1>3, <2>1, <1>0 DEF Retained
<1>4. CASE ~r.managed /\ r.status \in {"pending", "claimed"} /\ r.expires > now
  <2>1. Retained(r)
    BY <1>4 DEF Retained
  <2>2. DeliveryState(r) = CASE r.status = "pending" -> "available"
                  [] r.status = "claimed" /\ r.lease = NoLease -> "legacy_claimed"
                  [] r.status = "claimed" /\ Running(r) -> "leased"
                  [] OTHER -> "lease_expired"
    BY <1>4, <1>0 DEF DeliveryState
  <2>3. CASE r.status = "pending"
    BY <1>4, <2>1, <2>2, <2>3, <1>0 DEF Running
  <2>4. CASE r.status = "claimed" /\ r.lease = NoLease
    BY <1>4, <2>1, <2>2, <2>4, <1>0 DEF Running, RanOut
  <2>5. CASE r.status = "claimed" /\ Running(r)
    BY <1>4, <2>1, <2>2, <2>5, <1>0 DEF Running, RanOut
  <2>6. CASE r.status = "claimed" /\ r.lease # NoLease /\ ~Running(r)
    BY <1>4, <2>1, <2>2, <2>6, <1>0 DEF Running, RanOut
  <2>7. QED  BY <1>4, <2>3, <2>4, <2>5, <2>6
<1>5. QED
  BY <1>0, <1>1, <1>2, <1>3, <1>4 DEF Statuses

\* The inbox, the status tool and the claim agree on what may be claimed, and
\* the version 1 listing offers nothing a claim would refuse.
LEMMA OffersStayAgreed == TypeOK /\ OwnedAt => OffersAgree
<1> SUFFICES ASSUME TypeOK, OwnedAt, NEW h \in Handoffs, handoff[h].status # "absent",
                    NEW a \in Actors
             PROVE  /\ h \in Inbox("available", a) <=> CanClaim(handoff[h], a)
                    /\ h \in Inbox("available", a) <=> Claimable(handoff[h], a, 2)
                    /\ Listed(handoff[h]) => Claimable(handoff[h], a, 1)
  BY Zenon DEF OffersAgree
<1>1. /\ handoff[h] \in Rows /\ now \in Nat /\ handoff[h].version \in {1, 2}
      /\ handoff[h].recipient # NoActor => handoff[h].version = 2
  BY DEF TypeOK, Rows, OwnedAt, RowOwned
<1>2. h \in Inbox("available", a)
        <=> /\ ~handoff[h].managed /\ Retained(handoff[h]) /\ OpenTo(handoff[h], a)
            /\ Recoverable(handoff[h])
  BY DEF Inbox, InView, Recoverable
<1>3. h \in Inbox("available", a) <=> CanClaim(handoff[h], a)
  BY <1>1, <1>2, ClaimableState DEF CanClaim, Recoverable
<1>4. h \in Inbox("available", a) <=> Claimable(handoff[h], a, 2)
  BY <1>1, <1>2 DEF Claimable
<1>5. Listed(handoff[h]) => Claimable(handoff[h], a, 1)
  BY <1>1 DEF Listed, Claimable, Recoverable, OpenTo
<1>6. QED  BY <1>3, <1>4, <1>5

\* A lost answer of a claim can be had again until the claim is settled or over;
\* the inbox shows a claimant what is under its lease and what it acknowledged.
LEMMA ClaimsStayAgreed == TypeOK /\ SettlementAt /\ OwnedAt => ClaimsAgree
<1> SUFFICES ASSUME TypeOK, SettlementAt, OwnedAt, NEW h \in Handoffs, NEW a \in Actors
             PROVE  /\ \A t \in Tokens :
                         GetClaimed(h, a, t) =
                           {g \in grants[h] : /\ g.by = a /\ g.token = t
                                              /\ Matches(handoff[h], g) /\ Active(handoff[h])}
                    /\ h \in Inbox("claimed", a) <=> \E t \in Tokens : GetClaimed(h, a, t) # {}
                    /\ h \in Inbox("received", a)
                         <=> \E q \in receipts[h] : q.by = a /\ q.op = "acknowledged"
  BY Zenon DEF ClaimsAgree
<1> DEFINE r == handoff[h]
<1>1. /\ r \in Rows /\ grants[h] \in SUBSET Grants /\ receipts[h] \in SUBSET Receipts
      /\ RowInv(r, receipts[h], grants[h]) /\ RowOwned(r, receipts[h], grants[h], now)
  BY DEF TypeOK, SettlementAt, OwnedAt
<1>2. r.status = "claimed" => ~r.managed
  BY <1>1 DEF RowOwned
<1>3. ASSUME NEW t \in Tokens
      PROVE  GetClaimed(h, a, t) =
               {g \in grants[h] : g.by = a /\ g.token = t /\ Matches(r, g) /\ Active(r)}
  <2> DEFINE own == [by |-> a, token |-> t, generation |-> r.generation]
  <2>1. CASE UnderClaim(r, a, t)
    <3>1. Active(r) /\ r.by = a /\ r.token = t /\ t # NoToken
      BY <2>1, NullAssumption DEF UnderClaim, Active
    <3>2. own \in grants[h] /\ Matches(r, own)
      BY <1>1, <3>1 DEF RowInv, Active, Matches
    <3>3. \A g \in grants[h] : g.by = a /\ g.token = t /\ Matches(r, g) => g = own
      BY <1>1 DEF Grants, Matches
    <3>4. QED  BY <2>1, <3>1, <3>2, <3>3 DEF GetClaimed
  <2>2. CASE ~UnderClaim(r, a, t)
    <3>1. ASSUME NEW g \in grants[h], g.by = a, g.token = t, Matches(r, g), Active(r)
          PROVE  FALSE
      <4>1. r.by = a /\ r.token = t /\ r.status = "claimed"
        BY <3>1 DEF Matches, Active
      <4>2. OpenTo(r, a)
        BY <1>1, <3>1 DEF RowOwned, OpenTo
      <4>3. QED  BY <1>2, <2>2, <3>1, <4>1, <4>2 DEF UnderClaim, Active
    <3>2. QED  BY <2>2, <3>1 DEF GetClaimed
  <2>3. QED  BY <2>1, <2>2
<1>4. h \in Inbox("claimed", a) <=> r.by = a /\ Active(r)
  BY DEF Inbox, InView, Active
<1>5. r.by = a /\ Active(r) => r.token \in Tokens /\ OpenTo(r, a)
  BY <1>1, NullAssumption DEF RowOwned, Active, Running, OpenTo
<1>6. h \in Inbox("claimed", a) <=> \E t \in Tokens : UnderClaim(r, a, t)
  BY <1>2, <1>4, <1>5 DEF UnderClaim, Active
<1>7. \A t \in Tokens : GetClaimed(h, a, t) # {} <=> UnderClaim(r, a, t)
  BY DEF GetClaimed
<1>8. h \in Inbox("received", a) <=> \E q \in receipts[h] : q.by = a /\ q.op = "acknowledged"
  <2>1. ASSUME h \in Inbox("received", a)
        PROVE  \E q \in receipts[h] : q.by = a /\ q.op = "acknowledged"
    <3>1. r.status = "acknowledged" /\ r.by = a
      BY <2>1 DEF Inbox, InView
    <3>2. ReceiptOf(r, "acknowledged", r.reason) \in receipts[h]
      BY <1>1, <3>1 DEF RowInv
    <3>3. QED  BY <3>1, <3>2 DEF ReceiptOf
  <2>2. ASSUME NEW q \in receipts[h], q.by = a, q.op = "acknowledged"
        PROVE  h \in Inbox("received", a)
    BY <1>1, <2>2 DEF RowInv, RowOwned, Matches, Inbox, InView
  <2>3. QED  BY <2>1, <2>2
<1>9. QED  BY <1>3, <1>6, <1>7, <1>8

\* What the reads say of a handoff agrees, with each other, with what may be
\* done with it, and with what its claimants were given.
THEOREM ViewsStayAgreed == Spec => []ViewsAgree
<1>1. QED  BY OffersStayAgreed, ClaimsStayAgreed, OwnershipIsSafe, PTL DEF ViewsAgree

(***************************************************************************)
(* The handoff table implements a fenced lease.                            *)
(***************************************************************************)

\* The holder of a row at the time t.
HolderAt(r, t) == IF r.status = "claimed" /\ r.lease # NoLease /\ r.lease > t
                  THEN [by |-> r.by, token |-> r.token] ELSE NoHolder

Entries(R) == {Settlement(q) : q \in R}

\* What the abstract lease sees of the moves of a row: from holder a, fence m
\* and ledger L to b, n and M.
LeaseMove(a, m, L, b, n, M) ==
  \/ b = a /\ n = m /\ M = L
  \/ a = NoHolder /\ b \in Claimants /\ n = m + 1 /\ M = L
  \/ /\ a # NoHolder /\ b = NoHolder /\ n = m
     /\ \E o \in Operations : M = L \cup {[by |-> a, fence |-> m, outcome |-> o]}
  \/ b = NoHolder /\ n = m /\ M = L
  \/ b = NoHolder /\ n = m + 1 /\ M = L

\* Every move of a row is one of those.
LEMMA MoveIsLeaseMove ==
  ASSUME NEW r \in Rows, NEW R \in SUBSET Receipts, NEW G \in SUBSET Grants,
         NEW u \in Rows, NEW S \in SUBSET Receipts, NEW H \in SUBSET Grants,
         NEW t \in Nat, NEW v \in Nat,
         RowInv(r, R, G), RowOwned(r, R, G, t), RowMove(r, R, G, u, S, H, t, v)
  PROVE  LeaseMove(HolderAt(r, t), r.generation, Entries(R),
                   HolderAt(u, v), u.generation, Entries(S))
<1>0. r.lease \in Nat /\ u.lease \in Nat /\ r.generation \in Nat
  BY DEF Rows
<1>1. CASE u = r /\ S = R /\ H = G /\ t <= v
  <2>1. HolderAt(u, v) \in {HolderAt(r, t), NoHolder}
    BY <1>1, <1>0 DEF HolderAt
  <2>2. QED  BY <1>1, <2>1 DEF LeaseMove
<1>2. CASE v = t /\ S = R /\ H = G /\ RowPushed(r, u)
  <2>1. r.generation = 0
    BY <1>2 DEF RowInv, RowPushed
  <2>2. QED  BY <1>2, <2>1 DEF LeaseMove, RowPushed, HolderAt
<1>3. CASE v = t /\ SameTerms(r, u) /\ S = R /\ H = G /\ RowExpired(r, u)
  BY <1>3 DEF LeaseMove, RowExpired, SameClaimant, HolderAt
<1>4. CASE v = t /\ SameTerms(r, u) /\ S = R /\ H = G /\ RowPulled(r, u)
  BY <1>4 DEF LeaseMove, RowPulled, HolderAt
<1>5. CASE v = t /\ SameTerms(r, u) /\ S = R /\ RowClaimed(r, u, t)
  <2>1. HolderAt(r, t) = NoHolder
    BY <1>5, <1>0 DEF RowClaimed, HolderAt
  <2>2. HolderAt(u, v) \in Claimants
    BY <1>5 DEF RowClaimed, HolderAt, Claimants
  <2>3. QED  BY <1>5, <2>1, <2>2 DEF RowClaimed, LeaseMove
<1>6. CASE v = t /\ SameTerms(r, u) /\ S = R /\ H = G /\ RowRenewed(r, u, t)
  <2>1. HolderAt(u, v) = HolderAt(r, t)
    BY <1>6, <1>0 DEF RowRenewed, ActiveAt, SameClaimant, HolderAt, NoLease
  <2>2. QED  BY <1>6, <2>1 DEF RowRenewed, SameClaimant, LeaseMove
<1>7. CASE v = t /\ SameTerms(r, u) /\ S = R /\ H = G /\ RowPromoted(r, u, t)
  BY <1>7 DEF LeaseMove, RowPromoted, HolderAt
<1>8. ASSUME NEW q \in Receipts, v = t, S = R \cup {q}, RowSettles(r, u, q, t)
      PROVE  LeaseMove(HolderAt(r, t), r.generation, Entries(R),
                       HolderAt(u, v), u.generation, Entries(S))
  <2>1. HolderAt(r, t) = [by |-> r.by, token |-> r.token] /\ r.by \in Actors
    BY <1>8 DEF RowSettles, ActiveAt, HolderAt, Matches, Receipts
  <2>2. HolderAt(r, t) # NoHolder
    BY <2>1, NullAssumption DEF NoHolder
  <2>3. HolderAt(u, v) = NoHolder /\ u.generation = r.generation
    BY <1>8 DEF RowSettles, SameClaimant, HolderAt
  <2>4. Settlement(q) = [by |-> HolderAt(r, t), fence |-> r.generation, outcome |-> q.op]
    BY <1>8, <2>1 DEF RowSettles, Matches, Settlement
  <2>5. Entries(S) = Entries(R) \cup {Settlement(q)}
    BY <1>8 DEF Entries
  <2>6. q.op \in Operations
    BY DEF Receipts
  <2>7. QED  BY <2>2, <2>3, <2>4, <2>5, <2>6 DEF LeaseMove
<1>9. QED
  BY <1>1, <1>2, <1>3, <1>4, <1>5, <1>6, <1>7, <1>8, Zenon DEF RowMove

\* What the abstract lease sees of a row is of its types.
LEMMA LeaseTypes ==
  ASSUME NEW r \in Rows, NEW R \in SUBSET Receipts, NEW G, NEW t \in Nat, RowOwned(r, R, G, t)
  PROVE  /\ HolderAt(r, t) \in Claimants \cup {NoHolder}
         /\ r.generation \in Nat
         /\ Entries(R) \in SUBSET Lease!Settlements
<1>1. HolderAt(r, t) \in Claimants \cup {NoHolder}
  BY DEF RowOwned, HolderAt, Claimants
<1>2. r.generation \in Nat
  BY DEF Rows
<1>3. \A q \in Receipts : Settlement(q) \in Lease!Settlements
  BY DEF Receipts, Settlement, Claimants, Lease!Settlements
<1>4. QED  BY <1>1, <1>2, <1>3 DEF Entries

\* The mapped variables, row by row, before and after a step.
LEMMA MappedRows ==
  ASSUME NEW h \in Handoffs
  PROVE  /\ Holder(handoff[h]) = HolderAt(handoff[h], now)
         /\ Holder(handoff[h])' = HolderAt(handoff'[h], now')
BY DEF Holder, HolderAt, Running

\* Every step of the handoff table is a step of the lease, or changes nothing
\* the lease knows of.
LEMMA StepIsLeaseStep ==
  ASSUME TypeOK, TypeOK', SettlementAt, OwnedAt, OwnedAt', [Next]_vars
  PROVE  Lease!Next
<1>0. ASSUME NEW h \in Handoffs
      PROVE  /\ handoff[h] \in Rows /\ handoff'[h] \in Rows /\ now \in Nat /\ now' \in Nat
             /\ receipts[h] \in SUBSET Receipts /\ receipts'[h] \in SUBSET Receipts
             /\ grants[h] \in SUBSET Grants /\ grants'[h] \in SUBSET Grants
             /\ RowInv(handoff[h], receipts[h], grants[h])
             /\ RowOwned(handoff[h], receipts[h], grants[h], now)
             /\ RowOwned(handoff'[h], receipts'[h], grants'[h], now')
  BY DEF TypeOK, SettlementAt, OwnedAt
<1>1. ASSUME NEW h \in Handoffs
      PROVE  /\ Holder(handoff[h])' \in Claimants \cup {NoHolder}
             /\ handoff'[h].generation \in Nat
             /\ Entries(receipts'[h]) \in SUBSET Lease!Settlements
  BY <1>0, LeaseTypes, MappedRows
<1>2. ASSUME NEW h \in Handoffs
      PROVE  LeaseMove(Holder(handoff[h]), handoff[h].generation, Entries(receipts[h]),
                       Holder(handoff[h])', handoff'[h].generation, Entries(receipts'[h]))
  BY <1>0, EveryRowMoves, MoveIsLeaseMove, MappedRows
<1>3. ASSUME NEW h \in Handoffs
      PROVE  Lease!Step(h) \/ Lease!Keep(h)
  BY <1>2 DEF LeaseMove, Entries, Lease!Step, Lease!Keep, Lease!Acquire, Lease!Settle,
     Lease!Lapse, Lease!Revoke
<1>4. QED  BY <1>1, <1>3 DEF Lease!Next, Entries

\* The handoff table keeps the promise of a fenced lease: mutual exclusion,
\* fresh generations, settlements by the holder of the moment only.
THEOREM HandoffImplementsLease == Spec => ImplementsFencedLease
<1>1. Init => Lease!Init
  BY DEF Init, Lease!Init, Absent, Holder
<1>2. TypeOK /\ TypeOK' /\ SettlementAt /\ OwnedAt /\ OwnedAt' /\ [Next]_vars
        => [Lease!Next]_(Lease!vars)
  BY StepIsLeaseStep
<1>3. QED  BY <1>1, <1>2, OwnershipIsSafe, PTL DEF Spec, ImplementsFencedLease, Lease!Spec

(***************************************************************************)
(* What follows from the promise, whoever gives it.                        *)
(***************************************************************************)

\* A settled fence is not ahead of its resource, is not held, is settled once:
\* of a holder a, a fence m and a ledger L.
LedgerGood(a, m, L) ==
  /\ m \in Nat
  /\ \A x \in L : x.fence \in 0..m /\ (x.fence = m => a = NoHolder)
  /\ \A x, y \in L : x.fence = y.fence => x = y

LedgersGood ==
  \A h \in Handoffs :
    LedgerGood(Holder(handoff[h]), handoff[h].generation, Entries(receipts[h]))

\* No move of a lease spoils its ledger.
LEMMA MoveKeepsLedger ==
  ASSUME NEW a, NEW m, NEW L, NEW b, NEW n, NEW M,
         LedgerGood(a, m, L), LeaseMove(a, m, L, b, n, M)
  PROVE  LedgerGood(b, n, M)
<1>1. CASE b = a /\ n = m /\ M = L
  BY <1>1
<1>2. CASE n = m + 1 /\ M = L
  BY <1>2 DEF LedgerGood
<1>3. CASE b = NoHolder /\ n = m /\ M = L
  BY <1>3 DEF LedgerGood
<1>4. CASE /\ a # NoHolder /\ b = NoHolder /\ n = m
           /\ \E o \in Operations : M = L \cup {[by |-> a, fence |-> m, outcome |-> o]}
  <2>1. \A x \in L : x.fence # m
    BY <1>4 DEF LedgerGood
  <2>2. QED  BY <1>4, <2>1 DEF LedgerGood
<1>5. QED  BY <1>1, <1>2, <1>3, <1>4 DEF LeaseMove

\* The ledgers stay good in every step that the lease allows.
LEMMA LedgersStayGood == LedgersGood /\ [Lease!Next]_(Lease!vars) => LedgersGood'
<1> SUFFICES ASSUME LedgersGood, [Lease!Next]_(Lease!vars), NEW h \in Handoffs
             PROVE  LedgerGood(Holder(handoff[h])', handoff'[h].generation, Entries(receipts'[h]))
  BY DEF LedgersGood
<1>1. CASE Lease!Next
  <2>1. Lease!Step(h) \/ Lease!Keep(h)
    BY <1>1 DEF Lease!Next
  <2>2. LeaseMove(Holder(handoff[h]), handoff[h].generation, Entries(receipts[h]),
                  Holder(handoff[h])', handoff'[h].generation, Entries(receipts'[h]))
    BY <2>1 DEF LeaseMove, Entries, Lease!Step, Lease!Keep, Lease!Acquire, Lease!Settle,
       Lease!Lapse, Lease!Revoke
  <2>3. QED  BY <2>2, MoveKeepsLedger DEF LedgersGood
<1>2. CASE UNCHANGED Lease!vars
  <2>1. /\ Holder(handoff[h])' = Holder(handoff[h])
        /\ handoff'[h].generation = handoff[h].generation
        /\ Entries(receipts'[h]) = Entries(receipts[h])
    BY <1>2 DEF Lease!vars, Entries
  <2>2. QED  BY <2>1 DEF LedgersGood
<1>3. QED  BY <1>1, <1>2

\* Whatever implements the lease as handoffs do, no fence is settled twice, and
\* what was settled has no holder until it moves on to another fence.
THEOREM LeaseIsSafe == Lease!Spec => [](Lease!SettledAtMostOnce /\ Lease!SettledMeansFree)
<1>1. Lease!Init => LedgersGood
  <2> SUFFICES ASSUME Lease!Init, NEW h \in Handoffs
               PROVE  LedgerGood(Holder(handoff[h]), handoff[h].generation, Entries(receipts[h]))
    BY DEF LedgersGood
  <2>1. handoff[h].generation = 0 /\ Entries(receipts[h]) = {}
    BY DEF Lease!Init, Entries
  <2>2. QED  BY <2>1 DEF LedgerGood
<1>2. LedgersGood => Lease!SettledAtMostOnce /\ Lease!SettledMeansFree
  BY DEF LedgersGood, LedgerGood, Entries, Lease!SettledAtMostOnce, Lease!SettledMeansFree
<1>3. QED  BY <1>1, <1>2, LedgersStayGood, PTL DEF Lease!Spec

\* So it is of handoffs.
COROLLARY HandoffLeaseIsSafe ==
  Spec => [](Lease!SettledAtMostOnce /\ Lease!SettledMeansFree)
<1>1. QED  BY HandoffImplementsLease, LeaseIsSafe, PTL DEF ImplementsFencedLease
=============================================================================
