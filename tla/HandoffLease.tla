---------------------------- MODULE HandoffLease ----------------------------
(***************************************************************************)
(* The life of a handoff row: published by a sender, listed, claimed under *)
(* a recoverable lease or pulled once and for all, renewed, acknowledged   *)
(* or nacked, and possibly moved under the continuity service.             *)
(*                                                                         *)
(* Every action is one database transaction under the row lock, except     *)
(* the two settlements: acknowledge_handoff and nack_handoff look for a    *)
(* receipt first and lock the row afterwards, so other transactions may    *)
(* commit in between.  A connection of the pool carries such a request     *)
(* from its first statement to its answer; it may also be cut (timeout,    *)
(* crash of the server) between the two, which rolls the request back.     *)
(* A caller that lost an answer simply asks again.                         *)
(*                                                                         *)
(* Payloads, envelopes and digests are data the protocol never looks at    *)
(* once the row exists, and are left out; so is a replayed push, which     *)
(* changes nothing.  The clock is the database clock.                      *)
(***************************************************************************)
EXTENDS Integers

CONSTANTS Handoffs,      \* phase attempts that may be handed off
          Actors,        \* authenticated users
          Tokens,        \* digests of the private claim tokens
          Reasons,       \* nack reason codes
          Connections,   \* pool connections that serve settlements
          NoActor,       \* NULL in claimed_by and recipient_user_id
          NoToken,       \* NULL in claim_token_digest
          NoReason,      \* NULL in claim_reason_code
          Idle,          \* a connection that serves no settlement
          Retention,     \* handoff_default_expiry_hours, in clock ticks
          MaxLease,      \* handoff_claim_lease_max_seconds, in clock ticks
          MaxTime,       \* bound on the clock
          MaxGeneration  \* bound on claim_generation

ASSUME BoundsAssumption ==
  /\ Retention \in Nat \ {0}
  /\ MaxLease \in Nat \ {0}
  /\ MaxTime \in Nat \ {0}
  /\ MaxGeneration \in Nat \ {0}

ASSUME NullAssumption ==
  /\ NoActor \notin Actors
  /\ NoToken \notin Tokens
  /\ NoReason \notin Reasons

VARIABLES now,           \* clock_timestamp()
          handoff,       \* the handoffs table
          receipts,      \* handoff_claim_receipts, per handoff
          grants,        \* what claims returned to clients, per handoff
          conn           \* the settlement each connection serves

vars == <<now, handoff, receipts, grants, conn>>

(***************************************************************************)
(* Rows, grants, requests.                                                 *)
(***************************************************************************)

NoLease == 0             \* NULL in claim_lease_expires_at: the clock starts at 1

Statuses == {"absent", "pending", "claimed", "acknowledged", "expired"}
Operations == {"acknowledged", "nacked"}
Answers == {"pending", "done", "already", "refused"}

Rows == [status : Statuses, by : Actors \cup {NoActor}, token : Tokens \cup {NoToken},
         lease : Nat, generation : Nat, disposition : Operations \cup {"none"},
         reason : Reasons \cup {NoReason}, expires : Nat, version : {1, 2},
         recipient : Actors \cup {NoActor}, managed : BOOLEAN]

Grants == [by : Actors, token : Tokens, generation : Nat]

Receipts == [by : Actors, token : Tokens, generation : Nat, op : Operations,
             reason : Reasons \cup {NoReason}]

Requests == [handoff : Handoffs, receipt : Receipts, answer : Answers]

Absent == [status |-> "absent", by |-> NoActor, token |-> NoToken, lease |-> NoLease,
           generation |-> 0, disposition |-> "none", reason |-> NoReason, expires |-> 0,
           version |-> 1, recipient |-> NoActor, managed |-> FALSE]

TypeOK ==
  /\ now \in Nat
  /\ handoff \in [Handoffs -> Rows]
  /\ receipts \in [Handoffs -> SUBSET Receipts]
  /\ grants \in [Handoffs -> SUBSET Grants]
  /\ conn \in [Connections -> Requests \cup {Idle}]

Init ==
  /\ now = 1
  /\ handoff = [h \in Handoffs |-> Absent]
  /\ receipts = [h \in Handoffs |-> {}]
  /\ grants = [h \in Handoffs |-> {}]
  /\ conn = [c \in Connections |-> Idle]

Lower(x, y) == IF x <= y THEN x ELSE y
Higher(x, y) == IF x >= y THEN x ELSE y

\* A lease that still runs, and one that ran out; a NULL lease is neither.
Running(r) == r.lease # NoLease /\ r.lease > now
RanOutEarly(r) == r.lease # NoLease /\ r.lease <= now + 1    \* mutant
RanOut(r) == r.lease # NoLease /\ r.lease <= now

Retained(r) == r.status # "absent" /\ r.expires > now

\* The row is under the very claim that the grant g was issued for.
Matches(r, g) == r.by = g.by /\ r.token = g.token /\ r.generation = g.generation

\* A claim that may still be settled or renewed.
Active(r) == r.status = "claimed" /\ Running(r) /\ Retained(r)

\* Addressed to anyone, or to the actor a.
OpenTo(r, a) == r.recipient \in {NoActor, a}

(***************************************************************************)
(* Publication, listing and the one-shot pull.                             *)
(***************************************************************************)

\* insert_handoff: an attempt is handed off once.  The project's members come and
\* go, so a recipient that is refused as not eligible is simply a push that does
\* not happen.
InsertHandoff(h, version, recipient, expires) ==
  /\ handoff[h].status = "absent"
  /\ handoff' = [handoff EXCEPT ![h] =
       [Absent EXCEPT !.status = "pending", !.expires = expires,
                      !.version = version, !.recipient = recipient]]

\* push_handoff: a fixed recipient or a continuation package makes a version 2 row.
Push(h, version, recipient) ==
  /\ recipient # NoActor => version = 2
  /\ now + Retention <= MaxTime
  /\ InsertHandoff(h, version, recipient, now + Retention)
  /\ UNCHANGED <<now, receipts, grants, conn>>

\* list_pending_handoffs marks every elapsed version 1 row before it reads.
ExpireManagedToo(r) ==                                      \* mutant
  IF r.status = "pending" /\ r.expires <= now /\ r.version = 1
  THEN [r EXCEPT !.status = "expired"] ELSE r

ExpireOnList(r) ==
  IF r.status = "pending" /\ r.expires <= now /\ r.version = 1 /\ ~r.managed
  THEN [r EXCEPT !.status = "expired"] ELSE r

List ==
  /\ handoff' = [h \in Handoffs |-> ExpireOnList(handoff[h])]
  /\ UNCHANGED <<now, receipts, grants, conn>>

\* What that listing offers its readers.
ListedWithNull(r) ==                                        \* mutant
  /\ r.status = "pending" \/ (r.status = "claimed" /\ r.lease <= now)
  /\ Retained(r)
  /\ r.version = 1
  /\ ~r.managed

Listed(r) ==
  /\ r.status = "pending" \/ (r.status = "claimed" /\ r.token # NoToken /\ RanOut(r))
  /\ Retained(r)
  /\ r.version = 1
  /\ ~r.managed

\* claim_handoff.
TakeOnce(h, a) ==
  LET r == handoff[h] IN
  /\ r.status = "pending" /\ Retained(r) /\ r.version = 1 /\ ~r.managed
  /\ handoff' = [handoff EXCEPT ![h] =
       [r EXCEPT !.status = "claimed", !.by = a, !.token = NoToken, !.lease = NoLease,
                 !.generation = @ + 1, !.disposition = "none", !.reason = NoReason]]

\* pull_handoff: the compatibility pull, never to be recovered.
Pull(h, a) ==
  /\ handoff[h].generation < MaxGeneration
  /\ TakeOnce(h, a)
  /\ UNCHANGED <<now, receipts, grants, conn>>

(***************************************************************************)
(* Recoverable claims.                                                     *)
(***************************************************************************)

\* A row anyone may take: never claimed, given back, or abandoned.
Recoverable(r) == r.status = "pending" \/ (r.status = "claimed" /\ RanOut(r))

\* What claim_handoff_lease asks of the row before it looks at the token.
ClaimableByAnyone(r, a, accept) ==                          \* mutant
  Retained(r) /\ ~r.managed /\ r.version <= accept /\ Recoverable(r)

Claimable(r, a, accept) ==
  /\ Retained(r)
  /\ ~r.managed
  /\ r.version <= accept
  /\ OpenTo(r, a)
  /\ Recoverable(r)

\* A token that ever settled this handoff for the actor is spent.
SpentByAck(h, a, t) ==                                      \* mutant
  \E q \in receipts[h] : q.by = a /\ q.token = t /\ q.op = "acknowledged"
Spent(h, a, t) == \E q \in receipts[h] : q.by = a /\ q.token = t

ClaimRow(r, a, t, seconds) ==
  [r EXCEPT !.status = "claimed", !.by = a, !.token = t,
            !.lease = Lower(now + seconds, r.expires),
            !.generation = @ + 1, !.disposition = "none", !.reason = NoReason]

\* claim_handoff_lease.  While the lease runs the same actor and token get the
\* same answer again and nothing changes: a replay is no step.
ClaimLease(h, a, t, seconds, accept) ==
  /\ Claimable(handoff[h], a, accept)
  /\ ~Spent(h, a, t)
  /\ handoff' = [handoff EXCEPT ![h] = ClaimRow(@, a, t, seconds)]

\* claim_handoff_recoverable: whoever claims learns the generation.
Claim(h, a, t, seconds, accept) ==
  /\ handoff[h].generation < MaxGeneration
  /\ ClaimLease(h, a, t, seconds, accept)
  /\ grants' = [grants EXCEPT ![h] =
       @ \cup {[by |-> a, token |-> t, generation |-> handoff[h].generation + 1]}]
  /\ UNCHANGED <<now, receipts, conn>>

\* renew_lease: an absolute deadline, never shortening the lease, never
\* stretching it past the retention of the row.
Renew(h, g, deadline) ==
  LET r == handoff[h] IN
  /\ Matches(r, g)
  /\ Active(r)
  /\ ~r.managed
  /\ OpenTo(r, g.by)
  /\ deadline > r.lease => deadline <= now + MaxLease
  /\ handoff' = [handoff EXCEPT ![h].lease = Higher(@, Lower(deadline, r.expires))]
  /\ UNCHANGED <<now, receipts, grants, conn>>

\* The part of continuity.delivery.publish that moves a handoff under the
\* continuity service: its old ownership is fenced off.
Promote(h) ==
  LET r == handoff[h] IN
  /\ Retained(r)
  /\ ~r.managed
  /\ Recoverable(r)
  /\ r.generation < MaxGeneration
  /\ handoff' = [handoff EXCEPT ![h] =
       [r EXCEPT !.status = "pending", !.by = NoActor, !.token = NoToken, !.lease = NoLease,
                 !.generation = @ + 1, !.disposition = "none", !.reason = NoReason,
                 !.managed = TRUE]]
  /\ UNCHANGED <<now, receipts, grants, conn>>

(***************************************************************************)
(* Settlements: a receipt lookup, then the row lock.                       *)
(***************************************************************************)

Busy(c) == conn[c] # Idle /\ conn[c].answer = "pending"

\* The receipt a request of this operation for the grant g would leave.
ReceiptOf(g, op, reason) ==
  [by |-> g.by, token |-> g.token, generation |-> g.generation, op |-> op, reason |-> reason]

\* What the first statement of the request finds: an identical receipt answers
\* it, a nack of another reason refuses it, no receipt leaves it to the lock.
LookUp(h, rcpt) ==
  IF rcpt \in receipts[h] THEN "already"
  ELSE IF \E q \in receipts[h] : Matches(q, rcpt) /\ q.op = rcpt.op THEN "refused"
  ELSE "pending"

\* The caller sends the generation and token its claim returned.
Request(c, h, g, op, reason) ==
  LET rcpt == ReceiptOf(g, op, reason) IN
  /\ ~Busy(c)
  /\ conn' = [conn EXCEPT ![c] =
       [handoff |-> h, receipt |-> rcpt, answer |-> LookUp(h, rcpt)]]
  /\ UNCHANGED <<now, handoff, receipts, grants>>

\* The request is cut before its transaction commits.
Abort(c) ==
  /\ Busy(c)
  /\ conn' = [conn EXCEPT ![c] = Idle]
  /\ UNCHANGED <<now, handoff, receipts, grants>>

Answer(c, a) == conn' = [conn EXCEPT ![c].answer = a]

\* Unique per actor, token and operation: a second insertion is ignored.
RecordPerActor(h, rcpt) ==                                  \* mutant
  receipts' = IF \E q \in receipts[h] : q.by = rcpt.by /\ q.op = rcpt.op
              THEN receipts
              ELSE [receipts EXCEPT ![h] = @ \cup {rcpt}]

Record(h, rcpt) ==
  receipts' = IF \E q \in receipts[h] :
                   q.by = rcpt.by /\ q.token = rcpt.token /\ q.op = rcpt.op
              THEN receipts
              ELSE [receipts EXCEPT ![h] = @ \cup {rcpt}]

\* The row was settled by this request between the lookup and the lock.
NackedSince(r, rcpt) ==                                     \* mutant
  rcpt.op = "nacked" /\ r.status = "pending" /\ r.disposition = "nacked"

SettledSince(r, rcpt) ==
  /\ r.disposition = rcpt.op
  /\ IF rcpt.op = "acknowledged" THEN r.status = "acknowledged" ELSE r.status = "pending"

\* The row no longer is, or never was, under the claim of the request; or a
\* concurrent nack of the claim gave another reason.
Refuse(c) ==
  LET r == handoff[conn[c].handoff]
      rcpt == conn[c].receipt
  IN /\ Busy(c)
     /\ \/ ~Matches(r, rcpt)
        \/ ~SettledSince(r, rcpt) /\ ~Active(r)
        \/ SettledSince(r, rcpt) /\ r.reason # rcpt.reason
     /\ Answer(c, "refused")
     /\ UNCHANGED <<now, handoff, receipts, grants>>

Repeat(c) ==
  LET r == handoff[conn[c].handoff]
      rcpt == conn[c].receipt
  IN /\ Busy(c)
     /\ Matches(r, rcpt)
     /\ SettledSince(r, rcpt)
     /\ r.reason = rcpt.reason
     /\ Answer(c, "already")
     /\ UNCHANGED <<now, handoff, receipts, grants>>

\* acknowledge_handoff keeps the owner on the row, for the receiver's views.
AcknowledgeRow(r) ==
  [r EXCEPT !.status = "acknowledged", !.disposition = "acknowledged", !.reason = NoReason]

\* nack_handoff gives the row back and keeps its last owner and generation.
NackRow(r, reason) ==
  [r EXCEPT !.status = "pending", !.lease = NoLease, !.disposition = "nacked",
            !.reason = reason]

Commit(c, row) ==
  LET h == conn[c].handoff IN
  /\ handoff' = [handoff EXCEPT ![h] = row]
  /\ Record(h, conn[c].receipt)
  /\ Answer(c, "done")
  /\ UNCHANGED <<now, grants>>

Acknowledge(c) ==
  LET r == handoff[conn[c].handoff]
      rcpt == conn[c].receipt
  IN /\ Busy(c)
     /\ rcpt.op = "acknowledged"
     /\ Matches(r, rcpt) /\ Active(r)
     /\ Commit(c, AcknowledgeRow(r))

Nack(c) ==
  LET r == handoff[conn[c].handoff]
      rcpt == conn[c].receipt
  IN /\ Busy(c)
     /\ rcpt.op = "nacked"
     /\ Matches(r, rcpt) /\ Active(r)
     /\ Commit(c, NackRow(r, rcpt.reason))

Tick ==
  /\ now < MaxTime
  /\ now' = now + 1
  /\ UNCHANGED <<handoff, receipts, grants, conn>>

Next ==
  \/ \E h \in Handoffs, v \in {1, 2}, a \in Actors \cup {NoActor} : Push(h, v, a)
  \/ List
  \/ \E h \in Handoffs, a \in Actors : Pull(h, a)
  \/ \E h \in Handoffs, a \in Actors, t \in Tokens, s \in 1..MaxLease, v \in {1, 2} :
       Claim(h, a, t, s, v)
  \/ \E h \in Handoffs, d \in 1..(MaxTime + MaxLease) : \E g \in grants[h] : Renew(h, g, d)
  \/ \E h \in Handoffs : Promote(h)
  \/ \E c \in Connections, h \in Handoffs : \E g \in grants[h] :
       Request(c, h, g, "acknowledged", NoReason)
  \/ \E c \in Connections, h \in Handoffs, x \in Reasons : \E g \in grants[h] :
       Request(c, h, g, "nacked", x)
  \/ \E c \in Connections : Abort(c)
  \/ \E c \in Connections : Refuse(c)
  \/ \E c \in Connections : Repeat(c)
  \/ \E c \in Connections : Acknowledge(c)
  \/ \E c \in Connections : Nack(c)
  \/ Tick

Spec == Init /\ [][Next]_vars

(***************************************************************************)
(* Safety.                                                                 *)
(***************************************************************************)

\* Over its whole life a claim generation is settled at most once, and so is a
\* private token of an actor, whatever acks and nacks were racing: two receipts
\* of a handoff share neither.  (acknowledge_handoff, nack_handoff,
\* claim_handoff_lease.)
SettledOnce ==
  \A h \in Handoffs : \A p, q \in receipts[h] :
    p.generation = q.generation \/ (p.by = q.by /\ p.token = q.token) => p = q

\* A token that settled a handoff never owns it again, so a late duplicate of
\* an old settlement cannot be answered from a newer claim.
SpentTokenNeverOwns ==
  \A h \in Handoffs :
    handoff[h].status = "claimed" =>
      \A q \in receipts[h] : ~(q.by = handoff[h].by /\ q.token = handoff[h].token)

\* An acknowledged handoff is delivered: to one receiver, under one generation,
\* for good.  No claim, pull, listing or promotion takes it up again.
DeliveredOnce ==
  \A h \in Handoffs : \A q \in receipts[h] :
    q.op = "acknowledged" => handoff[h].status = "acknowledged" /\ Matches(handoff[h], q)

\* A settlement is final: neither its generation nor its token comes back, nor does
\* what was delivered.
SettlementsAreFinal == SettledOnce /\ SpentTokenNeverOwns /\ DeliveredOnce

\* A handoff with a fixed recipient is never owned, pulled, granted to or
\* settled by anyone else, whichever of the two claim protocols is used.
DirectedDelivery ==
  \A h \in Handoffs : handoff[h].recipient # NoActor =>
    /\ handoff[h].by \in {NoActor, handoff[h].recipient}
    /\ \A g \in grants[h] : g.by = handoff[h].recipient
    /\ \A q \in receipts[h] : q.by = handoff[h].recipient

\* However often it was renewed, a running lease ends with the retention of the
\* row at the latest, and never lies further ahead than the configured maximum.
LeaseIsBounded ==
  \A h \in Handoffs :
    Running(handoff[h]) => handoff[h].lease <= Lower(handoff[h].expires, now + MaxLease)

\* Handoffs are in the right hands, for the right time.
OwnerIsEntitled == DirectedDelivery /\ LeaseIsBounded

\* A settlement that was answered as done, or as done before, is on record, and
\* so is the row it left: the answer can be given again after a lost response.
AnswersAreDurable ==
  \A c \in Connections :
    conn[c] # Idle /\ conn[c].answer \in {"done", "already"}
      => conn[c].receipt \in receipts[conn[c].handoff]

\* A refused settlement of a claim did not happen and never will: no identical
\* receipt exists, although another connection may carry the same request.
RefusalIsFinal(op) ==
  \A c \in Connections :
    conn[c] # Idle /\ conn[c].answer = "refused" /\ conn[c].receipt.op = op
      => conn[c].receipt \notin receipts[conn[c].handoff]

\* The acknowledgement of a claim is idempotent in this sense.
AckRefusalIsFinal == RefusalIsFinal("acknowledged")

\* Whatever races it, what a caller is told of a settlement stays true: done is done
\* and on record, and a refused acknowledgement never happens.
AnswersStand == AnswersAreDurable /\ AckRefusalIsFinal

\* "Ack and nack require the returned claim_generation and are idempotent
\* through digest-only durable receipts" (README.md:231).
NackRefusalIsFinal == RefusalIsFinal("nacked")

(***************************************************************************)
(* The inductive strengthening of the settlement properties.               *)
(***************************************************************************)

\* What ties a row r to its receipts R and to the grants G given out for it.
RowInv(r, R, G) ==
  /\ r.status = "absent" => r.generation = 0
  /\ r.status \in {"absent", "claimed"} => r.disposition = "none"
  /\ r.status = "acknowledged" <=> r.disposition = "acknowledged"
  /\ r.disposition # "none" => ReceiptOf(r, r.disposition, r.reason) \in R
  /\ r.status = "claimed" /\ r.token # NoToken =>
       [by |-> r.by, token |-> r.token, generation |-> r.generation] \in G
  /\ \A g \in G : g.generation \in 1..r.generation
  /\ \A q \in R : q.generation \in 1..r.generation
  /\ \A q \in R : q.generation = r.generation => Matches(r, q) /\ r.disposition = q.op
  /\ \A q \in R : r.status = "claimed" => ~(q.by = r.by /\ q.token = r.token)
  /\ \A q \in R : q.op = "acknowledged" => r.status = "acknowledged" /\ Matches(r, q)
  /\ \A p, q \in R : p.generation = q.generation \/ (p.by = q.by /\ p.token = q.token) => p = q

\* What ties the request d of a connection to its row r and the receipts R.
RequestInv(d, r, R) ==
  /\ d.receipt.generation \in 1..r.generation
  /\ d.receipt.op = "acknowledged" => d.receipt.reason = NoReason
  /\ d.answer \in {"done", "already"} => d.receipt \in R
  /\ d.answer = "refused" => ~(Matches(r, d.receipt) /\ Active(r))
  /\ d.answer = "refused" /\ d.receipt.op = "acknowledged" => d.receipt \notin R

\* Rows and requests are at any time as the settlement properties need them.
SettlementInv ==
  /\ \A h \in Handoffs : RowInv(handoff[h], receipts[h], grants[h])
  /\ \A c \in Connections : conn[c] # Idle =>
       RequestInv(conn[c], handoff[conn[c].handoff], receipts[conn[c].handoff])

(***************************************************************************)
(* The views of the same row, written three times.                         *)
(***************************************************************************)

\* handoff.collaboration.delivery_state.
DeliveryState(r) ==
  CASE r.managed -> "continuity_managed"
    [] ~r.managed /\ r.status = "acknowledged" -> "acknowledged"
    [] ~r.managed /\ r.status # "acknowledged" /\ (r.expires <= now \/ r.status = "expired")
         -> "expired"
    [] OTHER -> CASE r.status = "pending" -> "available"
                  [] r.status = "claimed" /\ r.lease = NoLease -> "legacy_claimed"
                  [] r.status = "claimed" /\ Running(r) -> "leased"
                  [] OTHER -> "lease_expired"

\* The filters of the inbox, for the actor a.
InView(view, r, a) ==
  \/ /\ view = "available"
     /\ ~r.managed /\ Retained(r) /\ OpenTo(r, a)
     /\ r.status = "pending" \/ (r.status = "claimed" /\ RanOut(r))
  \/ /\ view = "claimed"
     /\ Retained(r) /\ r.status = "claimed" /\ r.by = a /\ Running(r)
  \/ /\ view = "received"
     /\ ~r.managed /\ r.status = "acknowledged" /\ r.by = a

Inbox(view, a) == {h \in Handoffs : handoff[h].status # "absent" /\ InView(view, handoff[h], a)}

CanClaim(r, a) == DeliveryState(r) \in {"available", "lease_expired"} /\ OpenTo(r, a)

\* get_claimed_handoff, in the store: the row is still under a claim of a with t.
UnderClaim(r, a, t) ==
  /\ r.status = "claimed" /\ ~r.managed
  /\ r.by = a /\ r.token = t
  /\ OpenTo(r, a)
  /\ Running(r) /\ Retained(r)

\* What a caller that lost the answer to its claim gets instead.
GetClaimed(h, a, t) ==
  IF UnderClaim(handoff[h], a, t)
  THEN {[by |-> a, token |-> t, generation |-> handoff[h].generation]} ELSE {}

\* What the inbox shows as available, what the status tool calls claimable and
\* what a claim with a fresh token is granted are the same rows, at every
\* moment; the version 1 listing offers nothing a claim would refuse.
OffersAgree ==
  \A h \in Handoffs : handoff[h].status # "absent" =>
    /\ \A a \in Actors :
         /\ h \in Inbox("available", a) <=> CanClaim(handoff[h], a)
         /\ h \in Inbox("available", a) <=> Claimable(handoff[h], a, 2)
         /\ Listed(handoff[h]) => Claimable(handoff[h], a, 1)

\* A caller gets again what its claim gave it for exactly as long as it could
\* settle that claim; its inbox shows as claimed what it could get, and as
\* received what it acknowledged.
ClaimsAgree ==
  \A h \in Handoffs, a \in Actors :
    /\ \A t \in Tokens :
         GetClaimed(h, a, t) = {g \in grants[h] : /\ g.by = a /\ g.token = t
                                                  /\ Matches(handoff[h], g) /\ Active(handoff[h])}
    /\ h \in Inbox("claimed", a) <=> \E t \in Tokens : GetClaimed(h, a, t) # {}
    /\ h \in Inbox("received", a) <=> \E q \in receipts[h] : q.by = a /\ q.op = "acknowledged"

\* The views of a row agree with each other and with what may be done with it.
ViewsAgree == OffersAgree /\ ClaimsAgree

(***************************************************************************)
(* Action properties and the abstract specification.                       *)
(***************************************************************************)

\* Once a handoff is under the continuity service no handoff operation changes
\* its row any more, late settlements included (the triggers of the schema
\* that forbid it are never reached).
PromotedIsFrozen ==
  [][\A h \in Handoffs : handoff[h].managed => handoff'[h] = handoff[h]]_vars

Claimants == [by : Actors, token : Tokens]
NoHolder == [by |-> NoActor, token |-> NoToken]

Holder(r) == IF r.status = "claimed" /\ Running(r)
             THEN [by |-> r.by, token |-> r.token] ELSE NoHolder

Settlement(q) == [by |-> [by |-> q.by, token |-> q.token],
                  fence |-> q.generation, outcome |-> q.op]

Lease == INSTANCE FencedLease WITH
  Resources <- Handoffs,
  Outcomes <- Operations,
  holder <- [h \in Handoffs |-> Holder(handoff[h])],
  fence <- [h \in Handoffs |-> handoff[h].generation],
  ledger <- [h \in Handoffs |-> {Settlement(q) : q \in receipts[h]}]

\* The handoff table is a fenced lease: mutual exclusion, fresh generations
\* and settlements by the holder only.
ImplementsFencedLease == Lease!Spec
=============================================================================
