------------------------ MODULE WorkContinuityProofs ------------------------
(***************************************************************************)
(* Proofs about the safety of WorkContinuity, for any users, sources,      *)
(* units, tokens and policies: who owns work is entitled to it, nothing is *)
(* claimed twice, nobody succeeds themselves, erasure is complete, and     *)
(* work units are leased as FencedLease promises.                          *)
(***************************************************************************)
EXTENDS WorkContinuity, TLAPS

(***************************************************************************)
(* Types.                                                                  *)
(***************************************************************************)

\* A policy in force bounds what it bounds by positive numbers.
LEMMA PolicyBounds ==
  ASSUME TypeOK
  PROVE  /\ policy.body.retention \in Nat \ {0} /\ policy.body.lease \in Nat \ {0}
         /\ policy.version \in Nat
BY WorkAssumption DEF TypeOK, Policies, Bodies

\* What work may ask for: some of the units, each for some of the recipients.
LEMMA AssignmentIs ==
  ASSUME NEW R \in SUBSET Users, NEW work \in Assignments(R)
  PROVE  /\ DOMAIN work \subseteq UnitKeys /\ DOMAIN work # {}
         /\ \A k \in DOMAIN work : work[k] # {} /\ work[k] \subseteq R
<1>1. PICK keys \in (SUBSET UnitKeys) \ {{}} : work \in [keys -> (SUBSET R) \ {{}}]
  BY DEF Assignments
<1>2. DOMAIN work = keys
  BY <1>1
<1>3. \A k \in keys : work[k] \in (SUBSET R) \ {{}}
  BY <1>1
<1>4. QED  BY <1>2, <1>3

\* Rows that are not there yet, and work that is given out.
LEMMA FreshRow ==
  ASSUME NEW assignees \in SUBSET Users
  PROVE  /\ NoUnit \in UnitRows /\ Fresh(assignees) \in UnitRows
         /\ Fresh(assignees).state = "available" /\ Fresh(assignees).assignees = assignees
         /\ Fresh(assignees).generation = 0
BY DEF NoUnit, Fresh, UnitRows, States, Terminal, NoLease

\* Work that is taken away: nobody's, under a generation of its own.
LEMMA FencedRow ==
  ASSUME NEW r \in UnitRows, NEW state \in States, NEW assignees \in SUBSET Users
  PROVE  LET f == Fenced(r, state, assignees) IN
         /\ f \in UnitRows
         /\ f.state = state /\ f.assignees = assignees /\ f.generation = r.generation + 1
         /\ f.by = NoUser /\ f.token = NoToken /\ f.lease = NoLease
<1> DEFINE f == Fenced(r, state, assignees)
           g == r.generation + 1
           b == [r EXCEPT !.state = state, !.assignees = assignees, !.by = NoUser]
           h == [b EXCEPT !.token = NoToken, !.lease = NoLease, !.generation = g]
<1>1. g \in Nat
  BY DEF UnitRows
<1>2. f = h
  BY DEF Fenced
<1>3. b \in UnitRows /\ b.state = state /\ b.assignees = assignees /\ b.by = NoUser
  BY DEF UnitRows
<1> HIDE DEF f, g, b
<1>4. /\ h \in UnitRows /\ h.token = NoToken /\ h.lease = NoLease /\ h.generation = g
      /\ h.state = b.state /\ h.assignees = b.assignees /\ h.by = b.by
  BY <1>1, <1>3 DEF UnitRows, NoLease
<1> HIDE DEF h
<1>5. QED  BY <1>2, <1>3, <1>4 DEF f, g

\* Work that is claimed.
LEMMA TakenRow ==
  ASSUME NEW r \in UnitRows, NEW u \in Users, NEW t \in Tokens, NEW lease \in Nat
  PROVE  LET f == Taken(r, u, t, lease) IN
         /\ f \in UnitRows /\ f.state = "claimed" /\ f.by = u /\ f.token = t
         /\ f.lease = lease /\ f.generation = r.generation + 1 /\ f.assignees = r.assignees
<1> DEFINE f == Taken(r, u, t, lease)
           g == r.generation + 1
           b == [r EXCEPT !.state = "claimed", !.by = u, !.token = t]
           h == [b EXCEPT !.lease = lease, !.generation = g]
<1>1. g \in Nat
  BY DEF UnitRows
<1>2. f = h
  BY DEF Taken
<1>3. /\ b \in UnitRows /\ b.state = "claimed" /\ b.by = u /\ b.token = t
      /\ b.assignees = r.assignees
  BY DEF UnitRows, States
<1> HIDE DEF f, g, b
<1>4. /\ h \in UnitRows /\ h.lease = lease /\ h.generation = g
      /\ h.state = b.state /\ h.assignees = b.assignees /\ h.by = b.by /\ h.token = b.token
  BY <1>1, <1>3 DEF UnitRows
<1> HIDE DEF h
<1>5. QED  BY <1>2, <1>3, <1>4 DEF f, g

\* Work that is given back.
LEMMA ReturnedRow ==
  ASSUME NEW r \in UnitRows, NEW state \in States
  PROVE  LET f == Returned(r, state) IN
         /\ f \in UnitRows /\ f.state = state /\ f.by = NoUser /\ f.token = NoToken
         /\ f.lease = NoLease /\ f.generation = r.generation /\ f.assignees = r.assignees
<1> DEFINE f == Returned(r, state)
           b == [r EXCEPT !.state = state, !.by = NoUser]
           h == [b EXCEPT !.token = NoToken, !.lease = NoLease]
<1>1. f = h
  BY DEF Returned
<1>2. /\ b \in UnitRows /\ b.state = state /\ b.by = NoUser
      /\ b.assignees = r.assignees /\ b.generation = r.generation
  BY DEF UnitRows
<1> HIDE DEF f, b
<1>3. /\ h \in UnitRows /\ h.token = NoToken /\ h.lease = NoLease /\ h.generation = b.generation
      /\ h.state = b.state /\ h.assignees = b.assignees /\ h.by = b.by
  BY <1>2 DEF UnitRows, NoLease
<1> HIDE DEF h
<1>4. QED  BY <1>1, <1>2, <1>3 DEF f

\* What a reassignment makes of a unit.
LEMMA ReassignedRow ==
  ASSUME NEW r \in UnitRows, NEW k \in UnitKeys, NEW R \in SUBSET Users, NEW work \in Assignments(R),
         NEW takeover, NEW rewritten
  PROVE  LET f == Reassigned(r, k, work, takeover, rewritten) IN
         /\ f \in UnitRows
         /\ \/ r.state = "absent" /\ k \in DOMAIN work /\ f = Fresh(work[k])
            \/ f = r /\ \/ r.state = "absent" \/ r.state \in Terminal
                        \/ ~Changed(r, k, work, rewritten) /\ ~Forced(r, k, takeover)
            \/ /\ r.state \in {"available", "claimed"} /\ k \in DOMAIN work
               /\ Changed(r, k, work, rewritten) \/ Forced(r, k, takeover)
               /\ f = Fenced(r, "available", work[k])
            \/ /\ r.state \in {"available", "claimed"} /\ k \notin DOMAIN work
               /\ f = Fenced(r, "cancelled", r.assignees)
<1> DEFINE f == Reassigned(r, k, work, takeover, rewritten)
<1>1. r.state \in {"absent", "available", "claimed"} \cup Terminal /\ r.assignees \in SUBSET Users
  BY DEF UnitRows, States
<1>2. k \in DOMAIN work => work[k] \in SUBSET Users
  BY AssignmentIs
<1>3. "available" \in States /\ "cancelled" \in States /\ "absent" \notin Terminal
  BY DEF States, Terminal
<1>4. CASE r.state = "absent"
  <2>1. f = IF k \in DOMAIN work THEN Fresh(work[k]) ELSE r
    BY <1>4 DEF Reassigned
  <2>2. QED  BY <1>2, <1>4, <2>1, FreshRow
<1>5. CASE r.state \in Terminal
  <2>1. r.state # "absent"
    BY <1>3, <1>5
  <2>3. f = r
    BY <1>5, <2>1 DEF Reassigned
  <2>4. QED  BY <1>5, <2>3
<1>6. CASE r.state \notin Terminal \cup {"absent"} /\ ~Changed(r, k, work, rewritten) /\ ~Forced(r, k, takeover)
  <2>1. f = r
    BY <1>6 DEF Reassigned
  <2>2. QED  BY <1>6, <2>1
<1>7. CASE /\ r.state \notin Terminal \cup {"absent"}
           /\ Changed(r, k, work, rewritten) \/ Forced(r, k, takeover)
  <2>1. f = IF k \in DOMAIN work THEN Fenced(r, "available", work[k])
            ELSE Fenced(r, "cancelled", r.assignees)
    BY <1>7 DEF Reassigned
  <2>2. r.state \in {"available", "claimed"}
    BY <1>1, <1>7
  <2>3. f \in UnitRows
    BY <1>1, <1>2, <1>3, <2>1, FencedRow
  <2> HIDE DEF f
  <2>4. QED  BY <1>7, <2>1, <2>2, <2>3 DEF f
<1>8. QED  BY <1>4, <1>5, <1>6, <1>7

\* The rows that are not there, and the constants.
LEMMA SourceRowsAreThere ==
  /\ NoSource \in SourceRows /\ NoBundle \in BundleRows /\ NoSource.from = NoUser
  /\ NoSource.forgotten = FALSE /\ NoBundle.version = 0 /\ NoBundle.revoked = FALSE
  /\ NoUnit.state = "absent" /\ NoUnit.assignees = {} /\ NoUnit.generation = 0 /\ NoUnit.by = NoUser
BY WorkAssumption DEF NoSource, SourceRows, NoBundle, BundleRows, NoUnit

\* The constants, as assumed.
LEMMA BoundsAreNat ==
  /\ HandoverRetention \in Nat \ {0} /\ MaxTime \in Nat \ {0} /\ MaxPolicy \in Nat \ {0}
  /\ MaxVersion \in Nat \ {0} /\ Admins \subseteq Users /\ Senders \subseteq Users
  /\ Classes \subseteq Nat /\ PolicyBodies \subseteq Bodies /\ Checkpoints \cap Handovers = {}
BY WorkAssumption

\* Revocation keeps whose deliveries they are.
LEMMA RevokedAre ==
  ASSUME NEW D \in SUBSET DeliveryRows
  PROVE  /\ Revoked(D) \in SUBSET DeliveryRows
         /\ \A d \in Revoked(D) : ~d.live /\ \E e \in D : e.to = d.to
BY DEF Revoked, DeliveryRows

\* New deliveries are in force, one per recipient.
LEMMA SentAre ==
  ASSUME NEW R \in SUBSET Users, NEW v \in Nat
  PROVE  /\ Sent(R, v) \in SUBSET DeliveryRows
         /\ \A d \in Sent(R, v) : d.to \in R /\ d.live
         /\ \A d, e \in Sent(R, v) : d.to = e.to => d = e
         /\ \A u \in R : \E d \in Sent(R, v) : d.to = u
<1>1. ASSUME NEW d \in Sent(R, v)
      PROVE  d \in DeliveryRows /\ d.to \in R /\ d.live
  BY DEF Sent, DeliveryRows
<1>2. ASSUME NEW d \in Sent(R, v), NEW e \in Sent(R, v), d.to = e.to
      PROVE  d = e
  <2>1. ASSUME NEW x \in Sent(R, v)
        PROVE  x = [to |-> x.to, version |-> v, acked |-> FALSE, live |-> TRUE]
    BY DEF Sent
  <2>2. QED  BY <1>2, <2>1
<1>3. ASSUME NEW u \in R
      PROVE  \E d \in Sent(R, v) : d.to = u
  <2>1. [to |-> u, version |-> v, acked |-> FALSE, live |-> TRUE] \in Sent(R, v)
    BY DEF Sent
  <2>2. QED  BY <2>1
<1>4. QED  BY <1>1, <1>2, <1>3

\* The variables keep their types.
LEMMA Typed ==
  ASSUME TypeOK, [Next]_vars
  PROVE  TypeOK'
<1>1. ASSUME NEW b \in PolicyBodies, NEW v \in 0..MaxPolicy, SetPolicy(b, v)
      PROVE  TypeOK'
  BY <1>1, BoundsAreNat DEF TypeOK, SetPolicy, Policies
<1>2. ASSUME NEW c \in Checkpoints, NEW u \in Senders, NEW w \in Works, NEW x \in Classes,
             NEW v \in 0..MaxVersion, Save(c, u, w, x, v)
      PROVE  TypeOK'
  <2> DEFINE row == [from |-> u, work |-> w, version |-> v + 1, class |-> x,
                     expires |-> now + policy.body.retention, forgotten |-> FALSE]
  <2>1. row \in SourceRows
    BY PolicyBounds, BoundsAreNat DEF SourceRows, TypeOK
  <2>2. source' = [source EXCEPT ![c] = row]
    BY <1>2 DEF Save
  <2> HIDE DEF row
  <2>3. source' \in [Sources -> SourceRows]
    BY <2>1, <2>2 DEF TypeOK
  <2>4. QED  BY <1>2, <2>3 DEF TypeOK, Save
<1>3. ASSUME NEW h \in Handovers, NEW u \in Senders, Arrive(h, u)
      PROVE  TypeOK'
  <2> DEFINE row == [NoSource EXCEPT !.from = u, !.expires = now + HandoverRetention]
  <2>1. row \in SourceRows
    <3>1. u \in Users /\ now + HandoverRetention \in Nat
      BY BoundsAreNat DEF TypeOK
    <3>2. NoSource \in SourceRows
      BY SourceRowsAreThere
    <3>3. QED  BY <3>1, <3>2 DEF SourceRows
  <2>2. source' = [source EXCEPT ![h] = row]
    BY <1>3 DEF Arrive
  <2> HIDE DEF row
  <2>3. source' \in [Sources -> SourceRows]
    BY <2>1, <2>2 DEF TypeOK
  <2>4. QED  BY <1>3, <2>3 DEF TypeOK, Arrive
<1>4. ASSUME NEW s \in Sources, NEW u \in Users, NEW R \in (SUBSET Users) \ {{}},
             NEW v \in 0..MaxPolicy, NEW work \in Assignments(R), Publish(s, u, R, work, v)
      PROVE  TypeOK'
  <2> DEFINE row == [version |-> 1, revoked |-> FALSE,
                     expires |-> Lower(source[s].expires, now + policy.body.retention)]
             sent == Sent(R, 1)
  <2>1. row \in BundleRows
    BY PolicyBounds DEF BundleRows, TypeOK, Lower, SourceRows
  <2>2. bundle' = [bundle EXCEPT ![s] = row]
    BY <1>4 DEF Publish
  <2>8. deliveries' = [deliveries EXCEPT ![s] = sent]
    BY <1>4 DEF Publish
  <2>3. sent \in SUBSET DeliveryRows
    BY SentAre
  <2> HIDE DEF row, sent
  <2>4. bundle' \in [Sources -> BundleRows] /\ deliveries' \in [Sources -> SUBSET DeliveryRows]
    BY <2>1, <2>2, <2>3, <2>8 DEF TypeOK
  <2>5. ASSUME NEW w \in WorkUnits
        PROVE  (IF w[1] = s /\ w[2] \in DOMAIN work THEN Fresh(work[w[2]]) ELSE units[w]) \in UnitRows
    BY AssignmentIs, FreshRow DEF TypeOK
  <2>6. units' \in [WorkUnits -> UnitRows]
    BY <1>4, <2>5 DEF Publish
  <2>7. QED  BY <1>4, <2>4, <2>6 DEF TypeOK, Publish
<1>5. ASSUME NEW s \in Sources, NEW d \in deliveries[s], Ack(s, d)
      PROVE  TypeOK'
  <2>1. d \in DeliveryRows
    BY DEF TypeOK
  <2>2. [d EXCEPT !.acked = TRUE] \in DeliveryRows
    BY <2>1 DEF DeliveryRows
  <2>3. deliveries' \in [Sources -> SUBSET DeliveryRows]
    BY <1>5, <2>2 DEF TypeOK, Ack
  <2>4. QED  BY <1>5, <2>3 DEF TypeOK, Ack
<1>6. ASSUME NEW c \in Checkpoints, Forget(c)
      PROVE  TypeOK'
  <2>1. c \in Sources
    BY DEF Sources
  <2>2. source' \in [Sources -> SourceRows]
    BY <1>6, <2>1 DEF TypeOK, Forget, SourceRows
  <2>3. bundle' \in [Sources -> BundleRows]
    BY <1>6, <2>1 DEF TypeOK, Forget, BundleRows
  <2>4. deliveries' \in [Sources -> SUBSET DeliveryRows]
    BY <1>6, <2>1, RevokedAre DEF TypeOK, Forget
  <2>5. ASSUME NEW w \in WorkUnits
        PROVE  (IF w[1] = c /\ units[w].state # "absent"
                THEN Fenced(units[w], "cancelled", units[w].assignees) ELSE units[w]) \in UnitRows
    <3>1. units[w] \in UnitRows /\ units[w].assignees \in SUBSET Users /\ "cancelled" \in States
      BY DEF TypeOK, UnitRows, States, Terminal
    <3>2. QED  BY <3>1, FencedRow
  <2>6. units' \in [WorkUnits -> UnitRows]
    BY <1>6, <2>5 DEF Forget
  <2>7. QED  BY <1>6, <2>2, <2>3, <2>4, <2>6 DEF TypeOK, Forget
<1>7. ASSUME NEW a \in Admins, NEW s \in Sources, Inspect(a, s)
      PROVE  TypeOK'
  <2> DEFINE seen == [k \in UnitKeys |-> [by |-> units[<<s, k>>].by,
                                          generation |-> units[<<s, k>>].generation]]
             read == [source |-> s, version |-> bundle[s].version, seen |-> seen]
  <2>1. ASSUME NEW k \in UnitKeys
        PROVE  units[<<s, k>>] \in UnitRows
    BY DEF TypeOK, WorkUnits
  <2>2. seen \in [UnitKeys -> [by : Users \cup {NoUser}, generation : Nat]]
    BY <2>1 DEF UnitRows
  <2>3. bundle[s].version \in Nat
    BY DEF TypeOK, BundleRows
  <2> HIDE DEF seen
  <2>4. read \in Plans
    BY <2>2, <2>3 DEF Plans
  <2>5. plan' = [plan EXCEPT ![a] = read]
    BY <1>7 DEF Inspect, seen
  <2> HIDE DEF read
  <2>6. plan' \in [Admins -> Plans \cup {NoPlan}]
    BY <2>4, <2>5 DEF TypeOK
  <2>7. QED  BY <1>7, <2>6 DEF TypeOK, Inspect
<1>8. ASSUME NEW a \in Admins, Reassign(a)
      PROVE  TypeOK'
  <2> DEFINE s == plan[a].source
  <2>1. s \in Sources
    BY <1>8 DEF TypeOK, Reassign, Plans
  <2>2. PICK R \in (SUBSET Users) \ {{}} : \E work \in Assignments(R), takeover \in SUBSET UnitKeys :
          \E rewritten \in SUBSET (DOMAIN work) : Reroute(s, R, work, takeover, rewritten)
    BY <1>8 DEF Reassign
  <2>12. PICK work \in Assignments(R), takeover \in SUBSET UnitKeys :
           \E rewritten \in SUBSET (DOMAIN work) : Reroute(s, R, work, takeover, rewritten)
    BY <2>2
  <2>13. PICK rewritten \in SUBSET (DOMAIN work) : Reroute(s, R, work, takeover, rewritten)
    BY <2>12
  <2> HIDE DEF s
  <2>3. bundle' \in [Sources -> BundleRows]
    BY <2>1, <2>13 DEF TypeOK, Reroute, BundleRows
  <2>4. ASSUME NEW w \in WorkUnits
        PROVE  (IF w[1] = s THEN Reassigned(units[w], w[2], work, takeover, rewritten)
                ELSE units[w]) \in UnitRows
    BY ReassignedRow DEF TypeOK, WorkUnits
  <2>5. units' \in [WorkUnits -> UnitRows]
    BY <2>13, <2>4 DEF Reroute
  <2> DEFINE next == {d \in deliveries[s] : d.to \in R}
                     \cup Revoked({d \in deliveries[s] : d.to \notin R})
                     \cup Sent(R \ Recipients(s), bundle[s].version + 1)
  <2>6. deliveries' = [deliveries EXCEPT ![s] = next]
    BY <2>13 DEF Reroute
  <2>7. deliveries[s] \in SUBSET DeliveryRows /\ bundle[s].version + 1 \in Nat
    BY <2>1 DEF TypeOK, BundleRows
  <2>8. Sent(R \ Recipients(s), bundle[s].version + 1) \in SUBSET DeliveryRows
    BY <2>7, SentAre
  <2>9. next \in SUBSET DeliveryRows
    BY <2>7, <2>8, RevokedAre
  <2> HIDE DEF next
  <2>10. deliveries' \in [Sources -> SUBSET DeliveryRows]
    BY <2>6, <2>9 DEF TypeOK
  <2>11. QED  BY <2>13, <2>3, <2>5, <2>10 DEF TypeOK, Reroute
<1>9. ASSUME NEW w \in WorkUnits, NEW u \in Users, NEW t \in Tokens, Claim(w, u, t)
      PROVE  TypeOK'
  <2> DEFINE lease == Lower(bundle[w[1]].expires, now + policy.body.lease)
             entry == [by |-> u, token |-> t, generation |-> units[w].generation + 1]
  <2>1. units[w] \in UnitRows /\ w[1] \in Sources
    BY DEF TypeOK, WorkUnits
  <2>2. lease \in Nat
    BY <2>1, PolicyBounds DEF TypeOK, Lower, BundleRows
  <2>3. entry \in ClaimRows
    BY <2>1 DEF ClaimRows, UnitRows
  <2>4. /\ units' = [units EXCEPT ![w] = Taken(units[w], u, t, lease)]
        /\ claims' = [claims EXCEPT ![w] = @ \cup {entry}]
    BY <1>9 DEF Claim
  <2> HIDE DEF lease, entry
  <2>5. Taken(units[w], u, t, lease) \in UnitRows
    BY <2>1, <2>2, TakenRow
  <2>6. units' \in [WorkUnits -> UnitRows] /\ claims' \in [WorkUnits -> SUBSET ClaimRows]
    BY <2>3, <2>4, <2>5 DEF TypeOK
  <2>7. QED  BY <1>9, <2>6 DEF TypeOK, Claim
<1>10. ASSUME NEW w \in WorkUnits, NEW d \in 1..MaxTime, NEW g \in claims[w], Renew(w, g, d)
       PROVE  TypeOK'
  <2>1. units[w] \in UnitRows /\ w[1] \in Sources
    BY DEF TypeOK, WorkUnits
  <2>2. Higher(units[w].lease, Lower(d, bundle[w[1]].expires)) \in Nat
    BY <2>1, BoundsAreNat DEF TypeOK, Lower, Higher, BundleRows, UnitRows
  <2>3. units' = [units EXCEPT ![w].lease = Higher(units[w].lease, Lower(d, bundle[w[1]].expires))]
    BY <1>10 DEF Renew, TypeOK
  <2>4. units' \in [WorkUnits -> UnitRows]
    BY <2>1, <2>2, <2>3 DEF TypeOK, UnitRows
  <2>5. QED  BY <1>10, <2>4 DEF TypeOK, Renew
<1>11. ASSUME NEW w \in WorkUnits, NEW state \in {"available", "completed"}, NEW g \in claims[w],
              Release(w, g, state)
       PROVE  TypeOK'
  <2>1. units[w] \in UnitRows /\ state \in States /\ g \in ClaimRows
    BY DEF TypeOK, States, Terminal
  <2>2. Returned(units[w], state) \in UnitRows
    BY <2>1, ReturnedRow
  <2>3. units' \in [WorkUnits -> UnitRows]
    BY <1>11, <2>2 DEF TypeOK, Release
  <2>4. [by |-> g.by, token |-> g.token, generation |-> g.generation, state |-> state] \in ReleaseRows
    BY <2>1 DEF ClaimRows, ReleaseRows
  <2>5. releases' \in [WorkUnits -> SUBSET ReleaseRows]
    BY <1>11, <2>4 DEF TypeOK, Release
  <2>6. QED  BY <1>11, <2>3, <2>5 DEF TypeOK, Release
<1>12. CASE Tick
  BY <1>12 DEF TypeOK, Tick
<1>13. CASE UNCHANGED vars
  BY <1>13 DEF TypeOK, vars
<1>14. QED
  BY <1>1, <1>2, <1>3, <1>4, <1>5, <1>6, <1>7, <1>8, <1>9, <1>10, <1>11, <1>12, <1>13 DEF Next

(***************************************************************************)
(* The inductive invariant: what a source, its bundle and its deliveries   *)
(* are to each other, and what a unit and its claims are to them.          *)
(***************************************************************************)

SourceInv(s) ==
  /\ Published(s) => source[s] # NoSource /\ bundle[s].expires <= source[s].expires
  /\ ~Published(s) => deliveries[s] = {}
  /\ bundle[s].revoked <=> (Published(s) /\ source[s].forgotten)
  /\ source[s].forgotten => Live(deliveries[s]) = {}
  /\ \A d, e \in Live(deliveries[s]) : d.to = e.to => d = e
  /\ \A d \in deliveries[s] : d.to # source[s].from

\* What a unit is to its source.
Placed(w) ==
  /\ ~Published(w[1]) => units[w].state = "absent"
  /\ units[w].state = "absent" =>
       units[w].generation = 0 /\ units[w].assignees = {} /\ claims[w] = {}
  /\ units[w].state \in {"available", "claimed"} =>
       units[w].assignees # {} /\ units[w].assignees \subseteq Recipients(w[1])
  /\ source[w[1]].forgotten => units[w].state \in {"absent", "cancelled"}
  /\ source[w[1]].from \notin units[w].assignees

\* What a unit is to its claims and releases.
Claimed(w) ==
  /\ units[w].state = "claimed" =>
       /\ units[w].by \in units[w].assignees /\ units[w].lease <= bundle[w[1]].expires
       /\ [by |-> units[w].by, token |-> units[w].token,
           generation |-> units[w].generation] \in claims[w]
  /\ \A g \in claims[w] : g.by # source[w[1]].from /\ g.generation <= units[w].generation
  /\ \A g, h \in claims[w] :
       g.generation = h.generation \/ (g.by = h.by /\ g.token = h.token) => g = h
  /\ \A q \in releases[w] :
       /\ q.generation <= units[w].generation
       /\ units[w].state = "claimed" => q.generation # units[w].generation

WorkInv ==
  /\ TypeOK
  /\ \A s \in Sources : SourceInv(s)
  /\ \A w \in WorkUnits : Placed(w)
  /\ \A w \in WorkUnits : Claimed(w)

\* A source of which nothing moves stays in order.
LEMMA SourceFrame ==
  ASSUME NEW s \in Sources, SourceInv(s),
         source'[s] = source[s], bundle'[s] = bundle[s], deliveries'[s] = deliveries[s]
  PROVE  SourceInv(s)'
BY DEF SourceInv, Published, Live

\* And so does a unit whose source keeps its recipients.
LEMMA PlacedFrame ==
  ASSUME NEW w \in WorkUnits, Placed(w), source'[w[1]] = source[w[1]], Published(w[1])' = Published(w[1]),
         units'[w] = units[w], claims'[w] = claims[w], Recipients(w[1]) \subseteq Recipients(w[1])'
  PROVE  Placed(w)'
BY DEF Placed

\* As to its claims, its source need only keep its sender.
LEMMA ClaimedFrame ==
  ASSUME NEW w \in WorkUnits, Claimed(w), source'[w[1]].from = source[w[1]].from,
         bundle'[w[1]].expires = bundle[w[1]].expires,
         units'[w] = units[w], claims'[w] = claims[w], releases'[w] = releases[w]
  PROVE  Claimed(w)'
BY DEF Claimed

\* The sources, for every unit.
LEMMA UnitsHaveSources ==
  /\ \A w \in WorkUnits : w[1] \in Sources /\ w[2] \in UnitKeys /\ w = <<w[1], w[2]>>
  /\ \A s \in Sources, k \in UnitKeys : <<s, k>> \in WorkUnits
BY DEF WorkUnits

\* Unless something is published or routed, deliveries keep the recipients.
LEMMA SameRecipients ==
  ASSUME NEW s \in Sources, deliveries'[s] = deliveries[s]
  PROVE  Recipients(s)' = Recipients(s)
BY DEF Recipients, Live

\* A new source changes nothing else.
LEMMA NewSource ==
  ASSUME WorkInv, NEW s \in Sources, source[s] = NoSource, NEW row \in SourceRows,
         ~row.forgotten, source' = [source EXCEPT ![s] = row],
         UNCHANGED <<bundle, deliveries, units, claims, releases>>
  PROVE  /\ \A x \in Sources : SourceInv(x)'
         /\ \A w \in WorkUnits : Placed(w)' /\ Claimed(w)'
<1>1. ~Published(s) /\ deliveries[s] = {} /\ ~bundle[s].revoked /\ source'[s] = row
  BY DEF WorkInv, SourceInv, TypeOK
<1>2. \A x \in Sources : x # s => source'[x] = source[x]
  BY DEF WorkInv, TypeOK
<1>3. SourceInv(s)'
  BY <1>1 DEF SourceInv, Published, Live
<1>4. ASSUME NEW x \in Sources, x # s
      PROVE  SourceInv(x)'
  BY <1>2, <1>4, SourceFrame DEF WorkInv
<1>5. ASSUME NEW w \in WorkUnits
      PROVE  Placed(w)' /\ Claimed(w)'
  <2>1. CASE w[1] = s
    <3>1. units[w].state = "absent" /\ claims[w] = {} /\ units[w].assignees = {}
      BY <1>1, <2>1 DEF WorkInv, Placed
    <3>2. Placed(w)'
      BY <1>1, <2>1, <3>1 DEF WorkInv, Placed, Published
    <3>3. Claimed(w)'
      BY <3>1 DEF WorkInv, Claimed
    <3>4. QED  BY <3>2, <3>3
  <2>2. CASE w[1] # s
    <3>1. w[1] \in Sources /\ source'[w[1]] = source[w[1]]
      BY <1>2, <2>2, UnitsHaveSources
    <3>2. Placed(w)'
      BY <3>1, PlacedFrame, SameRecipients DEF WorkInv, Published
    <3>3. Claimed(w)'
      BY <3>1, ClaimedFrame DEF WorkInv
    <3>4. QED  BY <3>2, <3>3
  <2>3. QED  BY <2>1, <2>2
<1>6. QED  BY <1>3, <1>4, <1>5

\* Publication puts one source and its units in order, and no others.
LEMMA PublishKeeps ==
  ASSUME WorkInv, NEW s \in Sources, NEW u \in Users, NEW R \in (SUBSET Users) \ {{}},
         NEW v \in 0..MaxPolicy, NEW work \in Assignments(R), Publish(s, u, R, work, v)
  PROVE  /\ \A x \in Sources : SourceInv(x)'
         /\ \A w \in WorkUnits : Placed(w)' /\ Claimed(w)'
<1> DEFINE row == [version |-> 1, revoked |-> FALSE,
                   expires |-> Lower(source[s].expires, now + policy.body.retention)]
<1>1. bundle' = [bundle EXCEPT ![s] = row] /\ deliveries' = [deliveries EXCEPT ![s] = Sent(R, 1)]
  BY DEF Publish
<1>2. row.version = 1 /\ ~row.revoked /\ row.expires <= source[s].expires
  BY PolicyBounds DEF WorkInv, TypeOK, SourceRows, Lower
<1> HIDE DEF row
<1>3. /\ bundle'[s] = row /\ deliveries'[s] = Sent(R, 1)
      /\ \A x \in Sources : x # s => bundle'[x] = bundle[x] /\ deliveries'[x] = deliveries[x]
  BY <1>1 DEF WorkInv, TypeOK
<1>4. /\ ~Published(s) /\ source[s] # NoSource /\ ~source[s].forgotten
      /\ source' = source /\ claims' = claims /\ releases' = releases
      /\ \A w \in WorkUnits : units'[w] = IF w[1] = s /\ w[2] \in DOMAIN work
                                          THEN Fresh(work[w[2]]) ELSE units[w]
  BY DEF Publish, Published
<1>5. /\ \A d \in Sent(R, 1) : d.to \in R /\ d.live
      /\ \A d, e \in Sent(R, 1) : d.to = e.to => d = e
      /\ \A x \in R : \E d \in Sent(R, 1) : d.to = x
  BY SentAre
<1>6. source[s].from \notin R
  BY DEF Publish, Eligible
<1>7. Recipients(s)' = R
  BY <1>3, <1>5 DEF Recipients, Live
<1>8. SourceInv(s)'
  <2>1. Published(s)' /\ bundle'[s].expires <= source'[s].expires /\ ~bundle'[s].revoked
    BY <1>2, <1>3, <1>4 DEF Published
  <2>2. \A d, e \in Live(deliveries[s])' : d.to = e.to => d = e
    BY <1>3, <1>5 DEF Live
  <2>3. \A d \in deliveries'[s] : d.to # source'[s].from
    BY <1>3, <1>4, <1>5, <1>6
  <2>4. QED  BY <1>4, <2>1, <2>2, <2>3 DEF SourceInv
<1>9. ASSUME NEW x \in Sources, x # s
      PROVE  SourceInv(x)'
  BY <1>3, <1>4, <1>9, SourceFrame DEF WorkInv
<1>10. ASSUME NEW w \in WorkUnits
       PROVE  Placed(w)' /\ Claimed(w)'
  <2>1. w[1] \in Sources /\ w[2] \in UnitKeys
    BY UnitsHaveSources
  <2>2. CASE w[1] # s
    <3>1. /\ units'[w] = units[w] /\ bundle'[w[1]] = bundle[w[1]]
          /\ deliveries'[w[1]] = deliveries[w[1]]
      BY <1>3, <1>4, <2>1, <2>2
    <3>2. QED
      BY <1>4, <2>1, <3>1, PlacedFrame, ClaimedFrame, SameRecipients DEF WorkInv, Published
  <2>3. CASE w[1] = s
    <3>1. units[w].state = "absent" /\ units[w].assignees = {} /\ claims[w] = {}
          /\ units[w].generation = 0
      BY <1>4, <2>3 DEF WorkInv, Placed
    <3>2. \A q \in releases[w] : q.generation <= 0
      BY <3>1 DEF WorkInv, Claimed
    <3>3. \/ units'[w] = units[w]
          \/ /\ units'[w].state = "available" /\ units'[w].generation = 0
             /\ units'[w].assignees # {} /\ units'[w].assignees \subseteq R
      BY <1>4, AssignmentIs, FreshRow
    <3>4. Published(s)'
      BY <1>2, <1>3 DEF Published
    <3>5. Placed(w)'
      BY <1>4, <1>6, <1>7, <2>3, <3>1, <3>3, <3>4 DEF Placed
    <3>6. Claimed(w)'
      BY <1>4, <2>3, <3>1, <3>2, <3>3 DEF Claimed
    <3>7. QED  BY <3>5, <3>6
  <2>4. QED  BY <2>2, <2>3
<1>11. QED  BY <1>8, <1>9, <1>10

\* An acknowledgement settles a delivery, which still has its recipient.
LEMMA AckKeeps ==
  ASSUME WorkInv, NEW s \in Sources, NEW d \in deliveries[s], Ack(s, d)
  PROVE  /\ \A x \in Sources : SourceInv(x)'
         /\ \A w \in WorkUnits : Placed(w)' /\ Claimed(w)'
<1> DEFINE e == [d EXCEPT !.acked = TRUE]
<1>1. deliveries' = [deliveries EXCEPT ![s] = (deliveries[s] \ {d}) \cup {e}]
  BY DEF Ack, WorkInv, TypeOK
<1>2. d \in DeliveryRows
  BY DEF WorkInv, TypeOK
<1>3. e.to = d.to /\ e.live = d.live
  BY <1>2 DEF DeliveryRows
<1>4. d.live /\ Retained(s) /\ UNCHANGED <<source, bundle, units, claims, releases>>
  BY DEF Ack
<1> HIDE DEF e
<1>5. /\ deliveries'[s] = (deliveries[s] \ {d}) \cup {e}
      /\ \A x \in Sources : x # s => deliveries'[x] = deliveries[x]
  BY <1>1 DEF WorkInv, TypeOK
<1>6. Recipients(s)' = Recipients(s)
  BY <1>3, <1>4, <1>5 DEF Recipients, Live
<1>7. SourceInv(s)'
  <2>1. \A x, y \in Live(deliveries[s])' : x.to = y.to => x = y
    BY <1>3, <1>4, <1>5 DEF Live, WorkInv, SourceInv
  <2>2. ~source[s].forgotten /\ Published(s)
    BY <1>4 DEF Retained, WorkInv, SourceInv
  <2>3. \A x \in deliveries'[s] : x.to # source'[s].from
    BY <1>3, <1>4, <1>5 DEF WorkInv, SourceInv
  <2>4. QED  BY <1>4, <2>1, <2>2, <2>3 DEF WorkInv, SourceInv, Published
<1>8. ASSUME NEW x \in Sources, x # s
      PROVE  SourceInv(x)'
  BY <1>4, <1>5, <1>8, SourceFrame DEF WorkInv
<1>9. ASSUME NEW w \in WorkUnits
      PROVE  Placed(w)' /\ Claimed(w)'
  <2>1. w[1] \in Sources
    BY UnitsHaveSources
  <2>2. Recipients(w[1])' = Recipients(w[1])
    BY <1>5, <1>6, <2>1, SameRecipients
  <2>3. QED  BY <1>4, <2>1, <2>2, PlacedFrame, ClaimedFrame DEF WorkInv, Published
<1>10. QED  BY <1>7, <1>8, <1>9

\* Erasure leaves nothing in force.
LEMMA ForgetKeeps ==
  ASSUME WorkInv, NEW c \in Checkpoints, Forget(c)
  PROVE  /\ \A x \in Sources : SourceInv(x)'
         /\ \A w \in WorkUnits : Placed(w)' /\ Claimed(w)'
<1>1. c \in Sources
  BY DEF Sources
<1>2. /\ source'[c] = [source[c] EXCEPT !.forgotten = TRUE]
      /\ deliveries'[c] = Revoked(deliveries[c]) /\ claims' = claims /\ releases' = releases
      /\ source[c] # NoSource /\ ~source[c].forgotten
      /\ \A x \in Sources : x # c => source'[x] = source[x] /\ deliveries'[x] = deliveries[x]
  BY <1>1 DEF Forget, WorkInv, TypeOK
<1>3. source'[c].forgotten /\ source'[c].from = source[c].from /\ source'[c].expires = source[c].expires
  BY <1>1, <1>2 DEF WorkInv, TypeOK, SourceRows
<1>4. /\ bundle'[c].expires = bundle[c].expires /\ Published(c)' = Published(c)
      /\ Published(c) => bundle'[c].revoked
      /\ ~Published(c) => bundle'[c] = bundle[c]
      /\ \A x \in Sources : x # c => bundle'[x] = bundle[x]
  BY <1>1 DEF Forget, WorkInv, TypeOK, BundleRows, Published
<1>5. /\ \A d \in deliveries'[c] : ~d.live /\ \E e \in deliveries[c] : e.to = d.to
  BY <1>1, <1>2, RevokedAre DEF WorkInv, TypeOK
<1>6. SourceInv(c)'
  <2>1. Live(deliveries[c])' = {}
    BY <1>5 DEF Live
  <2>2. \A d \in deliveries'[c] : d.to # source'[c].from
    BY <1>1, <1>3, <1>5 DEF WorkInv, SourceInv
  <2>3. source'[c] # NoSource
    BY <1>3, SourceRowsAreThere
  <2>4. ~Published(c) => deliveries'[c] = {}
    BY <1>1, <1>5 DEF WorkInv, SourceInv
  <2>5. bundle'[c].revoked <=> Published(c)
    BY <1>1, <1>4 DEF WorkInv, SourceInv
  <2>6. Published(c) => bundle'[c].expires <= source'[c].expires
    BY <1>1, <1>3, <1>4 DEF WorkInv, SourceInv
  <2>7. QED  BY <1>3, <1>4, <2>1, <2>2, <2>3, <2>4, <2>5, <2>6 DEF SourceInv
<1>7. ASSUME NEW x \in Sources, x # c
      PROVE  SourceInv(x)'
  BY <1>2, <1>4, <1>7, SourceFrame DEF WorkInv
<1>8. ASSUME NEW w \in WorkUnits
      PROVE  Placed(w)' /\ Claimed(w)'
  <2>1. w[1] \in Sources /\ units[w] \in UnitRows
    BY UnitsHaveSources DEF WorkInv, TypeOK
  <2>2. units'[w] = IF w[1] = c /\ units[w].state # "absent"
                    THEN Fenced(units[w], "cancelled", units[w].assignees) ELSE units[w]
    BY DEF Forget
  <2>3. CASE w[1] # c
    BY <1>2, <1>4, <2>1, <2>2, <2>3, PlacedFrame, ClaimedFrame, SameRecipients DEF WorkInv, Published
  <2>4. CASE w[1] = c /\ units[w].state = "absent"
    <3>1. Placed(w)'
      BY <1>2, <1>3, <1>4, <2>2, <2>4 DEF WorkInv, Placed
    <3>2. Claimed(w)'
      BY <1>2, <1>3, <1>4, <2>2, <2>4, ClaimedFrame DEF WorkInv
    <3>3. QED  BY <3>1, <3>2
  <2>5. CASE w[1] = c /\ units[w].state # "absent"
    <3>1. "cancelled" \in States /\ units[w].assignees \in SUBSET Users
      BY <2>1 DEF States, Terminal, UnitRows
    <3>2. /\ units'[w].state = "cancelled" /\ units'[w].assignees = units[w].assignees
          /\ units'[w].generation = units[w].generation + 1
      BY <2>1, <2>2, <2>5, <3>1, FencedRow
    <3>3. Placed(w)'
      BY <1>2, <1>3, <1>4, <2>5, <3>2 DEF WorkInv, Placed
    <3>4. /\ \A g \in claims[w] : g.generation \in Nat
          /\ \A q \in releases[w] : q.generation \in Nat
          /\ units[w].generation \in Nat
      BY <2>1 DEF WorkInv, TypeOK, ClaimRows, ReleaseRows, UnitRows
    <3>5. /\ claims'[w] = claims[w] /\ releases'[w] = releases[w]
          /\ source'[w[1]].from = source[w[1]].from
      BY <1>2, <1>3, <2>5
    <3>6. Claimed(w)
      BY DEF WorkInv
    <3>7. Claimed(w)'
      BY <3>2, <3>4, <3>5, <3>6 DEF Claimed
    <3>8. QED  BY <3>3, <3>7
  <2>6. QED  BY <2>3, <2>4, <2>5
<1>9. QED  BY <1>6, <1>7, <1>8

\* A reassignment leaves exactly its recipients, and gives open work to them.
LEMMA RerouteKeeps ==
  ASSUME WorkInv, NEW s \in Sources, Retained(s), NEW R \in (SUBSET Users) \ {{}},
         NEW work \in Assignments(R), NEW takeover, NEW rewritten,
         Reroute(s, R, work, takeover, rewritten)
  PROVE  /\ \A x \in Sources : SourceInv(x)'
         /\ \A w \in WorkUnits : Placed(w)' /\ Claimed(w)'
<1> DEFINE kept == {d \in deliveries[s] : d.to \in R}
           ended == Revoked({d \in deliveries[s] : d.to \notin R})
           sent == Sent(R \ Recipients(s), bundle[s].version + 1)
<1>1. deliveries' = [deliveries EXCEPT ![s] = kept \cup ended \cup sent]
  BY DEF Reroute
<1>2. /\ bundle[s].version \in Nat /\ bundle[s].version + 1 \in Nat /\ bundle[s].version > 0
      /\ deliveries[s] \in SUBSET DeliveryRows /\ source[s].from \notin R
  BY DEF WorkInv, TypeOK, BundleRows, Retained, Published, Reroute, Eligible
<1>3. /\ \A d \in ended : ~d.live /\ \E e \in deliveries[s] : e.to = d.to
  BY <1>2, RevokedAre
<1>4. /\ \A d \in sent : d.to \in R \ Recipients(s) /\ d.live
      /\ \A d, e \in sent : d.to = e.to => d = e
      /\ \A x \in R \ Recipients(s) : \E d \in sent : d.to = x
  <2> DEFINE N == R \ Recipients(s)
  <2>1. N \in SUBSET Users
    OBVIOUS
  <2> HIDE DEF N
  <2>2. /\ \A d \in Sent(N, bundle[s].version + 1) : d.to \in N /\ d.live
        /\ \A d, e \in Sent(N, bundle[s].version + 1) : d.to = e.to => d = e
        /\ \A x \in N : \E d \in Sent(N, bundle[s].version + 1) : d.to = x
    BY <1>2, <2>1, SentAre
  <2>3. QED  BY <2>2 DEF N
<1>5. \A d \in kept : d \in deliveries[s] /\ d.to \in R
  OBVIOUS
<1>6. \A d \in deliveries[s] : d.to \in R => d \in kept
  OBVIOUS
<1> HIDE DEF kept, ended, sent
<1>7. /\ deliveries'[s] = kept \cup ended \cup sent
      /\ \A x \in Sources : x # s => deliveries'[x] = deliveries[x]
  BY <1>1 DEF WorkInv, TypeOK
<1>8. /\ UNCHANGED <<source, claims, releases>>
      /\ \A x \in Sources : x # s => bundle'[x] = bundle[x]
      /\ bundle'[s].expires = bundle[s].expires /\ bundle'[s].revoked = bundle[s].revoked
      /\ Published(s) /\ Published(s)'
      /\ \A x \in Sources : x # s => Published(x)' = Published(x)
  BY <1>2 DEF Reroute, WorkInv, TypeOK, BundleRows, Published
<1>9. ~source[s].forgotten
  BY <1>8 DEF Retained, WorkInv, SourceInv
<1>10. Recipients(s)' = R
  <2>1. \A d \in Live(deliveries[s])' : d.to \in R
    BY <1>3, <1>4, <1>5, <1>7 DEF Live
  <2>2. ASSUME NEW u \in R
        PROVE  \E d \in Live(deliveries[s])' : d.to = u
    <3>1. CASE u \in Recipients(s)
      BY <1>6, <1>7, <2>2, <3>1 DEF Recipients, Live
    <3>2. CASE u \notin Recipients(s)
      BY <1>4, <1>7, <2>2, <3>2 DEF Live
    <3>3. QED  BY <3>1, <3>2
  <2>3. QED  BY <2>1, <2>2 DEF Recipients
<1>11. SourceInv(s)'
  <2>1. ASSUME NEW d \in Live(deliveries[s])', NEW e \in Live(deliveries[s])', d.to = e.to
        PROVE  d = e
    <3>1. d \in kept \cup sent /\ e \in kept \cup sent /\ d.live /\ e.live
      BY <1>3, <1>7 DEF Live
    <3>2. CASE d \in kept /\ e \in kept
      BY <1>5, <2>1, <3>1, <3>2 DEF WorkInv, SourceInv, Live
    <3>3. CASE d \in sent /\ e \in sent
      BY <1>4, <2>1, <3>3
    <3>4. ASSUME NEW x \in kept, x.live, NEW y \in sent
          PROVE  x.to # y.to
      BY <1>4, <1>5, <3>4 DEF Recipients, Live
    <3>5. QED  BY <2>1, <3>1, <3>2, <3>3, <3>4
  <2>2. \A d \in deliveries'[s] : d.to # source'[s].from
    BY <1>2, <1>3, <1>4, <1>5, <1>7, <1>8 DEF WorkInv, SourceInv
  <2>3. QED  BY <1>8, <1>9, <2>1, <2>2 DEF WorkInv, SourceInv
<1>12. ASSUME NEW x \in Sources, x # s
       PROVE  SourceInv(x)'
  BY <1>7, <1>8, <1>12, SourceFrame DEF WorkInv
<1>13. ASSUME NEW w \in WorkUnits, w[1] = s
       PROVE  Placed(w)' /\ Claimed(w)'
  <2> DEFINE r == units[w]
             f == Reassigned(r, w[2], work, takeover, rewritten)
  <2>1. w[2] \in UnitKeys /\ r \in UnitRows /\ w = <<s, w[2]>>
    BY <1>13, UnitsHaveSources DEF WorkInv, TypeOK
  <2>2. units'[w] = f
    BY <1>13 DEF Reroute
  <2>3. \/ r.state = "absent" /\ w[2] \in DOMAIN work /\ f = Fresh(work[w[2]])
        \/ f = r /\ \/ r.state = "absent" \/ r.state \in Terminal
                    \/ ~Changed(r, w[2], work, rewritten) /\ ~Forced(r, w[2], takeover)
        \/ /\ r.state \in {"available", "claimed"} /\ w[2] \in DOMAIN work
           /\ f = Fenced(r, "available", work[w[2]])
        \/ /\ r.state \in {"available", "claimed"} /\ w[2] \notin DOMAIN work
           /\ f = Fenced(r, "cancelled", r.assignees)
    BY <2>1, ReassignedRow
  <2>4. /\ claims'[w] = claims[w] /\ releases'[w] = releases[w] /\ source'[w[1]] = source[w[1]]
        /\ Published(w[1])' /\ Recipients(w[1])' = R /\ ~source[w[1]].forgotten
        /\ source[w[1]].from \notin R /\ bundle'[w[1]].expires = bundle[w[1]].expires
    BY <1>2, <1>8, <1>9, <1>10, <1>13
  <2>5. /\ \A g \in claims[w] : g.generation \in Nat
        /\ \A q \in releases[w] : q.generation \in Nat
        /\ r.generation \in Nat /\ r.assignees \in SUBSET Users
    BY <2>1 DEF WorkInv, TypeOK, ClaimRows, ReleaseRows, UnitRows
  <2>6. w[2] \in DOMAIN work => work[w[2]] # {} /\ work[w[2]] \subseteq R /\ work[w[2]] \in SUBSET Users
    BY AssignmentIs
  <2>7. Placed(w) /\ Claimed(w)
    BY DEF WorkInv
  <2> HIDE DEF f
  <2>8. CASE r.state = "absent" /\ w[2] \in DOMAIN work /\ f = Fresh(work[w[2]])
    <3>1. /\ units'[w].state = "available" /\ units'[w].assignees = work[w[2]]
          /\ units'[w].generation = 0
      BY <2>2, <2>6, <2>8, FreshRow
    <3>2. Placed(w)'
      BY <2>4, <2>6, <2>8, <3>1 DEF Placed
    <3>3. Claimed(w)'
      BY <2>4, <2>7, <2>8, <3>1 DEF Claimed, Placed
    <3>4. QED  BY <3>2, <3>3
  <2>9. CASE f = r /\ \/ r.state = "absent" \/ r.state \in Terminal
                      \/ ~Changed(r, w[2], work, rewritten) /\ ~Forced(r, w[2], takeover)
    <3>1. r.state \in {"available", "claimed"} => r.assignees \subseteq R
      BY <2>6, <2>9 DEF Changed, Terminal
    <3>2. Placed(w)'
      BY <2>2, <2>4, <2>7, <2>9, <3>1 DEF Placed
    <3>3. Claimed(w)'
      BY <2>2, <2>4, <2>7, <2>9, ClaimedFrame
    <3>4. QED  BY <3>2, <3>3
  <2>10. CASE \E state \in {"available", "cancelled"} :
                /\ r.state \in {"available", "claimed"}
                /\ \/ w[2] \in DOMAIN work /\ f = Fenced(r, "available", work[w[2]])
                   \/ f = Fenced(r, "cancelled", r.assignees)
    <3>1. "available" \in States /\ "cancelled" \in States
      BY DEF States, Terminal
    <3>2. /\ units'[w].generation = r.generation + 1
          /\ \/ units'[w].state = "available" /\ units'[w].assignees # {} /\ units'[w].assignees \subseteq R
             \/ units'[w].state = "cancelled" /\ units'[w].assignees = r.assignees
      BY <2>1, <2>2, <2>5, <2>6, <2>10, <3>1, FencedRow
    <3>3. Placed(w)'
      BY <2>4, <2>7, <3>2 DEF Placed
    <3>4. Claimed(w)'
      BY <2>4, <2>5, <2>7, <3>2 DEF Claimed
    <3>5. QED  BY <3>3, <3>4
  <2>11. QED  BY <2>3, <2>8, <2>9, <2>10
<1>14. ASSUME NEW w \in WorkUnits, w[1] # s
       PROVE  Placed(w)' /\ Claimed(w)'
  <2>1. w[1] \in Sources /\ units'[w] = units[w]
    BY <1>14, UnitsHaveSources DEF Reroute
  <2>2. QED
    BY <1>7, <1>8, <1>14, <2>1, PlacedFrame, ClaimedFrame, SameRecipients DEF WorkInv
<1>15. QED  BY <1>11, <1>12, <1>13, <1>14

\* What one owner does leaves the sources and the other units alone.
LEMMA OthersKept ==
  ASSUME WorkInv, NEW w \in WorkUnits, NEW c, NEW q,
         claims' = [claims EXCEPT ![w] = c], releases' = [releases EXCEPT ![w] = q],
         UNCHANGED <<source, bundle, deliveries>>, \A x \in WorkUnits : x # w => units'[x] = units[x]
  PROVE  /\ \A s \in Sources : SourceInv(s)'
         /\ \A x \in WorkUnits : x # w => Placed(x)' /\ Claimed(x)'
<1>1. \A s \in Sources : SourceInv(s)'
  BY SourceFrame DEF WorkInv
<1>2. ASSUME NEW x \in WorkUnits, x # w
      PROVE  Placed(x)' /\ Claimed(x)'
  <2>1. /\ claims'[x] = claims[x] /\ releases'[x] = releases[x] /\ units'[x] = units[x]
        /\ x[1] \in Sources
    BY <1>2, UnitsHaveSources DEF WorkInv, TypeOK
  <2>2. QED  BY <2>1, PlacedFrame, ClaimedFrame, SameRecipients DEF WorkInv, Published
<1>3. QED  BY <1>1, <1>2

\* A claim comes under a generation of its own, with a token not used before.
LEMMA ClaimKeeps ==
  ASSUME WorkInv, NEW w \in WorkUnits, NEW u \in Users, NEW t \in Tokens, Claim(w, u, t)
  PROVE  /\ \A s \in Sources : SourceInv(s)'
         /\ \A x \in WorkUnits : Placed(x)' /\ Claimed(x)'
<1> DEFINE r == units[w]
           lease == Lower(bundle[w[1]].expires, now + policy.body.lease)
           entry == [by |-> u, token |-> t, generation |-> r.generation + 1]
<1>1. r \in UnitRows /\ w[1] \in Sources /\ r.generation \in Nat
  BY UnitsHaveSources DEF WorkInv, TypeOK, UnitRows
<1>2. lease \in Nat /\ lease <= bundle[w[1]].expires
  BY <1>1, PolicyBounds DEF WorkInv, TypeOK, BundleRows, Lower
<1>3. /\ units' = [units EXCEPT ![w] = Taken(r, u, t, lease)]
      /\ claims' = [claims EXCEPT ![w] = claims[w] \cup {entry}]
      /\ UNCHANGED <<source, bundle, deliveries, releases>>
      /\ r.state \in {"available", "claimed"} /\ u \in r.assignees /\ ~Spent(w, u, t)
  BY DEF Claim, OpenTo, Located, WorkInv, TypeOK
<1>4. entry.by = u /\ entry.token = t /\ entry.generation = r.generation + 1
  OBVIOUS
<1> HIDE DEF lease
<1>5. /\ units'[w] = Taken(r, u, t, lease) /\ claims'[w] = claims[w] \cup {entry}
      /\ \A x \in WorkUnits : x # w => units'[x] = units[x]
      /\ releases' = [releases EXCEPT ![w] = releases[w]] /\ releases'[w] = releases[w]
  BY <1>3 DEF WorkInv, TypeOK
<1>6. /\ units'[w].state = "claimed" /\ units'[w].by = u /\ units'[w].token = t
      /\ units'[w].lease = lease /\ units'[w].generation = r.generation + 1
      /\ units'[w].assignees = r.assignees
  BY <1>1, <1>2, <1>5, TakenRow
<1>7. Placed(w) /\ Claimed(w)
  BY DEF WorkInv
<1>8. /\ \A g \in claims[w] : g.generation \in Nat
      /\ \A q \in releases[w] : q.generation \in Nat
  BY DEF WorkInv, TypeOK, ClaimRows, ReleaseRows
<1>9. Placed(w)'
  BY <1>1, <1>3, <1>6, <1>7, SameRecipients DEF Placed, Published
<1>10. [by |-> units'[w].by, token |-> units'[w].token, generation |-> units'[w].generation] \in claims'[w]
  BY <1>5, <1>6
<1> HIDE DEF entry, r
<1>11. Claimed(w)'
  <2>1. \A g \in claims'[w] : g.by # source'[w[1]].from /\ g.generation <= units'[w].generation
    BY <1>1, <1>3, <1>4, <1>5, <1>6, <1>7, <1>8 DEF Claimed, Placed, r
  <2>2. \A g \in claims[w] : g.generation # entry.generation /\ ~(g.by = u /\ g.token = t)
    BY <1>1, <1>3, <1>4, <1>7, <1>8 DEF Claimed, Spent, r
  <2>3. \A g, h \in claims'[w] :
          g.generation = h.generation \/ (g.by = h.by /\ g.token = h.token) => g = h
    BY <1>4, <1>5, <1>7, <2>2 DEF Claimed
  <2>4. \A q \in releases'[w] : q.generation <= r.generation
    BY <1>5, <1>7 DEF Claimed, r
  <2>5. \A q \in releases'[w] : q.generation <= units'[w].generation /\ q.generation # units'[w].generation
    BY <1>1, <1>5, <1>6, <1>8, <2>4
  <2>6. units'[w].by \in units'[w].assignees /\ units'[w].lease <= bundle'[w[1]].expires
    BY <1>2, <1>3, <1>6
  <2>7. QED  BY <1>10, <2>1, <2>3, <2>5, <2>6 DEF Claimed
<1>12. QED
  BY <1>3, <1>5, <1>9, <1>11, OthersKept

\* A lease grows within the bundle.
LEMMA RenewKeeps ==
  ASSUME WorkInv, NEW w \in WorkUnits, NEW d \in 1..MaxTime, NEW g \in claims[w], Renew(w, g, d)
  PROVE  /\ \A s \in Sources : SourceInv(s)'
         /\ \A x \in WorkUnits : Placed(x)' /\ Claimed(x)'
<1> DEFINE lease == Higher(units[w].lease, Lower(d, bundle[w[1]].expires))
<1>1. units[w] \in UnitRows /\ w[1] \in Sources /\ bundle[w[1]].expires \in Nat /\ units[w].lease \in Nat
  BY UnitsHaveSources DEF WorkInv, TypeOK, UnitRows, BundleRows
<1>2. /\ units' = [units EXCEPT ![w].lease = lease]
      /\ UNCHANGED <<source, bundle, deliveries, claims, releases>>
      /\ units[w].state = "claimed"
  BY DEF Renew, Owned, Running
<1>3. lease \in Nat /\ (units[w].lease <= bundle[w[1]].expires => lease <= bundle[w[1]].expires)
  BY <1>1, BoundsAreNat DEF Lower, Higher
<1> HIDE DEF lease
<1>4. /\ units'[w].state = units[w].state /\ units'[w].by = units[w].by /\ units'[w].token = units[w].token
      /\ units'[w].lease = lease /\ units'[w].generation = units[w].generation
      /\ units'[w].assignees = units[w].assignees
      /\ \A x \in WorkUnits : x # w => units'[x] = units[x]
  BY <1>1, <1>2 DEF WorkInv, TypeOK, UnitRows
<1>5. Placed(w) /\ Claimed(w)
  BY DEF WorkInv
<1>6. Placed(w)'
  BY <1>1, <1>2, <1>4, <1>5, SameRecipients DEF Placed, Published
<1>7. Claimed(w)'
  BY <1>2, <1>3, <1>4, <1>5 DEF Claimed
<1>8. claims' = [claims EXCEPT ![w] = claims[w]] /\ releases' = [releases EXCEPT ![w] = releases[w]]
  BY <1>2 DEF WorkInv, TypeOK
<1>9. UNCHANGED <<source, bundle, deliveries>>
  BY <1>2
<1>10. /\ \A s \in Sources : SourceInv(s)'
       /\ \A x \in WorkUnits : x # w => Placed(x)' /\ Claimed(x)'
  BY <1>4, <1>8, <1>9, OthersKept
<1>11. QED
  BY <1>6, <1>7, <1>10

\* A release is the last word of its claim.
LEMMA ReleaseKeeps ==
  ASSUME WorkInv, NEW w \in WorkUnits, NEW state \in {"available", "completed"}, NEW g \in claims[w],
         Release(w, g, state)
  PROVE  /\ \A s \in Sources : SourceInv(s)'
         /\ \A x \in WorkUnits : Placed(x)' /\ Claimed(x)'
<1> DEFINE r == units[w]
           entry == [by |-> g.by, token |-> g.token, generation |-> g.generation, state |-> state]
<1>1. r \in UnitRows /\ w[1] \in Sources /\ r.generation \in Nat /\ state \in States
  BY UnitsHaveSources DEF WorkInv, TypeOK, UnitRows, States, Terminal
<1>2. /\ units' = [units EXCEPT ![w] = Returned(r, state)]
      /\ releases' = [releases EXCEPT ![w] = releases[w] \cup {entry}]
      /\ UNCHANGED <<source, bundle, deliveries, claims>>
      /\ r.state = "claimed" /\ g.generation = r.generation
  BY DEF Release, Owned, Running, WorkInv, TypeOK
<1>3. entry.generation = g.generation
  OBVIOUS
<1> HIDE DEF entry
<1>4. /\ units'[w] = Returned(r, state) /\ releases'[w] = releases[w] \cup {entry}
      /\ \A x \in WorkUnits : x # w => units'[x] = units[x]
      /\ claims' = [claims EXCEPT ![w] = claims[w]] /\ claims'[w] = claims[w]
  BY <1>2 DEF WorkInv, TypeOK
<1>5. /\ units'[w].state = state /\ units'[w].generation = r.generation
      /\ units'[w].assignees = r.assignees
  BY <1>1, <1>4, ReturnedRow
<1>6. Placed(w) /\ Claimed(w)
  BY DEF WorkInv
<1>7. Placed(w)'
  BY <1>1, <1>2, <1>5, <1>6, SameRecipients DEF Placed, Published
<1>8. Claimed(w)'
  BY <1>1, <1>2, <1>3, <1>4, <1>5, <1>6 DEF Claimed
<1>9. QED
  BY <1>2, <1>4, <1>7, <1>8, OthersKept

\* The invariant holds at first.
LEMMA WorkInvInit ==
  ASSUME Init
  PROVE  WorkInv
<1>1. TypeOK
  <2>1. policy \in Policies
    BY WorkAssumption DEF Init, Policies
  <2>2. /\ source \in [Sources -> SourceRows] /\ bundle \in [Sources -> BundleRows]
        /\ units \in [WorkUnits -> UnitRows]
    BY SourceRowsAreThere, FreshRow DEF Init
  <2>3. QED  BY <2>1, <2>2 DEF Init, TypeOK
<1>2. ASSUME NEW s \in Sources
      PROVE  SourceInv(s)
  BY SourceRowsAreThere DEF Init, SourceInv, Published, Live
<1>3. ASSUME NEW w \in WorkUnits
      PROVE  Placed(w) /\ Claimed(w)
  <2>1. /\ w[1] \in Sources /\ source[w[1]] = NoSource /\ units[w] = NoUnit
        /\ claims[w] = {} /\ releases[w] = {}
    BY UnitsHaveSources DEF Init
  <2>2. Placed(w)
    BY <2>1, SourceRowsAreThere DEF Placed
  <2>3. Claimed(w)
    BY <2>1, SourceRowsAreThere DEF Claimed
  <2>4. QED  BY <2>2, <2>3
<1>4. QED  BY <1>1, <1>2, <1>3 DEF WorkInv

\* Operations that touch neither sources nor units.
LEMMA ElsewhereKeeps ==
  ASSUME WorkInv, UNCHANGED <<source, bundle, deliveries, units, claims, releases>>
  PROVE  /\ \A s \in Sources : SourceInv(s)'
         /\ \A x \in WorkUnits : Placed(x)' /\ Claimed(x)'
BY SourceFrame, PlacedFrame, ClaimedFrame, SameRecipients, UnitsHaveSources DEF WorkInv, Published

\* And every step keeps it.
LEMMA WorkInvStep ==
  ASSUME WorkInv, [Next]_vars
  PROVE  WorkInv'
<1>1. TypeOK'
  BY Typed DEF WorkInv
<1> DEFINE Kept == /\ \A s \in Sources : SourceInv(s)'
                   /\ \A x \in WorkUnits : Placed(x)' /\ Claimed(x)'
<1>2. ASSUME NEW b \in PolicyBodies, NEW v \in 0..MaxPolicy, SetPolicy(b, v)
      PROVE  Kept
  BY <1>2, ElsewhereKeeps DEF SetPolicy
<1>3. ASSUME NEW c \in Checkpoints, NEW u \in Senders, NEW w \in Works, NEW x \in Classes,
             NEW v \in 0..MaxVersion, Save(c, u, w, x, v)
      PROVE  Kept
  <2> DEFINE row == [from |-> u, work |-> w, version |-> v + 1, class |-> x,
                     expires |-> now + policy.body.retention, forgotten |-> FALSE]
  <2>1. source' = [source EXCEPT ![c] = row] /\ source[c] = NoSource
    BY <1>3 DEF Save
  <2>2. row \in SourceRows
    BY PolicyBounds, BoundsAreNat DEF SourceRows, WorkInv, TypeOK
  <2>3. ~row.forgotten /\ c \in Sources
    BY DEF Sources
  <2> HIDE DEF row
  <2>4. UNCHANGED <<bundle, deliveries, units, claims, releases>>
    BY <1>3 DEF Save
  <2>5. QED  BY <2>1, <2>2, <2>3, <2>4, NewSource
<1>4. ASSUME NEW h \in Handovers, NEW u \in Senders, Arrive(h, u)
      PROVE  Kept
  <2> DEFINE row == [NoSource EXCEPT !.from = u, !.expires = now + HandoverRetention]
  <2>1. source' = [source EXCEPT ![h] = row] /\ source[h] = NoSource
    BY <1>4 DEF Arrive
  <2>2. row \in SourceRows /\ ~row.forgotten
    <3>1. u \in Users /\ now + HandoverRetention \in Nat
      BY BoundsAreNat DEF WorkInv, TypeOK
    <3>2. QED  BY <3>1, SourceRowsAreThere DEF SourceRows
  <2>3. h \in Sources
    BY DEF Sources
  <2> HIDE DEF row
  <2>4. UNCHANGED <<bundle, deliveries, units, claims, releases>>
    BY <1>4 DEF Arrive
  <2>5. QED  BY <2>1, <2>2, <2>3, <2>4, NewSource
<1>5. ASSUME NEW s \in Sources, NEW u \in Users, NEW R \in (SUBSET Users) \ {{}},
             NEW v \in 0..MaxPolicy, NEW work \in Assignments(R), Publish(s, u, R, work, v)
      PROVE  Kept
  BY <1>5, PublishKeeps
<1>6. ASSUME NEW s \in Sources, NEW d \in deliveries[s], Ack(s, d)
      PROVE  Kept
  BY <1>6, AckKeeps
<1>7. ASSUME NEW c \in Checkpoints, Forget(c)
      PROVE  Kept
  BY <1>7, ForgetKeeps
<1>8. ASSUME NEW a \in Admins, NEW s \in Sources, Inspect(a, s)
      PROVE  Kept
  BY <1>8, ElsewhereKeeps DEF Inspect
<1>9. ASSUME NEW a \in Admins, Reassign(a)
      PROVE  Kept
  <2>1. PICK s \in Sources : /\ Retained(s)
          /\ \E R \in (SUBSET Users) \ {{}} : \E work \in Assignments(R), takeover \in SUBSET UnitKeys :
               \E rewritten \in SUBSET (DOMAIN work) : Reroute(s, R, work, takeover, rewritten)
    BY <1>9 DEF Reassign, WorkInv, TypeOK, Plans
  <2>2. PICK R \in (SUBSET Users) \ {{}} : \E work \in Assignments(R), takeover \in SUBSET UnitKeys :
          \E rewritten \in SUBSET (DOMAIN work) : Reroute(s, R, work, takeover, rewritten)
    BY <2>1
  <2>3. QED  BY <2>1, <2>2, RerouteKeeps
<1>10. ASSUME NEW w \in WorkUnits, NEW u \in Users, NEW t \in Tokens, Claim(w, u, t)
       PROVE  Kept
  BY <1>10, ClaimKeeps
<1>11. ASSUME NEW w \in WorkUnits, NEW d \in 1..MaxTime, NEW g \in claims[w], Renew(w, g, d)
       PROVE  Kept
  BY <1>11, RenewKeeps
<1>12. ASSUME NEW w \in WorkUnits, NEW state \in {"available", "completed"}, NEW g \in claims[w],
              Release(w, g, state)
       PROVE  Kept
  BY <1>12, ReleaseKeeps
<1>13. ASSUME Tick \/ UNCHANGED vars
       PROVE  Kept
  <2>1. UNCHANGED <<source, bundle, deliveries, units, claims, releases>>
    BY <1>13 DEF Tick, vars
  <2>2. QED  BY <2>1, ElsewhereKeeps
<1> HIDE DEF Kept
<1>15. Kept
  BY <1>2, <1>3, <1>4, <1>5, <1>6, <1>7, <1>8, <1>9, <1>10, <1>11, <1>12, <1>13 DEF Next
<1>16. QED  BY <1>1, <1>15 DEF WorkInv, Kept

\* So it always holds.
LEMMA WorkInvariant == Spec => []WorkInv
BY WorkInvInit, WorkInvStep, PTL DEF Spec

\* Work in progress is in the right hands for the right time, whatever was
\* reassigned, renewed or erased (work.active, delivery.reassign).
THEOREM WorkAlwaysOwned == Spec => []WorkIsOwned
<1>1. ASSUME WorkInv, NEW w \in WorkUnits, units[w].state = "claimed"
      PROVE  /\ ~bundle[w[1]].revoked
             /\ units[w].by \in units[w].assignees \cap Recipients(w[1])
             /\ [by |-> units[w].by, token |-> units[w].token,
                 generation |-> units[w].generation] \in claims[w]
             /\ units[w].lease <= bundle[w[1]].expires
             /\ bundle[w[1]].expires <= source[w[1]].expires
  <2>1. w[1] \in Sources /\ SourceInv(w[1]) /\ Placed(w) /\ Claimed(w)
    BY <1>1, UnitsHaveSources DEF WorkInv
  <2>2. ~source[w[1]].forgotten /\ Published(w[1])
    BY <1>1, <2>1 DEF Placed
  <2>3. QED  BY <1>1, <2>1, <2>2 DEF Placed, Claimed, SourceInv
<1>2. WorkInv => WorkIsOwned
  BY <1>1 DEF WorkIsOwned, OwnerIsEntitled, LeaseWithinRetention, Running, WorkInv
<1>3. QED  BY <1>2, WorkInvariant, PTL

\* A delayed claim never takes the unit again (memory_continuity_claims).
THEOREM ClaimsStayUnique == Spec => []ClaimsAreUnique
<1>1. WorkInv => ClaimsAreUnique
  BY DEF WorkInv, Claimed, ClaimsAreUnique
<1>2. QED  BY <1>1, WorkInvariant, PTL

\* Open work is never stranded with someone who no longer receives the bundle, or
\* may not claim it although nobody works on it (delivery.publish,
\* delivery.reassign, work.claim).
THEOREM WorkStaysReachable == Spec => []WorkIsReachable
<1>1. ASSUME WorkInv, NEW s \in Sources, Published(s), ~bundle[s].revoked, NEW k \in UnitKeys,
             units[<<s, k>>].state \in {"available", "claimed"}
      PROVE  units[<<s, k>>].assignees # {} /\ units[<<s, k>>].assignees \subseteq Recipients(s)
  BY <1>1, UnitsHaveSources DEF WorkInv, Placed
<1>2. ASSUME WorkInv, NEW s \in Sources, NEW d \in Live(deliveries[s]), NEW e \in Live(deliveries[s]),
             d.to = e.to
      PROVE  d = e
  BY <1>2 DEF WorkInv, SourceInv
<1>3. ASSUME NEW s \in Sources, Published(s), ~bundle[s].revoked, bundle[s].expires > now,
             NEW k \in UnitKeys, units[<<s, k>>].state \in {"available", "claimed"},
             units[<<s, k>>].assignees \subseteq Recipients(s), ~Running(units[<<s, k>>]),
             NEW u \in units[<<s, k>>].assignees
      PROVE  OpenTo(<<s, k>>, u)
  BY <1>3 DEF OpenTo, Located, Retained
<1>4. WorkInv => WorkIsReachable
  BY <1>1, <1>2, <1>3 DEF WorkIsReachable
<1>5. QED  BY <1>4, WorkInvariant, PTL

\* Nobody succeeds themselves (common.eligible).
THEOREM SendersNeverSucceed == Spec => []SenderNeverSucceeds
<1>1. ASSUME WorkInv, NEW s \in Sources, NEW k \in UnitKeys
      PROVE  /\ source[s].from \notin units[<<s, k>>].assignees
             /\ \A g \in claims[<<s, k>>] : g.by # source[s].from
  BY <1>1, UnitsHaveSources DEF WorkInv, Placed, Claimed
<1>2. WorkInv => SenderNeverSucceeds
  BY <1>1 DEF WorkInv, SourceInv, SenderNeverSucceeds
<1>3. QED  BY <1>2, WorkInvariant, PTL

\* Nothing of an erased checkpoint stays in force (checkpoints.forget).
THEOREM ErasureStaysComplete == Spec => []ErasureIsComplete
<1>1. ASSUME WorkInv, NEW c \in Checkpoints, source[c].forgotten, NEW k \in UnitKeys
      PROVE  units[<<c, k>>].state \in {"absent", "cancelled"}
  BY <1>1, UnitsHaveSources DEF WorkInv, Placed, Sources
<1>2. WorkInv => ErasureIsComplete
  BY <1>1 DEF WorkInv, SourceInv, ErasureIsComplete, Sources
<1>3. QED  BY <1>2, WorkInvariant, PTL

(***************************************************************************)
(* The history of a user's work.                                           *)
(***************************************************************************)

Of(c, u, w) == source[c].from = u /\ source[c].work = w

\* A history that is not empty has a latest version.
HasLatest(u, w) ==
  (\E c \in Checkpoints : Of(c, u, w)) =>
    \E c \in Checkpoints : /\ Of(c, u, w)
      /\ \A d \in Checkpoints : Of(d, u, w) => source[d].version <= source[c].version

HistoryInv ==
  /\ TypeOK
  /\ ClassificationNeverDrops
  /\ \A u \in Users, w \in Works : HasLatest(u, w)

\* What a new version must exceed, it exceeds for the whole history.
LEMMA SavedExceeds ==
  ASSUME HistoryInv, NEW c \in Checkpoints, NEW u \in Senders, NEW w \in Works, NEW x \in Classes,
         NEW v \in 0..MaxVersion, Save(c, u, w, x, v)
  PROVE  \A d \in Checkpoints : Of(d, u, w) => source[d].version <= v /\ source[d].class <= x
<1>1. SUFFICES ASSUME NEW d \in Checkpoints, Of(d, u, w)
               PROVE  source[d].version <= v /\ source[d].class <= x
  OBVIOUS
<1>2. u \in Users /\ x \in Nat /\ v \in Nat
  BY BoundsAreNat
<1>3. PICK e \in Checkpoints : /\ Of(e, u, w)
        /\ \A o \in Checkpoints : Of(o, u, w) => source[o].version <= source[e].version
  BY <1>1, <1>2 DEF HistoryInv, HasLatest
<1>4. source[e] \in Latest(u, w)
  BY <1>3 DEF Latest, History, Of
<1>5. source[e].version = v /\ x >= source[e].class
  BY <1>4 DEF Save
<1>6. source[e] # NoSource /\ source[d] # NoSource
  BY <1>1, <1>2, <1>3, SourceRowsAreThere, WorkNullAssumption DEF Of
<1>7. source[d].version <= source[e].version /\ source[d].class <= source[e].class
  BY <1>1, <1>3, <1>6 DEF HistoryInv, ClassificationNeverDrops, Of
<1>8. source[d] \in SourceRows /\ source[e] \in SourceRows
  BY DEF HistoryInv, TypeOK, Sources
<1>9. QED  BY <1>2, <1>5, <1>7, <1>8 DEF SourceRows

\* Steps that keep who saved what.
LEMMA HistoryFrame ==
  ASSUME HistoryInv, TypeOK',
         \A c \in Checkpoints :
           /\ source'[c].from = source[c].from /\ source'[c].work = source[c].work
           /\ source'[c].version = source[c].version /\ source'[c].class = source[c].class
           /\ source'[c] # NoSource => source[c] # NoSource
  PROVE  HistoryInv'
<1>1. ClassificationNeverDrops'
  BY DEF HistoryInv, ClassificationNeverDrops
<1>2. \A u \in Users, w \in Works : HasLatest(u, w)'
  BY DEF HistoryInv, HasLatest, Of
<1>3. QED  BY <1>1, <1>2 DEF HistoryInv

\* Every step keeps the history in order.
LEMMA HistoryInvStep ==
  ASSUME HistoryInv, [Next]_vars
  PROVE  HistoryInv'
<1>1. TypeOK'
  BY Typed DEF HistoryInv
<1>2. ASSUME NEW c \in Checkpoints, NEW u \in Senders, NEW w \in Works, NEW x \in Classes,
             NEW v \in 0..MaxVersion, Save(c, u, w, x, v)
      PROVE  HistoryInv'
  <2> DEFINE row == [from |-> u, work |-> w, version |-> v + 1, class |-> x,
                     expires |-> now + policy.body.retention, forgotten |-> FALSE]
  <2>1. source' = [source EXCEPT ![c] = row] /\ source[c] = NoSource
    BY <1>2 DEF Save
  <2>2. row.from = u /\ row.work = w /\ row.version = v + 1 /\ row.class = x
    OBVIOUS
  <2> HIDE DEF row
  <2>3. source'[c] = row /\ \A d \in Checkpoints : d # c => source'[d] = source[d]
    BY <2>1 DEF HistoryInv, TypeOK, Sources
  <2>4. \A d \in Checkpoints : Of(d, u, w) => source[d].version <= v /\ source[d].class <= x
    BY <1>2, SavedExceeds
  <2>5. \A d \in Checkpoints : source[d].version \in Nat /\ source[d].class \in Nat
    BY DEF HistoryInv, TypeOK, Sources, SourceRows
  <2>6. u \in Users /\ x \in Nat /\ v \in Nat /\ source[c].from \notin Users
    BY <2>1, BoundsAreNat, SourceRowsAreThere, WorkNullAssumption
  <2>7. ClassificationNeverDrops'
    <3>1. SUFFICES ASSUME NEW a \in Checkpoints, NEW d \in Checkpoints,
                          source'[a] # NoSource, source'[d] # NoSource,
                          source'[a].from = source'[d].from, source'[a].work = source'[d].work,
                          source'[a].version <= source'[d].version
                   PROVE  /\ source'[a].class <= source'[d].class
                          /\ source'[a].version = source'[d].version => a = d
      BY DEF ClassificationNeverDrops
    <3>2. CASE a # c /\ d # c
      BY <2>3, <3>1, <3>2 DEF HistoryInv, ClassificationNeverDrops
    <3>3. CASE a # c /\ d = c
      <4>1. Of(a, u, w) /\ source'[a] = source[a] /\ source'[d] = row
        BY <2>2, <2>3, <3>1, <3>3 DEF Of
      <4>2. QED  BY <2>2, <2>4, <2>5, <2>6, <4>1
    <3>4. CASE a = c /\ d # c
      <4>1. Of(d, u, w) /\ source'[d] = source[d] /\ source'[a] = row
        BY <2>2, <2>3, <3>1, <3>4 DEF Of
      <4>2. QED  BY <2>2, <2>4, <2>5, <2>6, <3>1, <4>1
    <3>5. CASE a = c /\ d = c
      BY <2>2, <2>3, <2>6, <3>5
    <3>6. QED  BY <3>2, <3>3, <3>4, <3>5
  <2>8. ASSUME NEW y \in Users, NEW z \in Works
        PROVE  HasLatest(y, z)'
    <3>1. CASE y = u /\ z = w
      <4>1. Of(c, y, z)' /\ source'[c].version = v + 1
        BY <2>2, <2>3, <3>1 DEF Of
      <4>2. \A d \in Checkpoints : Of(d, y, z)' => source'[d].version <= v + 1
        BY <2>3, <2>4, <2>5, <2>6, <3>1, <4>1 DEF Of
      <4>3. QED  BY <4>1, <4>2 DEF HasLatest
    <3>2. CASE ~(y = u /\ z = w)
      <4>1. ~Of(c, y, z) /\ ~Of(c, y, z)'
        BY <2>2, <2>3, <2>6, <3>2 DEF Of
      <4>2. \A d \in Checkpoints : d # c => (Of(d, y, z)' <=> Of(d, y, z))
        BY <2>3 DEF Of
      <4>3. HasLatest(y, z)
        BY DEF HistoryInv
      <4>4. \A d \in Checkpoints : d # c => source'[d] = source[d]
        BY <2>3
      <4>5. QED  BY <4>1, <4>2, <4>3, <4>4 DEF HasLatest
    <3>3. QED  BY <3>1, <3>2
  <2>9. QED  BY <1>1, <2>7, <2>8 DEF HistoryInv
<1>3. ASSUME NEW h \in Handovers, NEW u \in Senders, Arrive(h, u)
      PROVE  HistoryInv'
  <2>1. \A c \in Checkpoints : source'[c] = source[c]
    BY <1>3, BoundsAreNat DEF Arrive, HistoryInv, TypeOK, Sources
  <2>2. QED  BY <1>1, <2>1, HistoryFrame
<1>4. ASSUME NEW c \in Checkpoints, Forget(c)
      PROVE  HistoryInv'
  <2>1. source' = [source EXCEPT ![c].forgotten = TRUE] /\ source[c] # NoSource
    BY <1>4 DEF Forget
  <2>2. \A d \in Checkpoints : source[d] \in SourceRows
    BY DEF HistoryInv, TypeOK, Sources
  <2>3. /\ source'[c] = [source[c] EXCEPT !.forgotten = TRUE]
        /\ \A d \in Checkpoints : d # c => source'[d] = source[d]
    BY <2>1 DEF HistoryInv, TypeOK, Sources
  <2>4. /\ source'[c].from = source[c].from /\ source'[c].work = source[c].work
        /\ source'[c].version = source[c].version /\ source'[c].class = source[c].class
    BY <2>2, <2>3 DEF SourceRows
  <2>5. QED  BY <1>1, <2>1, <2>3, <2>4, HistoryFrame
<1>5. ASSUME source' = source
      PROVE  HistoryInv'
  BY <1>1, <1>5, HistoryFrame
<1>6. source' = source \/ (\E c \in Checkpoints : Forget(c)) \/ (\E h \in Handovers, u \in Senders : Arrive(h, u))
        \/ \E c \in Checkpoints, u \in Senders, w \in Works, x \in Classes, v \in 0..MaxVersion :
             Save(c, u, w, x, v)
  <2>1. \A b \in PolicyBodies, v \in 0..MaxPolicy : SetPolicy(b, v) => source' = source
    BY DEF SetPolicy
  <2>2. \A s \in Sources, u \in Users, R \in (SUBSET Users) \ {{}}, v \in 0..MaxPolicy :
          \A work \in Assignments(R) : Publish(s, u, R, work, v) => source' = source
    BY DEF Publish
  <2>3. \A s \in Sources : \A d \in deliveries[s] : Ack(s, d) => source' = source
    BY DEF Ack
  <2>4. \A a \in Admins, s \in Sources : Inspect(a, s) => source' = source
    BY DEF Inspect
  <2>5. \A a \in Admins : Reassign(a) => source' = source
    BY DEF Reassign, Reroute
  <2>6. \A w \in WorkUnits, u \in Users, t \in Tokens : Claim(w, u, t) => source' = source
    BY DEF Claim
  <2>7. \A w \in WorkUnits, d \in 1..MaxTime : \A g \in claims[w] : Renew(w, g, d) => source' = source
    BY DEF Renew
  <2>8. \A w \in WorkUnits, state \in {"available", "completed"} :
          \A g \in claims[w] : Release(w, g, state) => source' = source
    BY DEF Release
  <2>9. Tick \/ UNCHANGED vars => source' = source
    BY DEF Tick, vars
  <2>10. QED
    BY <2>1, <2>2, <2>3, <2>4, <2>5, <2>6, <2>7, <2>8, <2>9 DEF Next
<1>7. QED  BY <1>2, <1>3, <1>4, <1>5, <1>6

\* Classification never drops over the history of a user's work, erased
\* versions included (checkpoints.save).
THEOREM ClassificationStays == Spec => []ClassificationNeverDrops
<1>1. ASSUME Init
      PROVE  HistoryInv
  <2>1. TypeOK
    BY <1>1, WorkInvInit DEF WorkInv
  <2>2. \A c \in Checkpoints : source[c] = NoSource
    BY <1>1 DEF Init, Sources
  <2>3. ClassificationNeverDrops
    BY <2>2 DEF ClassificationNeverDrops
  <2>4. \A u \in Users, w \in Works : HasLatest(u, w)
    BY <2>2, SourceRowsAreThere, WorkNullAssumption DEF HasLatest, Of
  <2>5. QED  BY <2>1, <2>3, <2>4 DEF HistoryInv
<1>2. HistoryInv => ClassificationNeverDrops
  BY DEF HistoryInv
<1>3. QED  BY <1>1, <1>2, HistoryInvStep, PTL DEF Spec

(***************************************************************************)
(* How one step of the system moves one unit.                              *)
(***************************************************************************)

Quiet(w) == releases'[w] = releases[w]

Stays(w) == units'[w] = units[w] /\ Quiet(w)

\* It is published, or added to its bundle.
Appears(w) ==
  /\ units[w].state = "absent" /\ units'[w].state = "available"
  /\ units[w].generation = 0 /\ units'[w].generation = 0 /\ Quiet(w)

\* It is claimed.
Starts(w) ==
  /\ units[w].state \in {"available", "claimed"} /\ ~Running(units[w])
  /\ units'[w].state = "claimed" /\ units'[w].generation = units[w].generation + 1
  /\ units'[w].by \in Users /\ units'[w].token \in Tokens /\ Quiet(w)

\* Its lease is renewed.
Grows(w) ==
  /\ Running(units[w])
  /\ units'[w].state = "claimed" /\ units'[w].generation = units[w].generation
  /\ units'[w].by = units[w].by /\ units'[w].token = units[w].token
  /\ units'[w].lease > now /\ Quiet(w)

\* It is released.
Ends(w) ==
  /\ Running(units[w])
  /\ units'[w].state \in {"available", "completed"} /\ units'[w].generation = units[w].generation
  /\ \E o \in {"available", "completed"} :
       releases'[w] = releases[w] \cup {[by |-> units[w].by, token |-> units[w].token,
                                         generation |-> units[w].generation, state |-> o]}

\* It is taken away, by the erasure of its source or by an administrator who
\* knew its generation.
TakenAway(w) ==
  /\ units'[w].state \in {"available", "cancelled"} /\ Quiet(w)
  /\ units'[w].generation = units[w].generation + 1
  /\ \/ source'[w[1]].forgotten /\ units'[w].state = "cancelled"
     \/ /\ units[w].state \in {"available", "claimed"}
        /\ Running(units[w]) => policy.body.takeover
        /\ \E a \in Admins : /\ plan[a] # NoPlan /\ plan[a].source = w[1]
                             /\ plan[a].seen[w[2]].generation = units[w].generation

Moves(w) == Stays(w) \/ Appears(w) \/ Starts(w) \/ Grows(w) \/ Ends(w) \/ TakenAway(w)

\* Publication adds units.
LEMMA PublishMoves ==
  ASSUME WorkInv, NEW s \in Sources, NEW u \in Users, NEW R \in (SUBSET Users) \ {{}},
         NEW v \in 0..MaxPolicy, NEW work \in Assignments(R), Publish(s, u, R, work, v),
         NEW w \in WorkUnits
  PROVE  Moves(w)
<1>1. releases'[w] = releases[w] /\ ~Published(s)
  BY DEF Publish
<1>2. units'[w] = IF w[1] = s /\ w[2] \in DOMAIN work THEN Fresh(work[w[2]]) ELSE units[w]
  BY DEF Publish
<1>3. CASE w[1] = s /\ w[2] \in DOMAIN work
  <2>1. units[w].state = "absent" /\ units[w].generation = 0
    BY <1>1, <1>3 DEF WorkInv, Placed
  <2>2. units'[w].state = "available" /\ units'[w].generation = 0
    BY <1>2, <1>3, AssignmentIs, FreshRow
  <2>3. QED  BY <1>1, <2>1, <2>2 DEF Moves, Appears, Quiet
<1>4. QED  BY <1>1, <1>2, <1>3 DEF Moves, Stays, Quiet

\* Erasure takes them away.
LEMMA ForgetMoves ==
  ASSUME WorkInv, NEW c \in Checkpoints, Forget(c), NEW w \in WorkUnits
  PROVE  Moves(w)
<1>1. /\ releases'[w] = releases[w]
      /\ units'[w] = IF w[1] = c /\ units[w].state # "absent"
                     THEN Fenced(units[w], "cancelled", units[w].assignees) ELSE units[w]
  BY DEF Forget
<1>2. units[w] \in UnitRows /\ units[w].assignees \in SUBSET Users /\ "cancelled" \in States
  BY DEF WorkInv, TypeOK, UnitRows, States, Terminal
<1>3. CASE w[1] = c /\ units[w].state # "absent"
  <2>1. units'[w].state = "cancelled" /\ units'[w].generation = units[w].generation + 1
    BY <1>1, <1>2, <1>3, FencedRow
  <2>2. source'[c].forgotten
    BY DEF Forget, WorkInv, TypeOK, Sources, SourceRows
  <2>3. QED  BY <1>1, <1>3, <2>1, <2>2 DEF Moves, TakenAway, Quiet
<1>4. QED  BY <1>1, <1>3 DEF Moves, Stays, Quiet

\* A reassignment takes running work away by force only.
LEMMA ReassignMoves ==
  ASSUME WorkInv, NEW a \in Admins, Reassign(a), NEW w \in WorkUnits
  PROVE  Moves(w)
<1> DEFINE s == plan[a].source
           r == units[w]
<1>1. s \in Sources /\ plan[a] # NoPlan /\ AsPlanned(a)
  BY DEF Reassign, WorkInv, TypeOK, Plans
<1>2. PICK R \in (SUBSET Users) \ {{}} : \E work \in Assignments(R), takeover \in SUBSET UnitKeys :
        \E rewritten \in SUBSET (DOMAIN work) : Reroute(s, R, work, takeover, rewritten)
  BY DEF Reassign
<1>3. PICK work \in Assignments(R), takeover \in SUBSET UnitKeys :
        \E rewritten \in SUBSET (DOMAIN work) : Reroute(s, R, work, takeover, rewritten)
  BY <1>2
<1>4. PICK rewritten \in SUBSET (DOMAIN work) : Reroute(s, R, work, takeover, rewritten)
  BY <1>3
<1> HIDE DEF s
<1>5. /\ releases'[w] = releases[w]
      /\ units'[w] = IF w[1] = s THEN Reassigned(r, w[2], work, takeover, rewritten) ELSE r
      /\ takeover # {} => policy.body.takeover
      /\ \A k \in Existing(s) : MayReassign(units[<<s, k>>], k, work, takeover, rewritten)
  BY <1>4 DEF Reroute
<1>6. CASE w[1] # s
  BY <1>5, <1>6 DEF Moves, Stays, Quiet
<1>7. CASE w[1] = s
  <2> DEFINE f == Reassigned(r, w[2], work, takeover, rewritten)
  <2>1. w[2] \in UnitKeys /\ r \in UnitRows /\ w = <<s, w[2]>>
    BY <1>7, UnitsHaveSources DEF WorkInv, TypeOK
  <2>2. units'[w] = f
    BY <1>5, <1>7
  <2>3. \/ r.state = "absent" /\ w[2] \in DOMAIN work /\ f = Fresh(work[w[2]])
        \/ f = r
        \/ /\ r.state \in {"available", "claimed"} /\ w[2] \in DOMAIN work
           /\ Changed(r, w[2], work, rewritten) \/ Forced(r, w[2], takeover)
           /\ f = Fenced(r, "available", work[w[2]])
        \/ /\ r.state \in {"available", "claimed"} /\ w[2] \notin DOMAIN work
           /\ f = Fenced(r, "cancelled", r.assignees)
    BY <2>1, ReassignedRow
  <2>4. w[2] \in DOMAIN work => work[w[2]] \in SUBSET Users
    BY AssignmentIs
  <2> HIDE DEF f, r
  <2>5. CASE r.state = "absent" /\ w[2] \in DOMAIN work /\ f = Fresh(work[w[2]])
    <3>1. units'[w].state = "available" /\ units'[w].generation = 0
      BY <2>2, <2>4, <2>5, FreshRow
    <3>2. r.generation = 0
      BY <2>5 DEF r, WorkInv, Placed
    <3>3. QED  BY <1>5, <2>5, <3>1, <3>2 DEF Moves, Appears, Quiet, r
  <2>6. CASE f = r
    BY <1>5, <2>2, <2>6 DEF Moves, Stays, Quiet, r
  <2>7. CASE /\ r.state \in {"available", "claimed"}
             /\ Changed(r, w[2], work, rewritten) \/ Forced(r, w[2], takeover)
             /\ \/ w[2] \in DOMAIN work /\ f = Fenced(r, "available", work[w[2]])
                \/ f = Fenced(r, "cancelled", r.assignees)
    <3>1. r.assignees \in SUBSET Users /\ "available" \in States /\ "cancelled" \in States
      BY <2>1 DEF UnitRows, States, Terminal
    <3>2. units'[w].state \in {"available", "cancelled"} /\ units'[w].generation = r.generation + 1
      BY <2>1, <2>2, <2>4, <2>7, <3>1, FencedRow
    <3>3. Running(r) => policy.body.takeover
      <4>1. w[2] \in Existing(s)
        BY <2>1, <2>7 DEF Existing, r
      <4>2. MayReassign(r, w[2], work, takeover, rewritten)
        BY <1>5, <2>1, <4>1 DEF r
      <4>3. Running(r) => w[2] \in takeover
        BY <2>7, <4>2 DEF MayReassign, Forced
      <4>4. QED  BY <1>5, <4>3
    <3>4. plan[a].seen[w[2]].generation = r.generation
      BY <2>1 , <1>1 DEF AsPlanned, s, r
    <3>5. plan[a].source = w[1]
      BY <1>7 DEF s
    <3>6. QED
      BY <1>1, <1>5, <2>7, <3>2, <3>3, <3>4, <3>5 DEF Moves, TakenAway, Quiet, r
  <2>8. QED  BY <2>3, <2>5, <2>6, <2>7 DEF Changed
<1>8. QED  BY <1>6, <1>7

\* Owners claim.
LEMMA ClaimMoves ==
  ASSUME WorkInv, NEW x \in WorkUnits, NEW u \in Users, NEW t \in Tokens, Claim(x, u, t),
         NEW w \in WorkUnits
  PROVE  Moves(w)
<1> DEFINE lease == Lower(bundle[x[1]].expires, now + policy.body.lease)
<1>1. /\ units' = [units EXCEPT ![x] = Taken(units[x], u, t, lease)] /\ releases'[w] = releases[w]
      /\ units[x].state \in {"available", "claimed"} /\ ~Running(units[x])
  BY DEF Claim, OpenTo
<1>2. lease \in Nat /\ units[x] \in UnitRows
  BY PolicyBounds, UnitsHaveSources DEF WorkInv, TypeOK, BundleRows, Lower
<1> HIDE DEF lease
<1>3. units'[w] = IF w = x THEN Taken(units[x], u, t, lease) ELSE units[w]
  BY <1>1 DEF WorkInv, TypeOK
<1>4. CASE w = x
  <2>1. /\ units'[w].state = "claimed" /\ units'[w].generation = units[w].generation + 1
        /\ units'[w].by = u /\ units'[w].token = t
    BY <1>2, <1>3, <1>4, TakenRow
  <2>2. QED  BY <1>1, <1>4, <2>1 DEF Moves, Starts, Quiet
<1>5. QED  BY <1>1, <1>3, <1>4 DEF Moves, Stays, Quiet

\* They renew.
LEMMA RenewMoves ==
  ASSUME WorkInv, NEW x \in WorkUnits, NEW d \in 1..MaxTime, NEW g \in claims[x], Renew(x, g, d),
         NEW w \in WorkUnits
  PROVE  Moves(w)
<1> DEFINE lease == Higher(units[x].lease, Lower(d, bundle[x[1]].expires))
<1>1. /\ units' = [units EXCEPT ![x].lease = lease] /\ releases'[w] = releases[w]
      /\ Running(units[x])
  BY DEF Renew, Owned
<1>2. units[x] \in UnitRows /\ now \in Nat /\ bundle[x[1]].expires \in Nat /\ d \in Nat
  BY UnitsHaveSources, BoundsAreNat DEF WorkInv, TypeOK, BundleRows
<1>3. lease > now
  BY <1>1, <1>2 DEF Running, Higher, Lower, UnitRows
<1> HIDE DEF lease
<1>4. CASE w = x
  <2>1. /\ units'[w].state = units[w].state /\ units'[w].generation = units[w].generation
        /\ units'[w].by = units[w].by /\ units'[w].token = units[w].token /\ units'[w].lease = lease
    BY <1>1, <1>2, <1>4 DEF WorkInv, TypeOK, UnitRows
  <2>2. QED  BY <1>1, <1>3, <1>4, <2>1 DEF Moves, Grows, Quiet, Running
<1>5. CASE w # x
  <2>1. units'[w] = units[w]
    BY <1>1, <1>5 DEF WorkInv, TypeOK
  <2>2. QED  BY <1>1, <2>1 DEF Moves, Stays, Quiet
<1>6. QED  BY <1>4, <1>5

\* They release.
LEMMA ReleaseMoves ==
  ASSUME WorkInv, NEW x \in WorkUnits, NEW state \in {"available", "completed"}, NEW g \in claims[x],
         Release(x, g, state), NEW w \in WorkUnits
  PROVE  Moves(w)
<1> DEFINE entry == [by |-> g.by, token |-> g.token, generation |-> g.generation, state |-> state]
<1>1. /\ units' = [units EXCEPT ![x] = Returned(units[x], state)] /\ Running(units[x])
      /\ releases' = [releases EXCEPT ![x] = releases[x] \cup {entry}]
      /\ units[x].by = g.by /\ units[x].token = g.token /\ units[x].generation = g.generation
  BY DEF Release, Owned
<1>2. units[x] \in UnitRows /\ state \in States
  BY DEF WorkInv, TypeOK, States, Terminal
<1>3. CASE w = x
  <2>1. units'[w] = Returned(units[x], state) /\ releases'[w] = releases[w] \cup {entry}
    BY <1>1, <1>3 DEF WorkInv, TypeOK
  <2>2. units'[w].state = state /\ units'[w].generation = units[w].generation
    BY <1>2, <1>3, <2>1, ReturnedRow
  <2>3. entry = [by |-> units[w].by, token |-> units[w].token,
                 generation |-> units[w].generation, state |-> state]
    BY <1>1, <1>3
  <2>4. QED  BY <1>1, <1>3, <2>1, <2>2, <2>3 DEF Moves, Ends
<1>4. CASE w # x
  <2>1. units'[w] = units[w] /\ releases'[w] = releases[w]
    BY <1>1, <1>4 DEF WorkInv, TypeOK
  <2>2. QED  BY <2>1 DEF Moves, Stays, Quiet
<1>5. QED  BY <1>3, <1>4

\* A step moves every unit in one of these ways, and unless it lets them all
\* stay, the clock stands still.
LEMMA StepMoves ==
  ASSUME WorkInv, [Next]_vars
  PROVE  \/ now' = now /\ \A w \in WorkUnits : Moves(w)
         \/ now' = now + 1 /\ \A w \in WorkUnits : Stays(w)
<1> DEFINE Moved == now' = now /\ \A w \in WorkUnits : Moves(w)
<1>1. ASSUME units' = units, releases' = releases
      PROVE  \A w \in WorkUnits : Moves(w) /\ Stays(w)
  BY <1>1 DEF Moves, Stays, Quiet
<1>2. ASSUME NEW b \in PolicyBodies, NEW v \in 0..MaxPolicy, SetPolicy(b, v)
      PROVE  Moved
  BY <1>1, <1>2 DEF SetPolicy
<1>3. ASSUME NEW c \in Checkpoints, NEW u \in Senders, NEW w \in Works, NEW x \in Classes,
             NEW v \in 0..MaxVersion, Save(c, u, w, x, v)
      PROVE  Moved
  BY <1>1, <1>3 DEF Save
<1>4. ASSUME NEW h \in Handovers, NEW u \in Senders, Arrive(h, u)
      PROVE  Moved
  BY <1>1, <1>4 DEF Arrive
<1>5. ASSUME NEW s \in Sources, NEW u \in Users, NEW R \in (SUBSET Users) \ {{}},
             NEW v \in 0..MaxPolicy, NEW work \in Assignments(R), Publish(s, u, R, work, v)
      PROVE  Moved
  BY <1>5, PublishMoves DEF Publish
<1>6. ASSUME NEW s \in Sources, NEW d \in deliveries[s], Ack(s, d)
      PROVE  Moved
  BY <1>1, <1>6 DEF Ack
<1>7. ASSUME NEW c \in Checkpoints, Forget(c)
      PROVE  Moved
  BY <1>7, ForgetMoves DEF Forget
<1>8. ASSUME NEW a \in Admins, NEW s \in Sources, Inspect(a, s)
      PROVE  Moved
  BY <1>1, <1>8 DEF Inspect
<1>9. ASSUME NEW a \in Admins, Reassign(a)
      PROVE  Moved
  <2>1. now' = now
    BY <1>9 DEF Reassign, Reroute
  <2>2. QED  BY <1>9, <2>1, ReassignMoves
<1>10. ASSUME NEW w \in WorkUnits, NEW u \in Users, NEW t \in Tokens, Claim(w, u, t)
       PROVE  Moved
  <2>1. now' = now
    BY <1>10 DEF Claim
  <2>2. QED  BY <1>10, <2>1, ClaimMoves
<1>11. ASSUME NEW w \in WorkUnits, NEW d \in 1..MaxTime, NEW g \in claims[w], Renew(w, g, d)
       PROVE  Moved
  <2>1. now' = now
    BY <1>11 DEF Renew
  <2>2. QED  BY <1>11, <2>1, RenewMoves
<1>12. ASSUME NEW w \in WorkUnits, NEW state \in {"available", "completed"}, NEW g \in claims[w],
              Release(w, g, state)
       PROVE  Moved
  <2>1. now' = now
    BY <1>12 DEF Release
  <2>2. QED  BY <1>12, <2>1, ReleaseMoves
<1>13. ASSUME Tick
       PROVE  now' = now + 1 /\ \A w \in WorkUnits : Stays(w)
  BY <1>1, <1>13 DEF Tick
<1>14. ASSUME UNCHANGED vars
       PROVE  Moved
  BY <1>1, <1>14 DEF vars
<1> HIDE DEF Moved
<1>15. Moved \/ (now' = now + 1 /\ \A w \in WorkUnits : Stays(w))
  BY <1>2, <1>3, <1>4, <1>5, <1>6, <1>7, <1>8, <1>9, <1>10, <1>11, <1>12, <1>13, <1>14 DEF Next
<1>16. QED  BY <1>15 DEF Moved

\* Completed or cancelled work stays as it is, but for the erasure of its source
\* (delivery.reassign, checkpoints.forget).
THEOREM TerminalStays == Spec => TerminalIsFinal
<1>1. ASSUME WorkInv, [Next]_vars, NEW w \in WorkUnits, units[w].state \in Terminal
      PROVE  units'[w] = units[w] \/ (source'[w[1]].forgotten /\ units'[w].state = "cancelled")
  <2>1. Moves(w)
    BY <1>1, StepMoves DEF Moves
  <2>2. units[w].state \notin {"absent", "available", "claimed"}
    BY <1>1 DEF Terminal
  <2>3. QED
    BY <2>1, <2>2 DEF Moves, Stays, Appears, Starts, Grows, Ends, TakenAway, Running
<1>2. WorkInv /\ [Next]_vars =>
        [\A w \in WorkUnits : units[w].state \in Terminal =>
           \/ units'[w] = units[w]
           \/ source'[w[1]].forgotten /\ units'[w].state = "cancelled"]_vars
  BY <1>1
<1>3. QED  BY <1>2, WorkInvariant, PTL DEF Spec, TerminalIsFinal

\* What an administrator read of a bundle is old, or still so: a claim never
\* starts under a generation that was read.
PlanInv ==
  \A a \in Admins : plan[a] # NoPlan =>
    \A w \in WorkUnits : plan[a].source = w[1] =>
      /\ plan[a].seen[w[2]].generation <= units[w].generation
      /\ units[w].state = "claimed" /\ plan[a].seen[w[2]].generation = units[w].generation =>
           plan[a].seen[w[2]].by = units[w].by

\* Every step keeps what administrators know in order.
LEMMA PlanInvStep ==
  ASSUME WorkInv, WorkInv', PlanInv, [Next]_vars
  PROVE  PlanInv'
<1>1. ASSUME NEW a \in Admins, NEW s \in Sources, Inspect(a, s)
      PROVE  PlanInv'
  <2> DEFINE seen == [k \in UnitKeys |-> [by |-> units[<<s, k>>].by,
                                          generation |-> units[<<s, k>>].generation]]
             read == [source |-> s, version |-> bundle[s].version, seen |-> seen]
  <2>1. plan' = [plan EXCEPT ![a] = read] /\ units' = units
    BY <1>1 DEF Inspect
  <2>2. ASSUME NEW w \in WorkUnits, w[1] = s
        PROVE  read.seen[w[2]].by = units[w].by /\ read.seen[w[2]].generation = units[w].generation
    BY <2>2, UnitsHaveSources
  <2>3. read.source = s
    OBVIOUS
  <2> HIDE DEF seen, read
  <2>4. plan'[a] = read /\ \A b \in Admins : b # a => plan'[b] = plan[b]
    BY <2>1 DEF WorkInv, TypeOK
  <2>5. ASSUME NEW b \in Admins, plan'[b] # NoPlan, NEW w \in WorkUnits, plan'[b].source = w[1]
        PROVE  /\ plan'[b].seen[w[2]].generation <= units'[w].generation
               /\ units'[w].state = "claimed" /\ plan'[b].seen[w[2]].generation = units'[w].generation =>
                    plan'[b].seen[w[2]].by = units'[w].by
    <3>1. CASE b = a
      <4>1. units[w].generation \in Nat
        BY DEF WorkInv, TypeOK, UnitRows
      <4>2. QED  BY <2>1, <2>2, <2>3, <2>4, <2>5, <3>1, <4>1
    <3>2. CASE b # a
      BY <2>1, <2>4, <2>5, <3>2 DEF PlanInv
    <3>3. QED  BY <3>1, <3>2
  <2>6. QED  BY <2>5 DEF PlanInv
<1>2. ASSUME plan' = plan
      PROVE  PlanInv'
  <2>1. SUFFICES ASSUME NEW a \in Admins, plan[a] # NoPlan, NEW w \in WorkUnits, plan[a].source = w[1]
                 PROVE  /\ plan[a].seen[w[2]].generation <= units'[w].generation
                        /\ units'[w].state = "claimed" /\ plan[a].seen[w[2]].generation = units'[w].generation =>
                             plan[a].seen[w[2]].by = units'[w].by
    BY <1>2 DEF PlanInv
  <2>2. /\ plan[a].seen[w[2]].generation <= units[w].generation
        /\ units[w].state = "claimed" /\ plan[a].seen[w[2]].generation = units[w].generation =>
             plan[a].seen[w[2]].by = units[w].by
    BY <2>1 DEF PlanInv
  <2>3. plan[a].seen[w[2]].generation \in Nat /\ units[w].generation \in Nat
    BY <2>1, UnitsHaveSources DEF WorkInv, TypeOK, Plans, UnitRows
  <2>4. Moves(w)
    BY StepMoves DEF Moves
  <2>5. CASE Stays(w) \/ Appears(w) \/ Starts(w) \/ TakenAway(w)
    BY <2>2, <2>3, <2>5 DEF Stays, Appears, Starts, TakenAway
  <2>6. CASE Grows(w) \/ Ends(w)
    BY <2>2, <2>3, <2>6 DEF Grows, Ends, Running
  <2>7. QED  BY <2>4, <2>5, <2>6 DEF Moves
<1>3. plan' = plan \/ \E a \in Admins, s \in Sources : Inspect(a, s)
  <2>1. \A b \in PolicyBodies, v \in 0..MaxPolicy : SetPolicy(b, v) => plan' = plan
    BY DEF SetPolicy
  <2>2. \A c \in Checkpoints, u \in Senders, w \in Works, x \in Classes, v \in 0..MaxVersion :
          Save(c, u, w, x, v) => plan' = plan
    BY DEF Save
  <2>3. \A h \in Handovers, u \in Senders : Arrive(h, u) => plan' = plan
    BY DEF Arrive
  <2>4. \A s \in Sources, u \in Users, R \in (SUBSET Users) \ {{}}, v \in 0..MaxPolicy :
          \A work \in Assignments(R) : Publish(s, u, R, work, v) => plan' = plan
    BY DEF Publish
  <2>5. \A s \in Sources : \A d \in deliveries[s] : Ack(s, d) => plan' = plan
    BY DEF Ack
  <2>6. \A c \in Checkpoints : Forget(c) => plan' = plan
    BY DEF Forget
  <2>7. \A a \in Admins : Reassign(a) => plan' = plan
    BY DEF Reassign, Reroute
  <2>8. \A w \in WorkUnits, u \in Users, t \in Tokens : Claim(w, u, t) => plan' = plan
    BY DEF Claim
  <2>9. \A w \in WorkUnits, d \in 1..MaxTime : \A g \in claims[w] : Renew(w, g, d) => plan' = plan
    BY DEF Renew
  <2>10. \A w \in WorkUnits, state \in {"available", "completed"} :
           \A g \in claims[w] : Release(w, g, state) => plan' = plan
    BY DEF Release
  <2>11. Tick \/ UNCHANGED vars => plan' = plan
    BY DEF Tick, vars
  <2>12. QED
    BY <2>1, <2>2, <2>3, <2>4, <2>5, <2>6, <2>7, <2>8, <2>9, <2>10, <2>11 DEF Next
<1>4. QED  BY <1>1, <1>2, <1>3

\* A claim of which the administrator knew nothing is never lost to a takeover
\* (delivery.reassign, reads.status).
THEOREM TakeoverIsSeen == Spec => TakeoverWasSeen
<1> DEFINE Interrupted(w) ==
             Running(units[w]) /\ (units'[w].by # units[w].by \/ units'[w].generation # units[w].generation)
           Explained(w) ==
             \/ releases'[w] # releases[w]
             \/ source'[w[1]].forgotten
             \/ /\ policy.body.takeover
                /\ \E a \in Admins : /\ plan[a] # NoPlan /\ plan[a].source = w[1]
                     /\ plan[a].seen[w[2]] = [by |-> units[w].by, generation |-> units[w].generation]
<1>1. ASSUME Init
      PROVE  PlanInv
  BY <1>1 DEF Init, PlanInv
<1>2. ASSUME WorkInv, PlanInv, [Next]_vars, NEW w \in WorkUnits, Interrupted(w)
      PROVE  Explained(w)
  <2>1. units[w].state = "claimed" /\ Moves(w)
    BY <1>2, StepMoves DEF Moves, Running
  <2>2. CASE Stays(w) \/ Appears(w) \/ Starts(w) \/ Grows(w)
    BY <1>2, <2>1, <2>2 DEF Stays, Appears, Starts, Grows
  <2>3. CASE Ends(w)
    <3>1. PICK o \in {"available", "completed"} :
            releases'[w] = releases[w] \cup {[by |-> units[w].by, token |-> units[w].token,
                                              generation |-> units[w].generation, state |-> o]}
      BY <2>3 DEF Ends
    <3>2. \A q \in releases[w] : q.generation # units[w].generation
      BY <1>2, <2>1 DEF WorkInv, Claimed
    <3> DEFINE entry == [by |-> units[w].by, token |-> units[w].token,
                         generation |-> units[w].generation, state |-> o]
    <3>3. entry.generation = units[w].generation /\ entry \in releases'[w]
      BY <3>1
    <3> HIDE DEF entry
    <3>4. releases'[w] # releases[w]
      BY <3>2, <3>3
    <3>5. QED  BY <3>4
  <2>4. CASE TakenAway(w) /\ ~source'[w[1]].forgotten
    <3>1. PICK a \in Admins : /\ plan[a] # NoPlan /\ plan[a].source = w[1]
                              /\ plan[a].seen[w[2]].generation = units[w].generation
      BY <2>4 DEF TakenAway
    <3>2. plan[a].seen[w[2]].by = units[w].by
      BY <1>2, <2>1, <3>1 DEF PlanInv
    <3>3. plan[a].seen[w[2]] \in [by : Users \cup {NoUser}, generation : Nat]
      BY <1>2, <3>1, UnitsHaveSources DEF WorkInv, TypeOK, Plans
    <3>4. plan[a].seen[w[2]] = [by |-> units[w].by, generation |-> units[w].generation]
      BY <3>1, <3>2, <3>3
    <3>5. QED  BY <1>2, <2>4, <3>1, <3>4 DEF TakenAway
  <2>5. CASE source'[w[1]].forgotten
    BY <2>5
  <2>6. Stays(w) \/ Appears(w) \/ Starts(w) \/ Grows(w) \/ Ends(w) \/ TakenAway(w)
    BY <2>1 DEF Moves
  <2>7. QED  BY <2>2, <2>3, <2>4, <2>5, <2>6
<1>3. WorkInv /\ PlanInv /\ [Next]_vars => [\A w \in WorkUnits : Interrupted(w) => Explained(w)]_vars
  BY <1>2
<1>4. WorkInv /\ WorkInv' /\ PlanInv /\ [Next]_vars => PlanInv'
  BY PlanInvStep
<1>5. Spec => [][\A w \in WorkUnits : Interrupted(w) => Explained(w)]_vars
  BY <1>1, <1>3, <1>4, WorkInvariant, PTL DEF Spec
<1>6. QED  BY <1>5 DEF TakeoverWasSeen

(***************************************************************************)
(* Work units keep the promise of FencedLease.                             *)
(***************************************************************************)

\* The settlements of what was released.
Settled(Q) == {Settlement(q) : q \in Q}

\* A release adds one settlement.
LEMMA SettledMore ==
  ASSUME NEW Q, NEW q
  PROVE  Settled(Q \cup {q}) = Settled(Q) \cup {Settlement(q)}
BY DEF Settled

\* Moves of a lease, as FencedLease has them.
LeaseMoves(w) ==
  LET h == Holder(units[w])  i == Holder(units[w])' IN
  \/ i \in {h, NoHolder} /\ units'[w].generation = units[w].generation /\ Quiet(w)
  \/ /\ h = NoHolder /\ i \in Claimants
     /\ units'[w].generation = units[w].generation + 1 /\ Quiet(w)
  \/ /\ h # NoHolder /\ i = NoHolder /\ units'[w].generation = units[w].generation
     /\ \E o \in {"available", "completed"} :
          Settled(releases'[w]) = Settled(releases[w]) \cup
            {[by |-> h, fence |-> units[w].generation, outcome |-> o]}
  \/ i = NoHolder /\ units'[w].generation = units[w].generation + 1 /\ Quiet(w)

\* Every move of a unit is one of them.
LEMMA MoveIsLeaseMove ==
  ASSUME WorkInv, WorkInv', [Next]_vars, NEW w \in WorkUnits
  PROVE  LeaseMoves(w)
<1> DEFINE r == units[w]
           q == units'[w]
<1>1. r \in UnitRows /\ q \in UnitRows /\ now \in Nat
  BY DEF WorkInv, TypeOK
<1>2. \/ now' = now /\ Moves(w)
      \/ now' = now + 1 /\ Stays(w)
  BY StepMoves
<1>3. ASSUME q.state = "available" \/ q.state = "cancelled" \/ q.state = "completed"
      PROVE  Holder(units[w])' = NoHolder
  BY <1>3 DEF Holder, Running
<1>4. CASE Stays(w)
  <2>1. Holder(units[w])' \in {Holder(units[w]), NoHolder}
    BY <1>1, <1>2, <1>4 DEF Stays, Holder, Running, UnitRows
  <2>2. QED  BY <1>4, <2>1 DEF Stays, LeaseMoves
<1>5. CASE Appears(w)
  BY <1>3, <1>5 DEF Appears, LeaseMoves
<1>6. CASE Starts(w) /\ now' = now
  <2>1. Holder(units[w]) = NoHolder
    BY <1>6 DEF Starts, Holder
  <2>2. Holder(units[w])' \in Claimants \cup {NoHolder}
    BY <1>6 DEF Starts, Holder, Claimants
  <2>3. QED  BY <1>6, <2>1, <2>2 DEF Starts, LeaseMoves
<1>7. CASE Grows(w) /\ now' = now
  <2>1. Running(units[w])' /\ Running(units[w])
    BY <1>7 DEF Grows, Running
  <2>2. Holder(units[w])' = Holder(units[w])
    BY <1>7, <2>1 DEF Grows, Holder
  <2>3. QED  BY <1>7, <2>2 DEF Grows, LeaseMoves
<1>8. CASE Ends(w)
  <2>1. units[w].by \in Users
    BY <1>1, <1>8 DEF Ends, Running, WorkInv, Claimed, UnitRows
  <2>2. Holder(units[w]) = [by |-> units[w].by, token |-> units[w].token]
    BY <1>8 DEF Ends, Holder
  <2>3. Holder(units[w]) # NoHolder
    BY <2>1, <2>2, WorkNullAssumption DEF NoHolder
  <2>4. Holder(units[w])' = NoHolder
    BY <1>3, <1>8 DEF Ends
  <2>5. PICK o \in {"available", "completed"} :
          releases'[w] = releases[w] \cup {[by |-> units[w].by, token |-> units[w].token,
                                            generation |-> units[w].generation, state |-> o]}
    BY <1>8 DEF Ends
  <2>6. Settled(releases'[w]) = Settled(releases[w]) \cup
          {[by |-> Holder(units[w]), fence |-> units[w].generation, outcome |-> o]}
    <3> DEFINE entry == [by |-> units[w].by, token |-> units[w].token,
                         generation |-> units[w].generation, state |-> o]
    <3>1. Settlement(entry) = [by |-> Holder(units[w]), fence |-> units[w].generation, outcome |-> o]
      BY <2>2 DEF Settlement
    <3> HIDE DEF entry
    <3>2. Settled(releases[w] \cup {entry}) = Settled(releases[w]) \cup {Settlement(entry)}
      BY SettledMore
    <3>3. releases'[w] = releases[w] \cup {entry}
      BY <2>5 DEF entry
    <3>4. QED  BY <3>1, <3>2, <3>3
  <2>7. QED  BY <1>8, <2>3, <2>4, <2>6 DEF Ends, LeaseMoves
<1>9. CASE TakenAway(w)
  BY <1>3, <1>9 DEF TakenAway, LeaseMoves
<1>10. QED  BY <1>2, <1>4, <1>5, <1>6, <1>7, <1>8, <1>9 DEF Moves

\* Who holds a unit has the type of the promise.
LEMMA HolderTyped ==
  ASSUME WorkInv, NEW w \in WorkUnits
  PROVE  Holder(units[w]) \in Claimants \cup {NoHolder}
<1>1. claims[w] \in SUBSET ClaimRows
  BY DEF WorkInv, TypeOK
<1>2. ASSUME Running(units[w])
      PROVE  units[w].by \in Users /\ units[w].token \in Tokens
  <2>1. [by |-> units[w].by, token |-> units[w].token,
         generation |-> units[w].generation] \in ClaimRows
    BY <1>1, <1>2 DEF Running, WorkInv, Claimed
  <2>2. QED  BY <2>1 DEF ClaimRows
<1>3. QED  BY <1>2 DEF Holder, Claimants

\* What was settled, too.
LEMMA SettledTyped ==
  ASSUME NEW Q \in SUBSET ReleaseRows
  PROVE  Settled(Q) \in SUBSET Lease!Settlements
<1>1. ASSUME NEW q \in Q
      PROVE  Settlement(q) \in Lease!Settlements
  BY DEF Settlement, Lease!Settlements, Claimants, ReleaseRows
<1>2. QED  BY <1>1 DEF Settled

\* Every step of the work is a step of the leases of its units.
LEMMA StepIsLeaseStep == WorkInv /\ WorkInv' /\ [Next]_vars => Lease!Next
<1> SUFFICES ASSUME WorkInv, WorkInv', [Next]_vars PROVE Lease!Next
  OBVIOUS
<1>1. ASSUME NEW w \in WorkUnits
      PROVE  LeaseMoves(w)
  BY <1>1, MoveIsLeaseMove
<1>2. ASSUME NEW w \in WorkUnits
      PROVE  /\ Holder(units[w])' \in Claimants \cup {NoHolder}
             /\ units'[w].generation \in Nat
             /\ {Settlement(q) : q \in releases'[w]} \in SUBSET Lease!Settlements
  <2>1. Holder(units[w])' \in Claimants \cup {NoHolder}
    BY <1>1, <1>2, HolderTyped DEF LeaseMoves
  <2>2. units'[w].generation \in Nat /\ releases'[w] \in SUBSET ReleaseRows
    BY <1>2 DEF WorkInv, TypeOK, UnitRows
  <2>3. Settled(releases'[w]) \in SUBSET Lease!Settlements
    BY <2>2, SettledTyped
  <2>4. QED  BY <2>1, <2>2, <2>3 DEF Settled
<1>3. ASSUME NEW w \in WorkUnits PROVE Lease!Step(w) \/ Lease!Keep(w)
  BY <1>1 DEF LeaseMoves, Quiet, Settled, Lease!Step, Lease!Keep, Lease!Acquire, Lease!Settle,
     Lease!Lapse, Lease!Revoke
<1>4. QED  BY <1>2, <1>3 DEF Lease!Next

\* Work units are leased as handoffs are: one owner at a time, every claim under
\* a generation of its own, and settled by its own owner or not at all.
THEOREM WorkImplementsLease == Spec => ImplementsFencedLease
<1>1. Init => Lease!Init
  <2> SUFFICES ASSUME Init PROVE Lease!Init
    OBVIOUS
  <2>1. \A w \in WorkUnits : Holder(units[w]) = NoHolder /\ units[w].generation = 0 /\ releases[w] = {}
    BY SourceRowsAreThere DEF Init, Holder, Running
  <2>2. QED  BY <2>1 DEF Lease!Init
<1>2. WorkInv /\ WorkInv' /\ [Next]_vars => [Lease!Next]_(Lease!vars)
  BY StepIsLeaseStep
<1>3. QED  BY <1>1, <1>2, WorkInvariant, PTL DEF Spec, ImplementsFencedLease, Lease!Spec

=============================================================================
