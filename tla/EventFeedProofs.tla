--------------------------- MODULE EventFeedProofs ---------------------------
(***************************************************************************)
(* Proofs about EventFeed, for any resources, readers, writers and limits: *)
(* the feed is one run of positions whatever is purged, and no reader goes *)
(* on showing what changed without being told.                             *)
(***************************************************************************)
EXTENDS EventFeed, FiniteSetTheorems, TLAPS

(***************************************************************************)
(* Least and greatest numbers, and the lowest events.                      *)
(***************************************************************************)

\* There is a least number in every set of them.
LEMMA Least ==
  ASSUME NEW S \in SUBSET Nat, S # {}
  PROVE  \E x \in S : \A y \in S : x <= y
<1> DEFINE R == OpToRel(<, Nat)
<1>1. IsWellFoundedOn(R, Nat)
  BY NatLessThanWellFounded
<1>2. \A x, y \in Nat : x < y => <<x, y>> \in R
  BY DEF OpToRel
<1> HIDE DEF R
<1>3. PICK x \in S : \A y \in S : ~(<<y, x>> \in R)
  BY <1>1, WFMin
<1>4. \A y \in S : ~(y < x)
  BY <1>2, <1>3
<1>5. QED  BY <1>4

\* Of numbers with a bound, Max is the greatest.
LEMMA Greatest ==
  ASSUME NEW S \in SUBSET Nat, S # {}, NEW n \in Nat, \A x \in S : x <= n
  PROVE  Max(S) \in S /\ \A y \in S : y <= Max(S)
<1> DEFINE D == {n - x : x \in S}
<1>1. D \in SUBSET Nat /\ D # {}
  <2>1. \A x \in S : n - x \in Nat
    OBVIOUS
  <2>2. QED  BY <2>1
<1>2. PICK d \in D : \A y \in D : d <= y
  BY <1>1, Least
<1>3. PICK x \in S : d = n - x
  BY <1>2
<1>4. ASSUME NEW y \in S PROVE x >= y
  <2>1. n - x <= n - y
    BY <1>2, <1>3
  <2>2. QED  BY <2>1
<1>5. QED  BY <1>4 DEF Max

\* The lowest n events reach down to the first; they are all if there are no
\* more, and some if there are any.
LEMMA LowestIs ==
  ASSUME NEW S \in SUBSET Events, IsFiniteSet(S), NEW n \in Nat
  PROVE  /\ Lowest(S, n) \subseteq S
         /\ \A e \in Lowest(S, n), d \in S : d.position <= e.position => d \in Lowest(S, n)
         /\ Cardinality(S) <= n => Lowest(S, n) = S
         /\ n > 0 /\ S # {} => Lowest(S, n) # {}
<1> DEFINE Below(e) == {d \in S : d.position < e.position}
<1>0. \A e \in S : e.position \in Nat
  BY DEF Events
<1>1. \A e \in S : /\ IsFiniteSet(Below(e)) /\ Cardinality(Below(e)) \in Nat
                   /\ Cardinality(Below(e)) < Cardinality(S)
  <2> SUFFICES ASSUME NEW e \in S
               PROVE  /\ IsFiniteSet(Below(e)) /\ Cardinality(Below(e)) \in Nat
                      /\ Cardinality(Below(e)) < Cardinality(S)
    OBVIOUS
  <2>1. Below(e) \in SUBSET S /\ e \notin Below(e)
    BY <1>0
  <2>2. Below(e) # S
    BY <2>1
  <2> HIDE DEF Below
  <2>3. /\ IsFiniteSet(Below(e)) /\ Cardinality(Below(e)) <= Cardinality(S)
        /\ Cardinality(S) # Cardinality(Below(e))
    BY <2>1, <2>2, FS_Subset
  <2>4. Cardinality(Below(e)) \in Nat /\ Cardinality(S) \in Nat
    BY <2>3, FS_CardinalityType
  <2>5. QED  BY <2>3, <2>4
<1>2. ASSUME NEW e \in S, NEW d \in S, d.position <= e.position
      PROVE  Cardinality(Below(d)) <= Cardinality(Below(e))
  <2>1. Below(d) \in SUBSET Below(e)
    BY <1>0, <1>2
  <2>2. IsFiniteSet(Below(e))
    BY <1>1
  <2> HIDE DEF Below
  <2>3. QED  BY <2>1, <2>2, FS_Subset
<1>3. Cardinality(S) \in Nat
  BY FS_CardinalityType
<1>4. Lowest(S, n) = {e \in S : Cardinality(Below(e)) < n}
  BY DEF Lowest
<1>5. ASSUME n > 0, S # {} PROVE Lowest(S, n) # {}
  <2> DEFINE P == Positions(S)
  <2>1. P \in SUBSET Nat /\ P # {}
    BY <1>0, <1>5 DEF Positions
  <2>2. PICK x \in P : \A y \in P : x <= y
    BY <2>1, Least
  <2>3. PICK e \in S : e.position = x
    BY <2>2 DEF Positions
  <2>4. \A d \in S : ~(d.position < e.position)
    BY <1>0, <2>2, <2>3 DEF Positions
  <2>5. Below(e) = {}
    BY <2>4
  <2>6. Cardinality(Below(e)) = 0
    BY <2>5, FS_EmptySet
  <2>7. QED  BY <1>4, <1>5, <2>6
<1> HIDE DEF Below
<1>6. ASSUME NEW e \in Lowest(S, n), NEW d \in S, d.position <= e.position
      PROVE  d \in Lowest(S, n)
  <2>1. e \in S /\ Cardinality(Below(e)) < n
    BY <1>4
  <2>2. Cardinality(Below(d)) <= Cardinality(Below(e))
    BY <1>2, <1>6, <2>1
  <2>3. Cardinality(Below(d)) \in Nat /\ Cardinality(Below(e)) \in Nat
    BY <1>1, <2>1
  <2>4. QED  BY <1>4, <2>1, <2>2, <2>3
<1>7. ASSUME Cardinality(S) <= n PROVE Lowest(S, n) = S
  <2>1. \A e \in S : Cardinality(Below(e)) < n
    BY <1>1, <1>3, <1>7
  <2>2. QED  BY <1>4, <2>1
<1>8. QED  BY <1>4, <1>5, <1>6, <1>7

(***************************************************************************)
(* Feeds, and what appends and purges make of them.                        *)
(***************************************************************************)

Feeds == [rows : SUBSET Events, head : Nat, pruned : Nat]

\* One run of positions from the recorded gap to the head, in order of time.
GoodFeed(f) ==
  /\ IsFiniteSet(f.rows) /\ f.pruned <= f.head
  /\ \A e \in f.rows : f.pruned < e.position /\ e.position <= f.head /\ e.at <= now
  /\ \A p \in f.pruned + 1..f.head : \E e \in f.rows : e.position = p
  /\ \A d, e \in f.rows :
       d.position <= e.position => d.at <= e.at /\ (d.position = e.position => d = e)

\* What became of an event: it is kept, or lies in the recorded gap.
KeptIn(e, g) == e \in g.rows \/ e.position <= g.pruned

Forward(f, g) ==
  f.head <= g.head /\ f.pruned <= g.pruned /\ \A e \in f.rows : KeptIn(e, g)

\* A purge only moves the gap forward.
LEMMA PurgedGood ==
  ASSUME FeedAssumption, now \in Nat, NEW f \in Feeds, GoodFeed(f)
  PROVE  /\ Purged(f) \in Feeds /\ GoodFeed(Purged(f)) /\ Forward(f, Purged(f))
         /\ Purged(f).head = f.head
<1> DEFINE Q == {e \in f.rows : Elapsed(e) \/ e.position <= f.head - MaxEvents}
           batch == Lowest(Q, PurgeBatch)
           m == Max({f.pruned} \cup Positions(batch))
           g == [rows |-> f.rows \ batch, head |-> f.head, pruned |-> m]
<1>1. Purged(f) = g /\ PurgeBatch \in Nat /\ Retention \in Nat /\ MaxEvents \in Nat
  BY DEF Purged, Purgeable, FeedAssumption
<1>2. f.rows \in SUBSET Events /\ f.head \in Nat /\ f.pruned \in Nat
  BY DEF Feeds
<1>3. \A e \in f.rows : e.position \in Nat /\ e.at \in Nat
  BY <1>2 DEF Events
<1>4. Q \in SUBSET f.rows /\ Q \in SUBSET Events /\ IsFiniteSet(Q)
  <2>1. Q \in SUBSET f.rows
    OBVIOUS
  <2>2. IsFiniteSet(Q)
    BY <2>1, FS_Subset DEF GoodFeed
  <2>3. QED  BY <1>2, <2>1, <2>2
<1>5. \A e \in Q, d \in f.rows : d.position <= e.position => d \in Q
  BY <1>1, <1>2, <1>3 DEF GoodFeed, Elapsed
<1> HIDE DEF Q
<1>6. /\ batch \subseteq f.rows
      /\ \A e \in batch, d \in f.rows : d.position <= e.position => d \in batch
  <2>1. batch \subseteq Q /\ \A e \in batch, d \in Q : d.position <= e.position => d \in batch
    BY <1>1, <1>4, LowestIs
  <2>2. QED  BY <1>4, <1>5, <2>1
<1> HIDE DEF batch
<1>7. m \in {f.pruned} \cup Positions(batch) /\ \A y \in {f.pruned} \cup Positions(batch) : y <= m
  <2>1. \A x \in {f.pruned} \cup Positions(batch) : x \in Nat /\ x <= f.head
    BY <1>2, <1>3, <1>6 DEF Positions, GoodFeed
  <2>2. {f.pruned} \cup Positions(batch) \in SUBSET Nat
    BY <2>1
  <2>3. QED  BY <1>2, <2>1, <2>2, Greatest
<1> HIDE DEF m
<1>8. m \in Nat /\ f.pruned <= m /\ m <= f.head
  BY <1>2, <1>3, <1>6, <1>7 DEF Positions, GoodFeed
<1>9. \A e \in f.rows : e \in batch <=> e.position <= m
  <2>1. ASSUME NEW e \in batch PROVE e.position <= m
    BY <1>7 DEF Positions
  <2>2. ASSUME NEW e \in f.rows, e.position <= m PROVE e \in batch
    <3>1. m # f.pruned
      BY <1>2, <1>3, <2>2 DEF GoodFeed
    <3>2. PICK d \in batch : m = d.position
      BY <1>7, <3>1 DEF Positions
    <3>3. QED  BY <1>6, <2>2, <3>2
  <2>3. QED  BY <2>1, <2>2
<1>10. g \in Feeds
  BY <1>2, <1>8 DEF Feeds
<1>11. GoodFeed(g)
  <2>1. IsFiniteSet(f.rows \ batch)
    BY FS_Difference DEF GoodFeed
  <2>2. \A e \in f.rows \ batch : m < e.position /\ e.position <= f.head /\ e.at <= now
    BY <1>3, <1>8, <1>9 DEF GoodFeed
  <2>3. ASSUME NEW p \in m + 1..f.head PROVE \E e \in f.rows \ batch : e.position = p
    <3>1. p \in f.pruned + 1..f.head /\ ~(p <= m)
      BY <1>2, <1>8
    <3>2. QED  BY <1>9, <3>1 DEF GoodFeed
  <2>4. QED  BY <1>8, <2>1, <2>2, <2>3 DEF GoodFeed
<1>12. Forward(f, g)
  BY <1>2, <1>8, <1>9 DEF Forward, KeptIn
<1>13. QED  BY <1>1, <1>10, <1>11, <1>12

\* So does an append, for the event after the head.
LEMMA Append1Good ==
  ASSUME FeedAssumption, now \in Nat, NEW f \in Feeds, GoodFeed(f),
         NEW e \in Events, e.position = f.head + 1, e.at = now
  PROVE  LET g == Append1(f, e) IN
         /\ g \in Feeds /\ GoodFeed(g) /\ Forward(f, g) /\ g.head = e.position
         /\ KeptIn(e, g)
<1> DEFINE h == [rows |-> f.rows \cup {e}, head |-> e.position, pruned |-> f.pruned]
           g == Purged(h)
<1>1. f.rows \in SUBSET Events /\ f.head \in Nat /\ f.pruned \in Nat /\ e.position \in Nat
  BY DEF Feeds, Events
<1>2. Max({f.head, e.position}) = e.position
  <2>1. Max({f.head, e.position}) \in {f.head, e.position}
        /\ \A y \in {f.head, e.position} : y <= Max({f.head, e.position})
    <3>1. {f.head, e.position} \in SUBSET Nat /\ \A x \in {f.head, e.position} : x <= e.position
      BY <1>1
    <3>2. QED  BY <1>1, <3>1, Greatest
  <2>2. QED  BY <1>1, <2>1
<1>3. Append1(f, e) = g
  BY <1>2 DEF Append1
<1>4. h \in Feeds
  BY <1>1 DEF Feeds
<1>5. GoodFeed(h)
  <2>1. IsFiniteSet(h.rows)
    BY FS_AddElement DEF GoodFeed
  <2>2. \A d \in f.rows : d.position \in Nat /\ d.at \in Nat /\ d.position <= f.head /\ d.at <= now
    BY <1>1 DEF GoodFeed, Events
  <2>3. \A p \in f.pruned + 1..e.position : p \in f.pruned + 1..f.head \/ p = e.position
    BY <1>1
  <2>4. \A p \in h.pruned + 1..h.head : \E d \in h.rows : d.position = p
    BY <2>3 DEF GoodFeed
  <2>5. \A d \in h.rows : h.pruned < d.position /\ d.position <= h.head /\ d.at <= now
    BY <1>1, <2>2 DEF GoodFeed
  <2>6. \A c, d \in h.rows :
          c.position <= d.position => c.at <= d.at /\ (c.position = d.position => c = d)
    BY <1>1, <2>2 DEF GoodFeed
  <2>7. QED  BY <1>1, <2>1, <2>4, <2>5, <2>6 DEF GoodFeed
<1>6. Forward(f, h) /\ e \in h.rows
  BY <1>1 DEF Forward, KeptIn
<1>7. g \in Feeds /\ GoodFeed(g) /\ Forward(h, g) /\ g.head = h.head
  BY <1>4, <1>5, PurgedGood
<1>8. Forward(f, g) /\ KeptIn(e, g)
  <2> HIDE DEF g
  <2>1. f.head <= h.head /\ f.pruned <= h.pruned /\ h.rows = f.rows \cup {e}
    BY <1>1
  <2> HIDE DEF h
  <2>2. g.head \in Nat /\ g.pruned \in Nat /\ h.head \in Nat /\ h.pruned \in Nat
    BY <1>4, <1>7 DEF Feeds
  <2>3. QED  BY <1>1, <1>7, <2>1, <2>2 DEF Forward
<1> HIDE DEF g
<1>9. QED  BY <1>3, <1>7, <1>8

\* The event of a transaction at one of its positions.
EventOf(t, k) == [position |-> t.first + k - 1, at |-> now, topic |-> t.topics[k]]

\* And a transaction of one event or two.
LEMMA AppendedGood ==
  ASSUME FeedAssumption, now \in Nat, NEW f \in Feeds, GoodFeed(f),
         NEW t, t.first = f.head + 1, t.topics \in Seq(Topics), Len(t.topics) \in 1..2
  PROVE  LET g == Appended(f, t) IN
         /\ g \in Feeds /\ GoodFeed(g) /\ Forward(f, g)
         /\ \A k \in 1..Len(t.topics) :
              EventOf(t, k) \in Events /\ f.head < EventOf(t, k).position /\ KeptIn(EventOf(t, k), g)
<1>0. f.head \in Nat /\ f.pruned \in Nat
  BY DEF Feeds
<1>1. \A k \in 1..Len(t.topics) :
        EventOf(t, k) \in Events /\ EventOf(t, k).position = f.head + k /\ EventOf(t, k).at = now
  BY <1>0 DEF EventOf, Events
<1> DEFINE a == EventOf(t, 1)
           b == EventOf(t, 2)
           g == Append1(f, a)
           h == Append1(g, b)
<1>2. Appended(f, t) = (IF Len(t.topics) = 1 THEN g ELSE h) /\ 1 \in 1..Len(t.topics)
  <2>1. Appended(f, t) = IF Len(t.topics) = 1 THEN g ELSE h
    BY DEF Appended, EventOf
  <2>2. QED  BY <2>1
<1>3. a \in Events /\ a.position = f.head + 1 /\ a.at = now
  BY <1>1, <1>2
<1> HIDE DEF a
<1>4. g \in Feeds /\ GoodFeed(g) /\ Forward(f, g) /\ g.head = f.head + 1 /\ KeptIn(a, g)
  BY <1>3, Append1Good
<1> HIDE DEF g
<1>5. CASE Len(t.topics) = 1
  <2>1. Appended(f, t) = g /\ \A k \in 1..Len(t.topics) : EventOf(t, k) = a
    BY <1>2, <1>5 DEF a
  <2>2. QED  BY <1>0, <1>1, <1>4, <2>1
<1>6. CASE Len(t.topics) = 2
  <2>1. b \in Events /\ b.position = g.head + 1 /\ b.at = now
    BY <1>0, <1>1, <1>4, <1>6
  <2> HIDE DEF b
  <2>2. h \in Feeds /\ GoodFeed(h) /\ Forward(g, h) /\ KeptIn(b, h)
    BY <1>4, <2>1, Append1Good
  <2>3. Appended(f, t) = h /\ \A k \in 1..Len(t.topics) : EventOf(t, k) = a \/ EventOf(t, k) = b
    BY <1>2, <1>6 DEF a, b
  <2> HIDE DEF h
  <2>4. g.head \in Nat /\ g.pruned \in Nat /\ h.head \in Nat /\ h.pruned \in Nat
    BY <1>4, <2>2 DEF Feeds
  <2>5. \A e \in f.rows \cup {a} : e.position \in Nat
    BY <1>3 DEF Feeds, Events
  <2>6. Forward(f, h) /\ KeptIn(a, h)
    BY <1>0, <1>4, <2>2, <2>4, <2>5 DEF Forward, KeptIn
  <2>7. QED  BY <1>0, <1>1, <2>2, <2>3, <2>6
<1>7. QED  BY <1>5, <1>6

(***************************************************************************)
(* The invariant.                                                          *)
(***************************************************************************)

Stored == [rows |-> feed, head |-> head, pruned |-> pruned]

\* Resources that exist are somebody's; only bundles are addressed to others.
GoodItem(i, x) ==
  /\ i # Policy /\ x.rev > 0 => x.from \in Users
  /\ x.rev = 0 => ~x.gone
  /\ i \notin Bundles => x.to = {}
  /\ i = Policy => x.rev > 0 /\ ~x.gone

\* A row of a bundle is its checkpoint's sender's, as the checkpoint is classified.
FromSource(b, x) ==
  LET c == item[SourceOf[b]] IN c.rev > 0 /\ x.from = c.from /\ x.class = c.class

Derived == \A b \in Bundles : SourceOf[b] # None /\ item[b].rev > 0 => FromSource(b, item[b])

\* The next row of a resource: its deadline stays, and whose it is.
Follows(i, x) ==
  /\ ~item[i].gone /\ x.rev = item[i].rev + 1
  /\ item[i].rev > 0 => x.until = item[i].until
  /\ item[i].rev > 0 /\ i \in Checkpoints \cup Bundles =>
       x.from = item[i].from /\ x.class = item[i].class
  /\ i \in Bundles /\ SourceOf[i] # None /\ item[i].rev = 0 => FromSource(i, x)

\* A reader to whom a resource becomes x hears of it by this event.
Heard(r, i, x, topic) ==
  /\ topic.item \in {i, Signal}
  /\ topic.class <= r.ceiling
  /\ topic.broadcast \/ r.project \/ r.user \in topic.audience
  /\ topic.item # Signal => ShownAs(r, i, x) # Nothing

\* Everyone who sees a resource, or will, hears that it becomes x.
Announced(i, x, topics) ==
  ~(i \in Sessions \cup Runs /\ x.gone) =>
    \A r \in Readers : Shown(r, i) # Nothing \/ ShownAs(r, i, x) # Nothing =>
      \E k \in 1..Len(topics) : Heard(r, i, x, topics[k])

GoodChange(i, x, topics) == GoodItem(i, x) /\ Follows(i, x) /\ Announced(i, x, topics)

GoodTxn(t) ==
  /\ t.first = head + 1 /\ Len(t.topics) \in 1..2
  /\ \A i \in DOMAIN t.changes : GoodChange(i, t.changes[i], t.topics)

\* One transaction at most is open, and announces what it changes.
TxnInv ==
  \A w \in Writers : txn[w] # None =>
    GoodTxn(txn[w]) /\ \A x \in Writers : txn[x] # None => x = w

\* A cursor of this position and time is not accepted any more.
Lost(p, t) == now - t > Retention \/ p < pruned \/ \E e \in feed : Elapsed(e) /\ p < e.position

Told(r, i, p) == \E e \in feed : e.position > p /\ Visible(r, e) /\ e.topic.item \in {i, Signal}

\* What is not announced: that a session or run was retired, or a deadline passed.
Ended(i) == Retired(i) \/ (item[i].rev > 0 /\ Over(i, item[i]))

\* Whoever has read v of a resource, and the feed up to p, is up to date or will
\* be told.
Noticed(r, i, v, p, t) == v # Shown(r, i) /\ ~Ended(i) => Lost(p, t) \/ Told(r, i, p)

\* What was read of a resource has the deadline that it has.
ReadInv ==
  \A r \in Readers, i \in Items :
    view[r][i] # Nothing => item[i].rev > 0 /\ view[r][i].until = item[i].until

CursorInv(r) ==
  cursor[r] # None =>
    /\ cursor[r].position <= head
    /\ \A i \in Items : Noticed(r, i, view[r][i], cursor[r].position, cursor[r].issued)

\* The same of what its client does not read anew when an answer arrives.
AnswerInv(r) ==
  answer[r] # None =>
    /\ answer[r].next <= head
    /\ \A i \in Items \ answer[r].reread : Noticed(r, i, view[r][i], answer[r].next, answer[r].issued)

ClientInv == \A r \in Readers : CursorInv(r) /\ AnswerInv(r)

\* The resources are as they should be.
ItemInv == Derived /\ \A i \in Items : GoodItem(i, item[i])

FeedInv == TypeOK /\ GoodFeed(Stored) /\ ItemInv /\ TxnInv /\ ReadInv /\ ClientInv

(***************************************************************************)
(* Writing: what a transaction announces.                                  *)
(***************************************************************************)

Facts == /\ Items = Checkpoints \cup Bundles \cup Sessions \cup Runs \cup {Policy}
         /\ Checkpoints \cap Bundles = {}
         /\ (Checkpoints \cup Bundles) \cap (Sessions \cup Runs) = {}
         /\ Policy \notin Checkpoints \cup Bundles \cup Sessions \cup Runs
         /\ Signal \notin Items
         /\ \A b \in Bundles : SourceOf[b] # None => SourceOf[b] \in Checkpoints
         /\ \A a, b \in Bundles : SourceOf[a] = SourceOf[b] /\ SourceOf[a] # None => a = b
         /\ Classes \subseteq Nat /\ 0 \in Classes /\ Admins \subseteq Users
         /\ Deadlines \subseteq Nat
         /\ \A r \in Readers : r.user \in Users /\ r.ceiling \in Nat
         /\ Retention \in Nat /\ PageLimit \in Nat /\ PageLimit > 0

LEMMA FactsHold == ASSUME FeedAssumption PROVE Facts
<1>1. \A r \in Readers : r.user \in Users /\ r.ceiling \in Nat
  <2>1. Classes \subseteq Nat /\ \A r \in Readers : r \in [user : Users, project : BOOLEAN, ceiling : Classes]
    BY DEF FeedAssumption
  <2>2. QED  BY <2>1
<1>2. \A b \in Bundles : SourceOf[b] # None => SourceOf[b] \in Checkpoints
  BY DEF FeedAssumption
<1>3. QED  BY <1>1, <1>2 DEF FeedAssumption, Facts, Items

RowType(i) ==
  /\ item[i] \in Rows /\ item[i].rev \in Nat /\ item[i].from \in Users \cup {None}
  /\ item[i].to \subseteq Users /\ item[i].class \in Classes /\ item[i].class \in Nat
  /\ item[i].until \in Nat /\ item[i].gone \in BOOLEAN /\ GoodItem(i, item[i])

LEMMA RowTyped ==
  ASSUME Facts, FeedInv, NEW i \in Items PROVE RowType(i)
<1>1. item[i] \in Rows
  BY DEF FeedInv, TypeOK
<1>2. QED  BY <1>1 DEF Rows, RowType, FeedInv, ItemInv, Facts

\* A row of six fields.
Row(rev, from, to, class, until, gone) ==
  [rev |-> rev, from |-> from, to |-> to, class |-> class, until |-> until, gone |-> gone]

LEMMA RowIn ==
  ASSUME NEW rev \in Nat, NEW from \in Users \cup {None}, NEW to \in SUBSET Users,
         NEW class \in Classes, NEW until \in Nat, NEW gone \in BOOLEAN
  PROVE  LET x == Row(rev, from, to, class, until, gone) IN
         /\ x \in Rows /\ x.rev = rev /\ x.from = from /\ x.to = to
         /\ x.class = class /\ x.until = until /\ x.gone = gone
BY DEF Row, Rows

\* The next revision of a row, and that with other fields.
LEMMA RevisedIs ==
  ASSUME NEW i \in Items, item[i] \in Rows
  PROVE  LET x == item[i] IN
         /\ Revised(i) = Row(x.rev + 1, x.from, x.to, x.class, x.until, x.gone)
         /\ \A to : [Revised(i) EXCEPT !.to = to] =
              Row(x.rev + 1, x.from, to, x.class, x.until, x.gone)
         /\ \A class : [Revised(i) EXCEPT !.class = class] =
              Row(x.rev + 1, x.from, x.to, class, x.until, x.gone)
         /\ Removed(i) = Row(x.rev + 1, x.from, x.to, x.class, x.until, TRUE)
         /\ [Removed(i) EXCEPT !.to = {}] =
              Row(x.rev + 1, x.from, {}, x.class, x.until, TRUE)
<1> DEFINE x == item[i]
<1>1. x \in Rows
  OBVIOUS
<1> HIDE DEF x
<1>2. [x EXCEPT !.rev = @ + 1] = Row(x.rev + 1, x.from, x.to, x.class, x.until, x.gone)
  BY <1>1 DEF Rows, Row
<1> DEFINE y == Revised(i)
<1>3. y = Row(x.rev + 1, x.from, x.to, x.class, x.until, x.gone)
  BY <1>2 DEF Revised, x
<1>4. y \in Rows
  BY <1>1, <1>3 DEF Rows, Row
<1>5. /\ y.rev = x.rev + 1 /\ y.from = x.from /\ y.to = x.to
      /\ y.class = x.class /\ y.until = x.until /\ y.gone = x.gone
  BY <1>3 DEF Row
<1> HIDE DEF y
<1>6. ASSUME NEW to PROVE [y EXCEPT !.to = to] = Row(y.rev, y.from, to, y.class, y.until, y.gone)
  BY <1>4 DEF Rows, Row
<1>7. ASSUME NEW class
      PROVE  [y EXCEPT !.class = class] = Row(y.rev, y.from, y.to, class, y.until, y.gone)
  BY <1>4 DEF Rows, Row
<1> DEFINE z == Row(y.rev, y.from, y.to, y.class, y.until, TRUE)
<1>8. [y EXCEPT !.gone = TRUE] = z
  <2>1. ASSUME NEW gone
        PROVE  [y EXCEPT !.gone = gone] = Row(y.rev, y.from, y.to, y.class, y.until, gone)
    BY <1>4 DEF Rows, Row
  <2>2. QED  BY <2>1, Zenon
<1>9. [z EXCEPT !.to = {}] = Row(y.rev, y.from, {}, y.class, y.until, TRUE)
  <2>1. ASSUME NEW gone
        PROVE  [Row(y.rev, y.from, y.to, y.class, y.until, gone) EXCEPT !.to = {}]
                 = Row(y.rev, y.from, {}, y.class, y.until, gone)
    BY DEF Row
  <2>2. QED  BY <2>1, Zenon
<1> HIDE DEF z
<1>10. Removed(i) = z
  BY <1>8 DEF Removed, y
<1>11. QED  BY <1>3, <1>5, <1>6, <1>7, <1>9, <1>10 DEF x, y, z

\* A transaction that announces what it changes keeps the invariant.
LEMMA WriteStep ==
  ASSUME FeedAssumption, FeedInv, NEW w \in Writers, NEW S \in SUBSET Items,
         NEW changes \in [S -> Rows], NEW topics \in Seq(Topics), Len(topics) \in 1..2,
         \A i \in S : GoodChange(i, changes[i], topics), Write(w, changes, topics)
  PROVE  FeedInv'
<1> DEFINE t == [changes |-> changes, first |-> Top + 1, topics |-> topics]
<1>1. /\ HeadFree /\ txn' = [txn EXCEPT ![w] = t]
      /\ UNCHANGED <<now, item, feed, head, pruned, cursor, answer, view>>
  BY DEF Write, Idle
<1>2. Top = head /\ head \in Nat
  <2>1. {txn[x] : x \in Writers} \ {None} = {}
    BY <1>1 DEF HeadFree
  <2>2. head \in Nat
    BY DEF FeedInv, TypeOK
  <2>3. Max({head}) = head
    BY <2>2 DEF Max
  <2>4. {head} \cup {x.first + Len(x.topics) - 1 : x \in {txn[y] : y \in Writers} \ {None}} = {head}
    BY <2>1
  <2>5. QED  BY <2>2, <2>3, <2>4 DEF Top
<1>3. t \in Txns(S)
  BY <1>2 DEF Txns
<1>4. GoodTxn(t)
  BY <1>2 DEF GoodTxn
<1> HIDE DEF t
<1>5. \A x \in Writers : txn'[x] # None => x = w /\ txn'[x] = t
  BY <1>1 DEF HeadFree, FeedInv, TypeOK
<1>6. TypeOK'
  <2>1. DOMAIN txn' = Writers
    BY <1>1 DEF FeedInv, TypeOK
  <2>2. QED  BY <1>1, <1>3, <1>5, <2>1 DEF FeedInv, TypeOK
<1>7. TxnInv'
  <2>1. PICK c : c = t
    OBVIOUS
  <2>2. GoodTxn(c)'
    BY <1>1, <1>4, <2>1 DEF GoodTxn, GoodChange, Follows, FromSource, Announced, Heard, Shown,
                            ShownAs, Over
  <2>3. QED  BY <1>5, <2>1, <2>2 DEF TxnInv
<1>8. (GoodFeed(Stored) /\ ItemInv /\ ReadInv)'
  BY <1>1 DEF FeedInv, GoodFeed, Stored, ItemInv, Derived, FromSource, ReadInv
<1>9. ClientInv'
  BY <1>1 DEF FeedInv, ClientInv, CursorInv, AnswerInv, Noticed, Ended, Retired, Lost, Told,
              Elapsed, Visible, Shown, ShownAs, Over
<1>10. QED  BY <1>6, <1>7, <1>8, <1>9 DEF FeedInv

\* One resource becomes a row.
LEMMA OneStep ==
  ASSUME FeedAssumption, FeedInv, NEW w \in Writers, NEW i \in Items, NEW row \in Rows,
         NEW topics \in Seq(Topics), Len(topics) \in 1..2, GoodChange(i, row, topics),
         Write(w, [j \in {i} |-> row], topics)
  PROVE  FeedInv'
<1> DEFINE changes == [j \in {i} |-> row]
<1>1. changes \in [{i} -> Rows] /\ {i} \in SUBSET Items /\ changes[i] = row
  OBVIOUS
<1> HIDE DEF changes
<1>2. \A j \in {i} : GoodChange(j, changes[j], topics)
  BY <1>1
<1>3. Write(w, changes, topics)
  BY DEF changes
<1>4. QED  BY <1>1, <1>2, <1>3, WriteStep

\* One topic, or two, as a sequence.
LEMMA TopicSeq ==
  ASSUME NEW a \in Topics, NEW b \in Topics
  PROVE  /\ <<a>> \in Seq(Topics) /\ Len(<<a>>) \in 1..2 /\ <<a>>[1] = a /\ 1 \in 1..Len(<<a>>)
         /\ <<a, b>> \in Seq(Topics) /\ Len(<<a, b>>) \in 1..2
         /\ <<a, b>>[1] = a /\ <<a, b>>[2] = b /\ 1 \in 1..Len(<<a, b>>) /\ 2 \in 1..Len(<<a, b>>)
OBVIOUS

\* An event of a resource that names its owner and addressees reaches whoever
\* the row is shown to.
LEMMA AnnounceReaches ==
  ASSUME Facts, NEW i \in Items, i # Policy, NEW row \in Rows, row.rev > 0, GoodItem(i, row)
  PROVE  /\ Announce(i, row) \in Topics
         /\ \A r \in Readers : ShownAs(r, i, row) # Nothing => Heard(r, i, row, Announce(i, row))
<1> DEFINE a == Announce(i, row)
<1>1. /\ a.item = i /\ a.class = row.class /\ a.audience = {row.from} \cup row.to
      /\ a = [item |-> i, class |-> row.class, audience |-> {row.from} \cup row.to, broadcast |-> FALSE]
  BY DEF Announce, Topic
<1>2. row.from \in Users /\ row.to \subseteq Users /\ row.class \in Classes
  BY DEF GoodItem, Rows
<1>3. a \in Topics
  BY <1>1, <1>2 DEF Topics
<1> HIDE DEF a
<1>4. ASSUME NEW r \in Readers, ShownAs(r, i, row) # Nothing PROVE Heard(r, i, row, a)
  <2>1. row.class <= r.ceiling /\ (r.project \/ r.user \in {row.from} \cup row.to)
    BY <1>4 DEF ShownAs
  <2>2. QED  BY <1>1, <1>4, <2>1 DEF Heard
<1>5. QED  BY <1>3, <1>4 DEF a

\* A change that hides the resource from nobody is announced as such.
LEMMA SetStep ==
  ASSUME FeedAssumption, FeedInv, NEW w \in Writers, NEW i \in Items, i # Policy, NEW row \in Rows,
         row.rev > 0, GoodItem(i, row), Follows(i, row),
         \A r \in Readers : Shown(r, i) # Nothing => ShownAs(r, i, row) # Nothing,
         Set(w, i, row)
  PROVE  FeedInv'
<1> DEFINE a == Announce(i, row)
<1>1. a \in Topics /\ \A r \in Readers : ShownAs(r, i, row) # Nothing => Heard(r, i, row, a)
  BY FactsHold, AnnounceReaches
<1>2. Write(w, [j \in {i} |-> row], <<a>>)
  BY DEF Set
<1> HIDE DEF a
<1>3. <<a>> \in Seq(Topics) /\ Len(<<a>>) \in 1..2 /\ <<a>>[1] = a /\ 1 \in 1..Len(<<a>>)
  BY <1>1, TopicSeq
<1>4. Announced(i, row, <<a>>)
  BY <1>1, <1>3 DEF Announced
<1>5. GoodChange(i, row, <<a>>)
  BY <1>4 DEF GoodChange
<1>6. QED  BY <1>2, <1>3, <1>5, OneStep

\* A resource that appears.
LEMMA NewStep ==
  ASSUME FeedAssumption, FeedInv, NEW w \in Writers, NEW i \in Items, NEW u \in Users,
         NEW to \in SUBSET Users, NEW class \in Classes, NEW until \in Nat,
         item[i].rev = 0, i \notin Bundles => to = {},
         i \in Bundles /\ SourceOf[i] # None => FromSource(i, New(u, to, class, until)),
         Set(w, i, New(u, to, class, until))
  PROVE  FeedInv'
<1> DEFINE row == New(u, to, class, until)
<1>1. RowType(i)
  BY FactsHold, RowTyped
<1>2. i # Policy /\ ~item[i].gone
  BY <1>1 DEF RowType, GoodItem
<1>3. /\ row \in Rows /\ row.rev = 1 /\ row.from = u /\ row.to = to /\ ~row.gone
  BY DEF New, Rows
<1>4. i \in Bundles /\ SourceOf[i] # None => FromSource(i, row)
  OBVIOUS
<1>5. Set(w, i, row)
  OBVIOUS
<1> HIDE DEF row
<1>6. GoodItem(i, row) /\ Follows(i, row)
  BY <1>2, <1>3, <1>4 DEF GoodItem, Follows
<1>7. \A r \in Readers : Shown(r, i) = Nothing
  BY DEF Shown, ShownAs
<1>8. QED  BY <1>2, <1>3, <1>5, <1>6, <1>7, SetStep

LEMMA SaveStep ==
  ASSUME FeedAssumption, FeedInv, NEW w \in Writers, NEW c \in Checkpoints, NEW u \in Users,
         NEW class \in Classes, NEW until \in Deadlines, Save(w, c, u, class, until)
  PROVE  FeedInv'
<1>1. Facts /\ until \in Nat /\ c \in Items /\ c \notin Bundles
  BY FactsHold DEF Facts
<1>2. item[c].rev = 0 /\ Set(w, c, New(u, {}, class, until))
  BY DEF Save
<1>3. QED  BY <1>1, <1>2, NewStep

LEMMA PublishStep ==
  ASSUME FeedAssumption, FeedInv, NEW w \in Writers, NEW b \in Bundles, NEW u \in Users,
         NEW to \in SUBSET Users, NEW class \in Classes, NEW until \in Deadlines,
         Publish(w, b, u, to, class, until)
  PROVE  FeedInv'
<1>1. Facts /\ until \in Nat /\ b \in Items
  BY FactsHold DEF Facts
<1>2. item[b].rev = 0 /\ Set(w, b, New(u, to, class, until))
  BY DEF Publish
<1>3. SourceOf[b] # None => FromSource(b, New(u, to, class, until))
  BY DEF Publish, Retained, Present, FromSource, New
<1>4. QED  BY <1>1, <1>2, <1>3, NewStep

LEMMA RegisterStep ==
  ASSUME FeedAssumption, FeedInv, NEW w \in Writers, NEW s \in Sessions, NEW u \in Users,
         NEW class \in Classes, Register(w, s, u, class)
  PROVE  FeedInv'
<1>1. Facts /\ s \in Items /\ s \notin Bundles
  BY FactsHold DEF Facts
<1>2. item[s].rev = 0 /\ Set(w, s, New(u, {}, class, 0))
  BY DEF Register
<1>3. QED  BY <1>1, <1>2, NewStep

LEMMA FinalizeStep ==
  ASSUME FeedAssumption, FeedInv, NEW w \in Writers, NEW n \in Runs, NEW u \in Users,
         NEW class \in Classes, Finalize(w, n, u, class)
  PROVE  FeedInv'
<1>1. Facts /\ n \in Items /\ n \notin Bundles
  BY FactsHold DEF Facts
<1>2. item[n].rev = 0 /\ Set(w, n, New(u, {}, class, 0))
  BY DEF Finalize
<1>3. QED  BY <1>1, <1>2, NewStep

LEMMA ReassignStep ==
  ASSUME FeedAssumption, FeedInv, NEW w \in Writers, NEW i \in Bundles, NEW to \in SUBSET Users,
         Reassign(w, i, to)
  PROVE  FeedInv'
<1> DEFINE x == item[i]
           row == Row(x.rev + 1, x.from, to, x.class, x.until, x.gone)
           removed == x.to \ to
           a == Announce(i, row)
           b == Topic(Signal, row.class, removed)
<1>1. Facts /\ i \in Items /\ i # Policy /\ i \notin Sessions \cup Runs /\ RowType(i)
  BY FactsHold, RowTyped DEF Facts
<1>2. x.rev > 0 /\ ~x.gone /\ ~Over(i, x)
  BY DEF Reassign, Retained, Present
<1>3. row = [Revised(i) EXCEPT !.to = to]
  BY <1>1, RevisedIs DEF RowType
<1>4. /\ removed = {} => Set(w, i, row)
      /\ removed # {} => Write(w, [j \in {i} |-> row], <<a, b>>)
  BY <1>3 DEF Reassign
<1>5. /\ row.rev = x.rev + 1 /\ row.from = x.from /\ row.to = to /\ row.class = x.class
      /\ row.until = x.until /\ row.gone = x.gone /\ row \in Rows
  BY <1>1 DEF Row, Rows, RowType
<1> HIDE DEF row
<1>6. row.rev > 0 /\ GoodItem(i, row) /\ Follows(i, row)
  BY <1>1, <1>2, <1>5 DEF GoodItem, RowType, Follows
<1>7. a \in Topics /\ \A r \in Readers : ShownAs(r, i, row) # Nothing => Heard(r, i, row, a)
  BY <1>1, <1>5, <1>6, AnnounceReaches
<1>8. /\ b.item = Signal /\ b.class = x.class /\ b.audience = removed /\ b \in Topics
  BY <1>1, <1>5 DEF Topic, Topics, RowType
<1>9. ASSUME NEW r \in Readers, Shown(r, i) # Nothing, ShownAs(r, i, row) = Nothing
      PROVE  r.user \in removed /\ x.class <= r.ceiling
  BY <1>1, <1>2, <1>5, <1>6, <1>9 DEF Shown, ShownAs, Over, Nothing
<1> HIDE DEF a, b
<1>10. CASE removed = {}
  <2>1. \A r \in Readers : Shown(r, i) # Nothing => ShownAs(r, i, row) # Nothing
    BY <1>9, <1>10
  <2>2. QED  BY <1>1, <1>4, <1>5, <1>6, <1>10, <2>1, SetStep
<1>11. CASE removed # {}
  <2>1. ASSUME NEW r \in Readers, Shown(r, i) # Nothing \/ ShownAs(r, i, row) # Nothing
        PROVE  Heard(r, i, row, a) \/ Heard(r, i, row, b)
    BY <1>7, <1>8, <1>9, <2>1 DEF Heard
  <2>2. Announced(i, row, <<a, b>>)
    BY <1>7, <1>8, <2>1, TopicSeq DEF Announced
  <2>3. GoodChange(i, row, <<a, b>>)
    BY <1>6, <2>2 DEF GoodChange
  <2>4. QED  BY <1>1, <1>4, <1>5, <1>7, <1>8, <1>11, <2>3, TopicSeq, OneStep
<1>12. QED  BY <1>10, <1>11

LEMMA TouchStep ==
  ASSUME FeedAssumption, FeedInv, NEW w \in Writers, NEW i \in Bundles \cup Sessions, Touch(w, i)
  PROVE  FeedInv'
<1> DEFINE x == item[i]
           row == Row(x.rev + 1, x.from, x.to, x.class, x.until, x.gone)
<1>1. Facts /\ i \in Items /\ i # Policy /\ RowType(i)
  BY FactsHold, RowTyped DEF Facts
<1>2. x.rev > 0 /\ ~x.gone /\ ~Over(i, x)
  BY DEF Touch, Retained, Present
<1>3. Set(w, i, row)
  BY <1>1, RevisedIs DEF RowType, Touch
<1>4. /\ row.rev = x.rev + 1 /\ row.from = x.from /\ row.to = x.to /\ row.class = x.class
      /\ row.until = x.until /\ row.gone = x.gone /\ row \in Rows
  BY <1>1 DEF Row, Rows, RowType
<1> HIDE DEF row
<1>5. row.rev > 0 /\ GoodItem(i, row) /\ Follows(i, row)
  BY <1>1, <1>2, <1>4 DEF GoodItem, RowType, Follows
<1>6. \A r \in Readers : Shown(r, i) # Nothing => ShownAs(r, i, row) # Nothing
  BY <1>1, <1>2, <1>4, <1>5 DEF Shown, ShownAs, Over, Nothing
<1>7. QED  BY <1>1, <1>3, <1>4, <1>5, <1>6, SetStep

LEMMA ReclassifyStep ==
  ASSUME FeedAssumption, FeedInv, NEW w \in Writers, NEW i \in Sessions, NEW class \in Classes,
         Reclassify(w, i, class)
  PROVE  FeedInv'
<1> DEFINE x == item[i]
           row == Row(x.rev + 1, x.from, x.to, class, x.until, x.gone)
           a == Announce(i, row)
           b == Topic(Signal, x.class, {x.from})
<1>1. Facts /\ i \in Items /\ i # Policy /\ i \notin Checkpoints \cup Bundles /\ RowType(i)
  BY FactsHold, RowTyped DEF Facts
<1>2. x.rev > 0 /\ ~x.gone /\ class > x.class /\ x.to = {}
  BY <1>1 DEF Reclassify, Present, RowType, GoodItem
<1>3. Write(w, [j \in {i} |-> row], <<a, b>>)
  BY <1>1, RevisedIs DEF RowType, Reclassify
<1>4. /\ row.rev = x.rev + 1 /\ row.from = x.from /\ row.to = {} /\ row.class = class
      /\ row.until = x.until /\ row.gone = x.gone /\ row \in Rows
  BY <1>1, <1>2 DEF Row, Rows, RowType
<1> HIDE DEF row
<1>5. row.rev > 0 /\ GoodItem(i, row) /\ Follows(i, row) /\ x.from \in Users
  BY <1>1, <1>2, <1>4 DEF GoodItem, RowType, Follows
<1>6. a \in Topics /\ \A r \in Readers : ShownAs(r, i, row) # Nothing => Heard(r, i, row, a)
  BY <1>1, <1>4, <1>5, AnnounceReaches
<1>7. b.item = Signal /\ b.class = x.class /\ b.audience = {x.from} /\ b \in Topics
  BY <1>1, <1>5 DEF Topic, Topics, RowType
<1> HIDE DEF a, b
<1>8. ASSUME NEW r \in Readers, Shown(r, i) # Nothing PROVE Heard(r, i, row, b)
  <2>1. x.class <= r.ceiling /\ (r.project \/ r.user = x.from)
    BY <1>1, <1>2, <1>8 DEF Shown, ShownAs
  <2>2. QED  BY <1>7, <2>1 DEF Heard
<1>9. Announced(i, row, <<a, b>>)
  BY <1>6, <1>7, <1>8, TopicSeq DEF Announced
<1>10. GoodChange(i, row, <<a, b>>)
  BY <1>5, <1>9 DEF GoodChange
<1>11. QED  BY <1>1, <1>3, <1>4, <1>6, <1>7, <1>10, TopicSeq, OneStep

LEMMA EraseStep ==
  ASSUME FeedAssumption, FeedInv, NEW w \in Writers, NEW c \in Checkpoints, Erase(w, c)
  PROVE  FeedInv'
<1> DEFINE gone == {i \in {c} \cup {b \in Bundles : SourceOf[b] = c} : Present(i)}
           told == {item[c].from} \cup UNION {item[i].to : i \in gone}
           a == Topic(Signal, item[c].class, told)
           row(i) == [Removed(i) EXCEPT !.to = {}]
           changes == [i \in gone |-> row(i)]
<1>1. Facts /\ c \in Items /\ c # Policy /\ RowType(c) /\ c # None
  BY FactsHold, RowTyped DEF Facts, FeedAssumption
<1>2. item[c].rev > 0 /\ Write(w, changes, <<a>>)
  BY DEF Erase
<1>3. \A i \in gone :
        /\ i \in Items /\ i # Policy /\ i \notin Sessions \cup Runs /\ RowType(i)
        /\ item[i].rev > 0 /\ ~item[i].gone
        /\ item[i].from = item[c].from /\ item[i].class = item[c].class
  <2>1. ASSUME NEW i \in gone, i # c PROVE FromSource(i, item[i])
    BY <1>1, <2>1 DEF FeedInv, ItemInv, Derived, Present
  <2>2. QED  BY <1>1, <2>1, RowTyped DEF Facts, Present, FromSource
<1>4. told \subseteq Users
  BY <1>1, <1>2, <1>3 DEF RowType, GoodItem
<1>5. /\ a.item = Signal /\ a.class = item[c].class /\ a.audience = told /\ a \in Topics
  BY <1>1, <1>4 DEF Topic, Topics, RowType
<1>6. \A i \in gone : {item[i].from} \cup item[i].to \subseteq told
  BY <1>3
<1> HIDE DEF a, told, gone
<1>7. \A i \in gone :
        row(i) = Row(item[i].rev + 1, item[i].from, {}, item[i].class, item[i].until, TRUE)
  BY <1>3, RevisedIs DEF RowType
<1> HIDE DEF row
<1>8. changes \in [gone -> Rows] /\ gone \in SUBSET Items
  <2>1. ASSUME NEW i \in gone PROVE row(i) \in Rows
    <3>1. item[i].rev + 1 \in Nat /\ item[i].from \in Users \cup {None} /\ {} \in SUBSET Users
          /\ item[i].class \in Classes /\ item[i].until \in Nat /\ TRUE \in BOOLEAN
      BY <1>3 DEF RowType
    <3>2. Row(item[i].rev + 1, item[i].from, {}, item[i].class, item[i].until, TRUE) \in Rows
      BY <3>1, RowIn, Zenon
    <3>3. QED  BY <1>7, <3>2
  <2>2. QED  BY <1>3, <2>1
<1>9. ASSUME NEW i \in gone PROVE GoodChange(i, changes[i], <<a>>)
  <2>1. PICK x : x = changes[i]
    OBVIOUS
  <2>2. /\ x.rev = item[i].rev + 1 /\ x.from = item[i].from /\ x.to = {} /\ x.gone = TRUE
        /\ x.class = item[i].class /\ x.until = item[i].until
    BY <1>7, <2>1 DEF Row
  <2>3. GoodItem(i, x) /\ Follows(i, x)
    BY <1>3, <2>2 DEF GoodItem, Follows, RowType
  <2>4. ASSUME NEW r \in Readers, Shown(r, i) # Nothing \/ ShownAs(r, i, x) # Nothing
        PROVE  Heard(r, i, x, a)
    <3>1. ShownAs(r, i, x) = Nothing
      BY <2>2 DEF ShownAs
    <3>2. item[i].class <= r.ceiling /\ (r.project \/ r.user \in {item[i].from} \cup item[i].to)
      BY <1>3, <2>4, <3>1 DEF Shown, ShownAs
    <3>3. QED  BY <1>3, <1>5, <1>6, <3>2 DEF Heard
  <2>5. Announced(i, x, <<a>>)
    BY <1>5, <2>4, TopicSeq DEF Announced
  <2>6. QED  BY <2>1, <2>3, <2>5 DEF GoodChange
<1> HIDE DEF changes
<1>10. QED  BY <1>2, <1>5, <1>8, <1>9, TopicSeq, WriteStep

LEMMA RetireStep ==
  ASSUME FeedAssumption, FeedInv, NEW w \in Writers, NEW S \in (SUBSET Sessions) \cup (SUBSET Runs),
         NEW u \in Admins, Retire(w, S, u)
  PROVE  FeedInv'
<1> DEFINE a == Topic(Signal, 0, {u})
           changes == [i \in S |-> Removed(i)]
<1>1. Facts
  BY FactsHold
<1>2. \A i \in S :
        /\ i \in Items /\ i \in Sessions \cup Runs /\ i # Policy /\ i \notin Checkpoints \cup Bundles
        /\ RowType(i) /\ item[i].rev > 0 /\ ~item[i].gone
  <2>1. S \subseteq Sessions \/ S \subseteq Runs
    OBVIOUS
  <2>2. \A i \in S : Present(i)
    BY DEF Retire
  <2>3. \A i \in S : i \in Items /\ i # Policy /\ i \notin Checkpoints \cup Bundles
    BY <1>1, <2>1 DEF Facts
  <2>4. QED  BY <1>1, <2>1, <2>2, <2>3, RowTyped DEF Present
<1>3. Write(w, changes, <<a>>)
  BY DEF Retire
<1>4. a \in Topics
  BY <1>1 DEF Topic, Topics, Facts
<1> HIDE DEF a
<1>5. \A i \in S :
        changes[i] = Row(item[i].rev + 1, item[i].from, item[i].to, item[i].class, item[i].until, TRUE)
  BY <1>2, RevisedIs DEF RowType
<1>6. changes \in [S -> Rows] /\ S \in SUBSET Items
  <2>1. \A i \in S : changes[i] \in Rows
    <3>1. ASSUME NEW i \in S PROVE Row(item[i].rev + 1, item[i].from, item[i].to, item[i].class,
                                      item[i].until, TRUE) \in Rows
      <4>1. item[i].rev + 1 \in Nat /\ item[i].from \in Users \cup {None}
            /\ item[i].to \in SUBSET Users /\ item[i].class \in Classes
            /\ item[i].until \in Nat /\ TRUE \in BOOLEAN
        BY <1>2 DEF RowType
      <4>2. QED  BY <4>1, RowIn, Zenon
    <3>2. QED  BY <1>5, <3>1
  <2>2. QED  BY <1>2, <2>1
<1>7. ASSUME NEW i \in S PROVE GoodChange(i, changes[i], <<a>>)
  <2>1. PICK row : row = changes[i]
    OBVIOUS
  <2>2. row = Row(item[i].rev + 1, item[i].from, item[i].to, item[i].class, item[i].until, TRUE)
    BY <1>5, <2>1
  <2>3. /\ row.rev = item[i].rev + 1 /\ row.from = item[i].from /\ row.to = item[i].to
        /\ row.gone = TRUE /\ row.until = item[i].until
    BY <2>2 DEF Row
  <2>4. GoodItem(i, row) /\ Follows(i, row) /\ Announced(i, row, <<a>>)
    BY <1>2, <2>3 DEF GoodItem, Follows, RowType, Announced
  <2>5. QED  BY <2>1, <2>4 DEF GoodChange
<1> HIDE DEF changes
<1>8. QED  BY <1>3, <1>4, <1>6, <1>7, TopicSeq, WriteStep

LEMMA SetPolicyStep ==
  ASSUME FeedAssumption, FeedInv, NEW w \in Writers, SetPolicy(w)
  PROVE  FeedInv'
<1> DEFINE i == Policy
           x == item[i]
           row == Row(x.rev + 1, x.from, x.to, x.class, x.until, x.gone)
           a == [item |-> Signal, class |-> 0, audience |-> {}, broadcast |-> TRUE]
<1>0. i \in Items
  BY DEF Items
<1>1. Facts /\ RowType(i)
  BY <1>0, FactsHold, RowTyped
<1>2. x.rev > 0 /\ ~x.gone /\ i \notin Checkpoints \cup Bundles
  BY <1>1 DEF RowType, GoodItem, Facts
<1>3. Write(w, [j \in {i} |-> row], <<a>>)
  BY <1>0, <1>1, RevisedIs DEF RowType, SetPolicy
<1>4. row \in Rows /\ a \in Topics
  BY <1>1, <1>2 DEF Row, Rows, Topics, RowType, GoodItem, Facts
<1>5. GoodItem(i, row) /\ Follows(i, row)
  BY <1>1, <1>2 DEF Row, GoodItem, RowType, Follows
<1>6. Announced(i, row, <<a>>)
  <2>1. ASSUME NEW r \in Readers PROVE Heard(r, i, row, a)
    BY <1>1 DEF Heard, Facts
  <2> HIDE DEF a, row
  <2>2. QED  BY <1>4, <2>1, TopicSeq DEF Announced
<1> HIDE DEF a, row, i
<1>7. GoodChange(i, row, <<a>>)
  BY <1>5, <1>6 DEF GoodChange
<1>8. QED  BY <1>0, <1>3, <1>4, <1>7, TopicSeq, OneStep

(***************************************************************************)
(* What became stale or unseen stays so, and what is told is told still.   *)
(***************************************************************************)

LEMMA EventTyped ==
  ASSUME FeedInv, NEW e \in feed
  PROVE  e \in Events /\ e.position \in Nat /\ e.at \in Nat
<1>1. e \in Events
  BY DEF FeedInv, TypeOK
<1>2. QED  BY <1>1 DEF Events

\* Time passes, and the feed goes forward.
Onward ==
  /\ now' \in Nat /\ now <= now' /\ feed' \subseteq Events /\ head' \in Nat /\ pruned' \in Nat
  /\ Forward(Stored, Stored')

LEMMA Later ==
  ASSUME NEW a \in Nat, NEW b \in Nat, NEW t \in Nat, NEW n \in Nat, a <= b, a - t > n
  PROVE  b - t > n
<1>1. b - t >= a - t
  OBVIOUS
<1>2. QED  BY <1>1

\* A cursor that is not accepted is never accepted again.
LEMMA LostStays ==
  ASSUME Facts, FeedInv, Onward, NEW p \in Nat, NEW t \in Nat, Lost(p, t)
  PROVE  Lost(p, t)'
<1>1. now \in Nat /\ pruned \in Nat /\ now' \in Nat /\ pruned' \in Nat /\ now <= now' /\ pruned <= pruned'
  BY DEF FeedInv, TypeOK, Onward, Forward, Stored
<1>2. CASE now - t > Retention \/ p < pruned
  <2>1. Retention \in Nat
    BY DEF Facts
  <2>2. CASE now - t > Retention
    <3>1. now' - t > Retention
      BY <1>1, <2>1, <2>2, Later
    <3>2. QED  BY <3>1 DEF Lost
  <2>3. CASE p < pruned
    <3>1. p < pruned'
      BY <1>1, <2>3
    <3>2. QED  BY <3>1 DEF Lost
  <2>4. QED  BY <1>2, <2>2, <2>3
<1>3. CASE \E e \in feed : Elapsed(e) /\ p < e.position
  <2>1. PICK e \in feed : Elapsed(e) /\ p < e.position
    BY <1>3
  <2>2. e.position \in Nat /\ e.at \in Nat
    BY EventTyped
  <2>3. e \in feed' \/ e.position <= pruned'
    BY DEF Onward, Forward, Stored, KeptIn
  <2>4. CASE e \in feed'
    <3>1. Elapsed(e)'
      BY <1>1, <2>1, <2>2 DEF Elapsed, Facts
    <3>2. QED  BY <2>1, <2>4, <3>1 DEF Lost
  <2>5. CASE e.position <= pruned'
    BY <1>1, <2>1, <2>2, <2>5 DEF Lost
  <2>6. QED  BY <2>3, <2>4, <2>5
<1>4. QED  BY <1>2, <1>3 DEF Lost

\* An event that tells a reader of a resource it still sees is there, or its
\* cursor is lost.
LEMMA EventStays ==
  ASSUME Facts, FeedInv, Onward, NEW r \in Readers, NEW i \in Items, NEW p \in Nat, NEW t \in Nat,
         NEW e \in feed, e.position > p, Visible(r, e), e.topic.item \in {i, Signal},
         e.topic.item # Signal => Shown(r, i)' # Nothing
  PROVE  Lost(p, t)' \/ Told(r, i, p)'
<1>1. now \in Nat /\ now' \in Nat /\ pruned' \in Nat /\ now <= now'
  BY DEF FeedInv, TypeOK, Onward
<1>2. e.position \in Nat /\ e.at \in Nat
  BY EventTyped
<1>3. e \in feed' \/ e.position <= pruned'
  BY DEF Onward, Forward, Stored, KeptIn
<1>4. CASE e.position <= pruned'
  BY <1>1, <1>2, <1>4 DEF Lost
<1>5. CASE e \in feed' /\ ~(e.at + Retention >= now')
  <2>1. Elapsed(e)'
    BY <1>1, <1>2, <1>5 DEF Elapsed, Facts
  <2>2. QED  BY <1>2, <1>5, <2>1 DEF Lost
<1>6. CASE e \in feed' /\ e.at + Retention >= now'
  <2>1. Visible(r, e)'
    BY <1>6 DEF Visible
  <2>2. QED  BY <1>6, <2>1 DEF Told
<1>7. QED  BY <1>3, <1>4, <1>5, <1>6

\* Who is up to date or told of a resource that does not change remains so, or
\* the resource expires.
LEMMA SameNoticed ==
  ASSUME Facts, FeedInv, Onward, NEW r \in Readers, NEW i \in Items, NEW v, NEW p \in Nat,
         NEW t \in Nat, item'[i] = item[i], Noticed(r, i, v, p, t)
  PROVE  Noticed(r, i, v, p, t)'
<1>1. SUFFICES ASSUME v # Shown(r, i)', ~Ended(i)' PROVE Lost(p, t)' \/ Told(r, i, p)'
  BY DEF Noticed
<1>2. now \in Nat /\ now' \in Nat /\ now <= now' /\ item[i].until \in Nat
  BY RowTyped DEF RowType, FeedInv, TypeOK, Onward
<1>3. Over(i, item[i]) => Over(i, item[i])'
  BY <1>2 DEF Over
<1>4. ~Ended(i)
  BY <1>1, <1>3 DEF Ended, Retired
<1>5. Shown(r, i)' = Shown(r, i)
  <2>1. CASE item[i].rev > 0
    BY <1>1, <1>3, <1>4, <2>1 DEF Shown, ShownAs, Ended
  <2>2. CASE ~(item[i].rev > 0)
    BY <2>2 DEF Shown, ShownAs
  <2>3. QED  BY <2>1, <2>2
<1>6. CASE Lost(p, t)
  BY <1>6, LostStays
<1>7. CASE Told(r, i, p)
  <2>1. PICK e \in feed : e.position > p /\ Visible(r, e) /\ e.topic.item \in {i, Signal}
    BY <1>7 DEF Told
  <2>2. e.topic.item # Signal => Shown(r, i)' # Nothing
    BY <1>5, <2>1 DEF Visible
  <2>3. QED  BY <2>1, <2>2, EventStays
<1>8. QED  BY <1>1, <1>4, <1>5, <1>6, <1>7 DEF Noticed

Views == [rev : Nat, until : Nat]

\* The clients as such.
LEMMA ClientsStay ==
  ASSUME TypeOK, ClientInv, UNCHANGED <<cursor, answer, view>>, head' \in Nat, head <= head',
         \A r \in Readers, i \in Items, v \in Views, p \in Nat, t \in Nat :
           p <= head /\ Noticed(r, i, v, p, t) => (Noticed(r, i, v, p, t))'
  PROVE  ClientInv'
<1>1. SUFFICES ASSUME NEW r \in Readers PROVE CursorInv(r)' /\ AnswerInv(r)'
  BY DEF ClientInv
<1>2. head \in Nat /\ \A i \in Items : view[r][i] \in Views
  BY DEF TypeOK, Views
<1>3. CursorInv(r)'
  <2>1. SUFFICES ASSUME cursor[r] # None
                 PROVE  /\ cursor[r].position <= head'
                        /\ \A i \in Items :
                             (Noticed(r, i, view[r][i], cursor[r].position, cursor[r].issued))'
    BY DEF CursorInv
  <2>2. cursor[r] \in [position : Nat, issued : Nat]
    BY <2>1 DEF TypeOK
  <2>3. PICK p \in Nat, t \in Nat : p = cursor[r].position /\ t = cursor[r].issued
    BY <2>2
  <2>4. p <= head /\ \A i \in Items : Noticed(r, i, view[r][i], p, t)
    BY <2>1, <2>3 DEF ClientInv, CursorInv
  <2>5. ASSUME NEW i \in Items
        PROVE  (Noticed(r, i, view[r][i], cursor[r].position, cursor[r].issued))'
    <3>1. PICK v \in Views : v = view[r][i]
      BY <1>2
    <3>2. (Noticed(r, i, v, p, t))'
      BY <2>4, <3>1
    <3>3. QED  BY <2>3, <3>1, <3>2 DEF Noticed, Lost, Told
  <2>6. QED  BY <1>2, <2>3, <2>4, <2>5
<1>4. AnswerInv(r)'
  <2>1. SUFFICES ASSUME answer[r] # None
                 PROVE  /\ answer[r].next <= head'
                        /\ \A i \in Items \ answer[r].reread :
                             (Noticed(r, i, view[r][i], answer[r].next, answer[r].issued))'
    BY DEF AnswerInv
  <2>2. answer[r] \in [next : Nat, issued : Nat, reread : SUBSET Items]
    BY <2>1 DEF TypeOK
  <2>3. PICK p \in Nat, t \in Nat : p = answer[r].next /\ t = answer[r].issued
    BY <2>2
  <2>4. p <= head /\ \A i \in Items \ answer[r].reread : Noticed(r, i, view[r][i], p, t)
    BY <2>1, <2>3 DEF ClientInv, AnswerInv
  <2>5. ASSUME NEW i \in Items \ answer[r].reread
        PROVE  (Noticed(r, i, view[r][i], answer[r].next, answer[r].issued))'
    <3>1. PICK v \in Views : v = view[r][i]
      BY <1>2
    <3>2. (Noticed(r, i, v, p, t))'
      BY <2>4, <3>1
    <3>3. QED  BY <2>3, <3>1, <3>2 DEF Noticed, Lost, Told
  <2>6. QED  BY <1>2, <2>3, <2>4, <2>5
<1>5. QED  BY <1>3, <1>4

(***************************************************************************)
(* The steps of the feed.                                                  *)
(***************************************************************************)

LEMMA StoredTyped ==
  ASSUME FeedInv
  PROVE  now \in Nat /\ Stored \in Feeds /\ GoodFeed(Stored) /\ head \in Nat /\ pruned \in Nat
<1>1. feed \in SUBSET Events /\ head \in Nat /\ pruned \in Nat /\ now \in Nat
  BY DEF FeedInv, TypeOK
<1>2. QED  BY <1>1 DEF FeedInv, Stored, Feeds

\* A feed that replaces the stored one in a step.
LEMMA Replaced ==
  ASSUME FeedInv, NEW g \in Feeds, GoodFeed(g), Forward(Stored, g), now' = now,
         feed' = g.rows, head' = g.head, pruned' = g.pruned
  PROVE  Onward /\ (GoodFeed(Stored))' /\ head <= head'
<1>1. g.rows \in SUBSET Events /\ g.head \in Nat /\ g.pruned \in Nat
  BY DEF Feeds
<1>2. Stored'.rows = g.rows /\ Stored'.head = g.head /\ Stored'.pruned = g.pruned
  BY DEF Stored
<1>3. Forward(Stored, Stored')
  BY <1>2 DEF Forward, KeptIn
<1>4. (GoodFeed(Stored))'
  BY <1>2 DEF GoodFeed
<1>5. head <= head'
  BY DEF Forward, Stored
<1>6. QED  BY <1>1, <1>3, <1>4, <1>5, StoredTyped DEF Onward

\* Where no resource changes, the clients stay as well off as they were.
LEMMA ClientsOnward ==
  ASSUME Facts, FeedInv, Onward, head <= head', UNCHANGED <<item, cursor, answer, view>>
  PROVE  ClientInv'
<1>1. ASSUME NEW r \in Readers, NEW i \in Items, NEW v \in Views, NEW p \in Nat, NEW t \in Nat,
             p <= head, Noticed(r, i, v, p, t)
      PROVE  (Noticed(r, i, v, p, t))'
  BY <1>1, SameNoticed
<1>2. QED  BY <1>1, ClientsStay DEF FeedInv, Onward

LEMMA PruneStep ==
  ASSUME FeedAssumption, FeedInv, Prune
  PROVE  FeedInv'
<1> DEFINE g == Purged(Stored)
<1>1. /\ feed' = g.rows /\ pruned' = g.pruned /\ HeadFree
      /\ UNCHANGED <<now, item, head, txn, cursor, answer, view>>
  BY DEF Prune, Stored
<1>2. g \in Feeds /\ GoodFeed(g) /\ Forward(Stored, g) /\ g.head = head
  <2>1. Stored.head = head
    BY DEF Stored
  <2>2. QED  BY <2>1, StoredTyped, PurgedGood
<1> HIDE DEF g
<1>3. Onward /\ (GoodFeed(Stored))' /\ head <= head'
  BY <1>1, <1>2, Replaced
<1>4. ClientInv'
  BY <1>1, <1>3, FactsHold, ClientsOnward
<1>5. TypeOK'
  BY <1>1, <1>3 DEF FeedInv, TypeOK, Onward
<1>6. (TxnInv /\ ItemInv /\ ReadInv)'
  BY <1>1 DEF TxnInv, HeadFree, FeedInv, ItemInv, Derived, FromSource, ReadInv
<1>7. QED  BY <1>3, <1>4, <1>5, <1>6 DEF FeedInv

LEMMA TickStep ==
  ASSUME FeedAssumption, FeedInv, Tick
  PROVE  FeedInv'
<1>1. /\ now' = now + 1 /\ \A w \in Writers : txn[w] = None
      /\ UNCHANGED <<item, feed, head, pruned, txn, cursor, answer, view>>
  BY DEF Tick
<1>2. Onward
  BY <1>1, StoredTyped DEF Onward, Forward, KeptIn, Stored, Feeds
<1>3. (GoodFeed(Stored))'
  <2>1. \A e \in feed : e.at \in Nat /\ e.at <= now
    BY EventTyped DEF FeedInv, GoodFeed, Stored
  <2>2. GoodFeed(Stored)
    BY DEF FeedInv
  <2>3. QED  BY <1>1, <2>1, <2>2, StoredTyped DEF GoodFeed, Stored
<1>4. ClientInv'
  BY <1>1, <1>2, StoredTyped, FactsHold, ClientsOnward
<1>5. TypeOK'
  BY <1>1 DEF FeedInv, TypeOK
<1>6. (TxnInv /\ ItemInv /\ ReadInv)'
  BY <1>1 DEF TxnInv, FeedInv, ItemInv, Derived, FromSource, ReadInv
<1>7. QED  BY <1>3, <1>4, <1>5, <1>6 DEF FeedInv

\* Whoever hears of the change of a resource is told, or starts over.
LEMMA HeardIsTold ==
  ASSUME Facts, FeedInv, Onward, now' = now, NEW r \in Readers, NEW i \in Items, NEW x,
         NEW p \in Nat, NEW t \in Nat, p <= head, item'[i] = x,
         NEW e \in Events, e.at = now, head < e.position, e \in feed' \/ e.position <= pruned',
         Heard(r, i, x, e.topic)
  PROVE  Lost(p, t)' \/ Told(r, i, p)'
<1>1. e.position \in Nat /\ head \in Nat /\ now \in Nat /\ pruned' \in Nat /\ Retention \in Nat
  BY StoredTyped DEF Events, Onward, Facts
<1>2. p < e.position
  BY <1>1
<1>3. CASE e.position <= pruned'
  BY <1>1, <1>2, <1>3 DEF Lost
<1>4. CASE e \in feed'
  <2>1. e.topic.item # Signal => (Shown(r, e.topic.item))' # Nothing
    <3>1. Shown(r, i)' = ShownAs(r, i, x)
      BY DEF Shown, ShownAs, Over
    <3>2. QED  BY <3>1 DEF Heard
  <2>2. (e.at + Retention >= now)'
    BY <1>1
  <2>3. Visible(r, e)'
    BY <2>1, <2>2 DEF Visible, Heard
  <2>4. QED  BY <1>2, <1>4, <2>3 DEF Told, Heard
<1>5. QED  BY <1>3, <1>4

LEMMA CommitStep ==
  ASSUME FeedAssumption, FeedInv, NEW w \in Writers, Commit(w)
  PROVE  FeedInv'
<1>1. PICK c : c = txn[w]
  OBVIOUS
<1> DEFINE g == Appended(Stored, c)
<1>2. /\ c # None
      /\ item' = [i \in Items |-> IF i \in DOMAIN c.changes THEN c.changes[i] ELSE item[i]]
      /\ feed' = g.rows /\ head' = g.head /\ pruned' = g.pruned
      /\ txn' = [txn EXCEPT ![w] = None]
      /\ UNCHANGED <<now, cursor, answer, view>>
  BY <1>1 DEF Commit, Stored
<1>3. PICK S \in SUBSET Items : c \in Txns(S)
  BY <1>1, <1>2 DEF FeedInv, TypeOK
<1>4. c.changes \in [S -> Rows] /\ DOMAIN c.changes = S /\ c.topics \in Seq(Topics)
  BY <1>3 DEF Txns
<1>5. GoodTxn(c) /\ \A x \in Writers : txn[x] # None => x = w
  BY <1>1, <1>2 DEF FeedInv, TxnInv
<1>6. /\ g \in Feeds /\ GoodFeed(g) /\ Forward(Stored, g)
      /\ \A k \in 1..Len(c.topics) :
           EventOf(c, k) \in Events /\ head < EventOf(c, k).position /\ KeptIn(EventOf(c, k), g)
  <2>1. Stored.head = head
    BY DEF Stored
  <2>2. c.first = Stored.head + 1 /\ Len(c.topics) \in 1..2
    BY <1>5, <2>1 DEF GoodTxn
  <2>3. QED  BY <1>4, <2>1, <2>2, StoredTyped, AppendedGood
<1> HIDE DEF g
<1>7. Onward /\ (GoodFeed(Stored))' /\ head <= head'
  BY <1>2, <1>6, Replaced
<1>8. \A i \in Items : item'[i] = IF i \in S THEN c.changes[i] ELSE item[i]
  BY <1>2, <1>4
<1>9. \A i \in S : c.changes[i] \in Rows /\ GoodChange(i, c.changes[i], c.topics)
  BY <1>4, <1>5 DEF GoodTxn
<1>10. ASSUME NEW r \in Readers, NEW i \in Items, NEW v \in Views, NEW p \in Nat, NEW t \in Nat,
             p <= head, Noticed(r, i, v, p, t)
      PROVE  (Noticed(r, i, v, p, t))'
  <2>1. CASE i \notin S
    BY <1>7, <1>8, <1>10, <2>1, FactsHold, SameNoticed
  <2>2. CASE i \in S
    <3>0. PICK row : row = c.changes[i]
      OBVIOUS
    <3>1. /\ item'[i] = row /\ row.rev \in Nat /\ item[i].rev \in Nat
          /\ GoodChange(i, row, c.topics)
      BY <1>8, <1>9, <2>2, <3>0, FactsHold, RowTyped DEF Rows, RowType
    <3>2. Shown(r, i)' = ShownAs(r, i, row)
      BY <1>2, <3>1 DEF Shown, ShownAs, Over
    <3>3. SUFFICES ASSUME v # ShownAs(r, i, row), ~Ended(i)'
                   PROVE  Lost(p, t)' \/ Told(r, i, p)'
      BY <3>2 DEF Noticed
    <3>4. ~(i \in Sessions \cup Runs /\ row.gone) /\ ~Ended(i)
      BY <1>2, <3>1, <3>3 DEF Ended, Retired, GoodChange, Follows, Over
    <3>5. CASE Shown(r, i) # Nothing \/ ShownAs(r, i, row) # Nothing
      <4>1. PICK k \in 1..Len(c.topics) : Heard(r, i, row, c.topics[k])
        BY <3>1, <3>4, <3>5 DEF GoodChange, Announced
      <4>2. PICK e : e = EventOf(c, k)
        OBVIOUS
      <4>3. e.at = now /\ e.topic = c.topics[k]
        BY <4>2 DEF EventOf
      <4>4. e \in Events /\ head < e.position /\ (e \in feed' \/ e.position <= pruned')
        BY <1>2, <1>6, <4>2 DEF KeptIn
      <4>5. QED  BY <1>2, <1>7, <1>10, <3>1, <4>1, <4>3, <4>4, FactsHold, HeardIsTold
    <3>6. CASE Shown(r, i) = Nothing /\ ShownAs(r, i, row) = Nothing
      <4>1. Lost(p, t) \/ Told(r, i, p)
        BY <1>10, <3>3, <3>4, <3>6 DEF Noticed
      <4>2. CASE Lost(p, t)
        BY <1>7, <4>2, FactsHold, LostStays
      <4>3. CASE Told(r, i, p)
        <5>1. PICK e \in feed : e.position > p /\ Visible(r, e) /\ e.topic.item \in {i, Signal}
          BY <4>3 DEF Told
        <5>2. e.topic.item = Signal
          BY <3>6, <5>1 DEF Visible
        <5>3. QED  BY <1>7, <5>1, <5>2, FactsHold, EventStays
      <4>4. QED  BY <4>1, <4>2, <4>3
    <3>7. QED  BY <3>5, <3>6
  <2>3. QED  BY <2>1, <2>2
<1>11. ClientInv'
  BY <1>2, <1>7, <1>10, ClientsStay DEF FeedInv, Onward
<1>12. TypeOK'
  <2>1. item' \in [Items -> Rows]
    BY <1>2, <1>4, <1>9 DEF FeedInv, TypeOK
  <2>2. DOMAIN txn' = Writers /\ \A x \in Writers : txn'[x] # None => txn'[x] = txn[x]
    BY <1>2 DEF FeedInv, TypeOK
  <2>3. QED  BY <1>2, <1>7, <2>1, <2>2 DEF FeedInv, TypeOK, Onward
<1>13. TxnInv'
  BY <1>2, <1>5 DEF TxnInv, FeedInv, TypeOK
<1>14. ReadInv'
  <2>1. \A i \in S : item[i].rev > 0 => c.changes[i].rev > 0 /\ c.changes[i].until = item[i].until
    BY <1>9, FactsHold, RowTyped DEF GoodChange, Follows, RowType
  <2>2. QED  BY <1>2, <1>8, <2>1 DEF FeedInv, ReadInv
<1>15. ItemInv'
  <2>1. ASSUME NEW i \in Items PROVE GoodItem(i, item[i])'
    BY <1>8, <1>9 DEF FeedInv, ItemInv, GoodChange, GoodItem
  <2>2. ASSUME NEW b \in Bundles, SourceOf[b] # None, item'[b].rev > 0 PROVE FromSource(b, item[b])'
    <3>1. PICK d \in Checkpoints : d = SourceOf[b]
      BY <2>2, FactsHold DEF Facts
    <3>2. b \in Items /\ d \in Items
      BY FactsHold DEF Facts
    <3>3. /\ item[b].rev \in Nat /\ item[d].rev \in Nat
          /\ item[b].rev > 0 => FromSource(b, item[b])
      BY <2>2, <3>2, FactsHold, RowTyped DEF FeedInv, ItemInv, Derived, RowType
    <3>4. item[d].rev > 0 => /\ item'[d].rev > 0 /\ item'[d].from = item[d].from
                             /\ item'[d].class = item[d].class
      BY <1>8, <1>9, <3>2, <3>3 DEF GoodChange, Follows
    <3>5. FromSource(b, item'[b])
      BY <1>8, <1>9, <2>2, <3>2, <3>3 DEF GoodChange, Follows, FromSource
    <3>6. QED  BY <3>1, <3>4, <3>5 DEF FromSource
  <2>3. QED  BY <2>1, <2>2 DEF ItemInv, Derived
<1>16. QED  BY <1>7, <1>11, <1>12, <1>13, <1>14, <1>15 DEF FeedInv

(***************************************************************************)
(* The steps of the readers.                                               *)
(***************************************************************************)

\* What the gap starts with.
LEMMA LowIs ==
  ASSUME FeedInv, NEW p \in Nat
  PROVE  p >= Low <=> ~(p < pruned \/ \E e \in feed : Elapsed(e) /\ p < e.position)
<1> DEFINE S == {pruned} \cup Positions({e \in feed : Elapsed(e)})
<1>1. \A e \in feed : e.position \in Nat /\ e.position <= head
  BY EventTyped DEF FeedInv, GoodFeed, Stored
<1>2. pruned \in Nat /\ head \in Nat /\ pruned <= head
  BY StoredTyped DEF GoodFeed, Stored
<1>3. \A x \in S : x \in Nat /\ x <= head
  BY <1>1, <1>2 DEF Positions
<1>4. S \in SUBSET Nat /\ S # {}
  BY <1>3
<1>5. Max(S) \in S /\ \A y \in S : y <= Max(S)
  BY <1>2, <1>3, <1>4, Greatest
<1>6. Low = Max(S) /\ Max(S) \in Nat
  BY <1>3, <1>5 DEF Low
<1>7. ASSUME p >= Low, p < pruned \/ \E e \in feed : Elapsed(e) /\ p < e.position
      PROVE  FALSE
  <2>1. PICK y \in S : p < y
    BY <1>7 DEF Positions
  <2>2. y \in Nat /\ y <= Max(S)
    BY <1>3, <1>5, <2>1
  <2>3. QED  BY <1>6, <1>7, <2>1, <2>2
<1>8. ASSUME ~(p < pruned \/ \E e \in feed : Elapsed(e) /\ p < e.position)
      PROVE  p >= Low
  <2>1. \A y \in S : y <= p
    BY <1>1, <1>2, <1>8 DEF Positions
  <2>2. QED  BY <1>5, <1>6, <2>1
<1>9. QED  BY <1>7, <1>8

\* A cursor is accepted unless it is lost, as it is never ahead.
LEMMA UsableIs ==
  ASSUME Facts, FeedInv, NEW r \in Readers, cursor[r] # None
  PROVE  Usable(r) <=> ~Lost(cursor[r].position, cursor[r].issued)
<1>1. cursor[r] \in [position : Nat, issued : Nat]
  BY DEF FeedInv, TypeOK
<1>2. PICK p \in Nat, t \in Nat : p = cursor[r].position /\ t = cursor[r].issued
  BY <1>1
<1>3. p <= head
  BY <1>2 DEF FeedInv, ClientInv, CursorInv
<1>4. now - t <= Retention <=> ~(now - t > Retention)
  BY StoredTyped DEF Facts
<1>5. QED  BY <1>2, <1>3, <1>4, LowIs DEF Usable, Lost

\* A step that leaves the feed and the resources alone.
LEMMA SameWorld ==
  ASSUME UNCHANGED <<now, item, feed, head, pruned>>, NEW r, NEW i, NEW v, NEW p, NEW t
  PROVE  (Noticed(r, i, v, p, t))' <=> Noticed(r, i, v, p, t)
BY DEF Noticed, Ended, Retired, Lost, Told, Visible, Shown, ShownAs, Over, Elapsed

\* And that leaves a reader alone.
LEMMA OthersStay ==
  ASSUME UNCHANGED <<now, item, feed, head, pruned>>, NEW q, CursorInv(q), AnswerInv(q)
  PROVE  /\ cursor'[q] = cursor[q] /\ view'[q] = view[q] => CursorInv(q)'
         /\ answer'[q] = answer[q] /\ view'[q] = view[q] => AnswerInv(q)'
<1>1. ASSUME cursor'[q] = cursor[q], view'[q] = view[q] PROVE CursorInv(q)'
  BY <1>1 DEF CursorInv, Noticed, Ended, Retired, Lost, Told, Visible, Shown, ShownAs, Over, Elapsed
<1>2. ASSUME answer'[q] = answer[q], view'[q] = view[q] PROVE AnswerInv(q)'
  BY <1>2 DEF AnswerInv, Noticed, Ended, Retired, Lost, Told, Visible, Shown, ShownAs, Over, Elapsed
<1>3. QED  BY <1>1, <1>2

\* Parts of the invariant that readers have no hand in.
LEMMA ReaderStep ==
  ASSUME FeedInv, UNCHANGED <<now, item, feed, head, pruned, txn>>, TypeOK', ReadInv', ClientInv'
  PROVE  FeedInv'
<1>1. (GoodFeed(Stored) /\ ItemInv)'
  BY DEF FeedInv, GoodFeed, Stored, ItemInv, Derived, FromSource
<1>2. TxnInv'
  BY DEF FeedInv, TxnInv, GoodTxn, GoodChange, Follows, FromSource, Announced, Heard, Shown, ShownAs, Over
<1>3. QED  BY <1>1, <1>2 DEF FeedInv

\* A page names what its reader shows and is stale, or ends before the event
\* that does.
LEMMA PollAnswer ==
  ASSUME FeedAssumption, FeedInv, NEW r \in Readers,
         NEW next, NEW reread,
         LET page == IF Usable(r) THEN Lowest(Ahead(r), PageLimit) ELSE {}
             more == Usable(r) /\ Cardinality(Ahead(r)) > PageLimit
             named == {e.topic.item : e \in page}
         IN /\ next = IF more THEN Max(Positions(page)) ELSE head
            /\ reread = IF ~Usable(r) \/ Signal \in named THEN Items ELSE named
  PROVE  /\ next \in Nat /\ next <= head /\ reread \subseteq Items
         /\ \A i \in Items \ reread : Noticed(r, i, view[r][i], next, now)
<1>1. Facts /\ head \in Nat /\ now \in Nat
  BY FactsHold, StoredTyped
<1>2. CASE ~Usable(r)
  BY <1>1, <1>2
<1>3. CASE Usable(r)
  <2> DEFINE A == Ahead(r)
             page == Lowest(A, PageLimit)
             named == {e.topic.item : e \in page}
  <2>1. /\ next = IF Cardinality(A) > PageLimit THEN Max(Positions(page)) ELSE head
        /\ reread = IF Signal \in named THEN Items ELSE named
    BY <1>3
  <2>2. A \in SUBSET feed /\ A \in SUBSET Events /\ IsFiniteSet(A)
    <3>1. A \in SUBSET feed
      BY DEF Ahead
    <3>2. IsFiniteSet(A)
      BY <3>1, FS_Subset DEF FeedInv, GoodFeed, Stored
    <3>3. QED  BY <3>1, <3>2 DEF FeedInv, TypeOK
  <2>3. \A e \in A : /\ e.position \in Nat /\ e.position <= head
                     /\ e.topic.item \in Items \cup {Signal}
    BY <2>2 DEF FeedInv, GoodFeed, Stored, Events, Topics
  <2>4. cursor[r] # None /\ ~Lost(cursor[r].position, cursor[r].issued)
    BY <1>1, <1>3, UsableIs DEF Usable
  <2>5. \A e \in feed : e.position > cursor[r].position /\ Visible(r, e) => e \in A
    BY DEF Ahead
  <2>6. PageLimit \in Nat /\ PageLimit > 0 /\ Cardinality(A) \in Nat
    BY <1>1, <2>2, FS_CardinalityType DEF Facts
  <2> HIDE DEF A
  <2>7. /\ page \subseteq A
        /\ \A e \in page, d \in A : d.position <= e.position => d \in page
        /\ Cardinality(A) <= PageLimit => page = A
        /\ A # {} => page # {}
    BY <2>2, <2>6, LowestIs
  <2> HIDE DEF page
  <2>8. ASSUME Cardinality(A) > PageLimit
        PROVE  next \in Positions(page) /\ next \in Nat /\ next <= head
    <3>1. A # {}
      BY <2>6, <2>8, FS_EmptySet
    <3>2. Positions(page) \in SUBSET Nat /\ Positions(page) # {} /\ \A x \in Positions(page) : x <= head
      BY <2>3, <2>7, <3>1 DEF Positions
    <3>3. Max(Positions(page)) \in Positions(page)
      BY <1>1, <3>2, Greatest
    <3>4. QED  BY <2>1, <2>8, <3>2, <3>3
  <2>9. next \in Nat /\ next <= head
    BY <1>1, <2>1, <2>8
  <2>10. reread \subseteq Items
    BY <2>1, <2>3, <2>7
  <2>11. ASSUME NEW i \in Items \ reread PROVE Noticed(r, i, view[r][i], next, now)
    <3>1. SUFFICES ASSUME view[r][i] # Shown(r, i), ~Ended(i)
                   PROVE  Told(r, i, next)
      BY DEF Noticed
    <3>2. Told(r, i, cursor[r].position)
      BY <2>4, <3>1 DEF FeedInv, ClientInv, CursorInv, Noticed
    <3>3. PICK e \in A : Visible(r, e) /\ e.topic.item \in {i, Signal}
      BY <2>5, <3>2 DEF Told
    <3>4. e \notin page
      BY <2>1, <2>11, <3>3
    <3>5. Cardinality(A) > PageLimit
      BY <2>6, <2>7, <3>3, <3>4
    <3>6. PICK d \in page : next = d.position
      BY <2>8, <3>5 DEF Positions
    <3>7. e.position > next
      BY <2>3, <2>7, <2>9, <3>3, <3>4, <3>6
    <3>8. QED  BY <2>2, <3>3, <3>7 DEF Told
  <2>12. QED  BY <2>9, <2>10, <2>11
<1>4. QED  BY <1>2, <1>3

LEMMA PollStep ==
  ASSUME FeedAssumption, FeedInv, NEW r \in Readers, Poll(r)
  PROVE  FeedInv'
<1>1. UNCHANGED <<now, item, feed, head, pruned, txn, cursor, view>>
  BY DEF Poll
<1>2. PICK next, reread :
        /\ answer' = [answer EXCEPT ![r] = [next |-> next, issued |-> now, reread |-> reread]]
        /\ next \in Nat /\ next <= head /\ reread \subseteq Items
        /\ \A i \in Items \ reread : Noticed(r, i, view[r][i], next, now)
  <2> DEFINE page == IF Usable(r) THEN Lowest(Ahead(r), PageLimit) ELSE {}
             more == Usable(r) /\ Cardinality(Ahead(r)) > PageLimit
             named == {e.topic.item : e \in page}
  <2>1. PICK next, reread :
          /\ next = IF more THEN Max(Positions(page)) ELSE head
          /\ reread = IF ~Usable(r) \/ Signal \in named THEN Items ELSE named
    OBVIOUS
  <2>2. answer' = [answer EXCEPT ![r] = [next |-> next, issued |-> now, reread |-> reread]]
    BY <2>1 DEF Poll
  <2>3. /\ next \in Nat /\ next <= head /\ reread \subseteq Items
        /\ \A i \in Items \ reread : Noticed(r, i, view[r][i], next, now)
    BY <2>1, PollAnswer
  <2>4. QED  BY <2>2, <2>3
<1>3. PICK t \in Nat : t = now
  BY StoredTyped
<1>4. \A q \in Readers :
        answer'[q] = IF q = r THEN [next |-> next, issued |-> t, reread |-> reread] ELSE answer[q]
  BY <1>2, <1>3 DEF FeedInv, TypeOK
<1>5. TypeOK'
  <2>1. [next |-> next, issued |-> now, reread |-> reread]
          \in [next : Nat, issued : Nat, reread : SUBSET Items]
    BY <1>2, <1>3
  <2>2. QED  BY <1>1, <1>2, <2>1 DEF FeedInv, TypeOK
<1>6. ASSUME NEW q \in Readers PROVE CursorInv(q)' /\ AnswerInv(q)'
  <2>1. CursorInv(q) /\ AnswerInv(q)
    BY DEF FeedInv, ClientInv
  <2>2. CursorInv(q)'
    BY <1>1, <2>1, OthersStay
  <2>3. CASE q # r
    BY <1>1, <1>4, <2>1, <2>2, <2>3, OthersStay
  <2>4. CASE q = r
    <3>1. /\ answer'[q].next = next /\ answer'[q].issued = t /\ answer'[q].reread = reread
      BY <1>4, <2>4
    <3>2. ASSUME NEW i \in Items \ reread PROVE (Noticed(q, i, view[q][i], next, t))'
      <4>1. PICK v : v = view[q][i]
        OBVIOUS
      <4>2. Noticed(q, i, v, next, t)
        BY <1>2, <1>3, <2>4, <4>1
      <4>3. (Noticed(q, i, v, next, t))'
        BY <1>1, <4>2, SameWorld
      <4>4. QED  BY <1>1, <4>1, <4>3 DEF Noticed
    <3>3. AnswerInv(q)'
      BY <1>1, <1>2, <3>1, <3>2 DEF AnswerInv, Noticed, Lost, Told
    <3>4. QED  BY <2>2, <3>3
  <2>5. QED  BY <2>3, <2>4
<1>7. ReadInv'
  BY <1>1 DEF FeedInv, ReadInv
<1>8. QED  BY <1>1, <1>5, <1>6, <1>7, ReaderStep DEF ClientInv

LEMMA AcceptStep ==
  ASSUME FeedAssumption, FeedInv, NEW r \in Readers, Accept(r)
  PROVE  FeedInv'
<1>1. /\ answer[r] # None
      /\ UNCHANGED <<now, item, feed, head, pruned, txn>>
      /\ view' = [view EXCEPT ![r] =
           [i \in Items |-> IF i \in answer[r].reread THEN Shown(r, i) ELSE view[r][i]]]
      /\ cursor' = [cursor EXCEPT ![r] = [position |-> answer[r].next, issued |-> answer[r].issued]]
      /\ answer' = [answer EXCEPT ![r] = None]
  BY DEF Accept
<1>2. answer[r] \in [next : Nat, issued : Nat, reread : SUBSET Items]
  BY <1>1 DEF FeedInv, TypeOK
<1>3. PICK p \in Nat, t \in Nat, reread \in SUBSET Items :
        p = answer[r].next /\ t = answer[r].issued /\ reread = answer[r].reread
  BY <1>2
<1>4. p <= head /\ \A i \in Items \ reread : Noticed(r, i, view[r][i], p, t)
  BY <1>1, <1>3 DEF FeedInv, ClientInv, AnswerInv
<1>5. \A i \in Items :
        /\ Shown(r, i) \in Views /\ view[r][i] \in Views
        /\ Shown(r, i) # Nothing => item[i].rev > 0 /\ Shown(r, i).until = item[i].until
  BY DEF FeedInv, TypeOK, Rows, Shown, ShownAs, Views, Nothing
<1>6. TypeOK'
  <2>1. [i \in Items |-> IF i \in answer[r].reread THEN Shown(r, i) ELSE view[r][i]] \in [Items -> Views]
    BY <1>5
  <2>2. [position |-> answer[r].next, issued |-> answer[r].issued] \in [position : Nat, issued : Nat]
    BY <1>3
  <2>3. QED  BY <1>1, <2>1, <2>2 DEF FeedInv, TypeOK, Views
<1>7. /\ \A q \in Readers \ {r} :
           cursor'[q] = cursor[q] /\ answer'[q] = answer[q] /\ view'[q] = view[q]
      /\ cursor'[r] = [position |-> p, issued |-> t] /\ answer'[r] = None
      /\ \A i \in Items : view'[r][i] = IF i \in reread THEN Shown(r, i) ELSE view[r][i]
  BY <1>1, <1>3 DEF FeedInv, TypeOK
<1>8. ASSUME NEW q \in Readers PROVE CursorInv(q)' /\ AnswerInv(q)'
  <2>1. CursorInv(q) /\ AnswerInv(q)
    BY DEF FeedInv, ClientInv
  <2>2. CASE q # r
    BY <1>1, <1>7, <2>1, <2>2, OthersStay
  <2>3. CASE q = r
    <3>1. AnswerInv(q)'
      BY <1>7, <2>3 DEF AnswerInv
    <3>2. cursor'[q].position = p /\ cursor'[q].issued = t
      BY <1>7, <2>3
    <3>3. ASSUME NEW i \in Items PROVE (Noticed(q, i, view[q][i], p, t))'
      <4>1. CASE i \in reread
        <5>1. view'[q][i] = Shown(q, i)'
          BY <1>1, <1>7, <2>3, <4>1 DEF Shown, ShownAs, Over
        <5>2. QED  BY <5>1 DEF Noticed
      <4>2. CASE i \notin reread
        <5>1. PICK v : v = view[q][i]
          OBVIOUS
        <5>2. Noticed(q, i, v, p, t)
          BY <1>4, <2>3, <4>2, <5>1
        <5>3. (Noticed(q, i, v, p, t))'
          BY <1>1, <5>2, SameWorld
        <5>4. view'[q][i] = v
          BY <1>7, <2>3, <4>2, <5>1
        <5>5. QED  BY <5>3, <5>4 DEF Noticed
      <4>3. QED  BY <4>1, <4>2
    <3>4. CursorInv(q)'
      BY <1>1, <1>4, <3>2, <3>3 DEF CursorInv, Noticed, Lost, Told
    <3>5. QED  BY <3>1, <3>4
  <2>4. QED  BY <2>2, <2>3
<1>9. ReadInv'
  BY <1>1, <1>5, <1>7 DEF FeedInv, ReadInv
<1>10. QED  BY <1>1, <1>6, <1>8, <1>9, ReaderStep DEF ClientInv

LEMMA LoseStep ==
  ASSUME FeedInv, NEW r \in Readers, Lose(r)
  PROVE  FeedInv'
<1>1. /\ UNCHANGED <<now, item, feed, head, pruned, txn, cursor, view>>
      /\ answer' = [answer EXCEPT ![r] = None]
  BY DEF Lose
<1>2. TypeOK'
  BY <1>1 DEF FeedInv, TypeOK
<1>3. \A q \in Readers : answer'[q] = IF q = r THEN None ELSE answer[q]
  BY <1>1 DEF FeedInv, TypeOK
<1>4. ASSUME NEW q \in Readers PROVE CursorInv(q)' /\ AnswerInv(q)'
  <2>1. CursorInv(q) /\ AnswerInv(q)
    BY DEF FeedInv, ClientInv
  <2>2. CASE q # r
    BY <1>1, <1>3, <2>1, <2>2, OthersStay
  <2>3. CASE q = r
    <3>1. AnswerInv(q)'
      BY <1>3, <2>3 DEF AnswerInv
    <3>2. QED  BY <1>1, <2>1, <3>1, OthersStay
  <2>4. QED  BY <2>2, <2>3
<1>5. ReadInv'
  BY <1>1 DEF FeedInv, ReadInv
<1>6. QED  BY <1>1, <1>2, <1>4, <1>5, ReaderStep DEF ClientInv

(***************************************************************************)
(* The theorems.                                                           *)
(***************************************************************************)

LEMMA FeedStarts == ASSUME FeedAssumption, Init PROVE FeedInv
<1>1. Facts
  BY FactsHold
<1>2. TypeOK
  <2>1. Absent \in Rows /\ [Absent EXCEPT !.rev = 1] \in Rows
    BY <1>1 DEF Absent, Rows, Facts
  <2>2. item \in [Items -> Rows]
    BY <2>1 DEF Init
  <2>3. view \in [Readers -> [Items -> [rev : Nat, until : Nat]]]
    BY DEF Init, Nothing
  <2>4. QED  BY <2>2, <2>3 DEF Init, TypeOK
<1>3. GoodFeed(Stored)
  BY FS_EmptySet DEF Init, GoodFeed, Stored
<1>4. ItemInv
  <2>1. \A i \in Items : GoodItem(i, item[i])
    BY <1>1 DEF Init, GoodItem, Absent, Facts
  <2>2. \A b \in Bundles : item[b].rev = 0
    BY <1>1 DEF Init, Absent, Facts
  <2>3. QED  BY <2>1, <2>2 DEF ItemInv, Derived
<1>5. TxnInv /\ ReadInv /\ ClientInv
  <2>1. TxnInv /\ ClientInv
    BY DEF Init, TxnInv, ClientInv, CursorInv, AnswerInv
  <2>2. \A r \in Readers, i \in Items : view[r][i] = Nothing
    BY DEF Init
  <2>3. QED  BY <2>1, <2>2 DEF ReadInv
<1>6. QED  BY <1>2, <1>3, <1>4, <1>5 DEF FeedInv

LEMMA ChangeStep ==
  ASSUME FeedAssumption, FeedInv, NEW w \in Writers, Change(w) PROVE FeedInv'
<1>1. CASE \E c \in Checkpoints, u \in Users, k \in Classes, d \in Deadlines : Save(w, c, u, k, d)
  BY <1>1, SaveStep
<1>2. CASE \E b \in Bundles, u \in Users, to \in SUBSET Users, k \in Classes, d \in Deadlines :
             Publish(w, b, u, to, k, d)
  BY <1>2, PublishStep
<1>3. CASE \E b \in Bundles, to \in SUBSET Users : Reassign(w, b, to)
  BY <1>3, ReassignStep
<1>4. CASE \E s \in Sessions, u \in Users, k \in Classes : Register(w, s, u, k)
  BY <1>4, RegisterStep
<1>5. CASE \E n \in Runs, u \in Users, k \in Classes : Finalize(w, n, u, k)
  BY <1>5, FinalizeStep
<1>6. CASE \E i \in Bundles \cup Sessions : Touch(w, i)
  BY <1>6, TouchStep
<1>7. CASE \E s \in Sessions, k \in Classes : Reclassify(w, s, k)
  BY <1>7, ReclassifyStep
<1>8. CASE \E c \in Checkpoints : Erase(w, c)
  BY <1>8, EraseStep
<1>9. CASE \E S \in (SUBSET Sessions) \cup (SUBSET Runs), u \in Admins : Retire(w, S, u)
  BY <1>9, RetireStep
<1>10. CASE SetPolicy(w)
  BY <1>10, SetPolicyStep
<1>11. QED
  BY <1>1, <1>2, <1>3, <1>4, <1>5, <1>6, <1>7, <1>8, <1>9, <1>10 DEF Change

LEMMA FeedSteps == ASSUME FeedAssumption, FeedInv, [Next]_vars PROVE FeedInv'
<1>1. ASSUME NEW w \in Idle, Change(w) PROVE FeedInv'
  BY <1>1, ChangeStep DEF Idle
<1>8. ASSUME NEW w \in Writers, Commit(w) PROVE FeedInv'
  BY <1>8, CommitStep
<1>9. ASSUME NEW w \in Writers, Abort(w) PROVE FeedInv'
  <2>1. /\ UNCHANGED <<now, item, feed, head, pruned, cursor, answer, view>>
        /\ txn' = [txn EXCEPT ![w] = None]
    BY <1>9 DEF Abort
  <2>2. DOMAIN txn' = Writers /\ \A x \in Writers : txn'[x] = None
    BY <1>9, <2>1 DEF FeedInv, TypeOK, TxnInv, Abort
  <2>3. TypeOK'
    BY <2>1, <2>2 DEF FeedInv, TypeOK
  <2>4. (TxnInv /\ ReadInv)'
    BY <2>1, <2>2 DEF FeedInv, TxnInv, ReadInv
  <2>5. ClientInv'
    BY <2>1, OthersStay DEF FeedInv, ClientInv
  <2>6. (GoodFeed(Stored) /\ ItemInv)'
    BY <2>1 DEF FeedInv, GoodFeed, Stored, ItemInv, Derived, FromSource
  <2>7. QED  BY <2>3, <2>4, <2>5, <2>6 DEF FeedInv
<1>10. CASE Prune
  BY <1>10, PruneStep
<1>11. ASSUME NEW r \in Readers, Poll(r) PROVE FeedInv'
  BY <1>11, PollStep
<1>12. ASSUME NEW r \in Readers, Accept(r) PROVE FeedInv'
  BY <1>12, AcceptStep
<1>13. ASSUME NEW r \in Readers, Lose(r) PROVE FeedInv'
  BY <1>13, LoseStep
<1>14. CASE Tick
  BY <1>14, TickStep
<1>15. CASE UNCHANGED vars
  <2>1. UNCHANGED <<now, item, feed, head, pruned, txn, cursor, answer, view>>
    BY <1>15 DEF vars
  <2>2. TypeOK'
    BY <2>1 DEF FeedInv, TypeOK
  <2>3. (ReadInv /\ ClientInv)'
    BY <2>1, OthersStay DEF FeedInv, ClientInv, ReadInv
  <2>4. QED  BY <2>1, <2>2, <2>3, ReaderStep
<1>16. QED
  BY <1>1, <1>8, <1>9, <1>10, <1>11, <1>12, <1>13, <1>14, <1>15
  DEF Next

\* The invariant that the others follow from: the stored feed is one run of
\* positions, at most one transaction is open and announces what it changes,
\* and every reader is up to date with what it has read or will be told.
THEOREM FeedIsSafe == Spec => []FeedInv
<1>1. Init => FeedInv
  BY FeedAssumption, FeedStarts
<1>2. FeedInv /\ [Next]_vars => FeedInv'
  BY FeedAssumption, FeedSteps
<1>3. QED  BY <1>1, <1>2, PTL DEF Spec

\* Appends and purges leave the run of positions from the recorded gap to the
\* head, in the order of their commits.
THEOREM FeedStaysSound == Spec => []FeedIsSound
<1>1. FeedInv => FeedIsSound
  <2> SUFFICES ASSUME FeedInv PROVE FeedIsSound
    OBVIOUS
  <2>1. GoodFeed(Stored) /\ \A e \in feed : e.position \in Nat
    BY EventTyped DEF FeedInv
  <2>2. Positions(feed) = pruned + 1..head
    BY <2>1, StoredTyped DEF GoodFeed, Stored, Positions
  <2>3. FeedIsGapless
    BY <2>1, <2>2 DEF GoodFeed, Stored, FeedIsGapless
  <2>4. QED  BY <2>3 DEF FeedIsSound, FeedInv
<1>2. QED  BY <1>1, FeedIsSafe, PTL

\* Whatever is purged, lost or delayed, no reader goes on showing what changed
\* while its next answers neither name it, nor signal a change, nor reset it.
THEOREM NoChangeIsSilent == Spec => []NoSilentChange
<1>1. FeedInv => NoSilentChange
  <2> SUFFICES ASSUME FeedInv, NEW r \in Readers, NEW i \in Items, cursor[r] # None,
                      Displayed(r, i) # Shown(r, i), ~Retired(i), Usable(r)
               PROVE  \E e \in Ahead(r) : e.topic.item \in {i, Signal}
    BY DEF NoSilentChange
  <2>1. ~Lost(cursor[r].position, cursor[r].issued)
    BY FeedAssumption, FactsHold, UsableIs
  <2>2. view[r][i] # Nothing => item[i].rev > 0 /\ view[r][i].until = item[i].until
    BY DEF FeedInv, ReadInv
  <2>3. ~Ended(i)
    <3>1. Over(i, item[i]) => Shown(r, i) = Nothing
      BY DEF Shown, ShownAs
    <3>2. Over(i, item[i]) => Displayed(r, i) = Nothing
      BY <2>2 DEF Displayed, Over
    <3>3. QED  BY <3>1, <3>2 DEF Ended
  <2>4. view[r][i] # Shown(r, i)
    <3>1. Shown(r, i) # Nothing => ~Over(i, Shown(r, i))
      BY DEF Shown, ShownAs, Over
    <3>2. QED  BY <3>1 DEF Displayed
  <2>5. Told(r, i, cursor[r].position)
    BY <2>1, <2>3, <2>4 DEF FeedInv, ClientInv, CursorInv, Noticed
  <2>6. QED  BY <2>5 DEF Told, Ahead
<1>2. QED  BY <1>1, FeedIsSafe, PTL
=============================================================================
