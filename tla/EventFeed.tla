------------------------------ MODULE EventFeed ------------------------------
(***************************************************************************)
(* The collaboration feed of one project: writers append events in the     *)
(* transaction that changes a resource, old events are purged in batches,  *)
(* and readers catch up from an encrypted cursor of their own, as often as *)
(* they like, each seeing only what its authority covers.                  *)
(*                                                                         *)
(* A writer takes its positions first and commits later; the head row (and *)
(* the advisory lock of the continuity service) stays locked meanwhile.    *)
(* Readers take no lock: they read what is committed.  A transaction is    *)
(* given eight seconds and retention is seven days, so the clock, counted  *)
(* in parts of a retention, does not advance inside one.                   *)
(*                                                                         *)
(* Checkpoints and bundles expire by themselves.  No event says so, and    *)
(* the events of what has expired are not offered any more.                *)
(*                                                                         *)
(* The client is the console the documentation describes: it re-reads what *)
(* an answer names, everything after a reset or a signal, and keeps the    *)
(* new cursor only once it did; an answer may be lost.  With a checkpoint  *)
(* or bundle it reads when that expires, and drops it then.                *)
(***************************************************************************)
EXTENDS Integers, FiniteSets, FiniteSetsExt, Sequences

CONSTANTS Checkpoints,
          Bundles,       \* what is handed over,
          SourceOf,      \* [Bundles -> Checkpoints \cup {None}]: from which, or a handoff
          Sessions,      \* presence sessions
          Runs,          \* usage sessions, from their first final report on
          Policy,        \* the policies of the project
          Users,
          Admins,        \* those of them who administer the project
          Classes,       \* classifications, from 0 (public) upwards
          Readers,       \* [user, project, ceiling]: who polls, with which scope
          Writers,       \* connections that change resources
          Signal,        \* an event without a resource
          None,          \* no transaction, cursor, answer or checkpoint
          Deadlines,     \* the times at which checkpoints and bundles expire
          Retention,     \* RETENTION_SECONDS, in clock ticks
          MaxEvents,     \* MAX_EVENTS
          PurgeBatch,    \* PURGE_BATCH
          PageLimit,     \* limit of a listing
          MaxTime,       \* bound on the clock
          MaxPosition    \* bound on the positions of the feed

ASSUME FeedAssumption ==
  /\ Classes \subseteq Nat /\ 0 \in Classes /\ Admins \subseteq Users
  /\ Readers \subseteq [user : Users, project : BOOLEAN, ceiling : Classes]
  /\ Retention \in Nat /\ MaxEvents \in Nat
  /\ PurgeBatch \in Nat \ {0} /\ PageLimit \in Nat \ {0}
  /\ MaxTime \in Nat /\ MaxPosition \in Nat /\ Deadlines \subseteq Nat
  /\ Checkpoints \cap Bundles = {}
  /\ (Checkpoints \cup Bundles) \cap (Sessions \cup Runs) = {}
  /\ Policy \notin Checkpoints \cup Bundles \cup Sessions \cup Runs
  /\ Signal \notin Checkpoints \cup Bundles \cup Sessions \cup Runs \cup {Policy}
  /\ None \notin Checkpoints
  /\ SourceOf \in [Bundles -> Checkpoints \cup {None}]
  /\ \A a, b \in Bundles : SourceOf[a] = SourceOf[b] /\ SourceOf[a] # None => a = b

VARIABLES now,
          item,          \* the resources, as committed
          feed,          \* memory_collaboration_events
          head, pruned,  \* memory_event_heads
          txn,           \* what each writer is about to commit
          cursor,        \* the cursor each reader keeps
          answer,        \* the answer on its way to each reader
          view           \* what each reader has read of each resource

vars == <<now, item, feed, head, pruned, txn, cursor, answer, view>>

Items == Checkpoints \cup Bundles \cup Sessions \cup Runs \cup {Policy}

Rows == [rev : Nat, from : Users \cup {None}, to : SUBSET Users, class : Classes,
         until : Nat, gone : BOOLEAN]

\* A projected event; its position and time are stamped as it is appended.
Topics == [item : Items \cup {Signal}, class : Classes, audience : SUBSET Users,
           broadcast : BOOLEAN]

Events == [position : Nat, at : Nat, topic : Topics]

\* A transaction that changes some resources.
Txns(S) == [changes : [S -> Rows], first : Nat, topics : Seq(Topics)]

Absent == [rev |-> 0, from |-> None, to |-> {}, class |-> 0, until |-> 0, gone |-> FALSE]

Nothing == [rev |-> 0, until |-> 0]

TypeOK ==
  /\ now \in Nat /\ head \in Nat /\ pruned \in Nat
  /\ item \in [Items -> Rows]
  /\ feed \in SUBSET Events
  /\ DOMAIN txn = Writers
  /\ \A w \in Writers : txn[w] # None => \E S \in SUBSET Items : txn[w] \in Txns(S)
  /\ cursor \in [Readers -> [position : Nat, issued : Nat] \cup {None}]
  /\ answer \in [Readers -> [next : Nat, issued : Nat, reread : SUBSET Items] \cup {None}]
  /\ view \in [Readers -> [Items -> [rev : Nat, until : Nat]]]

Init ==
  /\ now = 0
  /\ item = [i \in Items |-> IF i = Policy THEN [Absent EXCEPT !.rev = 1] ELSE Absent]
  /\ feed = {} /\ head = 0 /\ pruned = 0
  /\ txn = [w \in Writers |-> None]
  /\ cursor = [r \in Readers |-> None]
  /\ answer = [r \in Readers |-> None]
  /\ view = [r \in Readers |-> [i \in Items |-> Nothing]]

(***************************************************************************)
(* What a reader may see.                                                  *)
(***************************************************************************)

\* Checkpoints and bundles are retained until a time that is fixed with them.
Over(i, x) == i \in Checkpoints \cup Bundles /\ x.until <= now

\* What a resource's own reads show a reader of it, by its row.
ShownAs(r, i, x) ==
  IF /\ x.rev > 0 /\ ~x.gone /\ ~Over(i, x)
     /\ i = Policy \/ (x.class <= r.ceiling /\ (r.project \/ r.user = x.from \/ r.user \in x.to))
  THEN [rev |-> x.rev, until |-> x.until] ELSE Nothing

Shown(r, i) == ShownAs(r, i, item[i])

\* What a reader's screen shows of it: not what has expired since it was read.
Displayed(r, i) == IF Over(i, view[r][i]) THEN Nothing ELSE view[r][i]

\* VISIBLE: the audience of the event as it was, and the resource as it is now.
Visible(r, e) ==
  /\ e.topic.class <= r.ceiling
  /\ e.topic.broadcast \/ r.project \/ r.user \in e.topic.audience
  /\ e.at + Retention >= now
  /\ e.topic.item # Signal => Shown(r, e.topic.item) # Nothing

(***************************************************************************)
(* Appending and purging.                                                  *)
(***************************************************************************)

Lowest(S, n) == {e \in S : Cardinality({d \in S : d.position < e.position}) < n}

Positions(S) == {e.position : e \in S}

Elapsed(e) == e.at + Retention < now

\* The rows one purge deletes: a batch from below, of what is too old and of
\* what exceeds the size of the feed.
Purgeable(rows, top) ==
  Lowest({e \in rows : Elapsed(e) \/ e.position <= top - MaxEvents}, PurgeBatch)

PurgedSilently(f) ==                                           \* mutant
  [rows |-> f.rows \ Purgeable(f.rows, f.head), head |-> f.head, pruned |-> f.pruned]

\* _purge records how far it went.
Purged(f) ==
  LET batch == Purgeable(f.rows, f.head) IN
  [rows |-> f.rows \ batch, head |-> f.head, pruned |-> Max({f.pruned} \cup Positions(batch))]

\* append: one event after the head, then a purge.
Append1(f, e) ==
  Purged([rows |-> f.rows \cup {e}, head |-> Max({f.head, e.position}), pruned |-> f.pruned])

\* The events of a transaction, one or two.
Appended(f, t) ==
  LET e(k) == [position |-> t.first + k - 1, at |-> now, topic |-> t.topics[k]] IN
  IF Len(t.topics) = 1 THEN Append1(f, e(1)) ELSE Append1(Append1(f, e(1)), e(2))

\* The last position that is taken, by an event or an uncommitted transaction.
Top == Max({head} \cup {t.first + Len(t.topics) - 1 : t \in {txn[w] : w \in Writers} \ {None}})

HeadUnlocked == TRUE                                           \* mutant

\* The head row is free: no transaction that appended is still open.
HeadFree == \A w \in Writers : txn[w] = None

\* The writers that may begin a transaction.
Idle == {w \in Writers : txn[w] = None /\ HeadFree /\ Top < MaxPosition}

\* A transaction that changes some resources and announces it by some topics.
Write(w, changes, topics) ==
  /\ w \in Idle
  /\ Top + Len(topics) <= MaxPosition
  /\ txn' = [txn EXCEPT ![w] = [changes |-> changes, first |-> Top + 1, topics |-> topics]]
  /\ UNCHANGED <<now, item, feed, head, pruned, cursor, answer, view>>

Commit(w) ==
  LET t == txn[w]
      f == Appended([rows |-> feed, head |-> head, pruned |-> pruned], t)
  IN /\ t # None
     /\ item' = [i \in Items |-> IF i \in DOMAIN t.changes THEN t.changes[i] ELSE item[i]]
     /\ feed' = f.rows /\ head' = f.head /\ pruned' = f.pruned
     /\ txn' = [txn EXCEPT ![w] = None]
     /\ UNCHANGED <<now, cursor, answer, view>>

\* A rolled back transaction gives its positions back with everything else.
Abort(w) ==
  /\ txn[w] # None
  /\ txn' = [txn EXCEPT ![w] = None]
  /\ UNCHANGED <<now, item, feed, head, pruned, cursor, answer, view>>

\* prune: the explicit purge.
Prune ==
  LET f == Purged([rows |-> feed, head |-> head, pruned |-> pruned]) IN
  /\ HeadFree
  /\ feed' = f.rows /\ pruned' = f.pruned
  /\ UNCHANGED <<now, item, head, txn, cursor, answer, view>>

(***************************************************************************)
(* project_event: what each change announces, and to whom.                 *)
(***************************************************************************)

Topic(i, class, audience) ==
  [item |-> i, class |-> class, audience |-> audience, broadcast |-> FALSE]

Announce(i, row) == Topic(i, row.class, {row.from} \cup row.to)

Present(i) == item[i].rev > 0 /\ ~item[i].gone

Retained(i) == Present(i) /\ ~Over(i, item[i])

Revised(i) == [item[i] EXCEPT !.rev = @ + 1]

Removed(i) == [Revised(i) EXCEPT !.gone = TRUE]

New(u, to, class, until) ==
  [rev |-> 1, from |-> u, to |-> to, class |-> class, until |-> until, gone |-> FALSE]

\* One resource becomes a row, and that is announced as such.
Set(w, i, row) == Write(w, [j \in {i} |-> row], <<Announce(i, row)>>)

\* checkpoint_save: each version is a checkpoint of its own.
Save(w, c, u, class, until) ==
  /\ item[c].rev = 0 /\ until > now
  /\ Set(w, c, New(u, {}, class, until))

\* publish, once from each source.  The bundle is its sender's, as classified,
\* and expires no later.
Publish(w, b, u, to, class, until) ==
  LET c == SourceOf[b] IN
  /\ item[b].rev = 0 /\ until > now
  /\ c # None =>
       /\ Retained(c)
       /\ item[c].from = u /\ item[c].class = class /\ until <= item[c].until
  /\ to # {} /\ u \notin to
  /\ Set(w, b, New(u, to, class, until))

\* reassign.  Who loses the bundle is told that access changed, and nothing else.
Reassign(w, b, to) ==
  LET row == [Revised(b) EXCEPT !.to = to]
      removed == item[b].to \ to
  IN /\ Retained(b)
     /\ to # {} /\ item[b].from \notin to
     /\ IF removed = {} THEN Set(w, b, row)
        ELSE Write(w, [j \in {b} |-> row],
                   <<Announce(b, row), Topic(Signal, row.class, removed)>>)

\* presence_register.
Register(w, s, u, class) ==
  /\ item[s].rev = 0
  /\ Set(w, s, New(u, {}, class, 0))

\* The first final report of a usage session, classified when it registered.
Finalize(w, n, u, class) ==
  /\ item[n].rev = 0
  /\ Set(w, n, New(u, {}, class, 0))

\* ack, claim, release, completion; a session's state changes or it ends.
Touch(w, i) ==
  /\ Retained(i)
  /\ Set(w, i, Revised(i))

\* A session whose report names classified work is classified with it: the news
\* goes to its new level, a signal to the old one.
Reclassify(w, s, class) ==
  LET row == [Revised(s) EXCEPT !.class = class] IN
  /\ Present(s)
  /\ class > item[s].class
  /\ Write(w, [j \in {s} |-> row],
           <<Announce(s, row), Topic(Signal, item[s].class, {item[s].from})>>)

\* checkpoint_forget takes the bundle published from the checkpoint with it,
\* expired or not, and signals it again when it is repeated.
Erase(w, c) ==
  LET lost == {i \in {c} \cup {b \in Bundles : SourceOf[b] = c} : Present(i)}
      told == {item[c].from} \cup UNION {item[i].to : i \in lost}
  IN /\ item[c].rev > 0
     /\ Write(w, [i \in lost |-> [Removed(i) EXCEPT !.to = {}]],
              <<Topic(Signal, item[c].class, told)>>)

\* presence_prune and usage_prune retire what is long out of date, if there is
\* any, and tell their administrator.
Retire(w, S, u) ==
  /\ \A i \in S : Present(i)
  /\ Write(w, [i \in S |-> Removed(i)], <<Topic(Signal, 0, {u})>>)

\* Policy changes are broadcast.
SetPolicy(w) ==
  Write(w, [j \in {Policy} |-> Revised(Policy)],
        <<[item |-> Signal, class |-> 0, audience |-> {}, broadcast |-> TRUE]>>)

(***************************************************************************)
(* Reading.                                                                *)
(***************************************************************************)

\* Events too old to be offered leave a gap before they are purged.
Low == Max({pruned} \cup Positions({e \in feed : Elapsed(e)}))

\* decode_cursor and the range check of listing: otherwise the reader starts over.
Usable(r) ==
  /\ cursor[r] # None
  /\ now - cursor[r].issued <= Retention
  /\ cursor[r].position >= Low
  /\ cursor[r].position <= head

Ahead(r) == {e \in feed : e.position > cursor[r].position /\ Visible(r, e)}

\* listing: a page of visible events, and a cursor behind it; the cursor skips
\* to the head only when the page holds everything.
Poll(r) ==
  LET page == IF Usable(r) THEN Lowest(Ahead(r), PageLimit) ELSE {}
      more == Usable(r) /\ Cardinality(Ahead(r)) > PageLimit
      named == {e.topic.item : e \in page}
  IN /\ answer[r] = None
     /\ answer' = [answer EXCEPT ![r] =
          [next |-> IF more THEN Max(Positions(page)) ELSE head,
           issued |-> now,
           reread |-> IF ~Usable(r) \/ Signal \in named THEN Items ELSE named]]
     /\ UNCHANGED <<now, item, feed, head, pruned, txn, cursor, view>>

\* The client re-reads what the answer made stale, then keeps the cursor.
Accept(r) ==
  /\ answer[r] # None
  /\ view' = [view EXCEPT ![r] =
       [i \in Items |-> IF i \in answer[r].reread THEN Shown(r, i) ELSE view[r][i]]]
  /\ cursor' = [cursor EXCEPT ![r] = [position |-> answer[r].next, issued |-> answer[r].issued]]
  /\ answer' = [answer EXCEPT ![r] = None]
  /\ UNCHANGED <<now, item, feed, head, pruned, txn>>

Lose(r) ==
  /\ answer[r] # None
  /\ answer' = [answer EXCEPT ![r] = None]
  /\ UNCHANGED <<now, item, feed, head, pruned, txn, cursor, view>>

Tick ==
  /\ now < MaxTime
  /\ \A w \in Writers : txn[w] = None
  /\ now' = now + 1
  /\ UNCHANGED <<item, feed, head, pruned, txn, cursor, answer, view>>

\* What a writer may begin.
Change(w) ==
  \/ \E c \in Checkpoints, u \in Users, k \in Classes, d \in Deadlines : Save(w, c, u, k, d)
  \/ \E b \in Bundles, u \in Users, to \in SUBSET Users, k \in Classes, d \in Deadlines :
       Publish(w, b, u, to, k, d)
  \/ \E b \in Bundles, to \in SUBSET Users : Reassign(w, b, to)
  \/ \E s \in Sessions, u \in Users, k \in Classes : Register(w, s, u, k)
  \/ \E n \in Runs, u \in Users, k \in Classes : Finalize(w, n, u, k)
  \/ \E i \in Bundles \cup Sessions : Touch(w, i)
  \/ \E s \in Sessions, k \in Classes : Reclassify(w, s, k)
  \/ \E c \in Checkpoints : Erase(w, c)
  \/ \E S \in (SUBSET Sessions) \cup (SUBSET Runs), u \in Admins : Retire(w, S, u)
  \/ SetPolicy(w)

Next ==
  \/ \E w \in Idle : Change(w)
  \/ \E w \in Writers : Commit(w)
  \/ \E w \in Writers : Abort(w)
  \/ Prune
  \/ \E r \in Readers : Poll(r)
  \/ \E r \in Readers : Accept(r)
  \/ \E r \in Readers : Lose(r)
  \/ Tick

Spec == Init /\ [][Next]_vars

(***************************************************************************)
(* Properties.                                                             *)
(***************************************************************************)

\* Whatever was purged, in whichever batches, the feed is the run of positions
\* from the recorded gap to the head, in the order of their commits.
FeedIsGapless ==
  /\ Positions(feed) = pruned + 1..head
  /\ \A d, e \in feed : d.position <= e.position => d.at <= e.at /\ (d.position = e.position => d = e)

\* Whatever writers, retention and purges did, the feed is one run of well-formed events.
FeedIsSound == TypeOK /\ FeedIsGapless

\* A session or usage run that was retired.
Retired(i) == i \in Sessions \cup Runs /\ item[i].gone

\* A reader's screen never differs from what the resources show it now without
\* its being told: its next polls name the resource, signal that something
\* changed, or make it start over.  An expiry needs no telling, for the deadline
\* a reader was given is still the one that counts; only the retirement of
\* sessions and runs goes unannounced.
NoSilentChange ==
  \A r \in Readers, i \in Items :
    (cursor[r] # None /\ Displayed(r, i) # Shown(r, i) /\ ~Retired(i)) =>
      ~Usable(r) \/ \E e \in Ahead(r) : e.topic.item \in {i, Signal}
=============================================================================
