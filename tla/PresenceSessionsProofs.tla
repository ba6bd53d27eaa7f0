------------------------ MODULE PresenceSessionsProofs ------------------------
(***************************************************************************)
(* Proofs about PresenceSessions, for any users, sessions, reports and     *)
(* policies: a session is what its newest report made it, and nobody is    *)
(* said to be idle for longer than was observed.                           *)
(***************************************************************************)
EXTENDS PresenceSessions, FiniteSetTheorems, TLAPS

(***************************************************************************)
(* Least and greatest numbers.                                             *)
(***************************************************************************)

\* There is a least number in every set of them, and Min is it.
LEMMA MinIs ==
  ASSUME NEW S \in SUBSET Nat, S # {}
  PROVE  Min(S) \in S /\ \A y \in S : Min(S) <= y
<1> DEFINE R == OpToRel(<, Nat)
<1>1. IsWellFoundedOn(R, Nat)
  BY NatLessThanWellFounded
<1>2. \A x, y \in Nat : x < y => <<x, y>> \in R
  BY DEF OpToRel
<1> HIDE DEF R
<1>3. PICK x \in S : \A y \in S : ~(<<y, x>> \in R)
  BY <1>1, WFMin
<1>4. \A y \in S : ~(y < x)
  BY <1>2, <1>3
<1>5. \A y \in S : x <= y
  BY <1>4
<1>6. QED  BY <1>5 DEF Min

\* Of numbers with a bound, Max is the greatest.
LEMMA MaxIs ==
  ASSUME NEW S \in SUBSET Nat, S # {}, NEW n \in Nat, \A x \in S : x <= n
  PROVE  Max(S) \in S /\ \A y \in S : Max(S) >= y
<1> DEFINE D == {n - x : x \in S}
<1>1. D \in SUBSET Nat /\ D # {}
  <2>1. \A x \in S : n - x \in Nat
    OBVIOUS
  <2>2. QED  BY <2>1
<1>2. Min(D) \in D /\ \A d \in D : Min(D) <= d
  BY <1>1, MinIs
<1>3. PICK x \in S : Min(D) = n - x
  BY <1>2
<1>4. ASSUME NEW y \in S PROVE x >= y
  <2>1. n - x <= n - y
    BY <1>2, <1>3
  <2>2. QED  BY <2>1
<1>5. QED  BY <1>4 DEF Max

\* The level of a session is one of the levels it is taken from, and no lower.
LEMMA LevelIs ==
  ASSUME NEW a \in Nat, NEW A \in SUBSET Nat, NEW b \in Nat, \A x \in A : x <= b
  PROVE  LET S == {a} \cup A IN Max(S) \in S /\ Max(S) >= a
<1>1. {a} \cup A \in SUBSET Nat /\ {a} \cup A # {} /\ a + b \in Nat
  OBVIOUS
<1>2. \A x \in {a} \cup A : x <= a + b
  OBVIOUS
<1>3. QED  BY ONLY <1>1, <1>2, MaxIs

\* What the proofs need of the constants.
LEMMA Constants ==
  /\ Classes \subseteq Nat /\ WorkClass \in [Works -> Classes]
  /\ Reports \subseteq Fields /\ None \notin Nat /\ DefaultPolicy \in PolicyBodies
  /\ Policies \subseteq PolicyBodies
BY PresenceAssumption

LEMMA LevelsAreNat == \A c \in Classes \cup {0} : c \in Nat
<1> SUFFICES ASSUME NEW c \in Classes \cup {0} PROVE c \in Nat
  OBVIOUS
<1>1. CASE c \in Classes
  BY <1>1, Constants
<1>2. CASE c = 0
  BY <1>2
<1>3. QED  BY <1>1, <1>2

\* At most one number has a bound.
LEMMA OneIsBounded ==
  ASSUME NEW A, NEW a \in Nat, A \subseteq {a}
  PROVE  A \subseteq Nat /\ \E b \in Nat : \A x \in A : x <= b
<1>1. \A x \in A : x <= a
  OBVIOUS
<1>2. QED  BY <1>1

(***************************************************************************)
(* The invariant, session by session: of a row r and the reports L that it *)
(* accepted.                                                               *)
(***************************************************************************)

Ordered(L) ==
  \A i \in 1..Len(L) - 1 : L[i].sequence < L[i + 1].sequence /\ ~L[i].ends

\* The row is what the newest report says.
Latest(r, L) ==
  /\ r.status = "absent" => L = <<>>
  /\ r.status \in {"open", "ended"} /\ L # <<>> =>
       LET last == L[Len(L)] IN
       /\ r.sequence = last.sequence
       /\ r.fields.state = last.state
       /\ r.status = "ended" <=> last.ends
       /\ ~last.ends => r.seen = last.at

\* Since k, the reports all said idle, and each came before the last went stale.
IdleFrom(L, k) ==
  /\ \A i \in k..Len(L) : L[i].state = "idle"
  /\ \A i \in k + 1..Len(L) : L[i].at - L[i - 1].at \in 0..L[i].stale - 1

\* What a row says of idleness was reported.
IdleSince(r, L) ==
  r.status = "open" /\ r.idle # None =>
    \E k \in DOMAIN L : L[k].at = r.idle /\ IdleFrom(L, k)

SessionInv(r, L) == Ordered(L) /\ Latest(r, L) /\ IdleSince(r, L)

PresenceInv == TypeOK /\ \A s \in Sessions : SessionInv(session[s], log[s])

\* The invariant says what the property does.
LEMMA SoundFollows == PresenceInv => SessionsAreSound
<1> SUFFICES ASSUME PresenceInv, NEW s \in Sessions
             PROVE  /\ \A i \in 1..Len(log[s]) - 1 :
                         log[s][i].sequence < log[s][i + 1].sequence /\ ~log[s][i].ends
                    /\ Live(s) /\ log[s] # <<>> =>
                         /\ session[s].sequence = Newest(s).sequence
                         /\ session[s].fields.state = Newest(s).state
                         /\ Status(s) = "ended" <=> Newest(s).ends
                         /\ ~Newest(s).ends => session[s].seen = Newest(s).at
  BY DEF SessionsAreSound, ShownAsReported, PresenceInv
<1>1. SessionInv(session[s], log[s])
  BY DEF PresenceInv
<1>2. QED  BY <1>1 DEF SessionInv, Ordered, Latest, Live, Status, Newest

(***************************************************************************)
(* The steps.                                                              *)
(***************************************************************************)

LEMMA InitInv == Init => PresenceInv
<1> SUFFICES ASSUME Init PROVE PresenceInv
  OBVIOUS
<1>1. Absent \in Rows
  BY Constants DEF Absent, Rows, Unobserved, Fields, States
<1>2. TypeOK
  BY <1>1, Constants DEF Init, TypeOK
<1>3. ASSUME NEW s \in Sessions PROVE SessionInv(session[s], log[s])
  <2>1. session[s] = Absent /\ log[s] = <<>>
    BY DEF Init
  <2>2. QED  BY <2>1 DEF SessionInv, Ordered, Latest, IdleSince, Absent
<1>4. QED  BY <1>2, <1>3 DEF PresenceInv

\* A step that writes one row and logs nothing, or one report of that session,
\* leaves the other sessions as they are.
LEMMA OneSession ==
  ASSUME PresenceInv, TypeOK', NEW s \in Sessions,
         \A t \in Sessions \ {s} : session'[t] = session[t] /\ log'[t] = log[t],
         SessionInv(session'[s], log'[s])
  PROVE  PresenceInv'
BY DEF PresenceInv

LEMMA RegisterInv ==
  ASSUME PresenceInv, NEW s \in Sessions, NEW class \in Classes,
         NEW parent \in Sessions \cup {None}, Register(s, class, parent)
  PROVE  PresenceInv' /\ ~(Status(s) # "absent")
<1> DEFINE A == {session[p].class : p \in {parent} \ {None}}
           S == {class} \cup A
<1>1. Max(S) \in Classes \cup {0}
  <2>1. class \in Nat /\ A \subseteq Classes \cup {0}
    <3>1. \A p \in Sessions : session[p].class \in Classes \cup {0}
      BY DEF PresenceInv, TypeOK, Rows
    <3>2. A \subseteq Classes \cup {0}
      BY <3>1
    <3>3. QED  BY <3>2, Constants
  <2>2. A \subseteq Nat /\ \E b \in Nat : \A x \in A : x <= b
    <3>1. CASE parent = None
      <4>1. A \subseteq {0}
        BY <3>1
      <4> HIDE DEF A
      <4>2. QED  BY <4>1, OneIsBounded
    <3>2. CASE parent # None
      <4>1. A \subseteq {session[parent].class} /\ session[parent].class \in A
        BY <3>2
      <4> HIDE DEF A
      <4>2. session[parent].class \in Nat
        BY <2>1, <4>1, LevelsAreNat
      <4>3. QED  BY <4>1, <4>2, OneIsBounded
    <3>3. QED  BY <3>1, <3>2
  <2> HIDE DEF A
  <2>3. Max(S) \in S
    BY <2>1, <2>2, LevelIs
  <2>4. QED  BY <2>1, <2>3
<1> DEFINE row == [Absent EXCEPT !.status = "open", !.parent = parent, !.class = Max(S),
                                 !.created = now, !.seen = now, !.since = now]
<1> HIDE DEF S
<1>2. row \in Rows
  BY <1>1, Constants DEF Absent, Rows, Unobserved, Fields, States, PresenceInv, TypeOK
<1>3. session' = [session EXCEPT ![s] = row] /\ log' = log
  BY DEF Register, S
<1>4. TypeOK'
  BY <1>2, <1>3 DEF Register, PresenceInv, TypeOK
<1>5. SessionInv(session'[s], log'[s])
  <2>1. session'[s] = row /\ log'[s] = log[s]
    BY <1>3 DEF PresenceInv, TypeOK
  <2>2. log[s] = <<>>
    BY DEF Register, PresenceInv, SessionInv, Latest, Status
  <2>3. QED  BY <2>1, <2>2 DEF SessionInv, Ordered, Latest, IdleSince, Absent
<1>6. \A t \in Sessions \ {s} : session'[t] = session[t] /\ log'[t] = log[t]
  BY <1>3 DEF PresenceInv, TypeOK
<1>7. QED  BY <1>4, <1>5, <1>6, OneSession DEF Register

\* The level a report brings is one, and not below the level of the session.
LEMMA ClassifiedIs ==
  ASSUME TypeOK, NEW s \in Sessions, NEW class \in Classes, NEW f \in Fields
  PROVE  LET c == Classified(session[s], class, f) IN
         c \in Classes \cup {0} /\ c >= session[s].class
<1> DEFINE r == session[s]
           B == {WorkClass[w] : w \in {f.work} \ {None}}
           C == {session[p].class : p \in {r.parent} \ {None}}
           A == {class} \cup B \cup C
<1>1. \A p \in Sessions : session[p].class \in Classes \cup {0} /\ session[p].parent \in Sessions \cup {None}
  BY DEF TypeOK, Rows
<1>2. B \subseteq Classes /\ B \subseteq Nat /\ \E b \in Nat : \A x \in B : x <= b
  <2>1. CASE f.work = None
    <3>1. B \subseteq {0} /\ B \subseteq Classes
      BY <2>1
    <3> HIDE DEF B
    <3>2. QED  BY <3>1, OneIsBounded
  <2>2. CASE f.work # None
    <3>1. f.work \in Works
      BY <2>2 DEF Fields
    <3>2. WorkClass[f.work] \in Classes
      BY <3>1, Constants
    <3>3. B \subseteq {WorkClass[f.work]}
      OBVIOUS
    <3> HIDE DEF B
    <3>4. WorkClass[f.work] \in Nat
      BY <3>2, Constants
    <3>5. QED  BY <3>2, <3>3, <3>4, OneIsBounded
  <2>3. QED  BY <2>1, <2>2
<1>3. C \subseteq Classes \cup {0} /\ C \subseteq Nat /\ \E b \in Nat : \A x \in C : x <= b
  <2>1. CASE r.parent = None
    <3>1. C \subseteq {0}
      BY <2>1
    <3> HIDE DEF C
    <3>2. QED  BY <3>1, OneIsBounded
  <2>2. CASE r.parent # None
    <3>1. session[r.parent].class \in Classes \cup {0}
      BY <1>1, <2>2
    <3>2. C \subseteq {session[r.parent].class}
      OBVIOUS
    <3> HIDE DEF C
    <3>3. session[r.parent].class \in Nat
      BY <3>1, LevelsAreNat
    <3>4. QED  BY <3>1, <3>2, <3>3, OneIsBounded
  <2>3. QED  BY <2>1, <2>2
<1> HIDE DEF B, C
<1>4. PICK b \in Nat : \A x \in B : x <= b
  BY <1>2
<1>5. PICK c \in Nat : \A x \in C : x <= c
  BY <1>3
<1>6. class + b + c \in Nat /\ A \in SUBSET Nat /\ \A x \in A : x <= class + b + c
  BY <1>2, <1>3, <1>4, <1>5, Constants
<1>7. r.class \in Nat /\ r.class \in Classes \cup {0}
  <2>1. r.class \in Classes \cup {0}
    BY <1>1
  <2>2. QED  BY <2>1, LevelsAreNat
<1>8. Max({r.class} \cup A) \in {r.class} \cup A /\ Max({r.class} \cup A) >= r.class
  BY ONLY <1>6, <1>7, LevelIs
<1>9. {r.class} \cup A = {r.class, class} \cup B \cup C
  OBVIOUS
<1>10. Classified(r, class, f) = Max({r.class} \cup A)
  BY <1>9 DEF Classified, B, C
<1>11. QED  BY <1>2, <1>3, <1>7, <1>8, <1>10

\* A report appended after the newest keeps the order.
LEMMA AppendOrdered ==
  ASSUME NEW L \in Seq(Accepted), NEW e \in Accepted, Ordered(L),
         L # <<>> => L[Len(L)].sequence < e.sequence /\ ~L[Len(L)].ends
  PROVE  Ordered(Append(L, e))
<1> DEFINE M == Append(L, e)
<1>1. Len(M) = Len(L) + 1 /\ M[Len(L) + 1] = e /\ \A i \in 1..Len(L) : M[i] = L[i]
  OBVIOUS
<1> HIDE DEF M
<1>2. ASSUME NEW i \in 1..Len(M) - 1
      PROVE  M[i].sequence < M[i + 1].sequence /\ ~M[i].ends
  <2>1. Len(L) \in Nat /\ i \in 1..Len(L) /\ L # <<>>
    BY <1>1
  <2>2. CASE i = Len(L)
    BY <1>1, <2>1, <2>2
  <2>3. CASE i < Len(L)
    <3>1. i \in 1..Len(L) - 1 /\ i + 1 \in 1..Len(L)
      BY <2>1, <2>3
    <3>2. QED  BY <1>1, <2>1, <3>1 DEF Ordered
  <2>4. QED  BY <2>1, <2>2, <2>3
<1>3. QED  BY <1>2 DEF Ordered, M

LEMMA HeartbeatInv ==
  ASSUME PresenceInv, NEW s \in Sessions, NEW n \in 1..MaxSequence, NEW f \in Reports,
         NEW class \in Classes, Heartbeat(s, n, f, class)
  PROVE  PresenceInv' /\ ~SessionGuard(session[s], session'[s])
<1> DEFINE r == session[s]
           times == NextTimes(r, f)
           level == Classified(r, class, f)
           row == Updated(r, n, f, class)
           e == [sequence |-> n, at |-> now, state |-> f.state, stale |-> policy.body.stale,
                 ends |-> FALSE]
           L == log[s]
<1>1. r \in Rows /\ r.status = "open" /\ n > r.sequence /\ n \in Nat /\ now \in Nat /\ L \in Seq(Accepted)
  BY Constants DEF Heartbeat, Status, Newer, PresenceInv, TypeOK
<1>2. f \in Fields
  BY Constants
<1>3. level \in Classes \cup {0} /\ level >= r.class
  BY <1>2, ClassifiedIs DEF PresenceInv
<1>4. times.since \in Nat /\ times.idle \in Nat \cup {None}
  BY <1>1 DEF NextTimes, Rows
<1>5. session' = [session EXCEPT ![s] = row] /\ log' = [log EXCEPT ![s] = Append(L, e)]
  <2>1. session' = [session EXCEPT ![s] = row]
    BY DEF Heartbeat
  <2>2. log' = [log EXCEPT ![s] = Append(L, e)]
    BY DEF Heartbeat, Logged
  <2>3. QED  BY <2>1, <2>2
<1>6. /\ row \in Rows /\ row.status = "open" /\ row.sequence = n /\ row.fields = f
      /\ row.seen = now /\ row.idle = times.idle /\ row.class = level
      /\ row.parent = r.parent /\ row.created = r.created /\ row.changes >= r.changes
  <2> DEFINE changes == IF f # r.fields THEN r.changes + 1 ELSE r.changes
             r1 == [r EXCEPT !.sequence = n, !.changes = changes, !.fields = f]
             r2 == [r1 EXCEPT !.class = level, !.seen = now]
             r3 == [r2 EXCEPT !.since = times.since, !.idle = times.idle]
  <2>1. row = r3
    BY <1>1 DEF Updated, Rows
  <2>2. changes \in Nat /\ changes >= r.changes
    BY <1>1 DEF Rows
  <2> HIDE DEF changes, times, level
  <2>3. /\ r1 \in Rows /\ r1.status = "open" /\ r1.sequence = n /\ r1.fields = f
        /\ r1.parent = r.parent /\ r1.created = r.created /\ r1.changes = changes
    BY <1>1, <1>2, <2>2 DEF Rows
  <2> HIDE DEF r1
  <2>4. /\ r2 \in Rows /\ r2.status = "open" /\ r2.sequence = n /\ r2.fields = f
        /\ r2.parent = r.parent /\ r2.created = r.created /\ r2.changes = changes
        /\ r2.class = level /\ r2.seen = now
    BY <1>1, <1>3, <2>3 DEF Rows
  <2> HIDE DEF r2
  <2>5. /\ r3 \in Rows /\ r3.status = "open" /\ r3.sequence = n /\ r3.fields = f
        /\ r3.parent = r.parent /\ r3.created = r.created /\ r3.changes = changes
        /\ r3.class = level /\ r3.seen = now /\ r3.idle = times.idle
    BY <1>4, <2>4 DEF Rows
  <2> HIDE DEF r3, row
  <2>6. QED  BY <2>1, <2>2, <2>5
<1>7. e \in Accepted
  <2>1. policy.body.stale \in Nat
    BY DEF PresenceInv, TypeOK, PolicyBodies
  <2>2. QED  BY <1>1, <1>2, <2>1 DEF Accepted, Fields
<1>8. Append(L, e) \in Seq(Accepted)
  BY <1>1, <1>7
<1>9. TypeOK'
  <2> HIDE DEF row, e
  <2>1. QED  BY <1>5, <1>6, <1>8 DEF Heartbeat, PresenceInv, TypeOK
<1>10. session'[s] = row /\ log'[s] = Append(L, e)
  BY <1>5 DEF PresenceInv, TypeOK
<1>11. SessionInv(r, L)
  BY DEF PresenceInv
<1>12. L # <<>> => L[Len(L)].sequence = r.sequence /\ ~L[Len(L)].ends /\ r.seen = L[Len(L)].at
                   /\ L[Len(L)] \in Accepted
  BY <1>1, <1>11 DEF SessionInv, Latest
<1>13. SessionInv(row, Append(L, e))
  <2>1. Ordered(Append(L, e))
    BY <1>1, <1>7, <1>11, <1>12, AppendOrdered DEF SessionInv, Accepted
  <2>2. Len(Append(L, e)) = Len(L) + 1 /\ Append(L, e)[Len(L) + 1] = e /\ Append(L, e) # <<>>
        /\ Len(L) \in Nat /\ \A i \in 1..Len(L) : Append(L, e)[i] = L[i]
    BY <1>1, <1>7
  <2> HIDE DEF row
  <2>3. row.status = "open" /\ row.sequence = n /\ row.fields = f /\ row.seen = now
        /\ row.idle = times.idle
    BY <1>6
  <2>4. Latest(row, Append(L, e))
    BY <2>2, <2>3 DEF Latest
  <2> DEFINE M == Append(L, e)
  <2>5. ASSUME times.idle # None
        PROVE  \E k \in DOMAIN M : M[k].at = times.idle /\ IdleFrom(M, k)
    <3> HIDE DEF M
    <3>1. f.state = "idle"
      BY <2>5 DEF NextTimes
    <3>2. CASE times.idle = now
      <4>1. Len(L) + 1 \in DOMAIN M /\ M[Len(L) + 1] = e
        BY <2>2, <1>8 DEF M
      <4>2. IdleFrom(M, Len(L) + 1)
        BY <2>2, <3>1, <4>1 DEF IdleFrom, M
      <4>3. QED  BY <3>2, <4>1, <4>2
    <3>3. CASE times.idle # now
      <4>1. f = r.fields /\ ~Discontinuous(r) /\ times.idle = r.idle
        BY <2>5, <3>1, <3>3 DEF NextTimes
      <4>2. PICK k \in DOMAIN L : L[k].at = r.idle /\ IdleFrom(L, k)
        BY <1>1, <1>11, <2>5, <4>1 DEF SessionInv, IdleSince
      <4>3. k \in 1..Len(L) /\ k \in Int /\ Len(M) = Len(L) + 1
        BY <1>1, <2>2 DEF M
      <4>4. L # <<>>
        BY <4>3
      <4>5. now - L[Len(L)].at \in 0..policy.body.stale - 1
        <5>1. r.seen \in Nat /\ policy.body.stale \in Nat
          BY <1>1 DEF PresenceInv, TypeOK, PolicyBodies, Rows
        <5>2. QED  BY <1>1, <1>12, <4>1, <4>4, <5>1 DEF Discontinuous
      <4>6. \A i \in 1..Len(L) : M[i] = L[i]
        BY <2>2 DEF M
      <4>7. M[Len(L) + 1] = e
        BY <2>2 DEF M
      <4>8. ASSUME NEW i \in k..Len(M) PROVE M[i].state = "idle"
        <5>1. CASE i <= Len(L)
          BY <2>2, <4>2, <4>3, <4>6, <5>1 DEF IdleFrom
        <5>2. CASE i = Len(L) + 1
          BY <3>1, <4>7, <5>2
        <5>3. QED  BY <2>2, <4>3, <5>1, <5>2
      <4>9. ASSUME NEW i \in k + 1..Len(M) PROVE M[i].at - M[i - 1].at \in 0..M[i].stale - 1
        <5>1. CASE i <= Len(L)
          <6>1. i \in k + 1..Len(L) /\ i \in 1..Len(L) /\ i - 1 \in 1..Len(L)
            BY <2>2, <4>3, <5>1
          <6>2. QED  BY <4>2, <4>6, <6>1 DEF IdleFrom
        <5>2. CASE i = Len(L) + 1
          <6>1. M[i] = e /\ M[i - 1] = L[Len(L)]
            BY <2>2, <4>3, <4>6, <4>7, <5>2
          <6>2. QED  BY <4>5, <6>1
        <5>3. QED  BY <2>2, <4>3, <5>1, <5>2
      <4>10. k \in DOMAIN M
        BY <1>8, <2>2, <4>3 DEF M
      <4>11. M[k].at = times.idle
        BY <4>1, <4>2, <4>3, <4>6
      <4>12. QED  BY <4>8, <4>9, <4>10, <4>11 DEF IdleFrom
    <3>4. QED  BY <3>2, <3>3
  <2>6. IdleSince(row, M)
    <3> HIDE DEF times, M
    <3>1. QED  BY <2>3, <2>5 DEF IdleSince
  <2>7. QED  BY <2>1, <2>4, <2>6 DEF SessionInv
<1>14. \A t \in Sessions \ {s} : session'[t] = session[t] /\ log'[t] = log[t]
  BY <1>5 DEF PresenceInv, TypeOK
<1>15. PresenceInv'
  <2> HIDE DEF row, e, L
  <2>1. QED  BY <1>9, <1>10, <1>13, <1>14, OneSession
<1>16. ~SessionGuard(r, row)
  <2> HIDE DEF level, row
  <2>1. r.sequence \in Nat /\ r.changes \in Nat /\ row.changes \in Nat
    BY <1>1, <1>6 DEF Rows
  <2>2. r.class \in Nat /\ level \in Nat
    BY <1>1, <1>3, LevelsAreNat DEF Rows
  <2> HIDE DEF r
  <2>3. QED  BY <1>1, <1>3, <1>6, <2>1, <2>2 DEF SessionGuard
<1>17. QED  BY <1>10, <1>15, <1>16

LEMMA EndInv ==
  ASSUME PresenceInv, NEW s \in Sessions, NEW n \in 1..MaxSequence, End(s, n)
  PROVE  PresenceInv' /\ ~SessionGuard(session[s], session'[s])
<1> DEFINE r == session[s]
           row == [r EXCEPT !.status = "ended", !.sequence = n, !.ended = now]
           e == [sequence |-> n, at |-> now, state |-> r.fields.state, stale |-> policy.body.stale,
                 ends |-> TRUE]
           L == log[s]
<1>1. r \in Rows /\ r.status = "open" /\ n > r.sequence /\ n \in Nat /\ now \in Nat /\ L \in Seq(Accepted)
  BY DEF End, Status, Newer, PresenceInv, TypeOK
<1>2. session' = [session EXCEPT ![s] = row] /\ log' = [log EXCEPT ![s] = Append(L, e)]
  BY DEF End, Logged
<1>3. /\ row \in Rows /\ row.status = "ended" /\ row.sequence = n /\ row.fields = r.fields
      /\ row.class = r.class /\ row.parent = r.parent /\ row.created = r.created
      /\ row.changes = r.changes
  BY <1>1 DEF Rows
<1>4. e \in Accepted /\ e.sequence = n /\ e.ends /\ e.state = r.fields.state
  <2>1. policy.body.stale \in Nat
    BY DEF PresenceInv, TypeOK, PolicyBodies
  <2>2. r.fields.state \in States
    BY <1>1 DEF Rows, Fields
  <2>3. QED  BY <1>1, <2>1, <2>2 DEF Accepted
<1> HIDE DEF row, e
<1>5. TypeOK'
  BY <1>1, <1>2, <1>3, <1>4 DEF End, PresenceInv, TypeOK
<1>6. session'[s] = row /\ log'[s] = Append(L, e)
  BY <1>2 DEF PresenceInv, TypeOK
<1>7. SessionInv(r, L)
  BY DEF PresenceInv
<1>8. SessionInv(row, Append(L, e))
  <2>1. L # <<>> => L[Len(L)].sequence = r.sequence /\ ~L[Len(L)].ends /\ L[Len(L)] \in Accepted
    BY <1>1, <1>7 DEF SessionInv, Latest
  <2>2. Ordered(Append(L, e))
    BY <1>1, <1>4, <1>7, <2>1, AppendOrdered DEF SessionInv, Accepted
  <2>3. Len(Append(L, e)) = Len(L) + 1 /\ Append(L, e)[Len(L) + 1] = e
    BY <1>1, <1>4
  <2>4. Latest(row, Append(L, e))
    BY <1>3, <1>4, <2>3 DEF Latest
  <2>5. IdleSince(row, Append(L, e))
    BY <1>3 DEF IdleSince
  <2>6. QED  BY <2>2, <2>4, <2>5 DEF SessionInv
<1>9. \A t \in Sessions \ {s} : session'[t] = session[t] /\ log'[t] = log[t]
  BY <1>2 DEF PresenceInv, TypeOK
<1>10. PresenceInv'
  <2> HIDE DEF L
  <2>1. QED  BY <1>5, <1>6, <1>8, <1>9, OneSession
<1>11. ~SessionGuard(r, row)
  <2>1. r.sequence \in Nat /\ r.changes \in Nat /\ r.class \in Nat
    BY <1>1, LevelsAreNat DEF Rows
  <2> HIDE DEF r
  <2>2. QED  BY <1>1, <1>3, <2>1 DEF SessionGuard
<1>12. QED  BY <1>6, <1>10, <1>11

LEMMA PruneInv ==
  ASSUME PresenceInv, Prune
  PROVE  /\ PresenceInv'
         /\ \A s \in Sessions : session'[s] # session[s] => ~SessionGuard(session[s], session'[s])
<1>1. PICK batch \in SUBSET {s \in Sessions : Live(s) /\ Expired(session[s])} :
        session' = [s \in Sessions |-> IF s \in batch THEN Retired(session[s]) ELSE session[s]]
  BY DEF Prune
<1>2. UNCHANGED <<now, policy, log>>
  BY DEF Prune
<1>3. ASSUME NEW s \in batch
      PROVE  LET row == Retired(session[s]) IN
             /\ row \in Rows /\ row.status = "retired"
             /\ SessionInv(row, log[s])
             /\ ~SessionGuard(session[s], row)
  <2> DEFINE r == session[s]
             ended == IF r.status = "open" THEN now ELSE r.ended
             r1 == [r EXCEPT !.status = "retired", !.fields = Unobserved]
             r2 == [r1 EXCEPT !.idle = None, !.ended = ended]
  <2>1. s \in Sessions /\ r \in Rows /\ r.status \in {"open", "ended"} /\ now \in Nat
    BY DEF Live, Status, PresenceInv, TypeOK
  <2>2. Retired(r) = r2
    BY <2>1 DEF Retired, Rows
  <2>3. Unobserved \in Fields
    BY DEF Unobserved, Fields, States
  <2>4. ended \in Nat /\ (r.status = "ended" => ended = r.ended)
    BY <2>1 DEF Rows
  <2> HIDE DEF ended
  <2>5. /\ r1 \in Rows /\ r1.status = "retired" /\ r1.class = r.class /\ r1.parent = r.parent
        /\ r1.created = r.created /\ r1.changes = r.changes /\ r1.sequence = r.sequence
    BY <2>1, <2>3 DEF Rows
  <2> HIDE DEF r1
  <2>6. /\ r2 \in Rows /\ r2.status = "retired" /\ r2.class = r.class /\ r2.parent = r.parent
        /\ r2.created = r.created /\ r2.changes = r.changes /\ r2.sequence = r.sequence
        /\ r2.ended = ended
    BY <2>4, <2>5 DEF Rows
  <2> HIDE DEF r2
  <2>7. SessionInv(r, log[s])
    BY <2>1 DEF PresenceInv
  <2>8. SessionInv(r2, log[s])
    BY <2>6, <2>7 DEF SessionInv, Latest, IdleSince
  <2>9. r.sequence \in Nat /\ r.changes \in Nat /\ r.class \in Nat
    BY <2>1, LevelsAreNat DEF Rows
  <2>10. ~SessionGuard(r, r2)
    <3> HIDE DEF r
    <3>1. QED  BY <2>1, <2>4, <2>6, <2>9 DEF SessionGuard
  <2>11. QED  BY <2>2, <2>6, <2>8, <2>10
<1>4. TypeOK'
  BY <1>1, <1>2, <1>3 DEF PresenceInv, TypeOK
<1>5. ASSUME NEW s \in Sessions
      PROVE  /\ SessionInv(session'[s], log'[s])
             /\ session'[s] # session[s] => ~SessionGuard(session[s], session'[s])
  <2>1. CASE s \in batch
    BY <1>1, <1>2, <1>3, <2>1
  <2>2. CASE s \notin batch
    BY <1>1, <1>2, <2>2 DEF PresenceInv
  <2>3. QED  BY <2>1, <2>2
<1>6. QED  BY <1>4, <1>5 DEF PresenceInv

\* What a step keeps, and what it never asks of the database.
LEMMA StepInv ==
  ASSUME PresenceInv, Next
  PROVE  /\ PresenceInv'
         /\ \A s \in Sessions : Status(s) # "absent" /\ session'[s] # session[s] =>
              ~SessionGuard(session[s], session'[s])
<1>1. CASE Tick \/ StepBack
  <2>1. now' \in Nat /\ UNCHANGED <<policy, session, log>>
    BY <1>1 DEF Tick, StepBack, PresenceInv, TypeOK
  <2>2. QED  BY <2>1 DEF PresenceInv, TypeOK
<1>2. ASSUME NEW body \in Policies, SetPolicy(body)
      PROVE  PresenceInv' /\ UNCHANGED session
  <2>1. policy' \in [version : Nat, body : PolicyBodies]
    BY <1>2, Constants DEF SetPolicy, PresenceInv, TypeOK
  <2>2. QED  BY <1>2, <2>1 DEF SetPolicy, PresenceInv, TypeOK
<1>3. ASSUME NEW s \in Sessions, NEW class \in Classes, NEW parent \in Sessions \cup {None},
             Register(s, class, parent)
      PROVE  /\ PresenceInv' /\ Status(s) = "absent"
             /\ \A t \in Sessions \ {s} : session'[t] = session[t]
  <2>1. \A t \in Sessions \ {s} : session'[t] = session[t]
    BY <1>3 DEF Register, PresenceInv, TypeOK
  <2>2. QED  BY <1>3, <2>1, RegisterInv
<1>4. ASSUME NEW s \in Sessions, NEW n \in 1..MaxSequence, NEW f \in Reports, NEW class \in Classes,
             Heartbeat(s, n, f, class)
      PROVE  /\ PresenceInv' /\ ~SessionGuard(session[s], session'[s])
             /\ \A t \in Sessions \ {s} : session'[t] = session[t]
  <2>1. \A t \in Sessions \ {s} : session'[t] = session[t]
    BY <1>4 DEF Heartbeat, PresenceInv, TypeOK
  <2>2. QED  BY <1>4, <2>1, HeartbeatInv
<1>5. ASSUME NEW s \in Sessions, NEW n \in 1..MaxSequence, End(s, n)
      PROVE  /\ PresenceInv' /\ ~SessionGuard(session[s], session'[s])
             /\ \A t \in Sessions \ {s} : session'[t] = session[t]
  <2>1. \A t \in Sessions \ {s} : session'[t] = session[t]
    BY <1>5 DEF End, PresenceInv, TypeOK
  <2>2. QED  BY <1>5, <2>1, EndInv
<1>6. CASE Prune
  BY <1>6, PruneInv
<1>7. UNCHANGED session =>
        \A s \in Sessions : Status(s) # "absent" /\ session'[s] # session[s] =>
          ~SessionGuard(session[s], session'[s])
  OBVIOUS
<1>8. CASE Tick \/ StepBack \/ Prune \/ \E body \in Policies : SetPolicy(body)
  <2>1. Tick \/ StepBack => UNCHANGED session
    BY DEF Tick, StepBack
  <2>2. QED  BY <1>1, <1>2, <1>6, <1>7, <1>8, <2>1
<1>9. CASE \E s \in Sessions, class \in Classes, parent \in Sessions \cup {None} :
             Register(s, class, parent)
  BY <1>3, <1>9
<1>10. CASE \E s \in Sessions, n \in 1..MaxSequence, f \in Reports, class \in Classes :
              Heartbeat(s, n, f, class)
  BY <1>4, <1>10
<1>11. CASE \E s \in Sessions, n \in 1..MaxSequence : End(s, n)
  BY <1>5, <1>11
<1>12. QED  BY <1>8, <1>9, <1>10, <1>11 DEF Next

\* The invariant holds in every state that can be reached.
THEOREM PresenceIsSafe == Spec => []PresenceInv
<1>1. Init => PresenceInv
  BY InitInv
<1>2. PresenceInv /\ [Next]_vars => PresenceInv'
  <2> SUFFICES ASSUME PresenceInv, [Next]_vars PROVE PresenceInv'
    OBVIOUS
  <2>1. CASE Next
    BY <2>1, StepInv
  <2>2. CASE UNCHANGED vars
    BY <2>2 DEF vars, PresenceInv, TypeOK
  <2>3. QED  BY <2>1, <2>2
<1>3. QED  BY <1>1, <1>2, PTL DEF Spec

\* The rows are what was reported of their sessions: late, repeated and
\* reordered reports neither rewind, nor revive, nor refresh one.
THEOREM SessionsStaySound == Spec => []SessionsAreSound
<1>1. QED  BY PresenceIsSafe, SoundFollows, PTL

\* No handler asks for an update that guard_presence_session refuses.
THEOREM GuardHolds == Spec => GuardNeverRefuses
<1> DEFINE Guarded == \A s \in Sessions : Status(s) # "absent" /\ session'[s] # session[s] =>
                        ~SessionGuard(session[s], session'[s])
<1>1. PresenceInv /\ [Next]_vars => [Guarded]_vars
  <2> SUFFICES ASSUME PresenceInv, Next PROVE Guarded
    OBVIOUS
  <2>1. QED  BY StepInv
<1>2. QED  BY <1>1, PresenceIsSafe, PTL DEF Spec, GuardNeverRefuses

(***************************************************************************)
(* Reads.                                                                  *)
(***************************************************************************)

\* What is said of one session: it is idle, or waits to be, only while it is
\* fresh and for as long as its row says.
LEMMA SaidOfOne ==
  ASSUME PresenceInv, NEW s \in Sessions
  PROVE  LET r == session[s] v == SessionState(r) IN
         /\ v.freshness = "ended" <=> r.status # "open"
         /\ v.freshness = "fresh"
            /\ v.effective \notin {"unknown", "running", "waiting_approval", "blocked"} =>
              /\ r.idle # None /\ r.idle \in Nat /\ now - r.seen < policy.body.stale
              /\ v.idle = now - r.idle /\ v.idle \in Nat
              /\ v.effective = "idle" <=> v.idle >= policy.body.idle
<1> SUFFICES ASSUME NEW r, r = session[s], NEW v, v = SessionState(r)
             PROVE  /\ v.freshness = "ended" <=> r.status # "open"
                    /\ v.freshness = "fresh"
                       /\ v.effective \notin {"unknown", "running", "waiting_approval", "blocked"} =>
                         /\ r.idle # None /\ r.idle \in Nat /\ now - r.seen < policy.body.stale
                         /\ v.idle = now - r.idle /\ v.idle \in Nat
                         /\ v.effective = "idle" <=> v.idle >= policy.body.idle
  OBVIOUS
<1>1. r \in Rows /\ now \in Nat /\ policy.body.stale \in Nat /\ policy.body.idle \in Nat
  BY DEF PresenceInv, TypeOK, PolicyBodies
<1>2. r.seen \in Nat /\ r.since \in Nat /\ r.idle \in Nat \cup {None} /\ r.fields.state \in States
  BY <1>1 DEF Rows, Fields
<1>3. CASE r.status # "open"
  BY <1>3 DEF SessionState, Verdict
<1>4. CASE r.status = "open" /\ (now < r.seen \/ now < r.since)
  <2>1. v = Verdict("unknown", "unknown", None)
    BY <1>1, <1>2, <1>4 DEF SessionState
  <2>2. QED  BY <1>4, <2>1 DEF Verdict
<1>5. CASE r.status = "open" /\ now >= r.seen /\ now >= r.since
  <2>1. v = IF now - r.seen >= policy.body.stale THEN Verdict("stale", "stale", None)
            ELSE IF ~r.fields.observed \/ r.fields.state = "unknown" \/ ~Valid(r.fields)
            THEN Verdict("fresh", "unknown", None)
            ELSE IF r.fields.state # "idle" THEN Verdict("fresh", r.fields.state, None)
            ELSE IF r.idle = None \/ ~(r.idle \in r.since..r.seen) THEN Verdict("fresh", "unknown", None)
            ELSE Verdict("fresh", IF now - r.idle >= policy.body.idle THEN "idle" ELSE "waiting",
                         now - r.idle)
    BY <1>1, <1>2, <1>5 DEF SessionState
  <2>2. CASE now - r.seen >= policy.body.stale
    BY <1>5, <2>1, <2>2 DEF Verdict
  <2>3. CASE ~(now - r.seen >= policy.body.stale) /\
             (~r.fields.observed \/ r.fields.state = "unknown" \/ ~Valid(r.fields))
    BY <1>5, <2>1, <2>3 DEF Verdict
  <2>4. CASE ~(now - r.seen >= policy.body.stale) /\
             ~(~r.fields.observed \/ r.fields.state = "unknown" \/ ~Valid(r.fields))
    <3>1. CASE r.fields.state # "idle"
      BY <1>2, <1>5, <2>1, <2>4, <3>1 DEF Verdict, States
    <3>2. CASE r.fields.state = "idle" /\ (r.idle = None \/ ~(r.idle \in r.since..r.seen))
      BY <1>5, <2>1, <2>4, <3>2 DEF Verdict
    <3>3. CASE r.fields.state = "idle" /\ ~(r.idle = None \/ ~(r.idle \in r.since..r.seen))
      <4>1. v = Verdict("fresh", IF now - r.idle >= policy.body.idle THEN "idle" ELSE "waiting",
                        now - r.idle)
        BY <2>1, <2>4, <3>3
      <4>2. r.idle \in Nat /\ now - r.idle \in Nat /\ now - r.seen < policy.body.stale
        BY <1>1, <1>2, <1>5, <2>4, <3>3
      <4>3. QED  BY <1>1, <1>5, <3>3, <4>1, <4>2 DEF Verdict
    <3>4. QED  BY <3>1, <3>2, <3>3
  <2>5. QED  BY <2>2, <2>3, <2>4
<1>6. QED  BY <1>1, <1>2, <1>3, <1>4, <1>5

\* A fresh session was observed to be idle since its row says so.
LEMMA IdleWasObserved ==
  ASSUME PresenceInv, NEW s \in Sessions, Status(s) = "open", session[s].idle # None,
         now - session[s].seen < policy.body.stale,
         NEW n \in Nat, n <= now - session[s].idle
  PROVE  ObservedIdle(s, n)
<1> DEFINE L == log[s]
<1>1. SessionInv(session[s], L) /\ L \in Seq(Accepted) /\ session[s] \in Rows
  BY DEF PresenceInv, TypeOK
<1>2. PICK k \in DOMAIN L : L[k].at = session[s].idle /\ IdleFrom(L, k)
  BY <1>1 DEF SessionInv, IdleSince, Status
<1>3. now - L[k].at >= n
  <2>1. session[s].idle \in Nat /\ now \in Nat
    BY <1>1 DEF Rows, PresenceInv, TypeOK
  <2>2. QED  BY <1>2, <2>1
<1>4. L # <<>> /\ L[Len(L)].at = session[s].seen
  <2>1. L # <<>>
    BY <1>1, <1>2
  <2>2. QED  BY <1>1, <2>1 DEF SessionInv, Latest, Status
<1>5. QED  BY <1>2, <1>3, <1>4 DEF ObservedIdle, IdleFrom, Newest

\* A user is said to be waiting or idle for so long only if every open session
\* that the reader may see was observed to be idle all that time.
LEMMA IdleFollows == PresenceInv => IdleIsObserved
<1> SUFFICES ASSUME PresenceInv, NEW reader \in Readers, NEW u \in Users,
                    NEW fit \in SUBSET Counted(reader, u), UserState(reader, u, fit).idle # None
             PROVE  LET said == UserState(reader, u, fit) IN
                    /\ \E s \in Sessions : OwnerOf[s] = u /\ Status(s) = "open"
                    /\ \A s \in Sessions : OwnerOf[s] = u /\ Visible(reader, s) /\ Status(s) = "open" =>
                         ObservedIdle(s, said.idle)
                    /\ said.effective = "idle" <=> said.idle >= policy.body.idle
  BY DEF IdleIsObserved
<1> DEFINE said == UserState(reader, u, fit)
           all == {SessionState(session[s]) : s \in fit}
           open == {v \in all : v.freshness # "ended"}
           idles == {v.idle : v \in open}
<1>1. /\ fit = Counted(reader, u)
      /\ open # {}
      /\ \A v \in open : v.freshness = "fresh" /\ v.effective \notin {"unknown", Busy[1], Busy[2], Busy[3]}
      /\ said.idle = Min(idles)
      /\ said.effective = IF \A v \in open : v.effective = "idle" THEN "idle" ELSE "waiting"
  <2> DEFINE complete == fit = Counted(reader, u)
             busy == {k \in DOMAIN Busy : \E v \in open : v.freshness = "fresh" /\ v.effective = Busy[k]}
             uncertain == ~complete \/ \E v \in open : v.freshness # "fresh" \/ v.effective = "unknown"
             ended == IF all = {} THEN "not_observed" ELSE "ended"
             waits == IF \A v \in open : v.effective = "idle" THEN "idle" ELSE "waiting"
  <2>1. said = IF busy # {} THEN [effective |-> Busy[Min(busy)], idle |-> None]
               ELSE IF uncertain THEN [effective |-> "partially_unknown", idle |-> None]
               ELSE IF open = {} THEN [effective |-> ended, idle |-> None]
               ELSE [effective |-> waits, idle |-> Min(idles)]
    BY DEF UserState, Aggregate
  <2>2. said.idle # None
    OBVIOUS
  <2> HIDE DEF said, busy, uncertain, waits, open, idles
  <2>3. busy = {} /\ ~uncertain /\ open # {} /\ said = [effective |-> waits, idle |-> Min(idles)]
    BY <2>1, <2>2
  <2>4. DOMAIN Busy = 1..3
    BY DEF Busy
  <2>5. ASSUME NEW v \in open
        PROVE  v.freshness = "fresh" /\ v.effective \notin {"unknown", Busy[1], Busy[2], Busy[3]}
    <3>1. v.freshness = "fresh" /\ v.effective # "unknown"
      BY <2>3 DEF uncertain
    <3>2. 1 \in DOMAIN Busy /\ 2 \in DOMAIN Busy /\ 3 \in DOMAIN Busy
      BY <2>4
    <3>3. QED  BY <2>3, <3>1, <3>2 DEF busy
  <2>6. QED  BY <2>3, <2>5 DEF uncertain, waits
<1> HIDE DEF said
<1>2. Counted(reader, u) \subseteq {s \in Sessions : OwnerOf[s] = u /\ Visible(reader, s)}
  BY DEF Counted
<1>3. ASSUME NEW s \in fit, Status(s) = "open"
      PROVE  /\ SessionState(session[s]) \in open /\ s \in Sessions
             /\ session[s].idle # None /\ session[s].idle \in Nat
             /\ now - session[s].seen < policy.body.stale
             /\ SessionState(session[s]).idle = now - session[s].idle
             /\ SessionState(session[s]).idle \in Nat
             /\ SessionState(session[s]).effective = "idle"
                <=> SessionState(session[s]).idle >= policy.body.idle
  <2>1. s \in Sessions
    BY <1>2
  <2>2. SessionState(session[s]) \in open
    BY <1>3, <2>1, SaidOfOne DEF Status
  <2>3. SessionState(session[s]).freshness = "fresh"
        /\ SessionState(session[s]).effective \notin {"unknown", "running", "waiting_approval", "blocked"}
    BY <1>1, <2>2 DEF Busy
  <2>4. QED  BY <2>1, <2>2, <2>3, SaidOfOne
<1>4. ASSUME NEW v \in open
      PROVE  \E s \in fit : Status(s) = "open" /\ v = SessionState(session[s])
  <2>1. PICK s \in fit : v = SessionState(session[s])
    OBVIOUS
  <2>2. s \in Sessions /\ v.freshness # "ended"
    BY <1>2, <2>1
  <2>3. QED  BY <2>1, <2>2, SaidOfOne DEF Status
<1>5. idles \subseteq Nat /\ idles # {}
  <2>1. \A v \in open : v.idle \in Nat
    BY <1>3, <1>4
  <2>2. QED  BY <1>1, <2>1
<1> HIDE DEF open
<1>6. Min(idles) \in idles /\ \A i \in idles : Min(idles) <= i
  BY <1>5, MinIs
<1>7. \E s \in Sessions : OwnerOf[s] = u /\ Status(s) = "open"
  BY <1>1, <1>2, <1>4
<1>8. ASSUME NEW s \in Sessions, OwnerOf[s] = u, Visible(reader, s), Status(s) = "open"
      PROVE  ObservedIdle(s, said.idle)
  <2>1. s \in Counted(reader, u)
    BY <1>8 DEF Counted
  <2>2. s \in fit
    BY <1>1, <2>1
  <2>3. SessionState(session[s]).idle \in idles
    BY <1>3, <1>8, <2>2
  <2>4. said.idle <= now - session[s].idle /\ said.idle \in Nat
    BY <1>1, <1>3, <1>5, <1>6, <1>8, <2>2, <2>3
  <2>5. QED  BY <1>3, <1>8, <2>2, <2>4, IdleWasObserved
<1>9. said.effective = "idle" <=> said.idle >= policy.body.idle
  <2>1. policy.body.idle \in Nat
    BY DEF PresenceInv, TypeOK, PolicyBodies
  <2>2. \A v \in open : v.idle \in idles /\ v.idle \in Nat /\ (v.effective = "idle" <=> v.idle >= policy.body.idle)
    BY <1>3, <1>4
  <2>3. PICK w \in open : said.idle = w.idle
    BY <1>1, <1>6
  <2>4. \A v \in open : said.idle <= v.idle
    BY <1>1, <1>6, <2>2
  <2>5. CASE said.idle >= policy.body.idle
    <3>1. \A v \in open : v.idle >= policy.body.idle
      BY <2>1, <2>2, <2>3, <2>4, <2>5
    <3>2. QED  BY <1>1, <2>2, <2>5, <3>1
  <2>6. CASE ~(said.idle >= policy.body.idle)
    BY <1>1, <2>2, <2>3, <2>6
  <2>7. QED  BY <2>5, <2>6
<1>10. QED  BY <1>7, <1>8, <1>9 DEF said

\* No gap, no unknown session and no truncated list is ever taken for idleness.
THEOREM IdlenessIsObserved == Spec => []IdleIsObserved
<1>1. QED  BY PresenceIsSafe, IdleFollows, PTL
===============================================================================
