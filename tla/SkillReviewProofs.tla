-------------------------- MODULE SkillReviewProofs --------------------------
(***************************************************************************)
(* Proofs about SkillReview, for any experiences, skills, sources and      *)
(* administrators: one experience of a family and one revision of a skill  *)
(* is in force, only on live sources; skills only advance; what is         *)
(* suppressed stays out; the triggers of the database never refuse.        *)
(*                                                                         *)
(* The proof goes row by row: ExperienceMoves and RevisionMoves say what   *)
(* any step does to any one row, Effects what a step does to experiences   *)
(* together, and the invariants follow from that.                          *)
(***************************************************************************)
EXTENDS SkillReview, TLAPS

(***************************************************************************)
(* Levels.                                                                 *)
(***************************************************************************)

\* The higher of two levels is a level above both.
LEMMA MaxLevelIs ==
  ASSUME NEW a \in Levels, NEW b \in Levels
  PROVE  MaxLevel(a, b) \in Levels /\ a <= MaxLevel(a, b) /\ b <= MaxLevel(a, b)
BY DEF MaxLevel, Levels

\* A set of levels has a highest one.
LEMMA HighestLevelIs ==
  ASSUME NEW S \in SUBSET Levels, S # {}
  PROVE  HighestLevel(S) \in S /\ \A l \in S : l <= HighestLevel(S)
<1>1. \E top \in S : \A l \in S : l <= top
  <2>1. CASE 3 \in S
    BY <2>1 DEF Levels
  <2>2. CASE 3 \notin S /\ 2 \in S
    BY <2>2 DEF Levels
  <2>3. CASE 3 \notin S /\ 2 \notin S /\ 1 \in S
    BY <2>3 DEF Levels
  <2>4. CASE 3 \notin S /\ 2 \notin S /\ 1 \notin S
    <3>1. \A l \in S : l = 0
      BY <2>4 DEF Levels
    <3>2. QED  BY <3>1
  <2>5. QED  BY <2>1, <2>2, <2>3, <2>4
<1>2. QED  BY <1>1 DEF HighestLevel

(***************************************************************************)
(* What a step does to one experience.                                     *)
(***************************************************************************)

\* The transitions of ReviewTransitions, one by one.
Transits(action, before, after) ==
  \/ action = "approve" /\ before = "pending" /\ after = "active"
  \/ action = "reject" /\ before = "pending" /\ after = "rejected"
  \/ action = "archive" /\ before = "active" /\ after = "archived"
  \/ action = "supersede" /\ before = "active" /\ after = "superseded"
  \/ action = "forget" /\ before \in ExperienceStates \ {"absent", "forgotten"} /\ after = "forgotten"

ReviewedRow(old, status) ==
  IF status = "forgotten" THEN [old EXCEPT !.status = "forgotten", !.source = None, !.content = None]
  ELSE [old EXCEPT !.status = status]

ExperienceMoves(old, new, before, after) ==
  \/ new = old /\ after = before
  \/ /\ old.status = "absent" /\ after = before
     /\ new \in ExperienceRows /\ new.status = "pending"
     /\ new.source \in Handoffs /\ new.content \in Texts
  \/ \E ev \in ExperienceEvents, status \in ExperienceStates :
       /\ Transits(ev.action, old.status, status)
       /\ after = Append(before, ev)
       /\ new = ReviewedRow(old, status)

\* The columns that never change, and the states that do not come back.
LEMMA MovedRow ==
  ASSUME NEW old \in ExperienceRows \cup {Unproposed}, NEW new,
         NEW before \in Seq(ExperienceEvents), NEW after,
         ExperienceMoves(old, new, before, after)
  PROVE  /\ new \in ExperienceRows \cup {Unproposed}
         /\ after \in Seq(ExperienceEvents)
         /\ old.status # "absent" =>
              /\ new.status # "absent" /\ old \in ExperienceRows /\ new \in ExperienceRows
              /\ new.claim = old.claim /\ new.level = old.level /\ new.window = old.window
              /\ new.parent = old.parent /\ new.parentVersion = old.parentVersion
              /\ new.root = old.root /\ new.number = old.number
              /\ new.status = "pending" => old.status = "pending" /\ new = old /\ after = before
              /\ old.status = "forgotten" => new = old /\ after = before
              /\ new.status = "active" => old.status \in {"pending", "active"}
              /\ new.status # "forgotten" => new.source = old.source /\ new.content = old.content
              /\ new.status = "forgotten" /\ old.status # "forgotten" => new.source = None /\ new.content = None
         /\ old.status = "absent" /\ new.status # "absent" =>
              /\ new \in ExperienceRows /\ new.status = "pending" /\ after = before
              /\ new.source \in Handoffs /\ new.content \in Texts
<1>1. CASE new = old /\ after = before
  BY <1>1 DEF Unproposed
<1>2. CASE /\ old.status = "absent" /\ after = before
           /\ new \in ExperienceRows /\ new.status = "pending"
           /\ new.source \in Handoffs /\ new.content \in Texts
  BY <1>2
<1>3. ASSUME NEW ev \in ExperienceEvents, NEW status \in ExperienceStates,
             Transits(ev.action, old.status, status),
             after = Append(before, ev), new = ReviewedRow(old, status)
      PROVE  /\ new \in ExperienceRows /\ after \in Seq(ExperienceEvents)
             /\ old \in ExperienceRows /\ old.status # "absent" /\ old.status # "forgotten"
             /\ new.status = status /\ status # "absent" /\ status # "pending"
             /\ status = "active" => old.status = "pending"
             /\ new.claim = old.claim /\ new.level = old.level /\ new.window = old.window
             /\ new.parent = old.parent /\ new.parentVersion = old.parentVersion
             /\ new.root = old.root /\ new.number = old.number
             /\ status # "forgotten" => new.source = old.source /\ new.content = old.content
             /\ status = "forgotten" => new.source = None /\ new.content = None
  <2>1. old.status # "absent" /\ old.status # "forgotten" /\ status # "absent" /\ status # "pending"
    BY <1>3 DEF Transits
  <2>2. old \in ExperienceRows
    BY <2>1 DEF Unproposed
  <2>3. status = "active" => old.status = "pending"
    BY <1>3 DEF Transits
  <2>4. after \in Seq(ExperienceEvents)
    BY <1>3
  <2>5. CASE status = "forgotten"
    <3>1. new = [old EXCEPT !.status = "forgotten", !.source = None, !.content = None]
      BY <1>3, <2>5 DEF ReviewedRow
    <3>2. QED  BY <2>1, <2>2, <2>3, <2>4, <2>5, <3>1 DEF ExperienceRows
  <2>6. CASE status # "forgotten"
    <3>1. new = [old EXCEPT !.status = status]
      BY <1>3, <2>6 DEF ReviewedRow
    <3>2. QED  BY <2>1, <2>2, <2>3, <2>4, <2>6, <3>1 DEF ExperienceRows
  <2>7. QED  BY <2>5, <2>6
<1>4. CASE \E ev \in ExperienceEvents, status \in ExperienceStates :
             /\ Transits(ev.action, old.status, status)
             /\ after = Append(before, ev)
             /\ new = ReviewedRow(old, status)
  <2>1. PICK ev \in ExperienceEvents, status \in ExperienceStates :
             /\ Transits(ev.action, old.status, status)
             /\ after = Append(before, ev)
             /\ new = ReviewedRow(old, status)
    BY <1>4
  <2>2. QED  BY <1>3, <2>1
<1>5. QED  BY <1>1, <1>2, <1>4 DEF ExperienceMoves

Entered(e) == experience[e].status # "active" /\ experience'[e].status = "active"

MovesOf(e) == ExperienceMoves(experience[e], experience'[e], log[e], log'[e])

\* What a step does to the experiences together: one enters at most, in place of
\* its parent, and new ones join the family of an active parent.
Effects ==
  /\ \A e \in Experiences : MovesOf(e)
  /\ \A e, f \in Experiences : Entered(e) /\ Entered(f) => e = f
  /\ \A e \in Experiences : Entered(e) =>
       LET p == experience[e].parent IN
       /\ experience[e].status = "pending"
       /\ p # None => experience[p].status = "active" /\ experience'[p].status = "superseded"
  /\ \A e \in Experiences : experience[e].status = "absent" /\ experience'[e].status # "absent" =>
       LET p == experience'[e].parent IN
       /\ p = None => experience'[e].root = None
       /\ p # None => p \in Experiences /\ experience[p].status = "active" /\ experience'[e].root = Family(p)
  /\ suppression' \in [Claims -> Suppressions]
  /\ now' \in 0..MaxTime

\* A step that leaves experiences alone.
LEMMA NoEffect ==
  ASSUME ReviewTypeOK, UNCHANGED experienceVars, now' \in 0..MaxTime
  PROVE  Effects
<1>1. experience' = experience /\ log' = log /\ suppression' = suppression
  BY DEF experienceVars
<1>2. QED  BY <1>1 DEF Effects, MovesOf, ExperienceMoves, Entered, ReviewTypeOK

\* A step that moves one experience, which does not enter.
LEMMA OneEffect ==
  ASSUME ReviewTypeOK, NEW e \in Experiences, NEW row, NEW after,
         experience' = [experience EXCEPT ![e] = row], log' = [log EXCEPT ![e] = after],
         ExperienceMoves(experience[e], row, log[e], after),
         suppression' \in [Claims -> Suppressions], now' = now,
         row.status = "active" => experience[e].status = "pending" /\ experience[e].parent = None,
         experience[e].status = "absent" /\ row.status # "absent" =>
           /\ row.parent = None => row.root = None
           /\ row.parent # None => /\ row.parent \in Experiences /\ experience[row.parent].status = "active"
                                   /\ row.root = Family(row.parent)
  PROVE  Effects
<1>1. /\ experience'[e] = row /\ log'[e] = after
      /\ \A f \in Experiences \ {e} : experience'[f] = experience[f] /\ log'[f] = log[f]
  BY DEF ReviewTypeOK
<1>2. \A f \in Experiences : MovesOf(f)
  BY <1>1 DEF MovesOf, ExperienceMoves
<1>3. \A f \in Experiences : Entered(f) => f = e
  BY <1>1 DEF Entered
<1>4. now' \in 0..MaxTime
  BY DEF ReviewTypeOK
<1>5. QED  BY <1>1, <1>2, <1>3, <1>4 DEF Effects, Entered

\* A first version of a row, or what a review makes of one, is a move.
LEMMA ReviewMoves ==
  ASSUME NEW old, NEW before, NEW admin \in Admins, NEW action \in Actions \cup {"supersede"},
         NEW status \in ExperienceStates, Transits(action, old.status, status)
  PROVE  ExperienceMoves(old, ReviewedRow(old, status), before, Append(before, [by |-> admin, action |-> action]))
<1> DEFINE ev == [by |-> admin, action |-> action]
<1>1. ev \in ExperienceEvents /\ ev.action = action
  BY DEF ExperienceEvents
<1> HIDE DEF ev
<1>2. ExperienceMoves(old, ReviewedRow(old, status), before, Append(before, ev))
  BY <1>1 DEF ExperienceMoves
<1>3. QED  BY <1>2 DEF ev

\* Suppressing a claim keeps suppressions typed.
LEMMA SuppressTyped ==
  ASSUME ReviewTypeOK, NEW c \in Claims, NEW admin \in Admins
  PROVE  /\ Suppress(c, admin) \in [Claims -> Suppressions]
         /\ \A d \in Claims \ {c} : Suppress(c, admin)[d] = suppression[d]
<1>1. suppression[c].version \in Nat
  BY DEF ReviewTypeOK, Suppressions
<1>2. [version |-> suppression[c].version + 1, by |-> admin, released |-> FALSE] \in Suppressions
  BY <1>1 DEF Suppressions
<1>3. QED  BY <1>2 DEF Suppress, ReviewTypeOK

(***************************************************************************)
(* The invariant of the experiences.                                       *)
(***************************************************************************)

\* An experience that is in the project has a full row.
LEMMA ProposedRow ==
  ASSUME ReviewTypeOK, NEW e \in Experiences, experience[e].status # "absent"
  PROVE  e \in Proposed /\ experience[e] \in ExperienceRows
BY DEF ReviewTypeOK, Proposed, Unproposed

Rooted ==
  \A e \in Proposed :
    LET x == experience[e] IN
    /\ x.parent = None => x.root = None
    /\ x.parent # None => x.parent \in Proposed /\ x.root = Family(x.parent)
    /\ x.root # None => x.root \in Experiences /\ experience[x.root].status \notin {"absent", "pending"}

Erasable ==
  \A e \in Proposed :
    LET x == experience[e] IN
    IF x.status = "forgotten" THEN x.source = None /\ x.content = None
    ELSE x.source \in Handoffs /\ x.content \in Texts

OneOfFamily ==
  \A e, f \in Proposed :
    experience[e].status = "active" /\ experience[f].status = "active" /\ Family(e) = Family(f) => e = f

ExperienceInv == ReviewTypeOK /\ Rooted /\ Erasable /\ OneOfFamily

(***************************************************************************)
(* Proposals.                                                              *)
(***************************************************************************)

\* A proposal is a new experience of its own.
LEMMA ProposeStep ==
  ASSUME ExperienceInv, NEW e \in Experiences, NEW h \in Handoffs, NEW text \in Texts,
         NEW w \in Windows, Propose(e, h, text, w)
  PROVE  Effects
<1> DEFINE row == [status |-> "pending", claim |-> <<h, text>>, source |-> h, content |-> text,
                   level |-> LevelOf[h], window |-> w, parent |-> None, parentVersion |-> 0,
                   root |-> None, number |-> 1]
<1>1. experience[e].status = "absent" /\ Insert(e, row)
  BY DEF Propose
<1>2. <<h, text>> \in Claims /\ LevelOf[h] \in Levels
  BY ReviewAssumption DEF Claims
<1>3. row \in ExperienceRows
  BY <1>2 DEF ExperienceRows, ExperienceStates
<1>4. row.status = "pending" /\ row.source = h /\ row.content = text /\ row.parent = None /\ row.root = None
  OBVIOUS
<1> HIDE DEF row
<1>5. /\ experience' = [experience EXCEPT ![e] = row]
      /\ log' = [log EXCEPT ![e] = log[e]] /\ now' = now /\ suppression' = suppression
  BY <1>1 DEF Insert, ExperienceInv, ReviewTypeOK
<1>6. ExperienceMoves(experience[e], row, log[e], log[e])
  BY <1>1, <1>3, <1>4 DEF ExperienceMoves
<1>7. suppression' \in [Claims -> Suppressions]
  BY <1>5 DEF ExperienceInv, ReviewTypeOK
<1>8. QED  BY <1>4, <1>5, <1>6, <1>7, OneEffect DEF ExperienceInv

\* A correction joins the family of an active experience.
LEMMA ReviseStep ==
  ASSUME ExperienceInv, NEW e \in Experiences, NEW p \in Proposed, NEW expected,
         NEW given \in Handoffs \cup {None}, NEW text \in Texts, NEW w \in Windows,
         Revise(e, p, expected, given, text, w)
  PROVE  Effects
<1> DEFINE h == IF given = None THEN experience[p].source ELSE given
           row == [status |-> "pending", claim |-> <<h, text>>, source |-> h, content |-> text,
                   level |-> MaxLevel(LevelOf[h], experience[p].level), window |-> w,
                   parent |-> p, parentVersion |-> Version(p),
                   root |-> Family(p), number |-> experience[p].number + 1]
<1>1. experience[e].status = "absent" /\ experience[p].status = "active" /\ Insert(e, row)
  BY DEF Revise
<1>2. p \in Experiences /\ experience[p] \in ExperienceRows
  BY ProposedRow DEF Proposed, ExperienceInv
<1>3. h \in Handoffs
  BY <1>1, <1>2 DEF ExperienceInv, Erasable
<1>4. <<h, text>> \in Claims /\ MaxLevel(LevelOf[h], experience[p].level) \in Levels
  <2>1. LevelOf[h] \in Levels /\ experience[p].level \in Levels
    BY <1>2, <1>3, ReviewAssumption DEF ExperienceRows
  <2>2. QED  BY <1>3, <2>1, MaxLevelIs DEF Claims
<1>5. Family(p) \in Experiences
  BY <1>2 DEF Family, ExperienceRows
<1>6. Version(p) \in Nat /\ experience[p].number + 1 \in Nat
  BY <1>2 DEF Version, ExperienceRows, ExperienceInv, ReviewTypeOK
<1> HIDE DEF h
<1>7. row \in ExperienceRows
  BY <1>2, <1>3, <1>4, <1>5, <1>6 DEF ExperienceRows, ExperienceStates
<1>8. row.status = "pending" /\ row.source = h /\ row.content = text /\ row.parent = p /\ row.root = Family(p)
  OBVIOUS
<1> HIDE DEF row
<1>9. /\ experience' = [experience EXCEPT ![e] = row]
      /\ log' = [log EXCEPT ![e] = log[e]] /\ now' = now /\ suppression' = suppression
  BY <1>1 DEF Insert, ExperienceInv, ReviewTypeOK
<1>10. ExperienceMoves(experience[e], row, log[e], log[e])
  BY <1>1, <1>3, <1>7, <1>8 DEF ExperienceMoves
<1>11. suppression' \in [Claims -> Suppressions]
  BY <1>9 DEF ExperienceInv, ReviewTypeOK
<1>12. p # None
  BY <1>2, ReviewAssumption
<1>13. QED  BY <1>1, <1>2, <1>8, <1>9, <1>10, <1>11, <1>12, OneEffect DEF ExperienceInv

(***************************************************************************)
(* Reviews.                                                                *)
(***************************************************************************)

\* A review that moves one experience.
LEMMA SingleReview ==
  ASSUME ExperienceInv, NEW e \in Proposed, NEW admin \in Admins, NEW action \in Actions,
         NEW status \in ExperienceStates, Transits(action, experience[e].status, status),
         status = "active" => experience[e].parent = None,
         experience' = [experience EXCEPT ![e] = ReviewedRow(experience[e], status)],
         log' = Record(e, admin, action), now' = now,
         suppression' \in [Claims -> Suppressions]
  PROVE  Effects
<1> DEFINE row == ReviewedRow(experience[e], status)
           after == Append(log[e], [by |-> admin, action |-> action])
<1>1. e \in Experiences /\ experience[e].status # "absent" /\ experience[e] \in ExperienceRows
  BY ProposedRow DEF Proposed, ExperienceInv
<1>2. ExperienceMoves(experience[e], row, log[e], after)
  BY ReviewMoves
<1>3. row.status = status
  BY <1>1 DEF ReviewedRow, ExperienceRows
<1>4. status = "active" => experience[e].status = "pending"
  BY DEF Transits
<1>5. log' = [log EXCEPT ![e] = after] /\ experience' = [experience EXCEPT ![e] = row]
  BY DEF Record
<1> HIDE DEF row, after
<1>6. QED  BY <1>1, <1>2, <1>3, <1>4, <1>5, OneEffect DEF ExperienceInv

\* The approval of an experience without a parent.
LEMMA ApproveOriginalStep ==
  ASSUME ExperienceInv, NEW e \in Proposed, NEW admin \in Admins, now' = now,
         experience[e].status = "pending", ApproveOriginal(e, admin)
  PROVE  Effects
<1>1. e \in Experiences /\ experience[e] \in ExperienceRows
  BY ProposedRow DEF Proposed, ExperienceInv
<1>2. experience' = [experience EXCEPT ![e] = ReviewedRow(experience[e], "active")]
  BY <1>1 DEF ApproveOriginal, ReviewedRow, ExperienceInv, ReviewTypeOK
<1>3. Transits("approve", experience[e].status, "active") /\ "active" \in ExperienceStates /\ "approve" \in Actions
  BY DEF Transits, ExperienceStates, Actions
<1>4. suppression' \in [Claims -> Suppressions]
  BY DEF ApproveOriginal, ExperienceInv, ReviewTypeOK
<1>5. QED  BY <1>2, <1>3, <1>4, SingleReview DEF ApproveOriginal

\* A rejection, an archiving, an erasure.
LEMMA EndStep ==
  ASSUME ExperienceInv, NEW e \in Proposed, NEW admin \in Admins, now' = now,
         \/ experience[e].status = "pending" /\ Reject(e, admin)
         \/ experience[e].status = "active" /\ Archive(e, admin)
         \/ experience[e].status # "forgotten" /\ Forget(e, admin)
  PROVE  Effects
<1>1. e \in Experiences /\ experience[e] \in ExperienceRows /\ experience[e].status # "absent"
  BY ProposedRow DEF Proposed, ExperienceInv
<1>2. experience[e].claim \in Claims
  BY <1>1 DEF ExperienceRows
<1>3. Suppress(experience[e].claim, admin) \in [Claims -> Suppressions]
  BY <1>2, SuppressTyped DEF ExperienceInv
<1>4. CASE experience[e].status = "pending" /\ Reject(e, admin)
  <2>1. experience' = [experience EXCEPT ![e] = ReviewedRow(experience[e], "rejected")]
    BY <1>1, <1>4 DEF Reject, ReviewedRow, ExperienceInv, ReviewTypeOK
  <2>2. Transits("reject", experience[e].status, "rejected") /\ "rejected" \in ExperienceStates /\ "reject" \in Actions
    BY <1>4 DEF Transits, ExperienceStates, Actions
  <2>3. QED  BY <1>3, <1>4, <2>1, <2>2, SingleReview DEF Reject
<1>5. CASE experience[e].status = "active" /\ Archive(e, admin)
  <2>1. experience' = [experience EXCEPT ![e] = ReviewedRow(experience[e], "archived")]
    BY <1>1, <1>5 DEF Archive, ReviewedRow, ExperienceInv, ReviewTypeOK
  <2>2. Transits("archive", experience[e].status, "archived") /\ "archived" \in ExperienceStates /\ "archive" \in Actions
    BY <1>5 DEF Transits, ExperienceStates, Actions
  <2>3. suppression' \in [Claims -> Suppressions]
    BY <1>5 DEF Archive, ExperienceInv, ReviewTypeOK
  <2>4. QED  BY <1>5, <2>1, <2>2, <2>3, SingleReview DEF Archive
<1>6. CASE experience[e].status # "forgotten" /\ Forget(e, admin)
  <2>1. experience' = [experience EXCEPT ![e] = ReviewedRow(experience[e], "forgotten")]
    BY <1>1, <1>6 DEF Forget, ReviewedRow, ExperienceInv, ReviewTypeOK
  <2>2. Transits("forget", experience[e].status, "forgotten") /\ "forgotten" \in ExperienceStates /\ "forget" \in Actions
    BY <1>1, <1>6 DEF Transits, ExperienceStates, Actions, ExperienceRows
  <2>3. QED  BY <1>3, <1>6, <2>1, <2>2, SingleReview DEF Forget
<1>7. QED  BY <1>4, <1>5, <1>6

\* The approval of a correction supersedes its parent.
LEMMA ApproveCorrectionStep ==
  ASSUME ExperienceInv, NEW e \in Proposed, NEW admin \in Admins, now' = now,
         experience[e].status = "pending", ApproveCorrection(e, admin)
  PROVE  Effects
<1> DEFINE p == experience[e].parent
           child == ReviewedRow(experience[e], "active")
           parent == ReviewedRow(experience[p], "superseded")
           childLog == Append(log[e], [by |-> admin, action |-> "approve"])
           parentLog == Append(log[p], [by |-> admin, action |-> "supersede"])
<1>1. e \in Experiences /\ experience[e] \in ExperienceRows
  BY ProposedRow DEF Proposed, ExperienceInv
<1>2. p # None /\ experience[p].status = "active"
  BY DEF ApproveCorrection
<1>3. p \in Experiences /\ experience[p] \in ExperienceRows /\ p # e
  BY <1>1, <1>2, ProposedRow DEF ExperienceRows, ExperienceInv
<1>4. experience' = [experience EXCEPT ![p].status = "superseded", ![e].status = "active"]
  BY DEF ApproveCorrection
<1>5. log' = [Record(e, admin, "approve") EXCEPT ![p] = Append(@, [by |-> admin, action |-> "supersede"])]
  BY DEF ApproveCorrection
<1>6. /\ experience'[e] = child /\ experience'[p] = parent
      /\ \A f \in Experiences \ {e, p} : experience'[f] = experience[f]
  BY <1>1, <1>3, <1>4 DEF ReviewedRow, ExperienceInv, ReviewTypeOK
<1>7. /\ log'[e] = childLog /\ log'[p] = parentLog
      /\ \A f \in Experiences \ {e, p} : log'[f] = log[f]
  <2>1. log \in [Experiences -> Seq(ExperienceEvents)]
    BY DEF ExperienceInv, ReviewTypeOK
  <2>2. Record(e, admin, "approve") = [log EXCEPT ![e] = childLog]
    BY DEF Record
  <2>3. log' = [[log EXCEPT ![e] = childLog] EXCEPT ![p] = parentLog]
    BY <1>1, <1>3, <1>5, <2>1, <2>2
  <2> HIDE DEF childLog, parentLog
  <2>4. QED  BY <1>1, <1>3, <2>1, <2>3
<1>8. ExperienceMoves(experience[e], child, log[e], childLog)
  <2>1. Transits("approve", experience[e].status, "active") /\ "active" \in ExperienceStates
        /\ "approve" \in Actions \cup {"supersede"}
    BY DEF Transits, ExperienceStates, Actions
  <2>2. QED  BY <2>1, ReviewMoves
<1>9. ExperienceMoves(experience[p], parent, log[p], parentLog)
  <2>1. Transits("supersede", experience[p].status, "superseded") /\ "superseded" \in ExperienceStates
        /\ "supersede" \in Actions \cup {"supersede"}
    BY <1>2 DEF Transits, ExperienceStates, Actions
  <2>2. QED  BY <2>1, ReviewMoves
<1>10. child.status = "active" /\ parent.status = "superseded"
  BY <1>1, <1>3 DEF ReviewedRow, ExperienceRows
<1> HIDE DEF child, parent, childLog, parentLog
<1>11. \A f \in Experiences : MovesOf(f)
  BY <1>6, <1>7, <1>8, <1>9 DEF MovesOf, ExperienceMoves
<1>12. \A f \in Experiences : Entered(f) => f = e
  BY <1>6, <1>10 DEF Entered
<1>13. suppression' \in [Claims -> Suppressions]
  <2>1. experience[p].claim \in Claims
    BY <1>3 DEF ExperienceRows
  <2>2. Suppress(experience[p].claim, admin) \in [Claims -> Suppressions]
    BY <2>1, SuppressTyped DEF ExperienceInv
  <2>3. suppression \in [Claims -> Suppressions]
    BY DEF ExperienceInv, ReviewTypeOK
  <2>4. QED  BY <2>2, <2>3 DEF ApproveCorrection, Retracted
<1>14. now' \in 0..MaxTime
  BY DEF ExperienceInv, ReviewTypeOK
<1>15. \A f \in Experiences : experience[f].status = "absent" => experience'[f].status = "absent"
  BY <1>2, <1>6
<1>16. QED  BY <1>2, <1>6, <1>10, <1>11, <1>12, <1>13, <1>14, <1>15 DEF Effects

\* A review is one of the four, of what it may apply to.
LEMMA ReviewStep ==
  ASSUME ExperienceInv, NEW e \in Proposed, NEW admin \in Admins, NEW action \in Actions, NEW expected,
         Review(e, admin, action, expected)
  PROVE  Effects
<1>1. Reviewable(e, action, expected) /\ now' = now
  BY DEF Review
<1>2. CASE action = "approve"
  <2>1. experience[e].status = "pending" /\ Approve(e, admin)
    BY <1>1, <1>2 DEF Review, Reviewable
  <2>2. QED  BY <1>1, <2>1, ApproveOriginalStep, ApproveCorrectionStep DEF Approve
<1>3. CASE action = "reject"
  <2>1. experience[e].status = "pending" /\ Reject(e, admin)
    BY <1>1, <1>3 DEF Review, Reviewable
  <2>2. QED  BY <1>1, <2>1, EndStep
<1>4. CASE action = "archive"
  <2>1. experience[e].status = "active" /\ Archive(e, admin)
    BY <1>1, <1>4 DEF Review, Reviewable
  <2>2. QED  BY <1>1, <2>1, EndStep
<1>5. CASE action = "forget"
  <2>1. experience[e].status # "forgotten" /\ Forget(e, admin)
    BY <1>1, <1>5 DEF Review, Reviewable
  <2>2. QED  BY <1>1, <2>1, EndStep
<1>6. QED  BY <1>2, <1>3, <1>4, <1>5 DEF Actions

\* A release changes the suppressions alone.
LEMMA ReleaseStep ==
  ASSUME ExperienceInv, NEW e \in Proposed, NEW admin \in Admins, NEW expected,
         Release(e, admin, expected)
  PROVE  Effects
<1>1. experience[e].claim \in Claims
  BY ProposedRow DEF Proposed, ExperienceRows, ExperienceInv
<1>2. expected \in Nat
  BY <1>1 DEF Release, ExperienceInv, ReviewTypeOK, Suppressions
<1>3. [version |-> expected + 1, by |-> admin, released |-> TRUE] \in Suppressions
  BY <1>2 DEF Suppressions
<1>4. suppression' \in [Claims -> Suppressions]
  BY <1>3 DEF Release, ExperienceInv, ReviewTypeOK
<1>5. experience' = experience /\ log' = log /\ now' \in 0..MaxTime
  BY DEF Release, ExperienceInv, ReviewTypeOK
<1>6. QED  BY <1>4, <1>5 DEF Effects, MovesOf, ExperienceMoves, Entered

\* Whatever a step is, it does to experiences what Effects says.
LEMMA StepEffects ==
  ASSUME ExperienceInv, [Next]_vars
  PROVE  Effects
<1>1. CASE Tick
  <2>1. now' \in 0..MaxTime
    BY <1>1, ReviewAssumption DEF Tick, ExperienceInv, ReviewTypeOK
  <2>2. QED  BY <1>1, <2>1, NoEffect DEF Tick, ExperienceInv
<1>2. CASE SubmitExperience
  BY <1>2, ProposeStep, ReviseStep DEF SubmitExperience
<1>3. CASE ReviewExperience
  BY <1>3, ReviewStep, ReleaseStep DEF ReviewExperience
<1>4. CASE SubmitSkill
  <2>1. UNCHANGED <<now, experienceVars>>
    BY <1>4 DEF SubmitSkill, SubmitNew, SubmitNext, AddRevision
  <2>2. QED  BY <2>1, NoEffect DEF ExperienceInv, ReviewTypeOK
<1>5. CASE \E r \in Submissions, admin \in Admins, action \in Actions :
             \E expected \in 1..RevisionVersion(r) : ReviewSkill(r, admin, action, expected)
  <2>1. UNCHANGED <<now, experienceVars>>
    BY <1>5 DEF ReviewSkill
  <2>2. QED  BY <2>1, NoEffect DEF ExperienceInv, ReviewTypeOK
<1>6. CASE UNCHANGED vars
  BY <1>6, NoEffect DEF vars, ExperienceInv, ReviewTypeOK
<1>7. QED  BY <1>1, <1>2, <1>3, <1>4, <1>5, <1>6 DEF Next

\* Effects keeps the columns of an experience, and the states only move on.
LEMMA Kept ==
  ASSUME ReviewTypeOK, Effects, NEW e \in Experiences
  PROVE  LET old == experience[e]  new == experience'[e] IN
         /\ new \in ExperienceRows \cup {Unproposed}
         /\ log'[e] \in Seq(ExperienceEvents)
         /\ old.status # "absent" =>
              /\ new.status # "absent" /\ old \in ExperienceRows /\ new \in ExperienceRows
              /\ new.claim = old.claim /\ new.level = old.level /\ new.window = old.window
              /\ new.parent = old.parent /\ new.parentVersion = old.parentVersion
              /\ new.root = old.root /\ new.number = old.number
              /\ new.status = "pending" => old.status = "pending" /\ new = old /\ log'[e] = log[e]
              /\ old.status = "forgotten" => new = old /\ log'[e] = log[e]
              /\ new.status = "active" => old.status \in {"pending", "active"}
              /\ new.status # "forgotten" => new.source = old.source /\ new.content = old.content
              /\ new.status = "forgotten" /\ old.status # "forgotten" => new.source = None /\ new.content = None
         /\ old.status = "absent" /\ new.status # "absent" =>
              /\ new \in ExperienceRows /\ new.status = "pending" /\ log'[e] = log[e]
              /\ new.source \in Handoffs /\ new.content \in Texts
<1>1. experience[e] \in ExperienceRows \cup {Unproposed} /\ log[e] \in Seq(ExperienceEvents)
  BY DEF ReviewTypeOK
<1>2. ExperienceMoves(experience[e], experience'[e], log[e], log'[e])
  BY DEF Effects, MovesOf
<1>3. QED  BY <1>1, <1>2, MovedRow

\* Every step leaves functions of experiences and of their logs.
LEMMA StepFunctions ==
  ASSUME ExperienceInv, [Next]_vars
  PROVE  DOMAIN experience' = Experiences /\ DOMAIN log' = Experiences
         /\ experience' = [e \in Experiences |-> experience'[e]] /\ log' = [e \in Experiences |-> log'[e]]
<1> SUFFICES /\ experience' = [e \in Experiences |-> experience'[e]]
             /\ log' = [e \in Experiences |-> log'[e]]
  OBVIOUS
<1>1. /\ experience = [e \in Experiences |-> experience[e]] /\ log = [e \in Experiences |-> log[e]]
      /\ DOMAIN experience = Experiences /\ DOMAIN log = Experiences
  BY DEF ExperienceInv, ReviewTypeOK
<1>2. CASE UNCHANGED experienceVars
  BY <1>1, <1>2 DEF experienceVars
<1>3. CASE SubmitExperience
  <2>1. PICK e \in Experiences : \E row : Insert(e, row)
    <3>1. ASSUME NEW e, NEW h, NEW text, NEW w, Propose(e, h, text, w)
          PROVE  \E row : Insert(e, row)
      BY <3>1 DEF Propose
    <3>2. ASSUME NEW e, NEW p, NEW expected, NEW given, NEW text, NEW w, Revise(e, p, expected, given, text, w)
          PROVE  \E row : Insert(e, row)
      BY <3>2 DEF Revise
    <3>3. QED  BY <1>3, <3>1, <3>2 DEF SubmitExperience
  <2>2. PICK row : Insert(e, row)
    BY <2>1
  <2>3. QED  BY <1>1, <2>2 DEF Insert
<1>4. ASSUME NEW e \in Proposed, NEW admin \in Admins, NEW action \in Actions, NEW expected,
             Review(e, admin, action, expected)
      PROVE  /\ experience' = [f \in Experiences |-> experience'[f]]
             /\ log' = [f \in Experiences |-> log'[f]]
  <2>1. Approve(e, admin) \/ Reject(e, admin) \/ Archive(e, admin) \/ Forget(e, admin)
    BY <1>4 DEF Review, Actions
  <2>2. QED  BY <1>1, <2>1 DEF Approve, ApproveOriginal, ApproveCorrection, Reject, Archive, Forget, Record
<1>5. CASE ReviewExperience
  <2>1. ASSUME NEW e \in Proposed, NEW admin \in Admins, NEW expected, Release(e, admin, expected)
        PROVE  experience' = experience /\ log' = log
    BY <2>1 DEF Release
  <2>2. QED  BY <1>1, <1>4, <1>5, <2>1 DEF ReviewExperience
<1>6. CASE Tick \/ UNCHANGED vars
  BY <1>2, <1>6 DEF Tick, vars
<1>7. CASE SubmitSkill
  BY <1>2, <1>7 DEF SubmitSkill, SubmitNew, SubmitNext, AddRevision
<1>8. CASE \E r \in Submissions, admin \in Admins, action \in Actions :
             \E expected \in 1..RevisionVersion(r) : ReviewSkill(r, admin, action, expected)
  BY <1>2, <1>8 DEF ReviewSkill
<1>9. QED  BY <1>3, <1>5, <1>6, <1>7, <1>8 DEF Next

\* The experiences stay typed.
LEMMA ReviewTypeKept ==
  ASSUME ExperienceInv, [Next]_vars
  PROVE  ReviewTypeOK'
<1>1. Effects
  BY StepEffects
<1>2. \A e \in Experiences : experience'[e] \in ExperienceRows \cup {Unproposed} /\ log'[e] \in Seq(ExperienceEvents)
  BY <1>1, Kept DEF ExperienceInv
<1>3. experience' \in [Experiences -> ExperienceRows \cup {Unproposed}] /\ log' \in [Experiences -> Seq(ExperienceEvents)]
  BY <1>2, StepFunctions
<1>4. QED  BY <1>1, <1>3 DEF Effects, ReviewTypeOK

\* Families never change.
LEMMA FamilyKept ==
  ASSUME ExperienceInv, Effects, NEW e \in Proposed
  PROVE  e \in Proposed' /\ Family(e)' = Family(e)
<1>1. e \in Experiences /\ experience[e].status # "absent"
  BY DEF Proposed
<1>2. experience'[e].status # "absent" /\ experience'[e].root = experience[e].root
  BY <1>1, Kept DEF ExperienceInv
<1>3. QED  BY <1>1, <1>2 DEF Proposed, Family

\* The families stay rooted.
LEMMA RootedKept ==
  ASSUME ExperienceInv, Effects
  PROVE  Rooted'
<1> SUFFICES ASSUME NEW e \in Proposed', NEW p, NEW root,
                    p = experience'[e].parent, root = experience'[e].root
             PROVE  /\ p = None => root = None
                    /\ p # None => p \in Proposed' /\ root = Family(p)'
                    /\ root # None => root \in Experiences
                                      /\ experience'[root].status \notin {"absent", "pending"}
  BY DEF Rooted, Family
<1>1. e \in Experiences /\ experience'[e].status # "absent"
  BY DEF Proposed
\* What holds of a root goes on to hold.
<1>2. ASSUME NEW f \in Experiences, experience[f].status \notin {"absent", "pending"}
      PROVE  experience'[f].status \notin {"absent", "pending"}
  BY <1>2, Kept DEF ExperienceInv
<1>3. CASE experience[e].status # "absent"
  <2>1. p = experience[e].parent /\ root = experience[e].root /\ e \in Proposed
    BY <1>1, <1>3, Kept DEF ExperienceInv, Proposed
  <2>2. p = None => root = None
    BY <2>1 DEF ExperienceInv, Rooted
  <2>3. CASE p # None
    <3>1. p \in Proposed /\ root = Family(p)
      BY <2>1, <2>3 DEF ExperienceInv, Rooted
    <3>2. p \in Proposed' /\ Family(p)' = Family(p)
      BY <3>1, FamilyKept
    <3>3. root # None => root \in Experiences /\ experience'[root].status \notin {"absent", "pending"}
      BY <1>2, <2>1 DEF ExperienceInv, Rooted
    <3>4. QED  BY <2>3, <3>1, <3>2, <3>3
  <2>4. QED  BY <2>2, <2>3
<1>4. CASE experience[e].status = "absent"
  <2>1. /\ p = None => root = None
        /\ p # None => p \in Experiences /\ experience[p].status = "active" /\ root = Family(p)
    BY <1>1, <1>4 DEF Effects
  <2>2. CASE p = None
    BY <2>1, <2>2
  <2>3. CASE p # None
    <3>1. p \in Proposed /\ experience[p].status = "active"
      BY <2>1, <2>3 DEF Proposed
    <3>2. p \in Proposed' /\ Family(p)' = Family(p)
      BY <3>1, FamilyKept
    <3>3. Family(p) \in Experiences /\ experience[Family(p)].status \notin {"absent", "pending"}
      <4>1. CASE experience[p].root = None
        BY <3>1, <4>1 DEF Family, Proposed
      <4>2. CASE experience[p].root # None
        BY <3>1, <4>2 DEF Family, ExperienceInv, Rooted
      <4>3. QED  BY <4>1, <4>2
    <3>4. experience'[root].status \notin {"absent", "pending"}
      BY <1>2, <2>1, <2>3, <3>3
    <3>5. QED  BY <2>1, <2>3, <3>2, <3>3, <3>4
  <2>4. QED  BY <2>2, <2>3
<1>5. QED  BY <1>3, <1>4

\* What is erased stays so, and what is not has its source and its text.
LEMMA ErasableKept ==
  ASSUME ExperienceInv, Effects
  PROVE  Erasable'
<1> SUFFICES ASSUME NEW e \in Proposed'
             PROVE  IF experience'[e].status = "forgotten"
                    THEN experience'[e].source = None /\ experience'[e].content = None
                    ELSE experience'[e].source \in Handoffs /\ experience'[e].content \in Texts
  BY DEF Erasable
<1>1. e \in Experiences /\ experience'[e].status # "absent"
  BY DEF Proposed
<1>2. CASE experience[e].status = "absent"
  BY <1>1, <1>2, Kept DEF ExperienceInv
<1>3. CASE experience[e].status # "absent"
  <2>1. e \in Proposed
    BY <1>1, <1>3 DEF Proposed
  <2>2. IF experience[e].status = "forgotten" THEN experience[e].source = None /\ experience[e].content = None
        ELSE experience[e].source \in Handoffs /\ experience[e].content \in Texts
    BY <2>1 DEF ExperienceInv, Erasable
  <2>3. QED  BY <1>1, <1>3, <2>2, Kept DEF ExperienceInv
<1>4. QED  BY <1>2, <1>3

\* One of a family is in force: what enters takes the place of its parent.
LEMMA OneOfFamilyKept ==
  ASSUME ExperienceInv, Effects
  PROVE  OneOfFamily'
<1>1. ASSUME NEW e \in Experiences, Entered(e), NEW g \in Experiences, g # e,
             experience'[g].status = "active", Family(e)' = Family(g)'
      PROVE  FALSE
  <2>1. experience[g].status = "active"
    BY <1>1 DEF Effects, Entered
  <2>2. experience[e].status = "pending"
    BY <1>1 DEF Effects
  <2>3. e \in Proposed /\ g \in Proposed
    BY <2>1, <2>2 DEF Proposed
  <2>4. Family(e) = Family(g)
    BY <1>1, <2>3, FamilyKept
  <2> DEFINE p == experience[e].parent
  <2>5. CASE p = None
    <3>1. Family(e) = e
      BY <2>3, <2>5 DEF ExperienceInv, Rooted, Family
    <3>2. experience[g].root = e
      BY <1>1, <2>4, <3>1 DEF Family
    <3>3. e # None
      BY ReviewAssumption
    <3>4. QED  BY <2>2, <2>3, <3>2, <3>3 DEF ExperienceInv, Rooted
  <2>6. CASE p # None
    <3>1. experience[p].status = "active" /\ experience'[p].status = "superseded"
      BY <1>1, <2>6 DEF Effects
    <3>2. p \in Proposed /\ experience[e].root = Family(p)
      BY <2>3, <2>6 DEF ExperienceInv, Rooted
    <3>3. Family(p) # None
      <4>1. p \in Experiences /\ p # None
        BY <3>2, ReviewAssumption DEF Proposed
      <4>2. QED  BY <4>1 DEF Family
    <3>4. Family(e) = Family(p)
      BY <3>2, <3>3 DEF Family
    <3>5. p = g
      BY <2>1, <2>3, <2>4, <3>1, <3>2, <3>4 DEF ExperienceInv, OneOfFamily
    <3>6. QED  BY <1>1, <3>1, <3>5
  <2>7. QED  BY <2>5, <2>6
<1> SUFFICES ASSUME NEW e \in Proposed', NEW f \in Proposed',
                    experience'[e].status = "active", experience'[f].status = "active",
                    Family(e)' = Family(f)', e # f
             PROVE  FALSE
  BY DEF OneOfFamily
<1>2. e \in Experiences /\ f \in Experiences
  BY DEF Proposed
<1>3. CASE Entered(e)
  BY <1>1, <1>2, <1>3
<1>4. CASE Entered(f)
  BY <1>1, <1>2, <1>4
<1>5. CASE ~Entered(e) /\ ~Entered(f)
  <2>1. experience[e].status = "active" /\ experience[f].status = "active"
    BY <1>5 DEF Entered
  <2>2. e \in Proposed /\ f \in Proposed
    BY <1>2, <2>1 DEF Proposed
  <2>3. Family(e) = Family(f)
    BY <2>2, FamilyKept
  <2>4. QED  BY <2>1, <2>2, <2>3 DEF ExperienceInv, OneOfFamily
<1>6. QED  BY <1>3, <1>4, <1>5

\* The invariant of the experiences is inductive.
LEMMA ExperienceInductive ==
  ASSUME ExperienceInv, [Next]_vars
  PROVE  ExperienceInv'
<1>1. Effects
  BY StepEffects
<1>2. QED  BY <1>1, ReviewTypeKept, RootedKept, ErasableKept, OneOfFamilyKept DEF ExperienceInv

\* It holds at first.
LEMMA ExperienceInitial ==
  ASSUME Init
  PROVE  ExperienceInv
<1>1. Proposed = {}
  BY DEF Init, ExperienceInit, Proposed, Unproposed
<1>2. [version |-> 0, by |-> None, released |-> TRUE] \in Suppressions
  BY DEF Suppressions
<1>3. ReviewTypeOK
  BY <1>2, ReviewAssumption DEF Init, ExperienceInit, ReviewTypeOK
<1>4. QED  BY <1>1, <1>3 DEF ExperienceInv, Rooted, Erasable, OneOfFamily

(***************************************************************************)
(* What is suppressed stays out.                                           *)
(***************************************************************************)

\* A proposal enters with a claim that is not suppressed.
LEMMA ProposalAdmitted ==
  ASSUME ExperienceInv, SubmitExperience,
         NEW f \in Experiences, Enters(f), NEW c, c = experience'[f].claim
  PROVE  ~Suppressed(c) /\ ~Suppressed(c)'
<1>1. PICK e \in Experiences :
        \E row : Insert(e, row) /\ ~Suppressed(row.claim)
  <2>1. ASSUME NEW e, NEW h, NEW text, NEW w, Propose(e, h, text, w)
        PROVE  \E row : Insert(e, row) /\ ~Suppressed(row.claim)
    <3> DEFINE row == [status |-> "pending", claim |-> <<h, text>>, source |-> h, content |-> text,
                       level |-> LevelOf[h], window |-> w, parent |-> None, parentVersion |-> 0,
                       root |-> None, number |-> 1]
    <3>1. Insert(e, row) /\ ~Suppressed(row.claim)
      BY <2>1 DEF Propose, Admissible
    <3>2. QED  BY <3>1
  <2>2. ASSUME NEW e, NEW p, NEW expected, NEW given, NEW text, NEW w, Revise(e, p, expected, given, text, w)
        PROVE  \E row : Insert(e, row) /\ ~Suppressed(row.claim)
    <3> DEFINE h == IF given = None THEN experience[p].source ELSE given
               row == [status |-> "pending", claim |-> <<h, text>>, source |-> h, content |-> text,
                       level |-> MaxLevel(LevelOf[h], experience[p].level), window |-> w,
                       parent |-> p, parentVersion |-> Version(p),
                       root |-> Family(p), number |-> experience[p].number + 1]
    <3>1. Insert(e, row) /\ ~Suppressed(row.claim)
      BY <2>2 DEF Revise, Admissible
    <3>2. QED  BY <3>1
  <2>3. QED  BY <2>1, <2>2 DEF SubmitExperience
<1>2. PICK row : Insert(e, row) /\ ~Suppressed(row.claim)
  BY <1>1
<1>3. experience' = [experience EXCEPT ![e] = row] /\ suppression' = suppression
  BY <1>2 DEF Insert
<1>4. f = e /\ experience'[f] = row
  BY <1>3 DEF Enters, ExperienceInv, ReviewTypeOK
<1>5. QED  BY <1>2, <1>3, <1>4 DEF Suppressed

\* An approval lets in what is not suppressed, and does not suppress it itself.
LEMMA ApprovalAdmitted ==
  ASSUME ExperienceInv, Effects, NEW e \in Proposed, NEW admin \in Admins,
         experience[e].status = "pending", Approve(e, admin),
         NEW f \in Experiences, Enters(f), NEW c, c = experience'[f].claim
  PROVE  ~Suppressed(c) /\ ~Suppressed(c)'
<1>1. e \in Experiences /\ experience[e] \in ExperienceRows
  BY ProposedRow DEF Proposed, ExperienceInv
<1>2. ~Suppressed(experience[e].claim)
  BY DEF Approve
<1>3. experience'[e].claim = experience[e].claim
  BY <1>1, Kept DEF ExperienceInv
<1>4. CASE ApproveOriginal(e, admin)
  <2>1. f = e
    BY <1>4 DEF ApproveOriginal, Enters, ExperienceInv, ReviewTypeOK
  <2>2. QED  BY <1>2, <1>3, <1>4, <2>1 DEF ApproveOriginal, Suppressed
<1>5. CASE ApproveCorrection(e, admin)
  <2> DEFINE p == experience[e].parent
  <2>1. p # None /\ experience[p].status = "active"
    BY <1>5 DEF ApproveCorrection
  <2>2. p \in Experiences /\ experience[p] \in ExperienceRows /\ p # e
    BY <1>1, <2>1, ProposedRow DEF ExperienceRows, ExperienceInv
  <2>3. experience' = [experience EXCEPT ![p].status = "superseded", ![e].status = "active"]
    BY <1>5 DEF ApproveCorrection
  <2>4. experience'[p].status = "superseded"
    BY <1>1, <2>2, <2>3 DEF ExperienceInv, ReviewTypeOK, ExperienceRows
  <2>5. f = e
    BY <2>2, <2>3, <2>4 DEF Enters, ExperienceInv, ReviewTypeOK
  <2>6. c = experience[e].claim /\ c \in Claims /\ experience[p].claim \in Claims
    BY <1>1, <1>3, <2>2, <2>5 DEF ExperienceRows
  <2>7. suppression'[c] = suppression[c]
    <3>1. CASE experience[p].claim = c
      BY <1>5, <2>6, <3>1 DEF ApproveCorrection, Retracted
    <3>2. CASE experience[p].claim # c
      <4>1. suppression' = Suppress(experience[p].claim, admin)
        BY <1>5, <2>6, <3>2 DEF ApproveCorrection, Retracted
      <4>2. QED  BY <2>6, <3>2, <4>1, SuppressTyped DEF ExperienceInv
    <3>3. QED  BY <3>1, <3>2
  <2>8. QED  BY <1>2, <2>6, <2>7 DEF Suppressed
<1>6. QED  BY <1>4, <1>5 DEF Approve

\* Nothing enters otherwise.
LEMMA EntersAdmitted ==
  ASSUME ExperienceInv, [Next]_vars,
         NEW f \in Experiences, Enters(f), NEW c, c = experience'[f].claim
  PROVE  ~Suppressed(c) /\ ~Suppressed(c)'
<1>1. Effects
  BY StepEffects
<1>2. experience' # experience
  BY DEF Enters
<1>3. CASE SubmitExperience
  BY <1>3, ProposalAdmitted
<1>4. ASSUME NEW e \in Proposed, NEW admin \in Admins, NEW action \in Actions, NEW expected,
             Review(e, admin, action, expected)
      PROVE  ~Suppressed(c) /\ ~Suppressed(c)'
  <2>1. CASE action = "approve"
    <3>1. experience[e].status = "pending" /\ Approve(e, admin)
      BY <1>4, <2>1 DEF Review, Reviewable
    <3>2. QED  BY <1>1, <3>1, ApprovalAdmitted
  <2>2. CASE action # "approve"
    <3>1. Reject(e, admin) \/ Archive(e, admin) \/ Forget(e, admin)
      BY <1>4, <2>2 DEF Review, Actions
    <3>2. e \in Experiences /\ experience[e] \in ExperienceRows
      BY ProposedRow DEF Proposed, ExperienceInv
    <3>3. /\ \A g \in Experiences \ {e} : experience'[g] = experience[g]
          /\ experience'[e].status \in {"rejected", "archived", "forgotten"}
      BY <3>1, <3>2 DEF Reject, Archive, Forget, ExperienceInv, ReviewTypeOK, ExperienceRows
    <3>4. QED  BY <3>3 DEF Enters
  <2>3. QED  BY <2>1, <2>2
<1>5. CASE ReviewExperience
  <2>1. ASSUME NEW e \in Proposed, NEW admin \in Admins, NEW expected, Release(e, admin, expected)
        PROVE  experience' = experience
    BY <2>1 DEF Release
  <2>2. QED  BY <1>2, <1>4, <1>5, <2>1 DEF ReviewExperience
<1>6. CASE Tick \/ SubmitSkill \/ UNCHANGED vars
           \/ \E r \in Submissions, admin \in Admins, action \in Actions :
                \E expected \in 1..RevisionVersion(r) : ReviewSkill(r, admin, action, expected)
  <2>1. UNCHANGED experienceVars
    <3>1. CASE Tick \/ UNCHANGED vars
      BY <3>1 DEF Tick, vars
    <3>2. CASE SubmitSkill
      BY <3>2 DEF SubmitSkill, SubmitNew, SubmitNext, AddRevision
    <3>3. CASE \E r \in Submissions, admin \in Admins, action \in Actions :
                 \E expected \in 1..RevisionVersion(r) : ReviewSkill(r, admin, action, expected)
      BY <3>3 DEF ReviewSkill
    <3>4. QED  BY <1>6, <3>1, <3>2, <3>3
  <2>2. QED  BY <1>2, <2>1 DEF experienceVars
<1>7. QED  BY <1>3, <1>5, <1>6 DEF Next

(***************************************************************************)
(* The guards of the database on experiences.                              *)
(***************************************************************************)

\* A transition that a review makes is one that the database knows.
LEMMA KnownTransition ==
  ASSUME NEW action, NEW before, NEW after, Transits(action, before, after)
  PROVE  <<action, before, after>> \in ReviewTransitions
<1>1. CASE action = "forget"
  BY <1>1 DEF Transits, ReviewTransitions
<1>2. CASE action # "forget"
  BY <1>2 DEF Transits, ReviewTransitions
<1>3. QED  BY <1>1, <1>2

\* ExperienceGuard never refuses a step.
LEMMA ExperienceGuarded ==
  ASSUME ExperienceInv, Effects, NEW e \in Proposed
  PROVE  ExperienceGuard(experience[e], experience'[e], log[e], log'[e])
<1> DEFINE old == experience[e]  new == experience'[e]  before == log[e]  after == log'[e]
<1>1. e \in Experiences /\ old.status # "absent" /\ before \in Seq(ExperienceEvents)
  BY DEF Proposed, ExperienceInv, ReviewTypeOK
<1>2. /\ new.claim = old.claim /\ new.level = old.level
      /\ new.parent = old.parent /\ new.parentVersion = old.parentVersion
      /\ new.root = old.root /\ new.number = old.number
      /\ old.status = "forgotten" => new = old
      /\ new.status # "forgotten" => new.source = old.source /\ new.content = old.content
      /\ new.status = "forgotten" /\ old.status # "forgotten" => new.source = None /\ new.content = None
  BY <1>1, Kept DEF ExperienceInv
<1>3. IF old.status = "forgotten" THEN old.source = None /\ old.content = None
      ELSE old.source \in Handoffs /\ old.content \in Texts
  BY DEF ExperienceInv, Erasable
<1>4. \A f \in {"claim", "level", "parent", "parentVersion", "root", "number"} : new[f] = old[f]
  BY <1>2
<1>5. new.status # "forgotten" \/ old.status = "forgotten" => new.content = old.content /\ new.source = old.source
  BY <1>2
<1>6. new.status = "forgotten" <=> new.source = None /\ new.content = None
  BY <1>2, <1>3, ReviewAssumption
<1>7. after # before =>
        /\ Len(after) = Len(before) + 1
        /\ <<after[Len(after)].action, old.status, new.status>> \in ReviewTransitions
  <2> SUFFICES ASSUME after # before
               PROVE  /\ Len(after) = Len(before) + 1
                      /\ <<after[Len(after)].action, old.status, new.status>> \in ReviewTransitions
    OBVIOUS
  <2>1. PICK ev \in ExperienceEvents, status \in ExperienceStates :
          /\ Transits(ev.action, old.status, status)
          /\ after = Append(before, ev)
          /\ new = ReviewedRow(old, status)
    BY <1>1 DEF Effects, MovesOf, ExperienceMoves
  <2>2. Len(after) = Len(before) + 1 /\ after[Len(after)] = ev
    BY <1>1, <2>1
  <2>3. new.status = status
    <3>1. old \in ExperienceRows
      BY <1>1, ProposedRow DEF ExperienceInv
    <3>2. QED  BY <2>1, <3>1 DEF ReviewedRow, ExperienceRows
  <2>4. <<ev.action, old.status, status>> \in ReviewTransitions
    BY <2>1, KnownTransition
  <2>5. QED  BY <2>2, <2>3, <2>4
<1>8. QED  BY <1>4, <1>5, <1>6, <1>7 DEF ExperienceGuard

(***************************************************************************)
(* What a step does to one revision.                                       *)
(***************************************************************************)

\* What a submission cites are experiences, at least one, at versions.
LEMMA CitesAre ==
  ASSUME NEW cites \in Citations
  PROVE  /\ DOMAIN cites \in SUBSET Experiences /\ DOMAIN cites # {}
         /\ \A e \in DOMAIN cites : cites[e] \in Nat
<1>1. PICK cited \in (SUBSET Experiences) \ {{}} : cites \in [cited -> 1..4]
  BY DEF Citations
<1>2. QED  BY <1>1

TransitRow(old, status) ==
  [old EXCEPT !.status = status, !.body = IF status = "forgotten" THEN None ELSE old.body]

RevisionMoves(old, new, before, after) ==
  \/ new = old /\ after = before
  \/ /\ old.status = "absent" /\ after = before
     /\ new \in RevisionRows /\ new.status = "pending" /\ new.body \in Bodies
  \/ \E ev \in SkillEvents, status \in SkillStates \ {"absent", "pending"} :
       /\ old.status \notin {"absent", "forgotten"}
       /\ status = "active" => old.status = "pending" /\ old.origin = "manual"
       /\ after = Append(before, ev)
       /\ new = TransitRow(old, status)

SameRevision(old, new) ==
  /\ new.skill = old.skill /\ new.number = old.number /\ new.base = old.base
  /\ new.origin = old.origin /\ new.level = old.level /\ new.cites = old.cites

\* The row of a revision after a transition.
LEMMA TransitRowIs ==
  ASSUME NEW old \in RevisionRows, NEW status \in SkillStates
  PROVE  LET new == TransitRow(old, status) IN
         /\ new \in RevisionRows /\ new.status = status /\ SameRevision(old, new)
         /\ new.body = IF status = "forgotten" THEN None ELSE old.body
BY DEF TransitRow, RevisionRows, SameRevision

\* The columns that never change, and the states that do not come back.
LEMMA MovedRevision ==
  ASSUME NEW old \in RevisionRows \cup {Unsubmitted}, NEW new,
         NEW before \in Seq(SkillEvents), NEW after,
         RevisionMoves(old, new, before, after)
  PROVE  /\ new \in RevisionRows \cup {Unsubmitted}
         /\ after \in Seq(SkillEvents)
         /\ old.status # "absent" =>
              /\ new.status # "absent" /\ old \in RevisionRows /\ new \in RevisionRows
              /\ SameRevision(old, new)
              /\ new.status = "pending" => new = old /\ after = before
              /\ old.status = "forgotten" => new = old /\ after = before
              /\ new.status = "active" /\ old.status # "active" => old.status = "pending" /\ old.origin = "manual"
              /\ new.status # "forgotten" => new.body = old.body
              /\ new.status = "forgotten" /\ old.status # "forgotten" => new.body = None
         /\ old.status = "absent" /\ new.status # "absent" =>
              new \in RevisionRows /\ new.status = "pending" /\ new.body \in Bodies /\ after = before
<1>1. CASE new = old /\ after = before
  BY <1>1 DEF Unsubmitted, SameRevision
<1>2. CASE /\ old.status = "absent" /\ after = before
           /\ new \in RevisionRows /\ new.status = "pending" /\ new.body \in Bodies
  BY <1>2
<1>3. ASSUME NEW ev \in SkillEvents, NEW status \in SkillStates \ {"absent", "pending"},
             old.status \notin {"absent", "forgotten"},
             status = "active" => old.status = "pending" /\ old.origin = "manual",
             after = Append(before, ev), new = TransitRow(old, status)
      PROVE  /\ old \in RevisionRows /\ new \in RevisionRows /\ after \in Seq(SkillEvents)
             /\ new.status = status /\ SameRevision(old, new)
             /\ new.body = IF status = "forgotten" THEN None ELSE old.body
  <2>1. old \in RevisionRows
    BY <1>3 DEF Unsubmitted
  <2>2. QED  BY <1>3, <2>1, TransitRowIs
<1>4. CASE \E ev \in SkillEvents, status \in SkillStates \ {"absent", "pending"} :
             /\ old.status \notin {"absent", "forgotten"}
             /\ status = "active" => old.status = "pending" /\ old.origin = "manual"
             /\ after = Append(before, ev)
             /\ new = TransitRow(old, status)
  <2>1. PICK ev \in SkillEvents, status \in SkillStates \ {"absent", "pending"} :
             /\ old.status \notin {"absent", "forgotten"}
             /\ status = "active" => old.status = "pending" /\ old.origin = "manual"
             /\ after = Append(before, ev)
             /\ new = TransitRow(old, status)
    BY <1>4
  <2>2. /\ old \in RevisionRows /\ new \in RevisionRows /\ after \in Seq(SkillEvents)
        /\ new.status = status /\ SameRevision(old, new)
        /\ new.body = IF status = "forgotten" THEN None ELSE old.body
    BY <1>3, <2>1
  <2>3. QED  BY <2>1, <2>2
<1>5. QED  BY <1>1, <1>2, <1>4 DEF RevisionMoves

(***************************************************************************)
(* The invariant of the skills.                                            *)
(***************************************************************************)

SkillTyped ==
  /\ skill \in [Skills -> SkillRows]
  /\ revision \in [Submissions -> RevisionRows \cup {Unsubmitted}]
  /\ history \in [Submissions -> Seq(SkillEvents)]

Numbered ==
  /\ \A s \in Skills : skill[s].active <= skill[s].latest
  /\ \A r \in Submitted :
       /\ revision[r].number \in 1..skill[revision[r].skill].latest
       /\ revision[r].base < revision[r].number
  /\ \A q, r \in Submitted :
       revision[q].skill = revision[r].skill /\ revision[q].number = revision[r].number => q = r

Bodied ==
  \A r \in Submitted :
    /\ IF revision[r].status = "forgotten" THEN revision[r].body = None ELSE revision[r].body \in Bodies
    /\ revision[r].status = "pending" => history[r] = <<>>
    /\ revision[r].status = "active" => revision[r].origin = "manual"

InForce ==
  /\ \A s \in Skills : skill[s].active # 0 =>
       \E r \in Submitted : revision[r].skill = s /\ revision[r].number = skill[s].active
  /\ \A r \in Submitted :
       revision[r].status = "active" <=> skill[revision[r].skill].active = revision[r].number

Cited ==
  \A r \in Submitted : \A e \in DOMAIN revision[r].cites :
    e \in Proposed /\ experience[e].level <= revision[r].level

Followed ==
  \A r \in Submitted : \A e \in DOMAIN revision[r].cites :
    /\ revision[r].status \in {"pending", "active"} =>
         experience[e].status = "active" /\ Version(e) = revision[r].cites[e]
    /\ experience[e].status = "forgotten" => revision[r].status = "forgotten"

Empty == \A r \in Submissions : revision[r].status = "absent" => history[r] = <<>>

SkillInv == SkillTyped /\ Numbered /\ Bodied /\ Empty /\ InForce /\ Cited /\ Followed

\* A revision that is in the project has a full row.
LEMMA SubmittedRow ==
  ASSUME SkillTyped, NEW r \in Submitted
  PROVE  r \in Submissions /\ revision[r].status # "absent" /\ revision[r] \in RevisionRows
BY DEF SkillTyped, Submitted, Unsubmitted

RevisionMovesOf(r) == RevisionMoves(revision[r], revision'[r], history[r], history'[r])

\* What the moves of the revisions keep.
LEMMA KeptRevision ==
  ASSUME SkillTyped, NEW r \in Submissions, RevisionMovesOf(r)
  PROVE  LET old == revision[r]  new == revision'[r] IN
         /\ new \in RevisionRows \cup {Unsubmitted}
         /\ history'[r] \in Seq(SkillEvents)
         /\ old.status # "absent" =>
              /\ new.status # "absent" /\ old \in RevisionRows /\ new \in RevisionRows
              /\ SameRevision(old, new)
              /\ new.status = "pending" => new = old /\ history'[r] = history[r]
              /\ old.status = "forgotten" => new = old /\ history'[r] = history[r]
              /\ new.status = "active" /\ old.status # "active" => old.status = "pending" /\ old.origin = "manual"
              /\ new.status # "forgotten" => new.body = old.body
              /\ new.status = "forgotten" /\ old.status # "forgotten" => new.body = None
         /\ old.status = "absent" /\ new.status # "absent" =>
              /\ new \in RevisionRows /\ new.status = "pending" /\ new.body \in Bodies
              /\ history'[r] = history[r]
<1>1. revision[r] \in RevisionRows \cup {Unsubmitted} /\ history[r] \in Seq(SkillEvents)
  BY DEF SkillTyped
<1>2. QED  BY <1>1, MovedRevision DEF RevisionMovesOf

\* Bodies and origins go on to fit the states.
LEMMA BodiedKept ==
  ASSUME SkillTyped, Bodied, Empty, \A r \in Submissions : RevisionMovesOf(r)
  PROVE  Bodied' /\ Empty'
<1>1. ASSUME NEW r \in Submissions, revision'[r].status # "absent"
      PROVE  /\ IF revision'[r].status = "forgotten" THEN revision'[r].body = None ELSE revision'[r].body \in Bodies
             /\ revision'[r].status = "pending" => history'[r] = <<>>
             /\ revision'[r].status = "active" => revision'[r].origin = "manual"
  <2>1. CASE revision[r].status = "absent"
    BY <1>1, <2>1, KeptRevision DEF Empty
  <2>2. CASE revision[r].status # "absent"
    <3>1. r \in Submitted
      BY <2>2 DEF Submitted
    <3>2. /\ IF revision[r].status = "forgotten" THEN revision[r].body = None ELSE revision[r].body \in Bodies
          /\ revision[r].status = "pending" => history[r] = <<>>
          /\ revision[r].status = "active" => revision[r].origin = "manual"
      BY <3>1 DEF Bodied
    <3>3. QED  BY <1>1, <2>2, <3>2, KeptRevision DEF SameRevision
  <2>3. QED  BY <2>1, <2>2
<1>2. Bodied'
  BY <1>1 DEF Bodied, Submitted
<1>3. Empty'
  <2> SUFFICES ASSUME NEW r \in Submissions, revision'[r].status = "absent"
               PROVE  history'[r] = <<>>
    BY DEF Empty
  <2>1. revision[r].status = "absent"
    BY KeptRevision
  <2>2. history'[r] = history[r]
    BY <2>1 DEF RevisionMovesOf, RevisionMoves
  <2>3. QED  BY <2>1, <2>2 DEF Empty
<1>4. QED  BY <1>2, <1>3

\* What was submitted stays submitted, with its columns.
LEMMA StaysSubmitted ==
  ASSUME SkillTyped, NEW r \in Submitted, RevisionMovesOf(r)
  PROVE  /\ r \in Submitted' /\ revision[r] \in RevisionRows /\ revision'[r] \in RevisionRows
         /\ SameRevision(revision[r], revision'[r])
         /\ revision'[r].status \in {"pending", "active"} => revision[r].status \in {"pending", "active"}
         /\ revision[r].status = "forgotten" => revision'[r] = revision[r]
<1>1. r \in Submissions /\ revision[r].status # "absent"
  BY DEF Submitted
<1>2. QED  BY <1>1, KeptRevision DEF Submitted

\* Citations stay of experiences that are there, of no higher level.
LEMMA CitedKept ==
  ASSUME ExperienceInv, SkillTyped, Cited, Effects, \A r \in Submissions : RevisionMovesOf(r),
         \A r \in Submissions : revision[r].status = "absent" /\ revision'[r].status # "absent" =>
           \A e \in DOMAIN revision'[r].cites : e \in Proposed /\ experience[e].level <= revision'[r].level
  PROVE  Cited'
<1> SUFFICES ASSUME NEW r \in Submitted', NEW e \in DOMAIN revision'[r].cites
             PROVE  e \in Proposed' /\ experience'[e].level <= revision'[r].level
  BY DEF Cited
<1>1. r \in Submissions /\ revision'[r].status # "absent"
  BY DEF Submitted
<1>2. e \in Proposed /\ experience[e].level <= revision'[r].level
  <2>1. CASE r \in Submitted
    <3>1. SameRevision(revision[r], revision'[r])
      BY <1>1, <2>1, StaysSubmitted
    <3>2. QED  BY <2>1, <3>1 DEF SameRevision, Cited
  <2>2. CASE r \notin Submitted
    BY <1>1, <2>2 DEF Submitted
  <2>3. QED  BY <2>1, <2>2
<1>3. e \in Experiences /\ experience[e].status # "absent"
  BY <1>2 DEF Proposed
<1>4. experience'[e].status # "absent" /\ experience'[e].level = experience[e].level
  BY <1>3, Kept DEF ExperienceInv
<1>5. QED  BY <1>2, <1>3, <1>4 DEF Proposed

\* As long as the experiences stay as they are, revisions follow them.
LEMMA FollowedKept ==
  ASSUME SkillTyped, Cited, Followed, \A r \in Submissions : RevisionMovesOf(r),
         \A e \in Proposed : experience'[e] = experience[e] /\ log'[e] = log[e],
         \A r \in Submissions : revision[r].status = "absent" /\ revision'[r].status # "absent" =>
           \A e \in DOMAIN revision'[r].cites :
             e \in Proposed /\ experience[e].status = "active" /\ Version(e) = revision'[r].cites[e]
  PROVE  Followed'
<1> SUFFICES ASSUME NEW r \in Submitted', NEW e \in DOMAIN revision'[r].cites
             PROVE  /\ revision'[r].status \in {"pending", "active"} =>
                         experience'[e].status = "active" /\ Len(log'[e]) + 1 = revision'[r].cites[e]
                    /\ experience'[e].status = "forgotten" => revision'[r].status = "forgotten"
  BY DEF Followed, Version
<1>1. r \in Submissions /\ revision'[r].status # "absent"
  BY DEF Submitted
<1>2. CASE r \in Submitted
  <2>1. /\ SameRevision(revision[r], revision'[r])
        /\ revision'[r].status \in {"pending", "active"} => revision[r].status \in {"pending", "active"}
        /\ revision[r].status = "forgotten" => revision'[r] = revision[r]
    BY <1>1, <1>2, StaysSubmitted
  <2>2. e \in DOMAIN revision[r].cites /\ revision'[r].cites = revision[r].cites
    BY <2>1 DEF SameRevision
  <2>3. e \in Proposed
    BY <1>2, <2>2 DEF Cited
  <2>4. QED  BY <1>2, <2>1, <2>2, <2>3 DEF Followed, Version
<1>3. CASE r \notin Submitted
  <2>1. e \in Proposed /\ experience[e].status = "active" /\ Version(e) = revision'[r].cites[e]
    BY <1>1, <1>3 DEF Submitted
  <2>2. QED  BY <2>1 DEF Version
<1>4. QED  BY <1>2, <1>3

\* Where nothing is submitted, numbers stay.
LEMMA NumberedKept ==
  ASSUME SkillTyped, Numbered, \A r \in Submissions : RevisionMovesOf(r), Submitted' = Submitted,
         \A s \in Skills : skill'[s].latest = skill[s].latest /\ skill'[s].active <= skill[s].latest
  PROVE  Numbered'
<1>1. \A r \in Submitted' : r \in Submitted /\ SameRevision(revision[r], revision'[r])
                            /\ revision[r].skill \in Skills
  <2> SUFFICES ASSUME NEW r \in Submitted'
               PROVE  r \in Submitted /\ SameRevision(revision[r], revision'[r]) /\ revision[r].skill \in Skills
    OBVIOUS
  <2>1. r \in Submitted /\ r \in Submissions
    BY DEF Submitted
  <2>2. QED  BY <2>1, StaysSubmitted DEF RevisionRows
<1>2. QED  BY <1>1 DEF Numbered, SameRevision

\* One revision of a skill is in force, if the skill moves as its revisions do.
LEMMA InForceKept ==
  ASSUME SkillTyped, Numbered, InForce, \A r \in Submissions : RevisionMovesOf(r), Submitted' = Submitted,
         \A s \in Skills :
           \/ /\ skill'[s].active = skill[s].active
              /\ \A q \in Submitted : revision[q].skill = s =>
                   (revision'[q].status = "active" <=> revision[q].status = "active")
           \/ /\ skill'[s].active = 0
              /\ \A q \in Submitted : revision[q].skill = s => revision'[q].status # "active"
           \/ \E r \in Submitted :
                /\ revision[r].skill = s /\ skill'[s].active = revision[r].number
                /\ \A q \in Submitted : revision[q].skill = s =>
                     (revision'[q].status = "active" <=> q = r)
  PROVE  InForce'
<1>1. \A r \in Submitted : /\ SameRevision(revision[r], revision'[r]) /\ revision[r].skill \in Skills
                           /\ revision[r].number \in Nat /\ revision[r].number # 0
  <2> SUFFICES ASSUME NEW r \in Submitted
               PROVE  /\ SameRevision(revision[r], revision'[r]) /\ revision[r].skill \in Skills
                      /\ revision[r].number \in Nat /\ revision[r].number # 0
    OBVIOUS
  <2>1. r \in Submissions
    BY DEF Submitted
  <2>2. SameRevision(revision[r], revision'[r]) /\ revision[r] \in RevisionRows
    BY <2>1, StaysSubmitted
  <2>3. revision[r].skill \in Skills /\ revision[r].number \in Nat
    BY <2>2 DEF RevisionRows
  <2>4. skill[revision[r].skill].latest \in Nat
    BY <2>3 DEF SkillTyped, SkillRows
  <2>5. revision[r].number \in 1..skill[revision[r].skill].latest
    BY DEF Numbered
  <2>6. QED  BY <2>2, <2>3, <2>4, <2>5
<1>2. ASSUME NEW s \in Skills, skill'[s].active # 0
      PROVE  \E r \in Submitted : revision'[r].skill = s /\ revision'[r].number = skill'[s].active
  BY <1>1, <1>2 DEF InForce, SameRevision
<1>3. ASSUME NEW r \in Submitted
      PROVE  revision'[r].status = "active" <=> skill'[revision[r].skill].active = revision[r].number
  <2> DEFINE s == revision[r].skill
  <2>1. s \in Skills /\ revision[r].number # 0
    BY <1>1
  <2>2. revision[r].status = "active" <=> skill[s].active = revision[r].number
    BY DEF InForce
  <2>3. CASE /\ skill'[s].active = skill[s].active
             /\ \A q \in Submitted : revision[q].skill = s =>
                   (revision'[q].status = "active" <=> revision[q].status = "active")
    BY <2>2, <2>3
  <2>4. CASE /\ skill'[s].active = 0
             /\ \A q \in Submitted : revision[q].skill = s => revision'[q].status # "active"
    BY <2>1, <2>4
  <2>5. CASE \E t \in Submitted :
                /\ revision[t].skill = s /\ skill'[s].active = revision[t].number
                /\ \A q \in Submitted : revision[q].skill = s =>
                     (revision'[q].status = "active" <=> q = t)
    BY <2>5 DEF Numbered
  <2>6. QED  BY <2>1, <2>3, <2>4, <2>5
<1>4. QED  BY <1>1, <1>2, <1>3 DEF InForce, SameRevision

(***************************************************************************)
(* The actions.                                                            *)
(***************************************************************************)

\* Time and proposals leave the skills alone, and what they cite.
LEMMA QuietStep ==
  ASSUME ExperienceInv, Effects, SkillInv, UNCHANGED skillVars,
         \A e \in Proposed : experience'[e] = experience[e] /\ log'[e] = log[e]
  PROVE  SkillInv'
<1>1. skill' = skill /\ revision' = revision /\ history' = history
  BY DEF skillVars
<1>2. \A r \in Submissions : RevisionMovesOf(r)
  BY <1>1 DEF RevisionMovesOf, RevisionMoves
<1>3. Cited' /\ Followed'
  BY <1>1, <1>2, CitedKept, FollowedKept DEF SkillInv
<1>4. SkillTyped' /\ Numbered' /\ Bodied' /\ Empty' /\ InForce'
  BY <1>1 DEF SkillInv, SkillTyped, Numbered, Bodied, Empty, InForce, Submitted
<1>5. QED  BY <1>3, <1>4 DEF SkillInv

\* A proposal leaves every experience alone that is there already.
LEMMA ProposalsAdd ==
  ASSUME ExperienceInv, SubmitExperience
  PROVE  \A e \in Proposed : experience'[e] = experience[e] /\ log'[e] = log[e]
<1>1. PICK e \in Experiences : experience[e].status = "absent" /\ \E row : Insert(e, row)
  <2>1. ASSUME NEW e, NEW h, NEW text, NEW w, Propose(e, h, text, w)
        PROVE  experience[e].status = "absent" /\ \E row : Insert(e, row)
    BY <2>1 DEF Propose
  <2>2. ASSUME NEW e, NEW p, NEW expected, NEW given, NEW text, NEW w, Revise(e, p, expected, given, text, w)
        PROVE  experience[e].status = "absent" /\ \E row : Insert(e, row)
    BY <2>2 DEF Revise
  <2>3. QED  BY <2>1, <2>2 DEF SubmitExperience
<1>2. PICK row : Insert(e, row)
  BY <1>1
<1>3. QED  BY <1>1, <1>2 DEF Insert, Proposed, ExperienceInv, ReviewTypeOK

(***************************************************************************)
(* Submissions of revisions.                                               *)
(***************************************************************************)

\* The level of what is cited is a level above each of them.
LEMMA CitedLevelIs ==
  ASSUME ExperienceInv, NEW cites \in Citations, Captured(cites)
  PROVE  /\ CitedLevel(cites) \in Levels
         /\ \A e \in DOMAIN cites :
              /\ e \in Proposed /\ experience[e].level <= CitedLevel(cites)
              /\ experience[e].status = "active" /\ Version(e) = cites[e]
<1> DEFINE S == {experience[e].level : e \in DOMAIN cites}
<1>1. \A e \in DOMAIN cites : e \in Proposed /\ experience[e].status = "active" /\ Version(e) = cites[e]
  BY CitesAre DEF Captured, Proposed
<1>2. \A e \in DOMAIN cites : experience[e].level \in Levels
  BY <1>1, CitesAre, ProposedRow DEF ExperienceInv, ExperienceRows, Proposed
<1>3. S \in SUBSET Levels /\ S # {}
  BY <1>2, CitesAre
<1>4. HighestLevel(S) \in S /\ \A l \in S : l <= HighestLevel(S)
  BY <1>3, HighestLevelIs
<1>5. CitedLevel(cites) = HighestLevel(S)
  BY DEF CitedLevel
<1>6. \A e \in DOMAIN cites : experience[e].level \in S
  OBVIOUS
<1> HIDE DEF S
<1>7. QED  BY <1>1, <1>3, <1>4, <1>5, <1>6

\* A submission adds a revision after the latest, on what is active.
LEMMA AddStep ==
  ASSUME ExperienceInv, Effects, SkillInv, NEW r \in Submissions, NEW s \in Skills,
         NEW origin \in {"manual", "generated"}, NEW body \in Bodies, NEW cites \in Citations,
         Captured(cites), revision[r].status = "absent", AddRevision(r, s, origin, body, cites)
  PROVE  SkillInv' /\ (\A q \in Submissions : RevisionMovesOf(q))
         /\ (\A t \in Skills : skill'[t].active = skill[t].active)
<1> DEFINE number == skill[s].latest + 1
           level == MaxLevel(skill[s].level, CitedLevel(cites))
           row == [status |-> "pending", skill |-> s, number |-> number, base |-> skill[s].active,
                   origin |-> origin, body |-> body, level |-> level, cites |-> cites]
<1>1. skill[s] \in SkillRows /\ skill[s].latest \in Nat /\ skill[s].active \in Nat /\ skill[s].level \in Levels
  BY DEF SkillInv, SkillTyped, SkillRows
<1>2. /\ CitedLevel(cites) \in Levels
      /\ \A e \in DOMAIN cites : /\ e \in Proposed /\ experience[e].level <= CitedLevel(cites)
                                 /\ experience[e].status = "active" /\ Version(e) = cites[e]
  BY CitedLevelIs
<1>3. level \in Levels /\ CitedLevel(cites) <= level
  BY <1>1, <1>2, MaxLevelIs
<1>4. number \in Nat /\ number > skill[s].latest /\ skill[s].active < number
  BY <1>1 DEF SkillInv, Numbered
<1>5. revision' = [revision EXCEPT ![r] = row]
  BY DEF AddRevision
<1>6. skill' = [skill EXCEPT ![s].latest = number, ![s].level = level]
  BY DEF AddRevision
<1>7. history' = history
  BY DEF AddRevision
<1> HIDE DEF number, level
<1>8. row \in RevisionRows
  BY <1>1, <1>3, <1>4 DEF RevisionRows, SkillStates
<1>9. /\ row.status = "pending" /\ row.skill = s /\ row.number = number /\ row.base = skill[s].active
      /\ row.body = body /\ row.level = level /\ row.cites = cites
  OBVIOUS
<1> HIDE DEF row
<1>10. revision'[r] = row /\ \A q \in Submissions \ {r} : revision'[q] = revision[q]
  BY <1>5 DEF SkillInv, SkillTyped
<1>11. \A q \in Submissions : RevisionMovesOf(q)
  BY <1>7, <1>8, <1>9, <1>10 DEF RevisionMovesOf, RevisionMoves
<1>12. Submitted' = Submitted \cup {r} /\ r \notin Submitted
  BY <1>9, <1>10 DEF Submitted
<1>13. /\ skill'[s].latest = number /\ skill'[s].active = skill[s].active /\ skill' \in [Skills -> SkillRows]
       /\ \A t \in Skills \ {s} : skill'[t] = skill[t]
  <2>1. [skill[s] EXCEPT !.latest = number, !.level = level] \in SkillRows
    BY <1>1, <1>3, <1>4 DEF SkillRows
  <2>2. skill' = [skill EXCEPT ![s] = [skill[s] EXCEPT !.latest = number, !.level = level]]
    BY <1>6 DEF SkillInv, SkillTyped
  <2>3. QED  BY <1>1, <2>1, <2>2 DEF SkillInv, SkillTyped, SkillRows
<1>14. SkillTyped'
  BY <1>5, <1>7, <1>8, <1>13 DEF SkillInv, SkillTyped
<1>15. Numbered'
  <2>1. \A q \in Submitted : /\ revision[q].skill \in Skills /\ revision[q].number \in Nat
                             /\ revision[q].base \in Nat
                             /\ skill[revision[q].skill].latest \in Nat
    BY SubmittedRow DEF SkillInv, SkillTyped, SkillRows, RevisionRows
  <2>2. \A t \in Skills : skill'[t].active <= skill'[t].latest /\ skill[t].latest \in Nat
    BY <1>1, <1>4, <1>13 DEF SkillInv, Numbered, SkillTyped, SkillRows
  <2>3. \A q \in Submitted' : /\ revision'[q].number \in 1..skill'[revision'[q].skill].latest
                              /\ revision'[q].base < revision'[q].number
    <3>1. ASSUME NEW q \in Submitted
          PROVE  /\ revision'[q].number \in 1..skill'[revision'[q].skill].latest
                 /\ revision'[q].base < revision'[q].number
      <4>1. revision'[q] = revision[q]
        BY <1>10, <1>12 DEF Submitted
      <4>2. revision[q].number \in 1..skill[revision[q].skill].latest /\ revision[q].base < revision[q].number
        BY DEF SkillInv, Numbered
      <4>3. skill'[revision[q].skill].latest >= skill[revision[q].skill].latest
            /\ skill'[revision[q].skill].latest \in Nat
        BY <1>1, <1>4, <1>13, <2>1
      <4>4. QED  BY <2>1, <4>1, <4>2, <4>3
    <3>2. number \in 1..number /\ skill[s].active < number
      BY <1>1, <1>4
    <3>3. QED  BY <1>9, <1>10, <1>12, <1>13, <3>1, <3>2
  <2>4. \A q \in Submitted : revision[q].skill = s => revision[q].number # number
    BY <1>1, <1>4, <2>1 DEF SkillInv, Numbered
  <2>5. \A q, t \in Submitted' :
          revision'[q].skill = revision'[t].skill /\ revision'[q].number = revision'[t].number => q = t
    <3>1. \A q \in Submitted : revision'[q] = revision[q]
      BY <1>10, <1>12 DEF Submitted
    <3>2. QED  BY <1>9, <1>10, <1>12, <2>4, <3>1 DEF SkillInv, Numbered
  <2>6. QED  BY <2>2, <2>3, <2>5 DEF Numbered
<1>16. Bodied' /\ Empty'
  BY <1>11, BodiedKept DEF SkillInv
<1>17. InForce'
  <2>1. \A q \in Submitted : revision'[q] = revision[q]
    BY <1>10, <1>12 DEF Submitted
  <2>2. \A t \in Skills : skill'[t].active = skill[t].active
    BY <1>13
  <2>3. \A q \in Submitted : revision[q].skill \in Skills
    BY SubmittedRow DEF SkillInv, RevisionRows
  <2>4. skill[s].active # number
    BY <1>1, <1>4
  <2>5. QED  BY <1>9, <1>10, <1>12, <2>1, <2>2, <2>3, <2>4 DEF SkillInv, InForce
<1>18. Cited' /\ Followed'
  <2>1. \A q \in Submissions : revision[q].status = "absent" /\ revision'[q].status # "absent" => q = r
    BY <1>10
  <2>2. experience' = experience /\ log' = log
    BY DEF AddRevision, experienceVars
  <2>3. \A e \in DOMAIN cites : e \in Proposed /\ experience[e].level <= level
    <3>1. \A e \in DOMAIN cites : experience[e].level \in Levels
      BY <1>2, ProposedRow DEF ExperienceInv, ExperienceRows, Proposed
    <3>2. QED  BY <1>2, <1>3, <3>1 DEF Levels
  <2>4. Cited'
    BY <1>9, <1>10, <1>11, <2>1, <2>3, CitedKept DEF SkillInv
  <2>5. Followed'
    BY <1>2, <1>9, <1>10, <1>11, <2>1, <2>2, FollowedKept DEF SkillInv
  <2>6. QED  BY <2>4, <2>5
<1>19. QED  BY <1>11, <1>13, <1>14, <1>15, <1>16, <1>17, <1>18 DEF SkillInv

\* Both ways to submit are submissions.
LEMMA SubmitStep ==
  ASSUME ExperienceInv, Effects, SkillInv, SubmitSkill
  PROVE  SkillInv' /\ (\A q \in Submissions : RevisionMovesOf(q))
         /\ (\A t \in Skills : skill'[t].active = skill[t].active)
<1>1. PICK cites \in Citations : Captured(cites) /\ \E r \in Submissions, s \in Skills, body \in Bodies :
        \/ \E origin \in {"manual", "generated"} : SubmitNew(r, s, origin, body, cites)
        \/ \E expected \in 1..skill[s].latest : SubmitNext(r, s, expected, body, cites)
  BY DEF SubmitSkill
<1>2. PICK r \in Submissions, s \in Skills, body \in Bodies :
        \/ \E origin \in {"manual", "generated"} : SubmitNew(r, s, origin, body, cites)
        \/ \E expected \in 1..skill[s].latest : SubmitNext(r, s, expected, body, cites)
  BY <1>1
<1>3. \E origin \in {"manual", "generated"} :
        revision[r].status = "absent" /\ AddRevision(r, s, origin, body, cites)
  BY <1>2 DEF SubmitNew, SubmitNext
<1>4. QED  BY <1>1, <1>3, AddStep

(***************************************************************************)
(* Reviews of revisions.                                                   *)
(***************************************************************************)

\* Transition changes one row.
LEMMA TransitionIs ==
  ASSUME NEW rows \in [Submissions -> RevisionRows \cup {Unsubmitted}], NEW r \in Submissions,
         rows[r] \in RevisionRows, NEW status \in SkillStates
  PROVE  /\ Transition(rows, r, status) = [rows EXCEPT ![r] = TransitRow(rows[r], status)]
         /\ Transition(rows, r, status) \in [Submissions -> RevisionRows \cup {Unsubmitted}]
<1>1. Transition(rows, r, status) = [rows EXCEPT ![r] = TransitRow(rows[r], status)]
  BY DEF Transition, TransitRow, RevisionRows
<1>2. TransitRow(rows[r], status) \in RevisionRows
  BY TransitRowIs
<1>3. QED  BY <1>1, <1>2

\* An event that Note adds.
LEMMA EventIs ==
  ASSUME NEW admin \in Admins, NEW action \in Actions \cup {"supersede"}
  PROVE  [by |-> admin, action |-> action] \in SkillEvents
BY DEF SkillEvents

\* A log with one more event of one revision.
LEMMA NotedIs ==
  ASSUME NEW events \in [Submissions -> Seq(SkillEvents)], NEW r \in Submissions, NEW ev \in SkillEvents,
         NEW new, new = [events EXCEPT ![r] = Append(events[r], ev)]
  PROVE  /\ new \in [Submissions -> Seq(SkillEvents)] /\ new[r] = Append(events[r], ev)
         /\ \A q \in Submissions \ {r} : new[q] = events[q]
<1>1. Append(events[r], ev) \in Seq(SkillEvents)
  OBVIOUS
<1>2. QED  BY <1>1

\* A revision in a state that a transition brings it to moved.
LEMMA TransitMoves ==
  ASSUME NEW old, NEW before, NEW ev \in SkillEvents, NEW status \in SkillStates \ {"absent", "pending"},
         old.status \notin {"absent", "forgotten"},
         status = "active" => old.status = "pending" /\ old.origin = "manual"
  PROVE  RevisionMoves(old, TransitRow(old, status), before, Append(before, ev))
BY DEF RevisionMoves

\* The revision that a skill names is the one that is active.
LEMMA ActiveRevision ==
  ASSUME SkillInv, NEW s \in Skills, skill[s].active # 0
  PROVE  LET p == RevisionOf(s, skill[s].active) IN
         /\ p \in Submitted /\ revision[p].skill = s /\ revision[p].status = "active"
         /\ revision[p].number = skill[s].active
<1>1. \E r \in Submitted : revision[r].skill = s /\ revision[r].number = skill[s].active
  BY DEF SkillInv, InForce
<1>2. LET p == RevisionOf(s, skill[s].active) IN
      p \in Submitted /\ revision[p].skill = s /\ revision[p].number = skill[s].active
  BY <1>1 DEF RevisionOf
<1>3. QED  BY <1>2 DEF SkillInv, InForce

\* What a review of a revision does to the revisions and to their skill.
Reviewed(r, s) ==
  /\ revision' \in [Submissions -> RevisionRows \cup {Unsubmitted}]
  /\ history' \in [Submissions -> Seq(SkillEvents)]
  /\ \A q \in Submissions : RevisionMovesOf(q)
  /\ \A q \in Submissions : revision[q].status = "absent" => revision'[q].status = "absent"
  /\ skill' \in [Skills -> SkillRows]
  /\ \A t \in Skills : skill'[t].latest = skill[t].latest /\ skill'[t].active <= skill[t].latest
  /\ \A t \in Skills \ {s} : skill'[t] = skill[t]
  /\ \A q \in Submitted : revision[q].skill # s => revision'[q] = revision[q]
  /\ \/ /\ skill'[s].active = skill[s].active
        /\ \A q \in Submitted : revision[q].skill = s =>
             (revision'[q].status = "active" <=> revision[q].status = "active")
     \/ /\ skill'[s].active = 0
        /\ \A q \in Submitted : revision[q].skill = s => revision'[q].status # "active"
     \/ /\ skill'[s].active = revision[r].number
        /\ skill[s].active # 0 => revision[r].base = skill[s].active
        /\ \A q \in Submitted : revision[q].skill = s => (revision'[q].status = "active" <=> q = r)

\* It keeps the invariant.
LEMMA ReviewedKeeps ==
  ASSUME ExperienceInv, Effects, SkillInv, UNCHANGED experienceVars,
         NEW r \in Submitted, NEW s \in Skills, s = revision[r].skill, Reviewed(r, s)
  PROVE  SkillInv'
<1>1. Submitted' = Submitted
  <2>1. \A q \in Submissions : revision[q].status # "absent" => revision'[q].status # "absent"
    BY KeptRevision DEF Reviewed, SkillInv
  <2>2. QED  BY <2>1 DEF Reviewed, Submitted
<1>2. \A q \in Submissions : RevisionMovesOf(q)
  BY DEF Reviewed
<1>3. SkillTyped'
  BY DEF Reviewed, SkillTyped
<1>4. Numbered'
  BY <1>1, <1>2, NumberedKept DEF Reviewed, SkillInv
<1>5. Bodied' /\ Empty'
  BY <1>2, BodiedKept DEF SkillInv
<1>6. InForce'
  <2>1. \A t \in Skills \ {s} :
           /\ skill'[t].active = skill[t].active
           /\ \A q \in Submitted : revision[q].skill = t =>
                (revision'[q].status = "active" <=> revision[q].status = "active")
    BY DEF Reviewed
  <2>2. \/ /\ skill'[s].active = skill[s].active
           /\ \A q \in Submitted : revision[q].skill = s =>
                (revision'[q].status = "active" <=> revision[q].status = "active")
        \/ /\ skill'[s].active = 0
           /\ \A q \in Submitted : revision[q].skill = s => revision'[q].status # "active"
        \/ \E t \in Submitted :
             /\ revision[t].skill = s /\ skill'[s].active = revision[t].number
             /\ \A q \in Submitted : revision[q].skill = s => (revision'[q].status = "active" <=> q = t)
    BY DEF Reviewed
  <2>3. QED  BY <1>1, <1>2, <2>1, <2>2, InForceKept DEF SkillInv
<1>7. experience' = experience /\ log' = log
  BY DEF experienceVars
<1>8. \A q \in Submissions : ~(revision[q].status = "absent" /\ revision'[q].status # "absent")
  BY DEF Reviewed
<1>9. Cited'
  BY <1>2, <1>8, CitedKept DEF SkillInv
<1>10. Followed'
  BY <1>2, <1>7, <1>8, FollowedKept DEF SkillInv
<1>11. QED  BY <1>3, <1>4, <1>5, <1>6, <1>9, <1>10 DEF SkillInv

\* An approval, of the first revision or in place of the active one.
LEMMA ApproveRevisionStep ==
  ASSUME SkillInv, NEW r \in Submitted, NEW s \in Skills, s = revision[r].skill, NEW admin \in Admins,
         revision[r].status = "pending", ApproveRevision(r, admin)
  PROVE  Reviewed(r, s)
<1> DEFINE old == skill[s].active
           parent == RevisionOf(s, old)
           row == TransitRow(revision[r], "active")
<1>1. /\ r \in Submissions /\ revision[r] \in RevisionRows /\ revision[r].number \in Nat
      /\ revision[r].status # "absent"
  BY SubmittedRow DEF SkillInv, RevisionRows
<1>2. revision[r].origin = "manual" /\ revision[r].base = old
  BY DEF ApproveRevision
<1>3. /\ revision \in [Submissions -> RevisionRows \cup {Unsubmitted}]
      /\ history \in [Submissions -> Seq(SkillEvents)] /\ skill \in [Skills -> SkillRows]
  BY DEF SkillInv, SkillTyped
<1>4. /\ "active" \in SkillStates \ {"absent", "pending"} /\ "superseded" \in SkillStates \ {"absent", "pending"}
      /\ "approve" \in Actions \cup {"supersede"} /\ "supersede" \in Actions \cup {"supersede"}
  BY DEF SkillStates, Actions
<1>5. /\ skill' \in [Skills -> SkillRows] /\ skill'[s].active = revision[r].number
      /\ \A t \in Skills : skill'[t].latest = skill[t].latest /\ skill'[t].active <= skill[t].latest
      /\ \A t \in Skills \ {s} : skill'[t] = skill[t]
  <2>1. skill' = [skill EXCEPT ![s].active = revision[r].number]
    BY DEF ApproveRevision
  <2>2. skill[s] \in SkillRows /\ skill[s].latest \in Nat
    BY <1>3 DEF SkillRows
  <2>3. [skill[s] EXCEPT !.active = revision[r].number] \in SkillRows
    BY <1>1, <2>2 DEF SkillRows
  <2>4. revision[r].number <= skill[s].latest
    BY <2>2 DEF SkillInv, Numbered
  <2>5. \A t \in Skills : skill[t].active <= skill[t].latest
    BY DEF SkillInv, Numbered
  <2>6. QED  BY <1>3, <2>1, <2>2, <2>3, <2>4, <2>5 DEF SkillRows
<1>6. row \in RevisionRows /\ row.status = "active"
  BY <1>1, <1>4, TransitRowIs
<1>7. \A ev \in SkillEvents : RevisionMoves(revision[r], row, history[r], Append(history[r], ev))
  BY <1>2, <1>4, TransitMoves
<1>8. CASE old = 0
  <2>1. revision' = Transition(revision, r, "active") /\ history' = Note(history, r, admin, "approve")
    BY <1>8 DEF ApproveRevision
  <2>2. revision' = [revision EXCEPT ![r] = row]
    BY <1>1, <1>3, <1>4, <2>1, TransitionIs
  <2>3. /\ history' \in [Submissions -> Seq(SkillEvents)]
        /\ \A q \in Submissions \ {r} : history'[q] = history[q]
        /\ \E ev \in SkillEvents : history'[r] = Append(history[r], ev)
    <3> DEFINE ev == [by |-> admin, action |-> "approve"]
    <3>1. ev \in SkillEvents
      BY <1>4, EventIs
    <3>2. history' = [history EXCEPT ![r] = Append(history[r], ev)]
      BY <2>1 DEF Note
    <3> HIDE DEF ev
    <3>3. QED  BY <1>1, <1>3, <3>1, <3>2, NotedIs
  <2> HIDE DEF row, parent
  <2>4. revision' \in [Submissions -> RevisionRows \cup {Unsubmitted}]
    BY <1>3, <1>6, <2>2
  <2>5. revision'[r] = row /\ \A q \in Submissions \ {r} : revision'[q] = revision[q]
    BY <1>1, <1>3, <2>2
  <2>6. \A q \in Submissions : RevisionMovesOf(q)
    BY <1>7, <2>3, <2>5 DEF RevisionMovesOf, RevisionMoves
  <2>7. \A q \in Submitted : revision[q].skill = s => revision[q].status # "active"
    <3>1. \A q \in Submitted : revision[q].status = "active" /\ revision[q].skill = s => revision[q].number = 0
      BY <1>8 DEF SkillInv, InForce
    <3>2. skill[s].latest \in Nat
      BY <1>3 DEF SkillRows
    <3>3. \A q \in Submitted : revision[q].skill = s => revision[q].number \in 1..skill[s].latest
      BY DEF SkillInv, Numbered
    <3>4. QED  BY <3>1, <3>2, <3>3
  <2>8. \A q \in Submitted : revision[q].skill = s => (revision'[q].status = "active" <=> q = r)
    BY <1>6, <2>5, <2>7 DEF Submitted
  <2>9. \A q \in Submitted : revision[q].skill # s => revision'[q] = revision[q]
    BY <2>5 DEF Submitted
  <2>10. \A q \in Submissions : revision[q].status = "absent" => revision'[q].status = "absent"
    BY <1>1, <2>5
  <2>11. QED  BY <1>5, <1>8, <2>3, <2>4, <2>6, <2>8, <2>9, <2>10 DEF Reviewed
<1>9. CASE old # 0
  <2> DEFINE lost == TransitRow(revision[parent], "superseded")
             middle == [revision EXCEPT ![parent] = lost]
             noted == Note(history, parent, admin, "supersede")
  <2> HIDE DEF lost, middle, noted
  <2>1. /\ parent \in Submitted /\ revision[parent].skill = s /\ revision[parent].status = "active"
        /\ revision[parent].number = old
    BY <1>9, ActiveRevision
  <2>2. parent \in Submissions /\ revision[parent] \in RevisionRows /\ parent # r
    BY <2>1, SubmittedRow DEF SkillInv
  <2>3. /\ revision' = Transition(Transition(revision, parent, "superseded"), r, "active")
        /\ history' = Note(noted, r, admin, "approve")
    BY <1>9 DEF ApproveRevision, noted
  <2> HIDE DEF parent
  <2>4. Transition(revision, parent, "superseded") = middle /\ middle \in [Submissions -> RevisionRows \cup {Unsubmitted}]
    BY <1>3, <1>4, <2>2, TransitionIs DEF middle, lost
  <2>5. middle[r] = revision[r]
    BY <1>1, <1>3, <2>2 DEF middle
  <2>6. /\ noted \in [Submissions -> Seq(SkillEvents)]
        /\ \A q \in Submissions \ {parent} : noted[q] = history[q]
        /\ \E ev \in SkillEvents : noted[parent] = Append(history[parent], ev)
    <3> DEFINE ev == [by |-> admin, action |-> "supersede"]
    <3>1. ev \in SkillEvents
      BY <1>4, EventIs
    <3>2. noted = [history EXCEPT ![parent] = Append(history[parent], ev)]
      BY DEF Note, noted
    <3> HIDE DEF ev
    <3>3. QED  BY <1>3, <2>2, <3>1, <3>2, NotedIs
  <2>7. lost \in RevisionRows /\ lost.status = "superseded"
    BY <1>4, <2>2, TransitRowIs DEF lost
  <2>8. \A ev \in SkillEvents : RevisionMoves(revision[parent], lost, history[parent], Append(history[parent], ev))
    BY <1>4, <2>1, TransitMoves DEF lost
  <2>9. middle[parent] = lost /\ \A q \in Submissions \ {parent} : middle[q] = revision[q]
    BY <1>3, <2>2 DEF middle
  <2> HIDE DEF row
  <2>10. revision' = [middle EXCEPT ![r] = row] /\ revision' \in [Submissions -> RevisionRows \cup {Unsubmitted}]
    <3>1. revision' = Transition(middle, r, "active")
      BY <2>3, <2>4
    <3>2. middle[r] \in RevisionRows
      BY <1>1, <2>5
    <3>3. Transition(middle, r, "active") = [middle EXCEPT ![r] = TransitRow(middle[r], "active")]
          /\ Transition(middle, r, "active") \in [Submissions -> RevisionRows \cup {Unsubmitted}]
      BY <1>1, <1>4, <2>4, <3>2, TransitionIs
    <3>4. QED  BY <2>5, <3>1, <3>3 DEF row
  <2>11. /\ history' \in [Submissions -> Seq(SkillEvents)]
         /\ \A q \in Submissions \ {r} : history'[q] = noted[q]
         /\ \E ev \in SkillEvents : history'[r] = Append(noted[r], ev)
    <3> DEFINE ev == [by |-> admin, action |-> "approve"]
    <3>1. ev \in SkillEvents
      BY <1>4, EventIs
    <3>2. history' = [noted EXCEPT ![r] = Append(noted[r], ev)]
      BY <2>3 DEF Note
    <3> HIDE DEF ev
    <3>3. QED  BY <1>1, <2>6, <3>1, <3>2, NotedIs
  <2>12. /\ revision'[r] = row /\ revision'[parent] = lost
         /\ \A q \in Submissions \ {r, parent} : revision'[q] = revision[q]
    BY <1>1, <2>2, <2>4, <2>9, <2>10
  <2>13. \A q \in Submissions : RevisionMovesOf(q)
    <3>1. RevisionMovesOf(r)
      BY <1>1, <1>7, <2>2, <2>6, <2>11, <2>12 DEF RevisionMovesOf
    <3>2. RevisionMovesOf(parent)
      BY <2>2, <2>6, <2>8, <2>11, <2>12 DEF RevisionMovesOf
    <3>3. \A q \in Submissions \ {r, parent} : RevisionMovesOf(q)
      BY <2>6, <2>11, <2>12 DEF RevisionMovesOf, RevisionMoves
    <3>4. QED  BY <3>1, <3>2, <3>3
  <2>14. \A q \in Submitted : revision[q].skill = s => (revision'[q].status = "active" <=> q = r)
    <3>1. \A q \in Submitted : revision[q].skill = s /\ revision[q].status = "active" => q = parent
      <4>1. \A q \in Submitted : revision[q].skill = s /\ revision[q].status = "active" => revision[q].number = old
        BY DEF SkillInv, InForce
      <4>2. QED  BY <2>1, <4>1 DEF SkillInv, Numbered
    <3>2. QED  BY <1>6, <2>7, <2>12, <3>1 DEF Submitted
  <2>15. \A q \in Submitted : revision[q].skill # s => revision'[q] = revision[q]
    BY <2>1, <2>12 DEF Submitted
  <2>16. \A q \in Submissions : revision[q].status = "absent" => revision'[q].status = "absent"
    BY <1>1, <2>1, <2>12
  <2>17. QED  BY <1>2, <1>5, <2>10, <2>11, <2>13, <2>14, <2>15, <2>16 DEF Reviewed
<1>10. QED  BY <1>8, <1>9

\* A revision that is rejected, archived or erased.
LEMMA RetireStep ==
  ASSUME SkillInv, NEW r \in Submitted, NEW s \in Skills, s = revision[r].skill, NEW admin \in Admins,
         NEW action \in {"reject", "archive", "forget"}, revision[r].status # "forgotten",
         Retire(r, admin, action)
  PROVE  Reviewed(r, s)
<1> DEFINE after == CASE action = "reject" -> "rejected" [] action = "archive" -> "archived"
                      [] action = "forget" -> "forgotten"
           row == TransitRow(revision[r], after)
<1>1. after \in {"rejected", "archived", "forgotten"}
  OBVIOUS
<1>2. /\ r \in Submissions /\ revision[r] \in RevisionRows /\ revision[r].number \in Nat
      /\ revision[r].status # "absent"
  BY SubmittedRow DEF SkillInv, RevisionRows
<1>3. /\ revision \in [Submissions -> RevisionRows \cup {Unsubmitted}]
      /\ history \in [Submissions -> Seq(SkillEvents)] /\ skill \in [Skills -> SkillRows]
  BY DEF SkillInv, SkillTyped
<1>4. /\ skill' = [skill EXCEPT ![s].active = IF skill[s].active = revision[r].number THEN 0 ELSE skill[s].active]
      /\ revision' = Transition(revision, r, after) /\ history' = Note(history, r, admin, action)
  BY DEF Retire
<1> HIDE DEF after
<1>5. after \in SkillStates \ {"absent", "pending"} /\ after # "active" /\ action \in Actions \cup {"supersede"}
  BY <1>1 DEF SkillStates, Actions
<1>6. row \in RevisionRows /\ row.status = after
  BY <1>2, <1>5, TransitRowIs
<1>7. \A ev \in SkillEvents : RevisionMoves(revision[r], row, history[r], Append(history[r], ev))
  BY <1>2, <1>5, TransitMoves
<1>8. revision' = [revision EXCEPT ![r] = row]
  BY <1>2, <1>3, <1>4, <1>5, TransitionIs
<1> HIDE DEF row
<1>9. /\ history' \in [Submissions -> Seq(SkillEvents)]
      /\ \A q \in Submissions \ {r} : history'[q] = history[q]
      /\ \E ev \in SkillEvents : history'[r] = Append(history[r], ev)
  <2> DEFINE ev == [by |-> admin, action |-> action]
  <2>1. ev \in SkillEvents
    BY <1>5, EventIs
  <2>2. history' = [history EXCEPT ![r] = Append(history[r], ev)]
    BY <1>4 DEF Note
  <2> HIDE DEF ev
  <2>3. QED  BY <1>2, <1>3, <2>1, <2>2, NotedIs
<1>10. /\ revision' \in [Submissions -> RevisionRows \cup {Unsubmitted}] /\ revision'[r] = row
       /\ \A q \in Submissions \ {r} : revision'[q] = revision[q]
  BY <1>2, <1>3, <1>6, <1>8
<1>11. \A q \in Submissions : RevisionMovesOf(q)
  BY <1>7, <1>9, <1>10 DEF RevisionMovesOf, RevisionMoves
<1>12. /\ skill' \in [Skills -> SkillRows]
       /\ skill'[s].active = IF skill[s].active = revision[r].number THEN 0 ELSE skill[s].active
       /\ \A t \in Skills : skill'[t].latest = skill[t].latest /\ skill'[t].active <= skill[t].latest
       /\ \A t \in Skills \ {s} : skill'[t] = skill[t]
  <2> DEFINE n == IF skill[s].active = revision[r].number THEN 0 ELSE skill[s].active
  <2>1. skill[s] \in SkillRows /\ skill[s].latest \in Nat /\ skill[s].active \in Nat
    BY <1>3 DEF SkillRows
  <2>2. n \in Nat /\ n <= skill[s].latest
    BY <2>1 DEF SkillInv, Numbered
  <2>3. skill' = [skill EXCEPT ![s].active = n]
    BY <1>4
  <2>4. \A t \in Skills : skill[t].active <= skill[t].latest
    BY DEF SkillInv, Numbered
  <2> HIDE DEF n
  <2>5. [skill[s] EXCEPT !.active = n] \in SkillRows
    BY <2>1, <2>2 DEF SkillRows
  <2>6. skill'[s].active = n /\ skill'[s].latest = skill[s].latest /\ \A t \in Skills \ {s} : skill'[t] = skill[t]
    BY <1>3, <2>1, <2>3 DEF SkillRows
  <2>7. skill' \in [Skills -> SkillRows]
    BY <1>3, <2>3, <2>5
  <2>8. QED  BY <2>2, <2>4, <2>6, <2>7 DEF n
<1>13. \A q \in Submitted : revision[q].skill # s => revision'[q] = revision[q]
  BY <1>10 DEF Submitted
<1>14. \A q \in Submissions : revision[q].status = "absent" => revision'[q].status = "absent"
  BY <1>2, <1>10
<1>15. revision'[r].status # "active"
  BY <1>5, <1>6, <1>10
<1>16. CASE skill[s].active = revision[r].number
  <2>1. \A q \in Submitted : revision[q].skill = s => revision'[q].status # "active"
    <3>1. \A q \in Submitted : revision[q].skill = s /\ revision[q].status = "active" => q = r
      BY <1>16 DEF SkillInv, InForce, Numbered
    <3>2. QED  BY <1>10, <1>15, <3>1 DEF Submitted
  <2>2. QED  BY <1>9, <1>10, <1>11, <1>12, <1>13, <1>14, <1>16, <2>1 DEF Reviewed
<1>17. CASE skill[s].active # revision[r].number
  <2>1. revision[r].status # "active"
    BY <1>17 DEF SkillInv, InForce
  <2>2. \A q \in Submitted : revision[q].skill = s =>
           (revision'[q].status = "active" <=> revision[q].status = "active")
    BY <1>10, <1>15, <2>1 DEF Submitted
  <2>3. QED  BY <1>9, <1>10, <1>11, <1>12, <1>13, <1>14, <1>17, <2>2 DEF Reviewed
<1>18. QED  BY <1>16, <1>17

\* A review is one or the other.
LEMMA ReviewSkillStep ==
  ASSUME SkillInv, NEW r \in Submissions, NEW admin \in Admins, NEW action \in Actions, NEW expected,
         ReviewSkill(r, admin, action, expected)
  PROVE  r \in Submitted /\ revision[r].skill \in Skills /\ UNCHANGED experienceVars
         /\ \A s \in Skills : s = revision[r].skill => Reviewed(r, s)
<1>1. r \in Submitted /\ SkillReviewable(r, action, expected) /\ UNCHANGED experienceVars
  BY DEF ReviewSkill
<1>2. revision[r].skill \in Skills
  BY <1>1, SubmittedRow DEF SkillInv, RevisionRows
<1>3. CASE action = "approve"
  <2>1. revision[r].status = "pending" /\ ApproveRevision(r, admin)
    BY <1>1, <1>3 DEF ReviewSkill, SkillReviewable
  <2>2. QED  BY <1>1, <1>2, <2>1, ApproveRevisionStep
<1>4. CASE action # "approve"
  <2>1. action \in {"reject", "archive", "forget"} /\ revision[r].status # "forgotten" /\ Retire(r, admin, action)
    BY <1>1, <1>4 DEF ReviewSkill, SkillReviewable, Actions
  <2>2. QED  BY <1>1, <1>2, <2>1, RetireStep
<1>5. QED  BY <1>3, <1>4

(***************************************************************************)
(* The trigger.                                                            *)
(***************************************************************************)

\* What the trigger does to a revision is a move of it.
LEMMA StrickenMoves ==
  ASSUME SkillTyped, InvalidateSkills, NEW r \in Submissions
  PROVE  /\ RevisionMovesOf(r)
         /\ r \notin Stricken => revision'[r] = revision[r]
         /\ r \in Stricken =>
              /\ r \in Submitted /\ revision[r].status # "forgotten"
              /\ revision'[r].status = IF Erased(r) THEN "forgotten" ELSE "stale"
<1>1. revision'[r] = IF r \notin Stricken THEN revision[r]
                     ELSE IF Erased(r) THEN [revision[r] EXCEPT !.status = "forgotten", !.body = None]
                     ELSE [revision[r] EXCEPT !.status = "stale"]
  BY DEF InvalidateSkills
<1>2. history'[r] = IF r \notin Stricken THEN history[r]
                    ELSE Append(history[r], [by |-> "source-lifecycle", action |-> "invalidate"])
  BY DEF InvalidateSkills
<1>3. CASE r \notin Stricken
  BY <1>1, <1>2, <1>3 DEF RevisionMovesOf, RevisionMoves
<1>4. CASE r \in Stricken
  <2> DEFINE ev == [by |-> "source-lifecycle", action |-> "invalidate"]
             status == IF Erased(r) THEN "forgotten" ELSE "stale"
  <2>1. r \in Submitted /\ revision[r].status # "forgotten"
    BY <1>4 DEF Stricken, Hit
  <2>2. revision[r] \in RevisionRows /\ revision[r].status # "absent"
    BY <2>1, SubmittedRow
  <2>3. ev \in SkillEvents
    BY DEF SkillEvents
  <2>4. history'[r] = Append(history[r], ev)
    BY <1>2, <1>4
  <2>5. revision'[r] = TransitRow(revision[r], status)
    BY <1>1, <1>4, <2>2 DEF TransitRow, RevisionRows
  <2>6. status \in SkillStates \ {"absent", "pending"} /\ status # "active"
    BY DEF SkillStates
  <2> HIDE DEF ev, status
  <2>7. RevisionMovesOf(r)
    BY <2>1, <2>2, <2>3, <2>4, <2>5, <2>6, TransitMoves DEF RevisionMovesOf
  <2>8. revision'[r].status = status
    BY <2>2, <2>5, <2>6, TransitRowIs
  <2>9. QED  BY <1>4, <2>1, <2>7, <2>8 DEF status
<1>5. QED  BY <1>3, <1>4

\* The skills are typed after it, and move as their revisions do.
LEMMA InvalidatedSkills ==
  ASSUME SkillInv, InvalidateSkills, NEW s \in Skills
  PROVE  /\ skill'[s] \in SkillRows
         /\ skill'[s].latest = skill[s].latest /\ skill'[s].active <= skill[s].latest
         /\ skill'[s].active \in {0, skill[s].active}
         /\ \/ /\ skill'[s].active = skill[s].active
               /\ \A q \in Submitted : revision[q].skill = s =>
                    (revision'[q].status = "active" <=> revision[q].status = "active")
            \/ /\ skill'[s].active = 0
               /\ \A q \in Submitted : revision[q].skill = s => revision'[q].status # "active"
<1> DEFINE struck == \E r \in Stricken : revision[r].skill = s /\ revision[r].number = skill[s].active
<1>1. skill'[s] = IF struck THEN [skill[s] EXCEPT !.active = 0] ELSE skill[s]
  BY DEF InvalidateSkills
<1>2. skill[s] \in SkillRows /\ skill[s].active \in Nat /\ skill[s].latest \in Nat
      /\ skill[s].active <= skill[s].latest
  BY DEF SkillInv, SkillTyped, SkillRows, Numbered
<1>3. \A q \in Submitted : /\ q \in Submissions
                           /\ q \notin Stricken => revision'[q] = revision[q]
                           /\ q \in Stricken => revision'[q].status # "active"
  BY StrickenMoves DEF SkillInv, Submitted
<1>4. \A q \in Submitted : revision[q].skill = s =>
        (revision[q].status = "active" <=> skill[s].active = revision[q].number)
  BY DEF SkillInv, InForce
<1>5. CASE struck
  <2>1. PICK r \in Stricken : revision[r].skill = s /\ revision[r].number = skill[s].active
    BY <1>5
  <2>2. r \in Submitted
    BY StrickenMoves DEF SkillInv, Stricken
  <2>3. \A q \in Submitted : revision[q].skill = s /\ revision[q].status = "active" => q = r
    BY <1>4, <2>1, <2>2 DEF SkillInv, Numbered
  <2>4. \A q \in Submitted : revision[q].skill = s => revision'[q].status # "active"
    BY <1>3, <2>1, <2>3
  <2>5. /\ skill'[s] \in SkillRows /\ skill'[s].latest = skill[s].latest
        /\ skill'[s].active = 0 /\ skill'[s].active <= skill[s].latest
    BY <1>1, <1>2, <1>5 DEF SkillRows
  <2>6. QED  BY <2>4, <2>5
<1>6. CASE ~struck
  <2>1. skill'[s] = skill[s]
    BY <1>1, <1>6
  <2>2. \A q \in Submitted : revision[q].skill = s =>
          (revision'[q].status = "active" <=> revision[q].status = "active")
    BY <1>3, <1>4, <1>6
  <2>3. QED  BY <1>2, <2>1, <2>2
<1>7. QED  BY <1>5, <1>6

\* What stays pending or in force still cites what is in force, as it was cited;
\* what cites something erased is erased.
LEMMA InvalidatedFollow ==
  ASSUME ExperienceInv, Effects, SkillInv, InvalidateSkills
  PROVE  Followed'
<1> SUFFICES ASSUME NEW r \in Submitted', NEW e \in DOMAIN revision'[r].cites
             PROVE  /\ revision'[r].status \in {"pending", "active"} =>
                         experience'[e].status = "active" /\ Len(log'[e]) + 1 = revision'[r].cites[e]
                    /\ experience'[e].status = "forgotten" => revision'[r].status = "forgotten"
  BY DEF Followed, Version
<1>1. r \in Submissions /\ revision'[r].status # "absent"
  BY DEF Submitted
<1>2. /\ RevisionMovesOf(r)
      /\ r \notin Stricken => revision'[r] = revision[r]
      /\ r \in Stricken => /\ r \in Submitted /\ revision[r].status # "forgotten"
                           /\ revision'[r].status = IF Erased(r) THEN "forgotten" ELSE "stale"
  BY <1>1, StrickenMoves DEF SkillInv
<1>3. r \in Submitted
  BY <1>1, <1>2 DEF Submitted
<1>4. SameRevision(revision[r], revision'[r])
  BY <1>2, <1>3, StaysSubmitted DEF SkillInv
<1>5. revision'[r].cites = revision[r].cites /\ e \in DOMAIN revision[r].cites
  BY <1>4 DEF SameRevision
<1>6. e \in Experiences /\ experience[e].status # "absent"
  BY <1>3, <1>5 DEF SkillInv, Cited, Proposed
<1>7. /\ revision[r].status \in {"pending", "active"} =>
           experience[e].status = "active" /\ Len(log[e]) + 1 = revision[r].cites[e]
      /\ experience[e].status = "forgotten" => revision[r].status = "forgotten"
  BY <1>3, <1>5 DEF SkillInv, Followed, Version
<1>8. ASSUME revision'[r].status \in {"pending", "active"}
      PROVE  experience'[e].status = "active" /\ Len(log'[e]) + 1 = revision'[r].cites[e]
  <2>1. r \notin Stricken /\ revision'[r] = revision[r]
    BY <1>2, <1>8
  <2>2. ~Hit(r, e)
    BY <1>1, <1>6, <2>1 DEF Stricken
  <2>3. CASE Changed(e)
    BY <1>3, <1>5, <1>8, <2>1, <2>2, <2>3 DEF Hit
  <2>4. CASE ~Changed(e)
    <3>1. experience'[e].status = experience[e].status /\ log'[e] = log[e]
      BY <1>6, <2>4 DEF Changed
    <3>2. QED  BY <1>7, <1>8, <2>1, <3>1
  <2>5. QED  BY <2>3, <2>4
<1>9. ASSUME experience'[e].status = "forgotten"
      PROVE  revision'[r].status = "forgotten"
  <2>1. CASE revision[r].status = "forgotten"
    BY <1>2, <2>1
  <2>2. CASE revision[r].status # "forgotten"
    <3>1. experience[e].status # "forgotten"
      BY <1>7, <2>2
    <3>2. Hit(r, e)
      BY <1>3, <1>5, <1>6, <1>9, <2>2, <3>1 DEF Hit, Changed
    <3>3. r \in Stricken /\ Erased(r)
      BY <1>1, <1>6, <1>9, <3>2 DEF Stricken, Erased
    <3>4. QED  BY <1>2, <3>3
  <2>3. QED  BY <2>1, <2>2
<1>10. QED  BY <1>8, <1>9

\* The trigger keeps the invariant.
LEMMA InvalidateStep ==
  ASSUME ExperienceInv, Effects, SkillInv, InvalidateSkills
  PROVE  SkillInv' /\ (\A r \in Submissions : RevisionMovesOf(r))
<1>1. \A r \in Submissions : RevisionMovesOf(r)
  BY StrickenMoves DEF SkillInv
<1>2. \A r \in Submissions : revision[r].status = "absent" => revision'[r].status = "absent"
  BY StrickenMoves DEF SkillInv, Submitted
<1>3. Submitted' = Submitted
  <2>1. \A r \in Submissions : revision[r].status # "absent" => revision'[r].status # "absent"
    BY <1>1, KeptRevision DEF SkillInv
  <2>2. QED  BY <1>2, <2>1 DEF Submitted
<1>4. SkillTyped'
  <2>1. \A r \in Submissions : revision'[r] \in RevisionRows \cup {Unsubmitted} /\ history'[r] \in Seq(SkillEvents)
    BY <1>1, KeptRevision DEF SkillInv
  <2>2. \A s \in Skills : skill'[s] \in SkillRows
    BY InvalidatedSkills
  <2>3. /\ skill' = [s \in Skills |-> skill'[s]] /\ revision' = [r \in Submissions |-> revision'[r]]
        /\ history' = [r \in Submissions |-> history'[r]]
    BY DEF InvalidateSkills
  <2>4. QED  BY <2>1, <2>2, <2>3 DEF SkillTyped
<1>5. Numbered'
  BY <1>1, <1>3, InvalidatedSkills, NumberedKept DEF SkillInv
<1>6. Bodied' /\ Empty'
  BY <1>1, BodiedKept DEF SkillInv
<1>7. InForce'
  <2>1. \A s \in Skills :
           \/ /\ skill'[s].active = skill[s].active
              /\ \A q \in Submitted : revision[q].skill = s =>
                   (revision'[q].status = "active" <=> revision[q].status = "active")
           \/ /\ skill'[s].active = 0
              /\ \A q \in Submitted : revision[q].skill = s => revision'[q].status # "active"
    BY InvalidatedSkills
  <2>2. QED  BY <1>1, <1>3, <2>1, InForceKept DEF SkillInv
<1>8. Cited'
  BY <1>1, <1>2, CitedKept DEF SkillInv
<1>9. QED  BY <1>1, <1>4, <1>5, <1>6, <1>7, <1>8, InvalidatedFollow DEF SkillInv

(***************************************************************************)
(* Every step.                                                             *)
(***************************************************************************)

Advances ==
  \A s \in Skills : skill[s].active # 0 /\ skill'[s].active # 0 => skill'[s].active >= skill[s].active

\* A review of a revision only lets a later one take the place of the active one.
LEMMA ReviewedAdvances ==
  ASSUME SkillInv, NEW r \in Submitted, NEW s \in Skills, s = revision[r].skill, Reviewed(r, s)
  PROVE  Advances
<1>1. revision[r].base < revision[r].number /\ revision[r].base \in Nat /\ revision[r].number \in Nat
  BY SubmittedRow DEF SkillInv, Numbered, RevisionRows
<1>2. \A t \in Skills : skill[t].active \in Nat
  BY DEF SkillInv, SkillTyped, SkillRows
<1>3. ASSUME skill[s].active # 0, skill'[s].active # 0
      PROVE  skill'[s].active >= skill[s].active
  BY <1>1, <1>2, <1>3 DEF Reviewed
<1>4. \A t \in Skills \ {s} : skill'[t].active = skill[t].active
  BY DEF Reviewed
<1>5. QED  BY <1>2, <1>3, <1>4 DEF Advances

\* The invariant of the skills is inductive, next to that of the experiences.
LEMMA SkillInductive ==
  ASSUME ExperienceInv, SkillInv, [Next]_vars
  PROVE  SkillInv' /\ (\A r \in Submissions : RevisionMovesOf(r)) /\ Advances
<1>1. Effects
  BY StepEffects
<1>2. \A s \in Skills : skill[s].active \in Nat
  BY DEF SkillInv, SkillTyped, SkillRows
<1>3. ASSUME UNCHANGED skillVars
      PROVE  (\A r \in Submissions : RevisionMovesOf(r)) /\ Advances
  BY <1>2, <1>3 DEF skillVars, RevisionMovesOf, RevisionMoves, Advances
<1>4. CASE Tick \/ UNCHANGED vars
  <2>1. UNCHANGED skillVars /\ UNCHANGED experienceVars
    BY <1>4 DEF Tick, vars
  <2>2. \A e \in Proposed : experience'[e] = experience[e] /\ log'[e] = log[e]
    BY <2>1 DEF experienceVars
  <2>3. QED  BY <1>1, <1>3, <2>1, <2>2, QuietStep
<1>5. CASE SubmitExperience /\ UNCHANGED skillVars
  BY <1>1, <1>3, <1>5, ProposalsAdd, QuietStep
<1>6. CASE ReviewExperience /\ InvalidateSkills
  <2>1. \A s \in Skills : skill'[s].active \in {0, skill[s].active}
    BY <1>6, InvalidatedSkills
  <2>2. Advances
    BY <1>2, <2>1 DEF Advances
  <2>3. QED  BY <1>1, <1>6, <2>2, InvalidateStep
<1>7. CASE SubmitSkill
  <2>1. SkillInv' /\ (\A r \in Submissions : RevisionMovesOf(r))
        /\ (\A s \in Skills : skill'[s].active = skill[s].active)
    BY <1>1, <1>7, SubmitStep
  <2>2. QED  BY <1>2, <2>1 DEF Advances
<1>8. ASSUME NEW r \in Submissions, NEW admin \in Admins, NEW action \in Actions, NEW expected,
             ReviewSkill(r, admin, action, expected)
      PROVE  SkillInv' /\ (\A q \in Submissions : RevisionMovesOf(q)) /\ Advances
  <2> DEFINE s == revision[r].skill
  <2>1. r \in Submitted /\ s \in Skills /\ UNCHANGED experienceVars /\ Reviewed(r, s)
    BY <1>8, ReviewSkillStep
  <2>2. SkillInv'
    BY <1>1, <2>1, ReviewedKeeps
  <2>3. Advances
    BY <2>1, ReviewedAdvances
  <2>4. QED  BY <2>1, <2>2, <2>3 DEF Reviewed
<1>9. QED  BY <1>4, <1>5, <1>6, <1>7, <1>8 DEF Next

\* It holds at first.
LEMMA SkillInitial ==
  ASSUME Init
  PROVE  SkillInv
<1>1. Submitted = {}
  BY DEF Init, Submitted, Unsubmitted
<1>2. [latest |-> 0, active |-> 0, level |-> 0] \in SkillRows
  BY DEF SkillRows, Levels
<1>3. SkillTyped
  BY <1>2 DEF Init, SkillTyped
<1>4. Numbered /\ Bodied /\ InForce /\ Cited /\ Followed
  BY <1>1 DEF Init, Numbered, Bodied, InForce, Cited, Followed
<1>5. Empty
  BY DEF Init, Empty
<1>6. QED  BY <1>3, <1>4, <1>5 DEF SkillInv

\* The guard on revisions never refuses a step.
LEMMA RevisionGuarded ==
  ASSUME SkillInv, SkillInv', NEW r \in Submitted, RevisionMovesOf(r)
  PROVE  RevisionGuard(revision[r], revision'[r], history[r])
<1> DEFINE old == revision[r]  new == revision'[r]
<1>1. r \in Submissions /\ old.status # "absent"
  BY DEF Submitted
<1>2. /\ r \in Submitted' /\ SameRevision(old, new)
      /\ old.status = "forgotten" => new = old
      /\ new.status = "active" /\ old.status # "active" => old.status = "pending" /\ old.origin = "manual"
      /\ new.status # "forgotten" => new.body = old.body
      /\ new.status = "forgotten" /\ old.status # "forgotten" => new.body = None
  BY <1>1, KeptRevision DEF SkillInv, Submitted
<1>3. /\ IF old.status = "forgotten" THEN old.body = None ELSE old.body \in Bodies
      /\ old.status = "pending" => history[r] = <<>>
      /\ old.status = "active" => old.origin = "manual"
  BY DEF SkillInv, Bodied
<1>4. /\ IF new.status = "forgotten" THEN new.body = None ELSE new.body \in Bodies
      /\ new.status = "active" => new.origin = "manual"
  BY <1>2 DEF SkillInv, Bodied
<1>5. \A f \in {"skill", "number", "base", "origin", "level", "cites"} : new[f] = old[f]
  BY <1>2 DEF SameRevision
<1>6. new.body # old.body => new.status = "forgotten" /\ new.body = None
  BY <1>2, <1>4
<1>7. new.status = "forgotten" <=> new.body = None
  BY <1>4, SkillAssumption
<1>8. new.status = "active" /\ old.status # "active" => \A i \in DOMAIN history[r] : history[r][i].action # "approve"
  BY <1>2, <1>3
<1>9. QED  BY <1>2, <1>4, <1>5, <1>6, <1>7, <1>8 DEF RevisionGuard

(***************************************************************************)
(* The theorems.                                                           *)
(***************************************************************************)

\* The invariants of experiences and skills always hold.
THEOREM ReviewIsSafe == Spec => [](ExperienceInv /\ SkillInv)
<1>1. Init => ExperienceInv /\ SkillInv
  BY ExperienceInitial, SkillInitial
<1>2. ExperienceInv /\ SkillInv /\ [Next]_vars => (ExperienceInv /\ SkillInv)'
  BY ExperienceInductive, SkillInductive
<1>3. QED  BY <1>1, <1>2, PTL DEF Spec

\* What a reader may see of a skill, it may see of what the skill cites.
LEMMA ReadableSources ==
  ASSUME ExperienceInv, SkillInv, NEW r \in Submitted, NEW e \in DOMAIN revision[r].cites,
         NEW h \in Handoffs, SkillReadable(r, LevelOf[h])
  PROVE  Readable(e, LevelOf[h])
<1>1. e \in Proposed /\ experience[e].level <= revision[r].level
  BY DEF SkillInv, Cited
<1>2. experience[e].level \in Levels /\ revision[r].level \in Levels /\ LevelOf[h] \in Levels
  BY <1>1, ProposedRow, SubmittedRow, ReviewAssumption
     DEF ExperienceInv, SkillInv, Proposed, ExperienceRows, RevisionRows
<1>3. revision[r].level <= LevelOf[h] /\ experience[e].status = "active" /\ Valid(experience[e].window)
  BY DEF SkillReadable, Fresh, Captured
<1>4. experience[e].level <= LevelOf[h]
  BY <1>1, <1>2, <1>3 DEF Levels
<1>5. QED  BY <1>3, <1>4 DEF Readable

\* One experience of a family and one revision of a skill is in force, only on
\* live sources, and erased with them: reviews, submissions and the trigger keep
\* both sides in step.
THEOREM ReviewStaysSound == Spec => []ReviewIsSound
<1>1. ExperienceInv /\ SkillInv => TypeOK
  BY DEF ExperienceInv, SkillInv, SkillTyped, TypeOK
<1>2. ExperienceInv /\ SkillInv => OneActive
  BY DEF ExperienceInv, SkillInv, OneOfFamily, InForce, OneActive
<1>3. ASSUME ExperienceInv, SkillInv
      PROVE  SkillsFollowTheirSources
  <2> SUFFICES ASSUME NEW r \in Submitted
               PROVE  /\ revision[r].status \in {"pending", "active"} =>
                           \A e \in DOMAIN revision[r].cites :
                             experience[e].status = "active" /\ Version(e) = revision[r].cites[e]
                      /\ (\E e \in DOMAIN revision[r].cites : experience[e].status = "forgotten") =>
                           revision[r].status = "forgotten" /\ revision[r].body = None
                      /\ \A e \in DOMAIN revision[r].cites : \A ceiling \in {LevelOf[h] : h \in Handoffs} :
                           SkillReadable(r, ceiling) => Readable(e, ceiling)
    BY DEF SkillsFollowTheirSources
  <2>1. \A e \in DOMAIN revision[r].cites :
          /\ revision[r].status \in {"pending", "active"} =>
               experience[e].status = "active" /\ Version(e) = revision[r].cites[e]
          /\ experience[e].status = "forgotten" => revision[r].status = "forgotten"
    BY <1>3 DEF SkillInv, Followed
  <2>2. revision[r].status = "forgotten" => revision[r].body = None
    BY <1>3 DEF SkillInv, Bodied
  <2>3. \A e \in DOMAIN revision[r].cites : \A ceiling \in {LevelOf[h] : h \in Handoffs} :
          SkillReadable(r, ceiling) => Readable(e, ceiling)
    BY <1>3, ReadableSources
  <2>4. QED  BY <2>1, <2>2, <2>3
<1>4. ExperienceInv /\ SkillInv => ReviewIsSound
  BY <1>1, <1>2, <1>3 DEF ReviewIsSound
<1>5. QED  BY <1>4, ReviewIsSafe, PTL

\* Only a revision that was submitted after the active one takes its place,
\* because an approval is of the base that its submission saw.
THEOREM SkillsOnlyAdvance == Spec => SkillOnlyAdvances
<1>1. ExperienceInv /\ SkillInv /\ [Next]_vars =>
        [\A s \in Skills : skill[s].active # 0 /\ skill'[s].active # 0 =>
           skill'[s].active >= skill[s].active]_vars
  BY SkillInductive DEF Advances
<1>2. QED  BY <1>1, ReviewIsSafe, PTL DEF Spec, SkillOnlyAdvances

\* What is suppressed enters neither the queue nor the memory, and no approval
\* suppresses what it lets in.
THEOREM SuppressedIsKeptOut == Spec => SuppressedStaysOut
<1>1. ASSUME ExperienceInv, [Next]_vars, NEW c \in Claims,
             \E e \in Experiences : Enters(e) /\ experience'[e].claim = c
      PROVE  ~Suppressed(c) /\ ~Suppressed(c)'
  BY <1>1, EntersAdmitted
<1>2. ExperienceInv /\ SkillInv /\ [Next]_vars =>
        [\A c \in Claims :
           (\E e \in Experiences : Enters(e) /\ experience'[e].claim = c) =>
             ~Suppressed(c) /\ ~Suppressed(c)']_vars
  BY <1>1
<1>3. QED  BY <1>2, ReviewIsSafe, PTL DEF Spec, SuppressedStaysOut

\* The triggers and checks of the database never refuse what the service does.
THEOREM GuardsAgree == Spec => GuardsNeverRefuse
<1>1. ASSUME ExperienceInv, SkillInv, [Next]_vars
      PROVE  /\ \A e \in Proposed : ExperienceGuard(experience[e], experience'[e], log[e], log'[e])
             /\ \A r \in Submitted : RevisionGuard(revision[r], revision'[r], history[r])
  <2>1. Effects
    BY <1>1, StepEffects
  <2>2. SkillInv' /\ \A r \in Submissions : RevisionMovesOf(r)
    BY <1>1, SkillInductive
  <2>3. \A e \in Proposed : ExperienceGuard(experience[e], experience'[e], log[e], log'[e])
    BY <1>1, <2>1, ExperienceGuarded
  <2>4. \A r \in Submitted : RevisionGuard(revision[r], revision'[r], history[r])
    BY <1>1, <2>2, RevisionGuarded DEF Submitted
  <2>5. QED  BY <2>3, <2>4
<1>2. ExperienceInv /\ SkillInv /\ [Next]_vars =>
        [/\ \A e \in Proposed : ExperienceGuard(experience[e], experience'[e], log[e], log'[e])
         /\ \A r \in Submitted : RevisionGuard(revision[r], revision'[r], history[r])]_vars
  BY <1>1
<1>3. QED  BY <1>2, ReviewIsSafe, PTL DEF Spec, GuardsNeverRefuse
=============================================================================
