-------------------------- MODULE ExperienceReview --------------------------
(***************************************************************************)
(* Experiences of one project: writers propose them, administrators review *)
(* them, replace them by corrections, and forget them.  What was rejected, *)
(* superseded or forgotten is suppressed, as the claim that a source makes *)
(* rather than as a row, until an administrator releases it.               *)
(*                                                                         *)
(* Every operation is one transaction under the lock of the project.  An   *)
(* experience is named after the key of its proposal: a key is used once,  *)
(* and its receipt answers every repetition, whatever became of the row.   *)
(* The version of a row is one more than the length of its log.            *)
(***************************************************************************)
EXTENDS Integers, Sequences, FiniteSets

CONSTANTS Experiences,
          Admins,
          Handoffs, LevelOf,  \* sources, and their classifications
          Texts,              \* kinds and contents, up to their fingerprint
          Windows,            \* validity intervals
          Forever,            \* an open end
          None,
          MaxTime             \* bound on the clock

\* CLASSIFICATIONS
Levels == 0..3

ASSUME ReviewAssumption ==
  /\ LevelOf \in [Handoffs -> Levels]
  /\ None \notin Experiences \cup Handoffs \cup Texts
  /\ MaxTime \in Nat

VARIABLES now,
          experience,         \* memory_experiences
          log,                \* memory_experience_events
          suppression         \* memory_experience_suppressions

experienceVars == <<experience, log, suppression>>

ExperienceStates == {"absent", "pending", "active", "rejected", "archived", "superseded", "forgotten"}

Actions == {"approve", "reject", "archive", "forget"}

\* What is suppressed: the payload of a source and the fingerprint of a text.
Claims == Handoffs \X Texts

ExperienceRows ==
  [status : ExperienceStates, claim : Claims, source : Handoffs \cup {None},
   content : Texts \cup {None}, level : Levels, window : Windows,
   parent : Experiences \cup {None}, parentVersion : Nat, root : Experiences \cup {None}, number : Nat]

Unproposed == [status |-> "absent"]

ExperienceEvents == [by : Admins, action : Actions \cup {"supersede"}]

Suppressions == [version : Nat, by : Admins \cup {None}, released : BOOLEAN]

ReviewTypeOK ==
  /\ now \in 0..MaxTime
  /\ experience \in [Experiences -> ExperienceRows \cup {Unproposed}]
  /\ log \in [Experiences -> Seq(ExperienceEvents)]
  /\ suppression \in [Claims -> Suppressions]

ExperienceInit ==
  /\ experience = [e \in Experiences |-> Unproposed]
  /\ log = [e \in Experiences |-> <<>>]
  /\ suppression = [c \in Claims |-> [version |-> 0, by |-> None, released |-> TRUE]]

Version(e) == Len(log[e]) + 1

Proposed == {e \in Experiences : experience[e].status # "absent"}

Family(e) == IF experience[e].root = None THEN e ELSE experience[e].root

Begun(w) == w.from <= now
Ended(w) == w.until # Forever /\ w.until <= now
Valid(w) == Begun(w) /\ ~Ended(w)

Suppressed(c) == suppression[c].version > 0 /\ ~suppression[c].released

MaxLevel(a, b) == IF a > b THEN a ELSE b

(***************************************************************************)
(* Proposals.                                                              *)
(***************************************************************************)

Admissible(claim, w) ==
  /\ ~Ended(w)
  /\ w.until # Forever => w.from < w.until
  /\ ~Suppressed(claim)

Insert(e, row) ==
  /\ experience' = [experience EXCEPT ![e] = row]
  /\ UNCHANGED <<now, log, suppression>>

Propose(e, h, text, w) ==
  /\ experience[e].status = "absent"
  /\ Admissible(<<h, text>>, w)
  /\ Insert(e, [status |-> "pending", claim |-> <<h, text>>, source |-> h, content |-> text,
                level |-> LevelOf[h], window |-> w, parent |-> None, parentVersion |-> 0,
                root |-> None, number |-> 1])

\* A correction of an active experience at the version its author saw; it keeps
\* the source unless it brings one.
Revise(e, p, expected, given, text, w) ==
  LET h == IF given = None THEN experience[p].source ELSE given IN
  /\ experience[e].status = "absent"
  /\ experience[p].status = "active"
  /\ expected = Version(p)
  /\ Admissible(<<h, text>>, w)
  /\ Insert(e, [status |-> "pending", claim |-> <<h, text>>, source |-> h, content |-> text,
                level |-> MaxLevel(LevelOf[h], experience[p].level), window |-> w,
                parent |-> p, parentVersion |-> Version(p),
                root |-> Family(p), number |-> experience[p].number + 1])

(***************************************************************************)
(* Reviews.                                                                *)
(***************************************************************************)

Suppress(c, admin) ==
  [suppression EXCEPT ![c] = [version |-> suppression[c].version + 1, by |-> admin, released |-> FALSE]]

\* The same request again is answered with the receipt of the first.
Replayed(e, admin, action, expected) ==
  expected \in DOMAIN log[e] /\ log[e][expected] = [by |-> admin, action |-> action]

\* Mutant: an approval takes whatever is not in force.
ReviewableAnyhow(e, action, expected) ==
  /\ expected = Version(e)
  /\ experience[e].status # "forgotten"
  /\ action = "approve" => experience[e].status # "active"
  /\ action = "reject" => experience[e].status = "pending"
  /\ action = "archive" => experience[e].status = "active"

Reviewable(e, action, expected) ==
  /\ expected = Version(e)
  /\ experience[e].status # "forgotten"
  /\ action \in {"approve", "reject"} => experience[e].status = "pending"
  /\ action = "archive" => experience[e].status = "active"

Record(e, admin, action) == [log EXCEPT ![e] = Append(@, [by |-> admin, action |-> action])]

ApproveOriginal(e, admin) ==
  /\ experience[e].parent = None
  /\ experience' = [experience EXCEPT ![e].status = "active"]
  /\ log' = Record(e, admin, "approve")
  /\ UNCHANGED suppression

\* Mutant: whatever is superseded is suppressed.
RetractedAlways(e, admin) == Suppress(experience[experience[e].parent].claim, admin)

\* A correction of a title keeps the claim and must not suppress itself.
Retracted(e, admin) ==
  LET p == experience[e].parent IN
  IF experience[p].claim = experience[e].claim THEN suppression ELSE Suppress(experience[p].claim, admin)

ApproveCorrection(e, admin) ==
  LET p == experience[e].parent IN
  /\ p # None
  /\ experience[p].status = "active"
  /\ Version(p) = experience[e].parentVersion
  /\ experience' = [experience EXCEPT ![p].status = "superseded", ![e].status = "active"]
  /\ log' = [Record(e, admin, "approve") EXCEPT ![p] = Append(@, [by |-> admin, action |-> "supersede"])]
  /\ suppression' = Retracted(e, admin)

Approve(e, admin) ==
  /\ Valid(experience[e].window)
  /\ ~Suppressed(experience[e].claim)
  /\ ApproveOriginal(e, admin) \/ ApproveCorrection(e, admin)

Reject(e, admin) ==
  /\ experience' = [experience EXCEPT ![e].status = "rejected"]
  /\ suppression' = Suppress(experience[e].claim, admin)
  /\ log' = Record(e, admin, "reject")

Archive(e, admin) ==
  /\ experience' = [experience EXCEPT ![e].status = "archived"]
  /\ log' = Record(e, admin, "archive")
  /\ UNCHANGED suppression

Forget(e, admin) ==
  /\ experience' = [experience EXCEPT ![e].status = "forgotten", ![e].source = None, ![e].content = None]
  /\ suppression' = Suppress(experience[e].claim, admin)
  /\ log' = Record(e, admin, "forget")

Review(e, admin, action, expected) ==
  /\ ~Replayed(e, admin, action, expected)
  /\ Reviewable(e, action, expected)
  /\ CASE action = "approve" -> Approve(e, admin)
       [] action = "reject"  -> Reject(e, admin)
       [] action = "archive" -> Archive(e, admin)
       [] action = "forget"  -> Forget(e, admin)
  /\ UNCHANGED now

\* release_suppression, of the version that the administrator saw; a repetition
\* is answered as before.
Release(e, admin, expected) ==
  LET s == suppression[experience[e].claim] IN
  /\ s.version > 0
  /\ ~(s.released /\ s.version = expected + 1 /\ s.by = admin)
  /\ s.version = expected
  /\ ~s.released
  /\ suppression' = [suppression EXCEPT ![experience[e].claim] =
                       [version |-> expected + 1, by |-> admin, released |-> TRUE]]
  /\ UNCHANGED <<now, experience, log>>

SubmitExperience ==
  \E e \in Experiences, text \in Texts, w \in Windows :
    \/ \E h \in Handoffs : Propose(e, h, text, w)
    \/ \E p \in Proposed, given \in Handoffs \cup {None} :
         \E expected \in 1..Version(p) : Revise(e, p, expected, given, text, w)

ReviewExperience ==
  \E e \in Proposed, admin \in Admins :
    \/ \E action \in Actions, expected \in 1..Version(e) : Review(e, admin, action, expected)
    \/ \E expected \in 0..suppression[experience[e].claim].version : Release(e, admin, expected)

(***************************************************************************)
(* Reads.                                                                  *)
(***************************************************************************)

Readable(e, ceiling) ==
  /\ experience[e].status = "active"
  /\ Valid(experience[e].window)
  /\ experience[e].level <= ceiling
=============================================================================
