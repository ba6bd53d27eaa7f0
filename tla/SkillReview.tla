---------------------------- MODULE SkillReview ----------------------------
(***************************************************************************)
(* Skills of one project, next to the experiences that they cite.  A       *)
(* revision cites active experiences at their exact versions; it is        *)
(* approved while they are unchanged, and a trigger in the transaction     *)
(* that changes one of them invalidates the revisions that cite it.        *)
(*                                                                         *)
(* A revision is named after the key of its submission, as an experience   *)
(* is; its version is one more than the length of its log.  The digests of *)
(* a source are fixed when it is proposed, so the watermark of a revision  *)
(* is what it cites.  A handoff never changes either: that it succeeded,   *)
(* with evidence, is part of Evidenced.                                    *)
(***************************************************************************)
EXTENDS ExperienceReview

CONSTANTS Skills,
          Submissions,       \* keys of revisions
          Evidenced,         \* handoffs of successful work with evidence
          LockOf,            \* locks of handoffs
          Procedures         \* texts that are procedures

VARIABLES skill,             \* memory_skills
          revision,          \* memory_skill_revisions and memory_skill_sources
          history            \* memory_skill_events

skillVars == <<skill, revision, history>>

vars == <<now, experienceVars, skillVars>>

SkillStates == {"absent", "pending", "active", "rejected", "archived", "superseded", "stale", "forgotten"}

Bodies == {"scaffold", "authored"}

ASSUME SkillAssumption == None \notin Bodies

\* What a submission may cite: experiences, at versions.
Citations == UNION {[cited -> 1..4] : cited \in (SUBSET Experiences) \ {{}}}

SkillRows == [latest : Nat, active : Nat, level : Levels]

RevisionRows ==
  [status : SkillStates, skill : Skills, number : Nat, base : Nat, origin : {"manual", "generated"},
   body : Bodies \cup {None}, level : Levels, cites : Citations]

Unsubmitted == [status |-> "absent"]

SkillEvents ==
  [by : Admins \cup {"source-lifecycle"}, action : Actions \cup {"supersede", "invalidate"}]

TypeOK ==
  /\ ReviewTypeOK
  /\ skill \in [Skills -> SkillRows]
  /\ revision \in [Submissions -> RevisionRows \cup {Unsubmitted}]
  /\ history \in [Submissions -> Seq(SkillEvents)]

Init ==
  /\ now = 0
  /\ ExperienceInit
  /\ skill = [s \in Skills |-> [latest |-> 0, active |-> 0, level |-> 0]]
  /\ revision = [r \in Submissions |-> Unsubmitted]
  /\ history = [r \in Submissions |-> <<>>]

Tick == now < MaxTime /\ now' = now + 1 /\ UNCHANGED <<experienceVars, skillVars>>

Submitted == {r \in Submissions : revision[r].status # "absent"}

RevisionOf(s, number) == CHOOSE r \in Submitted : revision[r].skill = s /\ revision[r].number = number

RevisionVersion(r) == Len(history[r]) + 1

HighestLevel(levels) == CHOOSE top \in levels : \A l \in levels : l <= top

\* capture: the cited experiences are all in force, at these versions, and one of
\* them is a procedure.
Captured(cites) ==
  /\ \A e \in DOMAIN cites :
       /\ experience[e].status = "active"
       /\ Valid(experience[e].window)
       /\ Version(e) = cites[e]
       /\ experience[e].source \in Evidenced
  /\ \E e \in DOMAIN cites : experience[e].content \in Procedures
  /\ Cardinality({LockOf[experience[e].source] : e \in DOMAIN cites}) = 1

CitedLevel(cites) == HighestLevel({experience[e].level : e \in DOMAIN cites})

Fresh(r) == Captured(revision[r].cites)

(***************************************************************************)
(* Submissions.                                                            *)
(***************************************************************************)

AddRevision(r, s, origin, body, cites) ==
  LET number == skill[s].latest + 1
      level == MaxLevel(skill[s].level, CitedLevel(cites))
  IN
  /\ revision' = [revision EXCEPT ![r] =
       [status |-> "pending", skill |-> s, number |-> number, base |-> skill[s].active,
        origin |-> origin, body |-> body, level |-> level, cites |-> cites]]
  /\ skill' = [skill EXCEPT ![s].latest = number, ![s].level = level]
  /\ UNCHANGED <<now, experienceVars, history>>

\* A name that is not in use yet; the scaffold that a worker completes has one of
\* its own, and is stored if its sources are as they were when it was requested.
SubmitNew(r, s, origin, body, cites) ==
  /\ revision[r].status = "absent"
  /\ skill[s].latest = 0
  /\ origin = "generated" <=> body = "scaffold"
  /\ AddRevision(r, s, origin, body, cites)

\* A generated scaffold is to be authored before it can be reviewed.
SubmitNext(r, s, expected, body, cites) ==
  /\ revision[r].status = "absent"
  /\ skill[s].latest > 0
  /\ skill[s].latest = expected
  /\ LET previous == revision[RevisionOf(s, expected)] IN
       ~(previous.origin = "generated" /\ body = previous.body)
  /\ AddRevision(r, s, "manual", body, cites)

(***************************************************************************)
(* Reviews.                                                                *)
(***************************************************************************)

SkillReplayed(r, admin, action, expected) ==
  expected \in DOMAIN history[r] /\ history[r][expected] = [by |-> admin, action |-> action]

SkillReviewable(r, action, expected) ==
  /\ expected = RevisionVersion(r)
  /\ revision[r].status # "forgotten"
  /\ action \in {"approve", "reject"} => revision[r].status = "pending"
  /\ action = "archive" => revision[r].status = "active"

Transition(rows, r, after) ==
  [rows EXCEPT ![r].status = after, ![r].body = IF after = "forgotten" THEN None ELSE @]

Note(events, r, by, action) == [events EXCEPT ![r] = Append(@, [by |-> by, action |-> action])]

\* Mutant: the active revision may have moved since the submission.
ApproveRevisionAnyway(r, admin) ==
  LET s == revision[r].skill
      old == skill[s].active
      parent == RevisionOf(s, old)
  IN
  /\ revision[r].origin = "manual"
  /\ Fresh(r)
  /\ skill' = [skill EXCEPT ![s].active = revision[r].number]
  /\ IF old = 0
     THEN /\ revision' = Transition(revision, r, "active")
          /\ history' = Note(history, r, admin, "approve")
     ELSE /\ revision' = Transition(Transition(revision, parent, "superseded"), r, "active")
          /\ history' = Note(Note(history, parent, admin, "supersede"), r, admin, "approve")

\* Against the sources as they are, and the active revision that was captured.
ApproveRevision(r, admin) ==
  LET s == revision[r].skill
      old == skill[s].active
      parent == RevisionOf(s, old)
  IN
  /\ revision[r].origin = "manual"
  /\ Fresh(r)
  /\ revision[r].base = old
  /\ skill' = [skill EXCEPT ![s].active = revision[r].number]
  /\ IF old = 0
     THEN /\ revision' = Transition(revision, r, "active")
          /\ history' = Note(history, r, admin, "approve")
     ELSE /\ revision' = Transition(Transition(revision, parent, "superseded"), r, "active")
          /\ history' = Note(Note(history, parent, admin, "supersede"), r, admin, "approve")

Retire(r, admin, action) ==
  LET s == revision[r].skill
      after == CASE action = "reject" -> "rejected" [] action = "archive" -> "archived"
                 [] action = "forget" -> "forgotten"
  IN
  /\ skill' = [skill EXCEPT ![s].active = IF @ = revision[r].number THEN 0 ELSE @]
  /\ revision' = Transition(revision, r, after)
  /\ history' = Note(history, r, admin, action)

ReviewSkill(r, admin, action, expected) ==
  /\ r \in Submitted
  /\ ~SkillReplayed(r, admin, action, expected)
  /\ SkillReviewable(r, action, expected)
  /\ IF action = "approve" THEN ApproveRevision(r, admin) ELSE Retire(r, admin, action)
  /\ UNCHANGED <<now, experienceVars>>

(***************************************************************************)
(* The trigger invalidate_source_skills, on every change of an experience. *)
(***************************************************************************)

Changed(e) ==
  /\ experience[e].status # "absent"
  /\ experience'[e].status # experience[e].status \/ log'[e] # log[e]

\* Mutant: what is retired already is left alone.
HitInForce(r, e) ==
  /\ Changed(e)
  /\ r \in Submitted /\ e \in DOMAIN revision[r].cites
  /\ revision[r].status \in {"pending", "active"}
  /\ \/ experience'[e].status = "forgotten"
     \/ experience'[e].status # "active" \/ Len(log'[e]) + 1 # revision[r].cites[e]

Hit(r, e) ==
  /\ Changed(e)
  /\ r \in Submitted /\ e \in DOMAIN revision[r].cites
  /\ revision[r].status # "forgotten"
  /\ \/ experience'[e].status = "forgotten"
     \/ /\ revision[r].status \in {"pending", "active"}
        /\ experience'[e].status # "active" \/ Len(log'[e]) + 1 # revision[r].cites[e]

Stricken == {r \in Submissions : \E e \in Experiences : Hit(r, e)}

Erased(r) == \E e \in Experiences : Hit(r, e) /\ experience'[e].status = "forgotten"

InvalidateSkills ==
  /\ skill' = [s \in Skills |->
       IF \E r \in Stricken : revision[r].skill = s /\ revision[r].number = skill[s].active
       THEN [skill[s] EXCEPT !.active = 0] ELSE skill[s]]
  /\ revision' = [r \in Submissions |->
       IF r \notin Stricken THEN revision[r]
       ELSE IF Erased(r) THEN [revision[r] EXCEPT !.status = "forgotten", !.body = None]
       ELSE [revision[r] EXCEPT !.status = "stale"]]
  /\ history' = [r \in Submissions |->
       IF r \notin Stricken THEN history[r]
       ELSE Append(history[r], [by |-> "source-lifecycle", action |-> "invalidate"])]

SubmitSkill ==
  \E cites \in Citations : Captured(cites) /\ \E r \in Submissions, s \in Skills, body \in Bodies :
    \/ \E origin \in {"manual", "generated"} : SubmitNew(r, s, origin, body, cites)
    \/ \E expected \in 1..skill[s].latest : SubmitNext(r, s, expected, body, cites)

Next ==
  \/ Tick
  \/ SubmitExperience /\ UNCHANGED skillVars
  \/ ReviewExperience /\ InvalidateSkills
  \/ SubmitSkill
  \/ \E r \in Submissions, admin \in Admins, action \in Actions :
       \E expected \in 1..RevisionVersion(r) : ReviewSkill(r, admin, action, expected)

Spec == Init /\ [][Next]_vars

\* reads.get, for a reader without administration.
SkillReadable(r, ceiling) ==
  /\ revision[r].status = "active"
  /\ revision[r].level <= ceiling
  /\ Fresh(r)

(***************************************************************************)
(* What the database refuses, whatever the service does.                   *)
(***************************************************************************)

\* ck_experience_event_transition
ReviewTransitions ==
  {<<"approve", "pending", "active">>, <<"reject", "pending", "rejected">>,
   <<"archive", "active", "archived">>, <<"supersede", "active", "superseded">>}
    \cup {<<"forget", before, "forgotten">> : before \in ExperienceStates \ {"absent", "forgotten"}}

\* guard_experience_identity, guard_experience_content, ck_experience_forgotten
ExperienceGuard(old, new, before, after) ==
  /\ \A f \in {"claim", "level", "parent", "parentVersion", "root", "number"} : new[f] = old[f]
  /\ new.status # "forgotten" \/ old.status = "forgotten" =>
       new.content = old.content /\ new.source = old.source
  /\ new.status = "forgotten" <=> new.source = None /\ new.content = None
  /\ after # before =>
       /\ Len(after) = Len(before) + 1
       /\ <<after[Len(after)].action, old.status, new.status>> \in ReviewTransitions

\* guard_skill_revision, memory_skill_revisions_check and check1
RevisionGuard(old, new, before) ==
  /\ \A f \in {"skill", "number", "base", "origin", "level", "cites"} : new[f] = old[f]
  /\ new.body # old.body => new.status = "forgotten" /\ new.body = None
  /\ old.status = "forgotten" => new.status = "forgotten"
  /\ new.status = "forgotten" <=> new.body = None
  /\ new.status = "active" => new.origin = "manual"
  /\ new.status = "active" /\ old.status # "active" =>
       \A i \in DOMAIN before : before[i].action # "approve"

(***************************************************************************)
(* Properties.                                                             *)
(***************************************************************************)

\* At most one experience of a family is active, and the active revision that a
\* skill names is the one revision of it that is active: review, submission and
\* the trigger each write one side of this only.
OneActive ==
  /\ \A e, f \in Proposed :
       experience[e].status = "active" /\ experience[f].status = "active" /\ Family(e) = Family(f) => e = f
  /\ \A s \in Skills : skill[s].active # 0 =>
       \E r \in Submitted : revision[r].skill = s /\ revision[r].number = skill[s].active
  /\ \A r \in Submitted :
       revision[r].status = "active" <=> skill[revision[r].skill].active = revision[r].number

\* What waits for review or is in force cites experiences that are in force as
\* they were cited; what cites a forgotten experience is erased, retired or not;
\* and a skill shows a reader nothing whose sources it could not read.
SkillsFollowTheirSources ==
  \A r \in Submitted :
    /\ revision[r].status \in {"pending", "active"} =>
         \A e \in DOMAIN revision[r].cites :
           experience[e].status = "active" /\ Version(e) = revision[r].cites[e]
    /\ (\E e \in DOMAIN revision[r].cites : experience[e].status = "forgotten") =>
         revision[r].status = "forgotten" /\ revision[r].body = None
    /\ \A e \in DOMAIN revision[r].cites : \A ceiling \in {LevelOf[h] : h \in Handoffs} :
         SkillReadable(r, ceiling) => Readable(e, ceiling)

\* What is in force is one per family and per skill, and only on live sources.
ReviewIsSound == TypeOK /\ OneActive /\ SkillsFollowTheirSources

\* While a revision is in force, only one that was submitted after it takes its
\* place: what lost against it, or was overtaken by it, does not come back.
SkillOnlyAdvances ==
  [][\A s \in Skills : skill[s].active # 0 /\ skill'[s].active # 0 =>
       skill'[s].active >= skill[s].active]_vars

Enters(e) ==
  experience'[e].status \in {"pending", "active"} /\ experience'[e].status # experience[e].status

\* A claim that is suppressed enters neither the queue nor the memory, under any
\* key or title, and what is approved is not suppressed by its own approval.
SuppressedStaysOut ==
  [][\A c \in Claims :
       (\E e \in Experiences : Enters(e) /\ experience'[e].claim = c) =>
         ~Suppressed(c) /\ ~Suppressed(c)']_vars

\* The database's own triggers and checks never refuse what the service does.
GuardsNeverRefuse ==
  [][/\ \A e \in Proposed : ExperienceGuard(experience[e], experience'[e], log[e], log'[e])
     /\ \A r \in Submitted : RevisionGuard(revision[r], revision'[r], history[r])]_vars
=============================================================================
