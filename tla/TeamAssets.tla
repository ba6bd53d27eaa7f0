----------------------------- MODULE TeamAssets -----------------------------
(***************************************************************************)
(* What one project shares with others: snapshots of a wiki that it        *)
(* publishes, grants that let another project read one version of one      *)
(* asset, feedback on the assets, and skills that it imports from archives *)
(* into quarantine.                                                        *)
(*                                                                         *)
(* Every change is one transaction under the lock of the project.  A       *)
(* shared read finds the grant first, and takes the lock of the owner and  *)
(* looks again afterwards, so anything may happen in between.  Experiences *)
(* and skills are assets whose review is modelled elsewhere: here they are *)
(* put in force and retired, and their versions count.  Times are days.    *)
(***************************************************************************)
EXTENDS Integers, Sequences

CONSTANTS Docs,                    \* wiki documents, by source key
          Reviewed,                \* experiences and revisions of skills
          Contents, Revisions,     \* what a wiki publishes, under which revision
          Levels,                  \* classifications
          Grants, Imports, Keys,   \* rows, named after the keys of their requests
          Origins,                 \* identities of imported archives
          Owner, Consumers,        \* projects
          Actors,
          Evidence,                \* outcomes that a handoff of the reporter proves
          GrantDays, KnowledgeDays,
          Null,
          MaxTime                  \* bound on the clock

VARIABLES now,
          doc,                     \* memory_knowledge_documents
          events,                  \* memory_knowledge_events
          reviewed,                \* the review state of the other assets
          grant,                   \* memory_asset_grants
          reading,                 \* grants that shared reads in progress found
          served,                  \* what the step before returned, if it was a shared read
          imported,                \* memory_skill_imports
          feedback                 \* memory_asset_feedback

teamVars == <<now, doc, events, reviewed, grant, reading, served, imported, feedback>>

Assets == Docs \cup Reviewed

DocRows ==
  [status : {"absent", "active", "deleted"}, content : Contents \cup {Null},
   revision : Revisions \cup {Null}, level : Levels \cup {0}, until : Nat]

KnowledgeEvents == [action : {"sync", "delete"}, by : Actors, revision : Revisions \cup {Null}]

\* An asset as a reader sees it; the digests of a grant bind all of it.
Bindings ==
  [asset : Assets, version : Nat, level : Levels, content : Contents \cup Reviewed,
   revision : Revisions \cup {Null}]

GrantRows ==
  [status : {"live", "revoked"}, consumer : Consumers, binding : Bindings, expires : Nat, by : Actors]

ImportRows ==
  [status : {"quarantined", "forgotten"}, origin : Origins, level : Levels,
   payload : Origins \cup {Null}]

FeedbackRows ==
  [key : Keys, project : Consumers \cup {Owner}, actor : Actors, asset : Assets, version : Nat,
   grant : Grants \cup {Null}, outcome : {"not_attempted", "succeeded", "failed"}]

\* NULL is nothing else, lifetimes are numbers of days, and a handoff proves
\* that something was attempted.
TeamAssumption ==
  /\ GrantDays \in Nat /\ KnowledgeDays \in Nat
  /\ Evidence \subseteq {"succeeded", "failed"}
  /\ Null \notin Contents \cup Revisions \cup Grants
  /\ Null \notin GrantRows \cup ImportRows
  /\ Null \notin [id : Grants, row : GrantRows] \cup [id : Grants, binding : Bindings]

TeamTypeOK ==
  /\ now \in Nat
  /\ doc \in [Docs -> DocRows]
  /\ events \in [Docs -> Seq(KnowledgeEvents)]
  /\ reviewed \in [Reviewed -> [live : BOOLEAN, version : Nat, level : Levels]]
  /\ grant \in [Grants -> GrantRows \cup {Null}]
  /\ reading \in [Consumers -> [id : Grants, row : GrantRows] \cup {Null}]
  /\ served \in [id : Grants, binding : Bindings] \cup {Null}
  /\ imported \in [Imports -> ImportRows \cup {Null}]
  /\ feedback \subseteq FeedbackRows

TeamInit ==
  /\ now = 0
  /\ doc = [d \in Docs |-> [status |-> "absent", content |-> Null, revision |-> Null, level |-> 0, until |-> 0]]
  /\ events = [d \in Docs |-> <<>>]
  /\ \E level \in [Reviewed -> Levels] :
       reviewed = [a \in Reviewed |-> [live |-> FALSE, version |-> 1, level |-> level[a]]]
  /\ grant = [g \in Grants |-> Null]
  /\ reading = [c \in Consumers |-> Null]
  /\ served = Null
  /\ imported = [i \in Imports |-> Null]
  /\ feedback = {}

Unserved == served' = Null

Tick ==
  /\ now < MaxTime /\ now' = now + 1
  /\ UNCHANGED <<doc, events, reviewed, grant, reading, imported, feedback>> /\ Unserved

DocVersion(d) == Len(events[d])

Published(d) == {events[d][i].revision : i \in DOMAIN events[d]} \ {Null}

Deadlines(days) == (now + 1)..(now + days)

(***************************************************************************)
(* Knowledge.                                                              *)
(***************************************************************************)

Note(d, event) == events' = [events EXCEPT ![d] = Append(@, event)]

\* Each revision of the source once, in the order its publisher saw, never below
\* the classification it had.
Sync(d, expected, by, revision, level, content, until) ==
  /\ expected = DocVersion(d)
  /\ revision \notin Published(d)
  /\ doc[d].level <= level
  /\ until \in Deadlines(KnowledgeDays)
  /\ doc' = [doc EXCEPT ![d] = [status |-> "active", content |-> content, revision |-> revision,
                                level |-> level, until |-> until]]
  /\ Note(d, [action |-> "sync", by |-> by, revision |-> revision])
  /\ UNCHANGED <<now, reviewed, grant, reading, imported, feedback>> /\ Unserved

Delete(d, expected, by) ==
  /\ expected = DocVersion(d)
  /\ doc[d].status = "active"
  /\ doc' = [doc EXCEPT ![d].status = "deleted", ![d].content = Null]
  /\ Note(d, [action |-> "delete", by |-> by, revision |-> Null])
  /\ UNCHANGED <<now, reviewed, grant, reading, imported, feedback>> /\ Unserved

\* The review of an experience or of a revision of a skill: in force once.
ReviewAsset(a) ==
  /\ \/ reviewed[a].version = 1 /\ reviewed' = [reviewed EXCEPT ![a].live = TRUE, ![a].version = 2]
     \/ reviewed[a].live /\ reviewed' = [reviewed EXCEPT ![a].live = FALSE, ![a].version = 3]
  /\ UNCHANGED <<now, doc, events, grant, reading, imported, feedback>> /\ Unserved

(***************************************************************************)
(* Assets, live.                                                           *)
(***************************************************************************)

Binding(a) ==
  IF a \in Docs
  THEN [asset |-> a, version |-> DocVersion(a), level |-> doc[a].level, content |-> doc[a].content,
        revision |-> doc[a].revision]
  ELSE [asset |-> a, version |-> reviewed[a].version, level |-> reviewed[a].level, content |-> a,
        revision |-> Null]

Live(a) ==
  IF a \in Docs THEN doc[a].status = "active" /\ now < doc[a].until ELSE reviewed[a].live

Resolves(a, version, ceiling) ==
  Live(a) /\ Binding(a).version = version /\ Binding(a).level <= ceiling

(***************************************************************************)
(* Grants.                                                                 *)
(***************************************************************************)

CreateGrant(g, consumer, a, version, ceiling, expires, by) ==
  /\ grant[g] = Null
  /\ expires \in Deadlines(GrantDays)
  /\ Resolves(a, version, ceiling)
  /\ grant' = [grant EXCEPT ![g] = [status |-> "live", consumer |-> consumer, binding |-> Binding(a),
                                    expires |-> expires, by |-> by]]
  /\ UNCHANGED <<now, doc, events, reviewed, reading, imported, feedback>> /\ Unserved

Revoke(g) ==
  /\ grant[g] # Null /\ grant[g].status = "live"
  /\ grant' = [grant EXCEPT ![g].status = "revoked"]
  /\ UNCHANGED <<now, doc, events, reviewed, reading, imported, feedback>> /\ Unserved

Locate(c, g) ==
  /\ reading[c] = Null
  /\ grant[g] # Null /\ grant[g].consumer = c
  /\ reading' = [reading EXCEPT ![c] = [id |-> g, row |-> grant[g]]]
  /\ UNCHANGED <<now, doc, events, reviewed, grant, imported, feedback>> /\ Unserved

\* resolve, of the row as it is under the lock of the owner.
Permits(row, ceiling) ==
  /\ row.status = "live"
  /\ row.binding.level <= ceiling
  /\ now < row.expires
  /\ Resolves(row.binding.asset, row.binding.version, row.binding.level)
  /\ Binding(row.binding.asset) = row.binding

\* Mutant: the row that was found before the lock.
ReadSharedAsFound(c, ceiling) ==
  /\ reading[c] # Null
  /\ IF Permits(reading[c].row, ceiling)
     THEN served' = [id |-> reading[c].id, binding |-> Binding(reading[c].row.binding.asset)]
     ELSE served' = Null
  /\ reading' = [reading EXCEPT ![c] = Null]
  /\ UNCHANGED <<now, doc, events, reviewed, grant, imported, feedback>>

ReadShared(c, ceiling) ==
  /\ reading[c] # Null
  /\ LET g == reading[c].id IN
       IF Permits(grant[g], ceiling)
       THEN served' = [id |-> g, binding |-> Binding(grant[g].binding.asset)]
       ELSE served' = Null
  /\ reading' = [reading EXCEPT ![c] = Null]
  /\ UNCHANGED <<now, doc, events, reviewed, grant, imported, feedback>>

(***************************************************************************)
(* Feedback, in the project of its author.                                 *)
(***************************************************************************)

\* One observation of an actor on a version of an asset; of a shared one, while
\* its grant holds.
RecordFeedback(key, project, actor, a, version, g, outcome) ==
  /\ \A f \in feedback : ~(f.project = project /\ f.actor = actor /\ f.key = key)
  /\ IF g = Null THEN project = Owner
     ELSE /\ grant[g] # Null /\ grant[g].consumer = project
          /\ Permits(grant[g], grant[g].binding.level)
          /\ a = grant[g].binding.asset
  /\ Live(a) /\ Binding(a).version = version
  /\ \A f \in feedback :
       ~(f.project = project /\ f.actor = actor /\ f.asset = a /\ f.version = version)
  /\ outcome \in Evidence \cup {"not_attempted"}
  /\ feedback' = feedback \cup {[key |-> key, project |-> project, actor |-> actor, asset |-> a,
                                 version |-> version, grant |-> g, outcome |-> outcome]}
  /\ UNCHANGED <<now, doc, events, reviewed, grant, reading, imported>> /\ Unserved

(***************************************************************************)
(* Imports.                                                                *)
(***************************************************************************)

\* Mutant: an archive that was erased may come again under another key.
OriginFreeAgain(origin) ==
  \A i \in Imports : imported[i] # Null /\ imported[i].origin = origin => imported[i].status = "forgotten"

OriginFree(origin) == \A i \in Imports : imported[i] # Null => imported[i].origin # origin

Ingest(i, origin, claimed, level) ==
  /\ claimed <= level
  /\ imported[i] = Null
  /\ OriginFree(origin)
  /\ imported' = [imported EXCEPT ![i] = [status |-> "quarantined", origin |-> origin, level |-> level,
                                          payload |-> origin]]
  /\ UNCHANGED <<now, doc, events, reviewed, grant, reading, feedback>> /\ Unserved

ForgetImport(i) ==
  /\ imported[i] # Null /\ imported[i].status = "quarantined"
  /\ imported' = [imported EXCEPT ![i].status = "forgotten", ![i].payload = Null]
  /\ UNCHANGED <<now, doc, events, reviewed, grant, reading, feedback>> /\ Unserved

Publish ==
  \E d \in Docs, by \in Actors : \E expected \in 0..DocVersion(d) :
    \/ \E revision \in Revisions, level \in Levels, content \in Contents,
          until \in Deadlines(KnowledgeDays) :
         Sync(d, expected, by, revision, level, content, until)
    \/ Delete(d, expected, by)

Share ==
  \/ \E g \in Grants, c \in Consumers, a \in Assets, by \in Actors, ceiling \in Levels :
       \E version \in 1..Binding(a).version, expires \in Deadlines(GrantDays) :
         CreateGrant(g, c, a, version, ceiling, expires, by)
  \/ \E g \in Grants : Revoke(g)
  \/ \E c \in Consumers, g \in Grants : Locate(c, g)
  \/ \E c \in Consumers, ceiling \in Levels : ReadShared(c, ceiling)

Exchange ==
  \E i \in Imports :
    \/ \E origin \in Origins, claimed \in Levels, level \in Levels : Ingest(i, origin, claimed, level)
    \/ ForgetImport(i)

Observe ==
  \E key \in Keys, project \in Consumers \cup {Owner}, actor \in Actors, a \in Assets :
    \E version \in 1..Binding(a).version, g \in Grants \cup {Null}, outcome \in Evidence \cup {"not_attempted"} :
      RecordFeedback(key, project, actor, a, version, g, outcome)

TeamNext ==
  \/ Tick
  \/ Publish
  \/ \E a \in Reviewed : ReviewAsset(a)
  \/ Share
  \/ Exchange
  \/ Observe

TeamSpec == TeamInit /\ [][TeamNext]_teamVars

(***************************************************************************)
(* Properties.                                                             *)
(***************************************************************************)

\* What a project is shown through a grant is the version that was granted, in
\* force, while the grant was neither revoked nor expired: also when the reader
\* found the grant before it was revoked, or the document changed and changed back.
SharedAsGranted ==
  [][\A c \in Consumers :
       reading[c] # Null /\ reading'[c] = Null /\ served' # Null =>
         LET row == grant[served'.id] IN
         /\ row.consumer = c
         /\ row.status = "live" /\ now < row.expires
         /\ served'.binding = row.binding
         /\ Live(row.binding.asset)]_teamVars

\* Nothing is used twice: a revision of a source names one publication, an archive
\* one import, even after it was erased, an actor has one observation on a version.
UsedOnce ==
  /\ \A d \in Docs : \A i, j \in DOMAIN events[d] :
       events[d][i].revision = events[d][j].revision /\ events[d][i].revision # Null => i = j
  /\ \A i, k \in Imports :
       imported[i] # Null /\ imported[k] # Null /\ imported[i].origin = imported[k].origin => i = k
  /\ \A f, h \in feedback :
       f.project = h.project /\ f.actor = h.actor /\ f.asset = h.asset /\ f.version = h.version => f = h

\* What was published, imported and observed is there once.
AssetsAreSound == TeamTypeOK /\ UsedOnce
=============================================================================
