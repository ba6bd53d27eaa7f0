-------------------------- MODULE PresenceSessions --------------------------
(***************************************************************************)
(* Observed sessions of one project: observers register, send numbered     *)
(* reports of what they see, and end; the server judges, at every read and *)
(* without writing, who is fresh, busy or idle.                            *)
(*                                                                         *)
(* Any report may arrive at any time: late, repeated, out of order, after  *)
(* the end.  The server's clock is counted in ticks and may step back.     *)
(* What a report is bound to (a work unit, a checkpoint) matters for its   *)
(* classification; being available is up to continuity, and a report whose *)
(* binding is not is refused, which changes nothing.  state_sequence is    *)
(* kept by the server alone: a report that counts the changes of state     *)
(* otherwise is refused.                                                   *)
(***************************************************************************)
EXTENDS Integers, FiniteSets, FiniteSetsExt, Sequences

CONSTANTS Users,
          Sessions,        \* client_instance_id, of
          OwnerOf,         \*   this user: [Sessions -> Users]
          Works, WorkClass,\* work units and the classes of their bundles
          Classes,         \* classifications, from 0 (public) upwards
          Reports,         \* what observers report, of Fields
          Policies,        \* policies that administrators set
          DefaultPolicy,
          MaxOpenPerUser, MaxLive, MaxRecent, Minute, \* registration limits
          PruneLimit,
          None,
          MaxTime,         \* bound on the clock
          MaxSequence,     \* bound on the sequence of a session
          MaxVersion       \* bound on the version of the policy

\* reported_state
States == {"running", "waiting_approval", "blocked", "idle", "unknown"}

\* What an observer reports: STATE_FIELDS, the scope and the availability of
\* the observation being one.
Fields == [state : States, observed : BOOLEAN, active : {0, 1}, work : Works \cup {None}]

PolicyBodies == [enabled : BOOLEAN, stale : Nat \ {0}, idle : Nat \ {0}, retention : Nat \ {0}]

ASSUME PresenceAssumption ==
  /\ OwnerOf \in [Sessions -> Users]
  /\ Classes \subseteq Nat
  /\ WorkClass \in [Works -> Classes]
  /\ Reports \subseteq Fields
  /\ Policies \subseteq PolicyBodies /\ DefaultPolicy \in PolicyBodies /\ ~DefaultPolicy.enabled
  /\ MaxOpenPerUser \in Nat /\ MaxLive \in Nat /\ MaxRecent \in Nat /\ Minute \in Nat
  /\ PruneLimit \in Nat /\ MaxTime \in Nat /\ MaxSequence \in Nat /\ MaxVersion \in Nat
  /\ None \notin Nat \cup Sessions \cup Works

VARIABLES now,
          policy,          \* memory_presence_policies
          session,         \* memory_presence_sessions
          log              \* history: the reports that each session accepted

vars == <<now, policy, session, log>>

Rows == [status : {"absent", "open", "ended", "retired"}, sequence : Nat, changes : Nat,
         fields : Fields, class : Classes \cup {0}, parent : Sessions \cup {None},
         created : Nat, seen : Nat, since : Nat, idle : Nat \cup {None}, ended : Nat]

\* stale is the threshold the report was judged by.
Accepted == [sequence : Nat, at : Nat, state : States, stale : Nat, ends : BOOLEAN]

TypeOK ==
  /\ now \in Nat
  /\ policy \in [version : Nat, body : PolicyBodies]
  /\ session \in [Sessions -> Rows]
  /\ log \in [Sessions -> Seq(Accepted)]

Unobserved == [state |-> "unknown", observed |-> FALSE, active |-> 0, work |-> None]

Absent == [status |-> "absent", sequence |-> 0, changes |-> 0, fields |-> Unobserved,
           class |-> 0, parent |-> None, created |-> 0, seen |-> 0, since |-> 0,
           idle |-> None, ended |-> 0]

Init ==
  /\ now = 0
  /\ policy = [version |-> 0, body |-> DefaultPolicy]
  /\ session = [s \in Sessions |-> Absent]
  /\ log = [s \in Sessions |-> <<>>]

Status(s) == session[s].status

Live(s) == Status(s) \in {"open", "ended"}

(***************************************************************************)
(* Mutations.  Each runs under the lock of the project.                    *)
(***************************************************************************)

Tick == now < MaxTime /\ now' = now + 1 /\ UNCHANGED <<policy, session, log>>

StepBack == now > 0 /\ now' = now - 1 /\ UNCHANGED <<policy, session, log>>

\* policy_set replaces the version that its administrator read.
SetPolicy(body) ==
  /\ policy.version < MaxVersion
  /\ policy' = [version |-> policy.version + 1, body |-> body]
  /\ UNCHANGED <<now, session, log>>

WithinLimits(u) ==
  /\ Cardinality({s \in Sessions : Live(s)}) < MaxLive
  /\ Cardinality({s \in Sessions : OwnerOf[s] = u /\ Status(s) = "open"}) < MaxOpenPerUser
  /\ Cardinality({s \in Sessions : OwnerOf[s] = u /\ Status(s) # "absent"
                                   /\ session[s].created + Minute > now}) < MaxRecent

\* register: once per observer instance.  A repetition is answered as before,
\* also by an ended session; a retired one never comes back.
Register(s, class, parent) ==
  /\ Status(s) = "absent"
  /\ policy.body.enabled
  /\ WithinLimits(OwnerOf[s])
  /\ parent # None => OwnerOf[parent] = OwnerOf[s] /\ Status(parent) = "open"
  /\ session' = [session EXCEPT ![s] =
       [Absent EXCEPT !.status = "open", !.parent = parent,
                      !.class = Max({class} \cup {session[p].class : p \in {parent} \ {None}}),
                      !.created = now, !.seen = now, !.since = now]]
  /\ UNCHANGED <<now, policy, log>>

\* _validate_report
Valid(f) ==
  /\ f.state # "unknown" => f.observed
  /\ f.state = "running" => f.active > 0
  /\ f.state = "idle" => f.active = 0

NewerOrSame(s, sequence) == sequence >= session[s].sequence    \* mutant

\* A report that is not newer is a repetition, answered as before, or refused.
Newer(s, sequence) == sequence > session[s].sequence

\* The report came too late, or from before the last one, to join it to the last.
Discontinuous(r) == now < r.seen \/ now - r.seen >= policy.body.stale

KeptTimes(r, f) ==                                             \* mutant
  LET restarts == f # r.fields IN
  [since |-> IF restarts THEN now ELSE r.since,
   idle |-> IF f.state # "idle" THEN None ELSE IF restarts THEN now ELSE r.idle]

\* next_times: an idle interval is one of continuous observation.
NextTimes(r, f) ==
  LET restarts == f # r.fields \/ Discontinuous(r) IN
  [since |-> IF restarts THEN now ELSE r.since,
   idle |-> IF f.state # "idle" THEN None ELSE IF restarts THEN now ELSE r.idle]

\* _classification: never below what the session, its parent or the work had.
Classified(r, class, f) ==
  Max({r.class, class} \cup {WorkClass[w] : w \in {f.work} \ {None}}
                       \cup {session[p].class : p \in {r.parent} \ {None}})

Logged(s, sequence, state, ends) ==
  log' = [log EXCEPT ![s] = Append(@,
    [sequence |-> sequence, at |-> now, state |-> state, stale |-> policy.body.stale,
     ends |-> ends])]

\* The row after a report.
Updated(r, sequence, f, class) ==
  LET times == NextTimes(r, f) IN
  [r EXCEPT !.sequence = sequence, !.changes = IF f # r.fields THEN @ + 1 ELSE @,
            !.fields = f, !.class = Classified(r, class, f),
            !.seen = now, !.since = times.since, !.idle = times.idle]

Heartbeat(s, sequence, f, class) ==
  /\ Valid(f)
  /\ Status(s) = "open"
  /\ Newer(s, sequence)
  /\ policy.body.enabled
  /\ session' = [session EXCEPT ![s] = Updated(session[s], sequence, f, class)]
  /\ Logged(s, sequence, f.state, FALSE)
  /\ UNCHANGED <<now, policy>>

\* end: also while observation is disabled.
End(s, sequence) ==
  /\ Status(s) = "open"
  /\ Newer(s, sequence)
  /\ session' = [session EXCEPT ![s] =
       [@ EXCEPT !.status = "ended", !.sequence = sequence, !.ended = now]]
  /\ Logged(s, sequence, session[s].fields.state, TRUE)
  /\ UNCHANGED <<now, policy>>

\* When a session was last heard of.
LastHeard(r) == IF r.status = "open" THEN r.seen ELSE r.ended

Expired(r) == LastHeard(r) < now - policy.body.retention

RetiredAnew(r) ==                                              \* mutant
  [r EXCEPT !.status = "retired", !.fields = Unobserved, !.idle = None, !.ended = now]

\* A retired session keeps when it ended, and forgets what it reported.
Retired(r) ==
  [r EXCEPT !.status = "retired", !.fields = Unobserved, !.idle = None,
            !.ended = IF r.status = "open" THEN now ELSE @]

\* prune: retires the sessions not heard of for longest.
Prune ==
  LET candidates == {s \in Sessions : Live(s) /\ Expired(session[s])} IN
  \E batch \in SUBSET candidates :
    /\ Cardinality(batch) = Min({PruneLimit, Cardinality(candidates)})
    /\ \A s \in batch, t \in candidates \ batch : session[s].seen <= session[t].seen
    /\ session' = [s \in Sessions |-> IF s \in batch THEN Retired(session[s]) ELSE session[s]]
    /\ UNCHANGED <<now, policy, log>>

Next ==
  \/ Tick
  \/ StepBack
  \/ \E body \in Policies : SetPolicy(body)
  \/ \E s \in Sessions, class \in Classes, parent \in Sessions \cup {None} :
       Register(s, class, parent)
  \/ \E s \in Sessions, n \in 1..MaxSequence, f \in Reports, class \in Classes :
       Heartbeat(s, n, f, class)
  \/ \E s \in Sessions, n \in 1..MaxSequence : End(s, n)
  \/ Prune

Spec == Init /\ [][Next]_vars

(***************************************************************************)
(* Reads.                                                                  *)
(***************************************************************************)

Verdict(freshness, effective, idle) ==
  [freshness |-> freshness, effective |-> effective, idle |-> idle]

\* session_state: what is said of a session, by the clock and the policy of the
\* read.  idle is how long it has been observed idle.
SessionState(r) ==
  CASE r.status # "open" -> Verdict("ended", "ended", None)
    [] r.status = "open" /\ (now < r.seen \/ now < r.since) -> Verdict("unknown", "unknown", None)
    [] r.status = "open" /\ now >= r.seen /\ now >= r.since ->
       IF now - r.seen >= policy.body.stale THEN Verdict("stale", "stale", None)
       ELSE IF ~r.fields.observed \/ r.fields.state = "unknown" \/ ~Valid(r.fields)
       THEN Verdict("fresh", "unknown", None)
       ELSE IF r.fields.state # "idle" THEN Verdict("fresh", r.fields.state, None)
       ELSE IF r.idle = None \/ ~(r.idle \in r.since..r.seen) THEN Verdict("fresh", "unknown", None)
       ELSE Verdict("fresh", IF now - r.idle >= policy.body.idle THEN "idle" ELSE "waiting",
                    now - r.idle)

\* VISIBLE: a reader sees its own sessions, or those of the project, up to a
\* classification and while they are retained.
Visible(reader, s) ==
  LET r == session[s] IN
  /\ Live(s)
  /\ reader.project \/ OwnerOf[s] = reader.user
  /\ r.class <= reader.ceiling
  /\ ~(Expired(r) \/ LastHeard(r) = now - policy.body.retention)
  /\ reader.ended \/ Status(s) = "open"

\* users: of a user, all open sessions count, or else the latest that ended.
Counted(reader, u) ==
  LET own == {s \in Sessions : OwnerOf[s] = u /\ Visible(reader, s)}
      open == {s \in own : Status(s) = "open"}
  IN IF open # {} THEN open
     ELSE {s \in own : \A t \in own : session[t].seen <= session[s].seen}

\* What is known of a user, the most telling first.
Busy == <<"running", "waiting_approval", "blocked">>

\* aggregate_states: known work first; a user is idle only if each session is,
\* and for as long as all were.
Aggregate(verdicts, complete) ==
  LET open == {v \in verdicts : v.freshness # "ended"}
      busy == {k \in DOMAIN Busy : \E v \in open : v.freshness = "fresh" /\ v.effective = Busy[k]}
      uncertain == ~complete \/ \E v \in open : v.freshness # "fresh" \/ v.effective = "unknown"
  IN IF busy # {} THEN [effective |-> Busy[Min(busy)], idle |-> None]
     ELSE IF uncertain THEN [effective |-> "partially_unknown", idle |-> None]
     ELSE IF open = {}
     THEN [effective |-> IF verdicts = {} THEN "not_observed" ELSE "ended", idle |-> None]
     ELSE [effective |-> IF \A v \in open : v.effective = "idle" THEN "idle" ELSE "waiting",
           idle |-> Min({v.idle : v \in open})]

\* What users tells a reader of a user, from the sessions that fit the limit.
UserState(reader, u, fit) ==
  Aggregate({SessionState(session[s]) : s \in fit}, fit = Counted(reader, u))

(***************************************************************************)
(* Properties.                                                             *)
(***************************************************************************)

Readers == [user : Users, project : BOOLEAN, ceiling : Classes, ended : BOOLEAN]

\* The report a session accepted last.
Newest(s) == log[s][Len(log[s])]

\* The last n ticks of a session were observed, and idle: the reports accepted
\* since then all said so, each following the other before it went stale.
ObservedIdle(s, n) ==
  \E k \in DOMAIN log[s] :
    /\ now - log[s][k].at >= n
    /\ \A i \in k..Len(log[s]) : log[s][i].state = "idle"
    /\ \A i \in k + 1..Len(log[s]) :
         log[s][i].at - log[s][i - 1].at \in 0..log[s][i].stale - 1
    /\ now - Newest(s).at < policy.body.stale

\* A user is said to be waiting or idle for so long only if every open session
\* that the reader may see was observed to be idle all that time: no gap, no
\* unknown session and no truncated list is taken for idleness.
IdleIsObserved ==
  \A reader \in Readers, u \in Users : \A fit \in SUBSET Counted(reader, u) :
    LET said == UserState(reader, u, fit) IN
    said.idle # None =>
      /\ \E s \in Sessions : OwnerOf[s] = u /\ Status(s) = "open"
      /\ \A s \in Sessions : OwnerOf[s] = u /\ Visible(reader, s) /\ Status(s) = "open" =>
           ObservedIdle(s, said.idle)
      /\ said.effective = "idle" <=> said.idle >= policy.body.idle

\* A session is what the newest accepted report made it: reports are accepted
\* in the order they were numbered, each once and none after the end, so that a
\* repeated or delayed one neither rewinds, nor revives, nor refreshes it.
ShownAsReported ==
  \A s \in Sessions :
    /\ \A i \in 1..Len(log[s]) - 1 :
         log[s][i].sequence < log[s][i + 1].sequence /\ ~log[s][i].ends
    /\ Live(s) /\ log[s] # <<>> =>
         /\ session[s].sequence = Newest(s).sequence
         /\ session[s].fields.state = Newest(s).state
         /\ Status(s) = "ended" <=> Newest(s).ends
         /\ ~Newest(s).ends => session[s].seen = Newest(s).at

\* The rows are what was reported of their sessions.
SessionsAreSound == TypeOK /\ ShownAsReported

\* guard_presence_session: the updates of a row that the database refuses.
SessionGuard(old, new) ==
  \/ old.parent # new.parent \/ old.created # new.created
  \/ old.status = "retired"
  \/ new.sequence < old.sequence \/ new.changes < old.changes
  \/ old.status = "ended" /\ (new.ended # old.ended \/ new.status # "retired")
  \/ new.class < old.class

\* The database never has to refuse an update that a handler makes: in whatever
\* order sessions report, end and are pruned, none loses its place in the
\* sequence, its level or the time it ended, and a retired one is left alone.
GuardNeverRefuses ==
  [][\A s \in Sessions :
       Status(s) # "absent" /\ session'[s] # session[s] =>
         ~SessionGuard(session[s], session'[s])]_vars
=============================================================================
