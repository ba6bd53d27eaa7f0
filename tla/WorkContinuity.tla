--------------------------- MODULE WorkContinuity ---------------------------
(***************************************************************************)
(* Project continuity: a source (a checkpoint, or a handoff that is moved  *)
(* under this service) is published once, as a bundle with one delivery    *)
(* per recipient and work units of which each has at most one owner at a   *)
(* time.  Administrators reassign bundles and erase checkpoints.           *)
(*                                                                         *)
(* Every operation is one transaction under the advisory lock of the       *)
(* project, so every action is a whole operation.  What a caller learnt    *)
(* from an earlier answer may be stale by then: owners keep the generation *)
(* of their claim (claims), administrators the status they read (plan).    *)
(*                                                                         *)
(* A retry with a known idempotency key answers from its receipt and       *)
(* changes nothing, and the same key with another request is refused; both *)
(* are no step, and only the receipts of releases are kept (releases).     *)
(* Eligible members come and go in the project directory: any user may be  *)
(* eligible at any call, and an ineligible one is a call that is refused.  *)
(* The text of a work unit matters only in that an administrator may       *)
(* rewrite it.  expected_generation and expected_routing_version of a      *)
(* claim can only refuse it, and are left out.                             *)
(***************************************************************************)
EXTENDS Naturals, FiniteSets

CONSTANTS Users,          \* authenticated users of the project
          Admins,         \* those with project admin authority
          Senders,        \* those who save checkpoints or push handoffs
          Checkpoints,    \* identities of saved checkpoints
          Handovers,      \* identities of promotable handoffs
          Works,          \* work_id of checkpoints
          Classes,        \* classifications, as numbers from public upwards
          UnitKeys,       \* keys of work units
          Tokens,         \* digests of private claim tokens
          PolicyBodies,   \* policies an administrator may set
          NoUser,         \* NULL in claimed_by
          NoToken,        \* NULL in claim_token_digest
          NoPlan,         \* an administrator who has read no status
          HandoverRetention, \* retention of a pushed handoff, in clock ticks
          MaxUnits,       \* lifetime work units of a bundle
          MaxTime,        \* bound on the clock
          MaxGeneration,  \* bound on claim_generation
          MaxVersion,     \* bound on versions of bundles and checkpoints
          MaxPolicy       \* bound on the version of the policy

\* The JSON schema of memory_continuity_policy_set, and policies.validate.
Bodies == [enabled : BOOLEAN, takeover : BOOLEAN, retention : Nat \ {0}, lease : Nat \ {0},
           recipients : [Users -> SUBSET Users]]

ASSUME WorkAssumption ==
  /\ Admins \subseteq Users
  /\ Senders \subseteq Users
  /\ Checkpoints \cap Handovers = {}
  /\ Classes \subseteq Nat
  /\ PolicyBodies \subseteq Bodies
  /\ PolicyBodies # {} /\ Works # {}
  /\ {HandoverRetention, MaxUnits, MaxTime, MaxGeneration, MaxVersion, MaxPolicy} \subseteq Nat \ {0}

ASSUME WorkNullAssumption == NoUser \notin Users /\ NoToken \notin Tokens

VARIABLES now,            \* clock_timestamp()
          policy,         \* memory_continuity_policies
          source,         \* memory_checkpoints and the promotable handoffs
          bundle,         \* memory_continuity_bundles, one per source
          deliveries,     \* memory_continuity_deliveries of each bundle
          units,          \* memory_continuity_units of each bundle
          claims,         \* memory_continuity_claims of each unit
          releases,       \* receipts of releases of each unit
          plan            \* the bundle status each administrator last read

vars == <<now, policy, source, bundle, deliveries, units, claims, releases, plan>>

Sources == Checkpoints \cup Handovers
WorkUnits == Sources \X UnitKeys
Terminal == {"completed", "cancelled"}
States == {"absent", "available", "claimed"} \cup Terminal
NoLease == 0              \* NULL in lease_expires_at: the clock starts at 1

Policies == [version : Nat, body : PolicyBodies]
SourceRows == [from : Users \cup {NoUser}, work : Works, version : Nat, class : Nat,
               expires : Nat, forgotten : BOOLEAN]
BundleRows == [version : Nat, expires : Nat, revoked : BOOLEAN]
DeliveryRows == [to : Users, version : Nat, acked : BOOLEAN, live : BOOLEAN]
UnitRows == [state : States, assignees : SUBSET Users, by : Users \cup {NoUser},
             token : Tokens \cup {NoToken}, lease : Nat, generation : Nat]
ClaimRows == [by : Users, token : Tokens, generation : Nat]
ReleaseRows == [by : Users, token : Tokens, generation : Nat, state : {"available", "completed"}]
Plans == [source : Sources, version : Nat,
          seen : [UnitKeys -> [by : Users \cup {NoUser}, generation : Nat]]]

NoSource == [from |-> NoUser, work |-> CHOOSE w \in Works : TRUE, version |-> 0, class |-> 0,
             expires |-> 0, forgotten |-> FALSE]
NoBundle == [version |-> 0, expires |-> 0, revoked |-> FALSE]
NoUnit == [state |-> "absent", assignees |-> {}, by |-> NoUser, token |-> NoToken,
           lease |-> NoLease, generation |-> 0]

TypeOK ==
  /\ now \in Nat
  /\ policy \in Policies
  /\ source \in [Sources -> SourceRows]
  /\ bundle \in [Sources -> BundleRows]
  /\ deliveries \in [Sources -> SUBSET DeliveryRows]
  /\ units \in [WorkUnits -> UnitRows]
  /\ claims \in [WorkUnits -> SUBSET ClaimRows]
  /\ releases \in [WorkUnits -> SUBSET ReleaseRows]
  /\ plan \in [Admins -> Plans \cup {NoPlan}]

Init ==
  /\ now = 1
  /\ policy = [version |-> 0, body |-> CHOOSE b \in PolicyBodies : TRUE]
  /\ source = [s \in Sources |-> NoSource]
  /\ bundle = [s \in Sources |-> NoBundle]
  /\ deliveries = [s \in Sources |-> {}]
  /\ units = [w \in WorkUnits |-> NoUnit]
  /\ claims = [w \in WorkUnits |-> {}]
  /\ releases = [w \in WorkUnits |-> {}]
  /\ plan = [a \in Admins |-> NoPlan]

Lower(x, y) == IF x <= y THEN x ELSE y
Higher(x, y) == IF x >= y THEN x ELSE y

(***************************************************************************)
(* Policy and sources.                                                     *)
(***************************************************************************)

\* common.policy: the row is absent in version 0, whatever its body.
Configured == policy.version > 0
Enabled == Configured /\ policy.body.enabled

\* policies.set_policy, by an administrator who expects this version.
SetPolicy(body, expected) ==
  /\ policy.version = expected
  /\ policy.version < MaxPolicy
  /\ policy' = [version |-> expected + 1, body |-> body]
  /\ UNCHANGED <<now, source, bundle, deliveries, units, claims, releases, plan>>

\* The history of a user's work, and its latest version and classification.
HistoryKept(u, w) ==                                          \* mutant
  {source[c] : c \in {d \in Checkpoints : /\ source[d].from = u /\ source[d].work = w
                                          /\ ~source[d].forgotten}}

History(u, w) ==
  {source[c] : c \in {d \in Checkpoints : source[d].from = u /\ source[d].work = w}}

Latest(u, w) == {r \in History(u, w) : \A o \in History(u, w) : o.version <= r.version}

\* checkpoints.save appends to the history, in which erased versions count.
Save(c, u, w, class, expected) ==
  /\ Enabled
  /\ source[c] = NoSource
  /\ IF Latest(u, w) = {} THEN expected = 0 ELSE \A r \in Latest(u, w) : r.version = expected
  /\ \A r \in Latest(u, w) : class >= r.class
  /\ now + policy.body.retention <= MaxTime
  /\ source' = [source EXCEPT ![c] =
       [from |-> u, work |-> w, version |-> expected + 1, class |-> class,
        expires |-> now + policy.body.retention, forgotten |-> FALSE]]
  /\ UNCHANGED <<now, policy, bundle, deliveries, units, claims, releases, plan>>

\* A handoff is pushed; HandoffLease models what happens to it until then.
Arrive(h, u) ==
  /\ source[h] = NoSource
  /\ now + HandoverRetention <= MaxTime
  /\ source' = [source EXCEPT ![h] = [NoSource EXCEPT !.from = u, !.expires = now + HandoverRetention]]
  /\ UNCHANGED <<now, policy, bundle, deliveries, units, claims, releases, plan>>

(***************************************************************************)
(* Publication, acknowledgement and erasure.                               *)
(***************************************************************************)

Published(s) == bundle[s].version > 0
Retained(s) == Published(s) /\ ~bundle[s].revoked /\ bundle[s].expires > now
Live(D) == {d \in D : d.live}
Recipients(s) == {d.to : d \in Live(deliveries[s])}

\* common.eligible, of the users in the project directory.
EligibleAny(s, recipients) == recipients \subseteq Users      \* mutant

Eligible(s, recipients) == recipients \subseteq Users \ {source[s].from}

\* delivery.validate_units: the requested units, by key, and who may do them.
AssignmentsToAnyone(recipients) ==                            \* mutant
  UNION {[keys -> (SUBSET Users) \ {{}}] : keys \in (SUBSET UnitKeys) \ {{}}}

Assignments(recipients) ==
  UNION {[keys -> (SUBSET recipients) \ {{}}] : keys \in (SUBSET UnitKeys) \ {{}}}

Fresh(assignees) == [NoUnit EXCEPT !.state = "available", !.assignees = assignees]

Sent(recipients, version) ==
  [to : recipients, version : {version}, acked : {FALSE}, live : {TRUE}]

\* delivery.publish: one bundle per source, never to its own sender, under the
\* policy version its publisher expects.
Publish(s, u, recipients, work, expected) ==
  /\ Enabled /\ policy.version = expected
  /\ source[s] # NoSource /\ ~source[s].forgotten /\ source[s].expires > now
  /\ u \in Admins \/ (s \in Checkpoints /\ source[s].from = u)
  /\ ~Published(s)
  /\ u \in Admins \/ recipients \subseteq policy.body.recipients[source[s].from]
  /\ Eligible(s, recipients)
  /\ bundle' = [bundle EXCEPT ![s] =
       [version |-> 1, revoked |-> FALSE,
        expires |-> Lower(source[s].expires, now + policy.body.retention)]]
  /\ deliveries' = [deliveries EXCEPT ![s] = Sent(recipients, 1)]
  /\ units' = [w \in WorkUnits |->
       IF w[1] = s /\ w[2] \in DOMAIN work THEN Fresh(work[w[2]]) ELSE units[w]]
  /\ UNCHANGED <<now, policy, source, claims, releases, plan>>

\* delivery.ack settles one delivery of one recipient, and no work.
Ack(s, d) ==
  /\ Retained(s)
  /\ d.live /\ ~d.acked
  /\ deliveries' = [deliveries EXCEPT ![s] = (@ \ {d}) \cup {[d EXCEPT !.acked = TRUE]}]
  /\ UNCHANGED <<now, policy, source, bundle, units, claims, releases, plan>>

RevokedUnread(D) == {[d EXCEPT !.live = d.acked] : d \in D}    \* mutant

Revoked(D) == {[d EXCEPT !.live = FALSE] : d \in D}

\* What takes a unit away from whoever owned it.
Fenced(r, state, assignees) ==
  [r EXCEPT !.state = state, !.assignees = assignees, !.by = NoUser, !.token = NoToken,
            !.lease = NoLease, !.generation = @ + 1]

\* checkpoints.forget erases the body of a checkpoint and all that hangs on it.
Forget(c) ==
  /\ source[c] # NoSource /\ ~source[c].forgotten
  /\ bundle[c].version < MaxVersion
  /\ \A k \in UnitKeys : units[<<c, k>>].generation < MaxGeneration
  /\ source' = [source EXCEPT ![c].forgotten = TRUE]
  /\ bundle' = IF Published(c)
               THEN [bundle EXCEPT ![c].revoked = TRUE, ![c].version = @ + 1] ELSE bundle
  /\ deliveries' = [deliveries EXCEPT ![c] = Revoked(@)]
  /\ units' = [w \in WorkUnits |->
       IF w[1] = c /\ units[w].state # "absent"
       THEN Fenced(units[w], "cancelled", units[w].assignees) ELSE units[w]]
  /\ UNCHANGED <<now, policy, claims, releases, plan>>

(***************************************************************************)
(* Reassignment.                                                           *)
(***************************************************************************)

Running(r) == r.state = "claimed" /\ r.lease > now

\* reads.status, as an administrator reads it before deciding.
Inspect(a, s) ==
  /\ Published(s)
  /\ plan' = [plan EXCEPT ![a] =
       [source |-> s, version |-> bundle[s].version, 
        seen |-> [k \in UnitKeys |->
          [by |-> units[<<s, k>>].by, generation |-> units[<<s, k>>].generation]]]]
  /\ UNCHANGED <<now, policy, source, bundle, deliveries, units, claims, releases>>

\* A unit the request cancels, gives to others, or rewrites.
ChangedText(r, k, work, rewritten) == k \notin DOMAIN work \/ k \in rewritten    \* mutant

Changed(r, k, work, rewritten) ==
  k \notin DOMAIN work \/ k \in rewritten \/ work[k] # r.assignees

\* A claimed unit that the request takes over by name.
Forced(r, k, takeover) == k \in takeover /\ r.state = "claimed"

\* Terminal work is never given out again, and running work only by force.
MayReassign(r, k, work, takeover, rewritten) ==
  Changed(r, k, work, rewritten) =>
    /\ r.state \in Terminal => k \notin DOMAIN work
    /\ Running(r) => Forced(r, k, takeover)

ReassignedAll(r, k, work, takeover, rewritten) ==             \* mutant
  IF r.state = "absent" THEN IF k \in DOMAIN work THEN Fresh(work[k]) ELSE r
  ELSE IF ~Changed(r, k, work, rewritten) /\ ~Forced(r, k, takeover) THEN r
  ELSE IF k \in DOMAIN work THEN Fenced(r, "available", work[k])
  ELSE Fenced(r, "cancelled", r.assignees)

Reassigned(r, k, work, takeover, rewritten) ==
  IF r.state = "absent" THEN IF k \in DOMAIN work THEN Fresh(work[k]) ELSE r
  ELSE IF \/ r.state \in Terminal
          \/ ~Changed(r, k, work, rewritten) /\ ~Forced(r, k, takeover) THEN r
  ELSE IF k \in DOMAIN work THEN Fenced(r, "available", work[k])
  ELSE Fenced(r, "cancelled", r.assignees)

Existing(s) == {k \in UnitKeys : units[<<s, k>>].state # "absent"}

\* expected_version and expected_generations, as the administrator read them.
AsRouted(a) == bundle[plan[a].source].version = plan[a].version        \* mutant

AsPlanned(a) ==
  /\ bundle[plan[a].source].version = plan[a].version
  /\ \A k \in UnitKeys : units[<<plan[a].source, k>>].generation = plan[a].seen[k].generation

\* The whole new assignment of a bundle, from one request.
Reroute(s, recipients, work, takeover, rewritten) ==
  /\ Eligible(s, recipients)
  /\ takeover # {} => policy.body.takeover
  /\ takeover \subseteq Existing(s)
  /\ \A k \in Existing(s) : MayReassign(units[<<s, k>>], k, work, takeover, rewritten)
  /\ Cardinality(Existing(s) \cup DOMAIN work) <= MaxUnits
  /\ units' = [w \in WorkUnits |->
       IF w[1] = s THEN Reassigned(units[w], w[2], work, takeover, rewritten) ELSE units[w]]
  /\ deliveries' = [deliveries EXCEPT ![s] =
       {d \in @ : d.to \in recipients} \cup Revoked({d \in @ : d.to \notin recipients})
       \cup Sent(recipients \ Recipients(s), bundle[s].version + 1)]
  /\ bundle' = [bundle EXCEPT ![s].version = @ + 1]
  /\ UNCHANGED <<now, policy, source, claims, releases, plan>>

\* delivery.reassign, against the status its administrator read.
Reassign(a) ==
  LET s == plan[a].source IN
  /\ plan[a] # NoPlan
  /\ Enabled
  /\ Retained(s)
  /\ AsPlanned(a)
  /\ bundle[s].version < MaxVersion
  /\ \A k \in UnitKeys : units[<<s, k>>].generation < MaxGeneration
  /\ \E recipients \in (SUBSET Users) \ {{}} :
       \E work \in Assignments(recipients), takeover \in SUBSET UnitKeys :
         \E rewritten \in SUBSET DOMAIN work :
           Reroute(s, recipients, work, takeover, rewritten)

(***************************************************************************)
(* Work.                                                                   *)
(***************************************************************************)

\* work.locate: the unit as one of its assignees with a live delivery sees it.
Located(w, u) ==
  /\ units[w].state # "absent"
  /\ u \in units[w].assignees
  /\ Retained(w[1])
  /\ u \in Recipients(w[1])

\* memory_continuity_claims: a token of an actor starts one generation of a unit.
SpentNow(w, u, t) == units[w].by = u /\ units[w].token = t      \* mutant

Spent(w, u, t) == \E q \in claims[w] : q.by = u /\ q.token = t

OpenToReturned(w, u) == Located(w, u) /\ units[w].state = "available"    \* mutant

\* What an assignee may claim: work that is available, or whose lease ran out.
OpenTo(w, u) ==
  Located(w, u) /\ units[w].state \in {"available", "claimed"} /\ ~Running(units[w])

Taken(r, u, t, lease) ==
  [r EXCEPT !.state = "claimed", !.by = u, !.token = t, !.lease = lease, !.generation = @ + 1]

\* work.claim.  While the lease runs the owner gets the same answer again.
Claim(w, u, t) ==
  LET r == units[w] IN
  /\ Enabled
  /\ OpenTo(w, u)
  /\ ~Spent(w, u, t)
  /\ r.generation < MaxGeneration
  /\ units' = [units EXCEPT ![w] =
       Taken(r, u, t, Lower(bundle[w[1]].expires, now + policy.body.lease))]
  /\ claims' = [claims EXCEPT ![w] =
       @ \cup {[by |-> u, token |-> t, generation |-> r.generation + 1]}]
  /\ UNCHANGED <<now, policy, source, bundle, deliveries, releases, plan>>

\* work.active: the lease the claim g was given is the one that runs.
OwnedLate(r, g) ==                                            \* mutant
  r.state = "claimed" /\ r.by = g.by /\ r.token = g.token /\ r.generation = g.generation

Owned(r, g) == Running(r) /\ r.by = g.by /\ r.token = g.token /\ r.generation = g.generation

\* work.renew: also under a policy that was disabled since.
Renew(w, g, deadline) ==
  LET r == units[w] IN
  /\ Located(w, g.by)
  /\ Owned(r, g)
  /\ deadline > r.lease => deadline <= now + policy.body.lease
  /\ units' = [units EXCEPT ![w].lease = Higher(@, Lower(deadline, bundle[w[1]].expires))]
  /\ UNCHANGED <<now, policy, source, bundle, deliveries, claims, releases, plan>>

Returned(r, state) ==
  [r EXCEPT !.state = state, !.by = NoUser, !.token = NoToken, !.lease = NoLease]

\* work.release: given back, or reported as completed.
Release(w, g, state) ==
  /\ Located(w, g.by)
  /\ Owned(units[w], g)
  /\ units' = [units EXCEPT ![w] = Returned(@, state)]
  /\ releases' = [releases EXCEPT ![w] =
       @ \cup {[by |-> g.by, token |-> g.token, generation |-> g.generation, state |-> state]}]
  /\ UNCHANGED <<now, policy, source, bundle, deliveries, claims, plan>>

Tick ==
  /\ now < MaxTime
  /\ now' = now + 1
  /\ UNCHANGED <<policy, source, bundle, deliveries, units, claims, releases, plan>>

Next ==
  \/ \E b \in PolicyBodies, v \in 0..MaxPolicy : SetPolicy(b, v)
  \/ \E c \in Checkpoints, u \in Senders, w \in Works, x \in Classes, v \in 0..MaxVersion :
       Save(c, u, w, x, v)
  \/ \E h \in Handovers, u \in Senders : Arrive(h, u)
  \/ \E s \in Sources, u \in Users, R \in (SUBSET Users) \ {{}}, v \in 0..MaxPolicy :
       \E work \in Assignments(R) : Publish(s, u, R, work, v)
  \/ \E s \in Sources : \E d \in deliveries[s] : Ack(s, d)
  \/ \E c \in Checkpoints : Forget(c)
  \/ \E a \in Admins, s \in Sources : Inspect(a, s)
  \/ \E a \in Admins : Reassign(a)
  \/ \E w \in WorkUnits, u \in Users, t \in Tokens : Claim(w, u, t)
  \/ \E w \in WorkUnits, d \in 1..MaxTime : \E g \in claims[w] : Renew(w, g, d)
  \/ \E w \in WorkUnits, state \in {"available", "completed"} :
       \E g \in claims[w] : Release(w, g, state)
  \/ Tick

Spec == Init /\ [][Next]_vars

(***************************************************************************)
(* Safety.                                                                 *)
(***************************************************************************)

\* Whatever was reassigned or erased in between, a claimed unit is owned by one
\* of its assignees, who still receives the bundle, under its last claim.
OwnerIsEntitled ==
  \A w \in WorkUnits : LET r == units[w] IN r.state = "claimed" =>
    /\ ~bundle[w[1]].revoked
    /\ r.by \in r.assignees \cap Recipients(w[1])
    /\ [by |-> r.by, token |-> r.token, generation |-> r.generation] \in claims[w]

\* Open work of a bundle in force is never stranded: all its assignees still
\* receive the bundle, each of them in one delivery, and once nobody works on it
\* each may claim it without an administrator, although its owner vanished.
WorkIsReachable ==
  \A s \in Sources : Published(s) /\ ~bundle[s].revoked =>
    /\ \A d, e \in Live(deliveries[s]) : d.to = e.to => d = e
    /\ \A k \in UnitKeys : units[<<s, k>>].state \in {"available", "claimed"} =>
         /\ units[<<s, k>>].assignees # {}
         /\ units[<<s, k>>].assignees \subseteq Recipients(s)
         /\ bundle[s].expires > now /\ ~Running(units[<<s, k>>]) =>
              \A u \in units[<<s, k>>].assignees : OpenTo(<<s, k>>, u)

\* However often it was renewed, and whatever policies came and went, a running
\* lease ends with the bundle, which ends with its source.
LeaseWithinRetention ==
  \A w \in WorkUnits : Running(units[w]) =>
    units[w].lease <= bundle[w[1]].expires /\ bundle[w[1]].expires <= source[w[1]].expires

\* Work in progress is in the right hands, for the right time.
WorkIsOwned == TypeOK /\ OwnerIsEntitled /\ LeaseWithinRetention

\* A claim generation belongs to one actor and one token, and a token of an
\* actor starts one generation of a unit at most, so that a delayed claim can
\* never take the unit again.
ClaimsAreUnique ==
  \A w \in WorkUnits : \A p, q \in claims[w] :
    p.generation = q.generation \/ (p.by = q.by /\ p.token = q.token) => p = q

\* "A handover user cannot be their own successor" (continuity/common.py:103),
\* by publication, by reassignment or by force.
SenderNeverSucceeds ==
  \A s \in Sources :
    /\ \A d \in deliveries[s] : d.to # source[s].from
    /\ \A k \in UnitKeys : source[s].from \notin units[<<s, k>>].assignees
    /\ \A k \in UnitKeys : \A g \in claims[<<s, k>>] : g.by # source[s].from

\* An erased checkpoint leaves nothing to read, to own or to publish.
ErasureIsComplete ==
  \A c \in Checkpoints : source[c].forgotten =>
    /\ Live(deliveries[c]) = {}
    /\ \A k \in UnitKeys : units[<<c, k>>].state \in {"absent", "cancelled"}
    /\ Published(c) => bundle[c].revoked

\* "Classification cannot decrease over that work's history"
\* (docs/memory-project-continuity.md), erased versions included.
ClassificationNeverDrops ==
  \A c, d \in Checkpoints :
    /\ source[c] # NoSource /\ source[d] # NoSource
    /\ source[c].from = source[d].from /\ source[c].work = source[d].work
    /\ source[c].version <= source[d].version
    => source[c].class <= source[d].class /\ (source[c].version = source[d].version => c = d)

\* "Never reopen terminal work. Omission just retains its history"
\* (continuity/delivery.py:198): completed or cancelled work stays as it is,
\* but for the erasure of its source, which relabels it as cancelled.
TerminalIsFinal ==
  [][\A w \in WorkUnits : units[w].state \in Terminal =>
       \/ units'[w] = units[w]
       \/ source'[w[1]].forgotten /\ units'[w].state = "cancelled"]_vars

\* Work that runs is interrupted by its owner, by the erasure of its source, or
\* by an administrator who had read that very claim and holds a policy that
\* allows it: a claim of which the administrator knew nothing is never lost.
TakeoverWasSeen ==
  [][\A w \in WorkUnits :
       Running(units[w]) /\ (units'[w].by # units[w].by \/ units'[w].generation # units[w].generation) =>
         \/ releases'[w] # releases[w]
         \/ source'[w[1]].forgotten
         \/ /\ policy.body.takeover
            /\ \E a \in Admins : /\ plan[a] # NoPlan /\ plan[a].source = w[1]
                 /\ plan[a].seen[w[2]] = [by |-> units[w].by, generation |-> units[w].generation]]_vars

(***************************************************************************)
(* The abstract specification.                                             *)
(***************************************************************************)

Claimants == [by : Users, token : Tokens]
NoHolder == [by |-> NoUser, token |-> NoToken]

Holder(r) == IF Running(r) THEN [by |-> r.by, token |-> r.token] ELSE NoHolder

Settlement(q) == [by |-> [by |-> q.by, token |-> q.token],
                  fence |-> q.generation, outcome |-> q.state]

Lease == INSTANCE FencedLease WITH
  Resources <- WorkUnits,
  Outcomes <- {"available", "completed"},
  holder <- [w \in WorkUnits |-> Holder(units[w])],
  fence <- [w \in WorkUnits |-> units[w].generation],
  ledger <- [w \in WorkUnits |-> {Settlement(q) : q \in releases[w]}]

\* Work units are leased as handoffs are, although reassignment and erasure may
\* move many of them at once.
ImplementsFencedLease == Lease!Spec
=============================================================================
