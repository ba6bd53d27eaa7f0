# ISEKAI Memory: a verification project

ISEKAI Memory is a server that keeps the shared memory of several people's
coding sessions: handoffs of unfinished work, checkpoints, reviewed
experiences, skills, and the presence and usage of the sessions themselves.
It is a Python process that answers MCP and REST calls; every call is one
database transaction, on PostgreSQL (a pool of connections, transactions
interleave) or on SQLite (one connection, transactions are serial).

The modules here model the parts of the server in which several callers, the
clock and lost answers meet; TLC checks them on small instances, TLAPS proves
what matters most for all instances. File names below are relative to
`src/isekai_memory/` of the repository.

## 1. Inventory

| Component | State it keeps | Operations | Hard behaviour | Module |
|---|---|---|---|---|
| Handoff delivery (`store/queries.py`, `handoff/service.py`) | `handoffs`, `handoff_claim_receipts` | push, list, pull, claim, get, ack, nack | settlements look for a receipt before they lock the row; lapsing leases; lost answers; two claim protocols on one row | `HandoffLease` |
| Handoff collaboration (`handoff/collaboration*.py`) | the same rows | inbox, status, renew | views recompute what a claim would decide; absolute renewal deadlines | `HandoffLease` |
| Envelopes and packages (`handoff/validation.py`, `continuation.py`) | none | validate, digest | none: pure | – |
| Continuity policies (`continuity/policies.py`, `common.py`) | one versioned policy per project, receipts | get, set | version CAS; disabled while work runs | `WorkContinuity` |
| Checkpoints (`continuity/checkpoints.py`) | immutable versions per user and work | save, read, forget | erased versions still count; erasure spans five tables | `WorkContinuity` |
| Bundles and deliveries (`continuity/delivery.py`) | bundle, deliveries, units | publish, read, ack, reassign | one bundle per source; stale administrators; keep, move, cancel or take over unit by unit | `WorkContinuity` |
| Work units (`continuity/work.py`) | owner, token, generation, lease | claim, renew, release | fencing; tokens are never reused | `WorkContinuity` |
| Reads and overview (`continuity/reads.py`, `overview.py`) | none | status, listings | an answer is stale when it is acted upon | partly, `WorkContinuity` |
| Collaboration events (`continuity/events.py`) | head position, pruned-through, events | append, list by cursor, purge | commit order; gaps after a purge; resets; restored backups | `EventFeed`, `RestoredFeed` |
| Presence (`continuity/presence*.py`) | sessions, sequences | register, heartbeat, end, prune | reordered and repeated reports; gaps in observation; a clock that steps back | `PresenceSessions` |
| Usage (`continuity/usage*.py`) | runs, receipts per sequence | register, report, prune, summarise | revisions of absolute counters, finalisation, attribution to a period | `UsageLedger` |
| Generation (`generation/`) | jobs, attempts, results | enqueue, claim, run, store, fail, redrive | worker crashes, lapsed leases, double check of a lease, retry budget | `GenerationQueue` |
| Experiences (`experience/`) | memories, events, suppressions | propose, revise, review, release | corrections of what is under review; suppressed claims must not return | `ExperienceReview` |
| Skills (`skills/`) | skills, revisions, sources | submit, derive, review | approval against a moving active revision and moving sources; a trigger that retires | `SkillReview` |
| Team assets (`team/`) | grants, documents, imports, feedback | publish, delete, grant, revoke, read, import, observe | a grant fixes one version; it ends while it is read | `TeamAssets` |
| Project directory (`projects/`) | projects, members, records | register, assign, list, put, remove | rights change between the binding of a call and its transaction | `ProjectDirectory` |
| Identities (`store/identities.py`, `github_identities.py`, `server/github_admin.py`) | external identities | enter, bind to a former user, disable, enable | a disabled account with calls under way; a first login that meets a binding | `GitHubLogin`, partly `ProjectDirectory` |
| Authentication (`server/auth.py`, `entra.py`, `github.py`) | tokens, key cache, cache of GitHub's answers, rate limit | issue, revoke, verify, exchange | tokens end while they are used; racing calls refresh the cache of signing keys; calls wait for GitHub, fail or are cut there | `SigningKeys`, `GitHubLogin`, partly `ProjectDirectory` |
| Registry (`registry/`) | immutable artifacts | publish, resolve | none: insert-only | – |
| Retrieval (`retrieval/`) | none | search, cite | read-only | – |
| Storage, transport, configuration (`store/database.py`, `sqlite*.py`, `server/http_handler.py`, `main.py`, `config.py`) | connections | – | I/O; the models take from it what a transaction isolates | – |

How they interact: a handoff row is created by the handoff service and may be
*promoted* by the continuity service, which fences off whoever held it and
refuses all further use of the old protocol. Continuity reads the project
directory for eligibility, and writes an event for every change. Presence
names work units and checkpoints. The generation worker reads handoffs and
writes experiences; skills cite experiences; grants share experiences, skills
and documents with other projects.

What makes each component correct:

- *Handoffs*: a claim is settled at most once and its settlement is never
  lost; a delivered handoff is delivered for good; a late or repeated request
  does not reach somebody else's claim; directed handoffs reach nobody else.
- *Continuity*: the owner of a unit may do its work and can read its source;
  open work is never stranded, finished work never reopened; only an
  administrator who saw a claim may break it; erasure leaves nothing behind.
- *Events*: a reader is offered every event it may see, or told to start over.
- *Presence and usage*: reports commute with loss, repetition and reordering.
- *Generation*: a job succeeds at most once, and every job ends.
- *Experiences and skills*: one active revision; a suppressed claim stays away
  until it is released; what is approved is what was reviewed.
- *Team assets*: what a grant resolves to is what was granted.
- *Authentication*: a withdrawn key is not accepted for longer than the cache
  lives, and calls with unknown keys do not lock out those with known ones. Who
  comes from GitHub is let in for a token that GitHub vouched for, as the same user
  each time, and the server is never busy with calls that are gone.

## 2. Structure

| Module | Extends or composes | Instance for TLC | Proofs |
|---|---|---|---|
| `FencedLease` | – (abstract) | as a property of three others | in `HandoffLeaseProofs` |
| `HandoffLease` | implements `FencedLease` | `MCHandoffLease` | `HandoffLeaseProofs` |
| `WorkContinuity` | implements `FencedLease` | `MCWorkContinuity` | `WorkContinuityProofs` |
| `GenerationQueue` | implements `FencedLease` | itself | `GenerationQueueProofs` |
| `EventFeed` | – | `MCEventFeed` | `EventFeedProofs` |
| `RestoredFeed` | `EventFeed` with backups | itself | – |
| `PresenceSessions`, `UsageLedger` | – | `MCObservation` | `PresenceSessionsProofs`, `UsageLedgerProofs` |
| `ExperienceReview`, `SkillReview` | the second extends the first and composes both | `MCSkillReview` | `SkillReviewProofs` |
| `ProjectDirectory`, `TeamAssets`, `SigningKeys`, `GitHubLogin` | – | `MCTeam` | `TeamProofs` |

What is left to do: `HandoffLease` and `WorkContinuity` composed over one handoff
row and its bundle (today each models the other's half of a promotion by its
effect on its own rows).

## 3. Modules

### FencedLease

What each lease of the server promises: one holder per resource, every new
holder under a higher fence, a holder only ever replaced after it settled,
lapsed or was revoked, and a ledger that only the holder of the moment can
write. It says nothing about tokens, deadlines or policies. Three modules
implement it, each through a refinement mapping at its end.

### HandoffLease

| Model | Code |
|---|---|
| `handoff[h]` | the row: status, claimed_by, claim_token_digest, lease, generation, disposition, reason, expiry, version, recipient, continuity_managed |
| `receipts[h]` | `handoff_claim_receipts` |
| `grants[h]` | the generations that claims returned; a client knows no others |
| `conn[c]` | the settlement a connection serves, from its receipt lookup to its answer |
| `Push`, `List`, `Pull`, `Claim` | `push_handoff`, `list_handoffs`, `pull_handoff`, `claim_handoff_recoverable` |
| `InsertHandoff`, `ExpireOnList`, `TakeOnce`, `ClaimLease` | what these do in the store: `insert_handoff`, the expiry in `list_pending_handoffs`, `claim_handoff`, `claim_handoff_lease` |
| `Renew` | `collaboration_store.renew_lease` |
| `Promote` | the handoff branch of `delivery.publish` |
| `Request`, then `Acknowledge`, `Nack`, `Repeat` or `Refuse` | `acknowledge_handoff`, `nack_handoff`: lookup, then the row lock |
| `Abort` | timeout, disconnect or crash before the commit |
| `Listed`, `InView`, `Inbox`, `DeliveryState`, `CanClaim` | the listing, the inbox in its views "available", "claimed" and "received", the state and the claimable flag of the status tool |
| `UnderClaim`, `GetClaimed` | `get_claimed_handoff`: what a client that lost the answer to its claim is told again |

All operations but the settlements are one action: they take the row lock
first or are one statement. Repeating a push or a claim that is in force
changes nothing and is no step. A lost answer needs no action of its own: the
client may send its request again at any time, from any connection.

### WorkContinuity

| Model | Code |
|---|---|
| `policy` | `memory_continuity_policies` |
| `source[s]` | a checkpoint version, or a promotable handoff |
| `bundle[s]`, `deliveries[s]` | the bundle of the source, and all its deliveries with the revoked ones |
| `units[s, k]` | the work units, by key |
| `claims[w]` | `memory_continuity_claims`, and what clients know of their generation |
| `releases[w]` | the receipts of releases |
| `plan[a]` | the `status` answer an administrator acts upon |
| `SetPolicy`, `Save`, `Forget`, `Publish`, `Ack`, `Reassign`, `Claim`, `Renew`, `Release` | the operations of the same names |
| `Inspect` | `reads.status` |
| `Arrive` | a handoff is pushed |

Every continuity operation holds the advisory lock of its project for its
whole transaction (`common.transaction`), so each is one action; what is stale
is only what callers remember. Repeats under a known idempotency key change
nothing. Whether a member is eligible is left open: any user may be at any call.

### GenerationQueue

| Model | Code |
|---|---|
| `source[s]` | the watermark of a handoff, of the references of a scope, or of a blueprint, as it would be computed now |
| `job[j]`, `log[j]` | `memory_generation_jobs` and the outcome codes in `memory_generation_attempts`; a job is a source at a watermark |
| `effects` | the experiences, snapshots and revisions that attempts stored |
| `worker[w]`, `lock` | what a worker process carries, and whose transaction holds the project's advisory lock |
| `Enqueue`, `Redrive`, `Claim`, `Drain`, `Fail` | the operations of `queue.py`; `Claim` fails what is expired and exhausted first, as the code does; `Drain` is a claim that finds nothing else |
| `Run`, `GiveUp` | the provider answers, times out or refuses, outside of any transaction |
| `Store`, then `Commit` or `Rollback`; `StoreRefused` | `_store` and `complete`: a check of the lease, the write, a second check of the lease, in one transaction |
| `Lapse`, `FallsDue`, `Drift`, `Crash` | a lease runs out, a delay passes, a source changes, a worker dies |

### EventFeed and RestoredFeed

| Model | Code |
|---|---|
| `item[i]` | the rows that events speak of: checkpoints, bundles, presence sessions, usage runs, the policies |
| `feed`, `head`, `pruned` | `memory_collaboration_events`, `memory_event_heads` |
| `txn[w]` | the changes and topics of a transaction that holds the head row |
| `Save`, `Publish`, `Reassign`, `Register`, `Finalize`, `Touch`, `Reclassify`, `Erase`, `Retire`, `SetPolicy` | the operations that announce, each with the one or two topics that `project_event` makes of it |
| `Commit`, `Abort` | the end of such a transaction; `Appended` is what the commit makes of the feed, one event and one purge at a time |
| `Prune`, `Poll` | `events.prune` and `events.listing`, with its cursor, its page and its reasons to start over |
| `Over`, `ShownAs`, `Visible` | the conditions of `VISIBLE` on a resource and on an event: classification, audience, retirement, erasure and expiry |
| `Accept`, `Lose`, `view[r]`, `Displayed` | what becomes of an answer, and what the console of a reader shows: kept as the documentation tells consoles to, and dropped once the `expires_at` that came with it has passed |

Checkpoints and bundles expire by themselves: no event says so, and `VISIBLE` hides
every event of what has expired (`events.py:139` and `:143`), so that a cursor
passes a change of a bundle that expired before its reader polled. The model has
both. What a reader knows then is the deadline that it read; a bundle's is fixed by
its publication and never later than its checkpoint's. A bundle belongs to its
checkpoint: `Publish` takes sender and classification from it, and `Erase` takes the
bundle with it. `RestoredFeed` adds a copy of the database and its restoration.

### PresenceSessions and UsageLedger

`session[s]` and `run[x]` are the rows, `receipts` the receipts of usage, `log`
the reports a session accepted (a history variable). `Register`, `Heartbeat`,
`End`, `Prune` and `SetPolicy` are the operations of presence, `RegisterRun`,
`Report`, `PruneRuns` and `SetUsagePolicy` those of usage; any report may arrive
at any time, again and out of order. `SessionState`, `UserState` and `Summary`
are the readings, from `presence_reads.py` and `usage_reads.py`. The clock of
presence may step back, as it is the wall clock of the database; a run counts
into the period of the time its first final report gives.

The triggers of the database (`guard_presence_session` and `guard_usage_session`
in `migrations/versions/` 011 and 012) are not part of the actions: they are
`SessionGuard` and `RunGuard`, and `GuardNeverRefuses` and `RunsNeverRegress` say
that no action needs them. `MCObservation` sets both components side by side, each
with a clock of its own.

### ExperienceReview and SkillReview

`experience[e]` and `log[e]` are a memory and its events, `suppression[c]` the
row that keeps a claim out; `skill`, `revision[r]` and `history[r]` are the same
for skills. `Propose`, `Revise`, `Review`, `Release` come from
`experience/submissions.py` and `lifecycle.py`, `SubmitNew`, `SubmitNext` and
`ReviewSkill` from `skills/`; `InvalidateSkills` is the trigger
of `020_6_invalidation.sql`, which runs in the transaction that changes an
experience and so is a conjunct of each review. The guards of the database
(triggers and CHECKs) are not part of the actions: they are
`ExperienceGuard` and `RevisionGuard`, and `GuardsNeverRefuse` says that no
action needs them.

### ProjectDirectory and TeamAssets

A call is authenticated, bound to the project with the rights that membership
leaves of the credential, and handled, in three steps (`Authenticate`, `Bind`,
`Handle`), because each reads the database on its own
(`server/auth.py`, `projects/legacy.py`, `projects/service.py`,
`projects/records.py`). `request[c]` is the call under way, `seen[c]` the
project as its user last read it. `Administer` issues, revokes and
lets expire tokens, enters, disables and enables accounts. In `TeamAssets`,
`doc`, `grant`, `imported` and `feedback` are the tables, `reading[c]` the grant
that a shared read found before it took the lock of the owner, and `served`
what the step before returned.

### SigningKeys

| Model | Code |
|---|---|
| `keys`, `loaded_at`, `last_attempt` | the fields of `EntraVerifier` (`server/entra.py`) |
| `verifying[c]` | what a call waits for: the lock, the issuer, or its turn after the issuer answered |
| `issuer[k]` | when the issuer published and withdrew a key; external |
| `Verify`, `Queue`, then `Enter` | `key`: the look without the lock, and the second one with it |
| `Answer`, then `Load`; `GiveUpKey` | `fetch_keys` in its thread, then the rest of `key`; timeout, bad answer or cancellation |
| `verdict` | what the step before said of a token |

Calls interleave where the code awaits and nowhere else, as they share one event
loop; that the issuer answers and that the call goes on are two steps, between
which keys may be withdrawn and time may pass.

### GitHubLogin

| Model | Code |
|---|---|
| `confirmed`, `attempts`, `active` | the cache, the attempts and the count of `GitHubAuth` (`server/github.py`) |
| `identities` | `memory_github_identities` |
| `apptoken`, `username` | tokens and usernames as GitHub has them; external |
| `login[c]` | what a call waits for: GitHub, its turn after GitHub answered, or the database |
| `VerifyLogin`, `Trade` | `verify` and `exchange`, up to their first wait |
| `Grant`, `Tell`, `Fail` | what GitHub answers, or that it does not |
| `TakeToken`, `TakeIdentity`, `TakeFailure` | `remote` and what follows it, up to the next wait |
| `RegisterAccount`, then `Admit` | the insert and the select of `resolve` (`store/github_identities.py`) |
| `Cut` | the call is cancelled while it waits |
| `BindLegacy`, `SwitchAccount` | the operator's `bind_legacy`, and disabling and enabling (`server/github_admin.py`) |
| `outcome` | what the step before said to its caller |

Here too calls interleave at awaits only. Two things the code does are as it means
them and no property speaks against them: a token that is revoked may be let in for
as long as the cache keeps the answer that vouched for it, counted from when that
answer came; and a code or refresh token is spent even when the call that
brought it fails after the exchange.

## 4. Runs

The models are parameterised by sets; TLC gets model values and explores all
behaviours up to the bounds, which are guards of the actions: the clock stops
at `MaxTime`, no claim is given beyond `MaxGeneration`, no version beyond
`MaxVersion` and `MaxPolicy`, and so on; each is a CONSTANT whose comment says
so. Tokens, actors, connections and keys are symmetric wherever nothing tells
them apart.

| Run | Instance | Question |
|---|---|---|
| `handoff_core` | 1 handoff, 2 actors, 2 tokens, 2 connections, 2 reasons, time 1..4, 3 generations | the settlement protocol under races, lapses, renewals and promotion |
| `nack_refusal_is_final` | the same | is nack idempotent, as the README says? No (§6) |
| `work_core` | 1 checkpoint, 1 unit, 3 users, 3 policies, 2 tokens, time 1..4, 3 generations | ownership under reassignment, takeover, erasure and changing policies |
| `work_shared` | 1 handoff, 2 units, 3 users, time 1..3, 2 generations | routing of several units between several recipients |
| `checkpoint_history` | 3 checkpoints, 2 users, 2 works, 2 classifications | versions and classifications of a history with erasures |
| `generation_queue` | 1 handoff and 1 blueprint, 2 workers, 2 attempts and 1 more by redrive, 4 attempts in all | crashes, lapsed leases, late workers, drifting sources; every job ends |
| `event_feed` | 1 checkpoint and its bundle, 1 bundle of a handoff, 1 session, 1 usage run, the policy, 2 writers; a sender, a recipient and an administrator as readers; 2 classifications; pages and purges of 1, 3 positions; time 0..2, a retention of 1, deadlines at 1 and beyond the end | does a reader miss a change? |
| `restore_is_noticed` | 1 session and the policy, with a backup | is a cursor from before a restore refused? No (§6) |
| `observation` | 2 sessions of 1 user, time 0..3, sequences 1..2; 2 runs, 5 reports, sequences 1..3, time 0..2 | late, repeated and reordered reports; does the database ever refuse one? |
| `skill_review` | 3 experiences of 2 sources, 2 revisions of 1 skill, at most 4 reviews | do reviews of experiences and of skills stay in step? |
| `team` | 1 project, 2 users, 2 tokens, 1 account, 1 record; 1 document, 1 experience, 1 grant, 2 imports, 3 days; 2 signing keys, 2 calls, time 0..3, a lifetime of 2, a gap of 1; 2 GitHub accounts, 1 username, 2 of its tokens, 2 calls, 1 place, 1 attempt in a window of 1, 1 kept answer, time 0..3, kept for 2 | rights that change under calls; grants that change under reads; keys, tokens and usernames that change under logins; is the server ever busy with nothing? |

Why these bounds are enough to be interesting. The settlement races need two
requests of the same claim and one newer claim (2 connections, 3 generations);
a token that is spent and used again needs 2 tokens and 2 actors to be told
apart; a lease can lapse, be renewed to its cap and outlive nothing within
four ticks when the longest lease has two and the retention three. Handoffs
never interact, so one is enough; the same holds of bundles. A takeover of a
claim that is newer than the administrator's status needs 2 generations and a
second version. Two units are needed for a reassignment that omits one, three
checkpoints for an erased version between two others. Two jobs and two workers
let an older job fail while a younger one waits, and one worker overrun its
lease while the other takes over. A reader can lag behind a purge
when pages and purges are shorter than the feed. A deadline at 1 passes before, after
or while a reader is away, with time left for its cursor to age; one that never
passes lets the other reasons to start over come first. Two sessions suffice for what
a user is shown as, because every verdict is aggregated pairwise. Three
experiences are a source, its correction and a rival; a skill that is derived
and overtaken takes two revisions. Two calls at once, of an
owner and of a member, are a change of rights and the call it overtakes. Of two
calls with two keys, one can ask the issuer in vain while the other waits, and
time 3 lets the cache outlive its lifetime of 2. Two GitHub accounts can have the
same username one after the other, and be meant for the same user; with one place
and one attempt within the window, the second call is told that the server is busy
for either reason.

Some instances are reduced further, each reduction being stated in its MC module:

- `MCEventFeed`: one of the readers polls. Readers change nothing but their own
  cursor, answer and view, and every property speaks of one reader. Beside the
  policy, one kind of resource is used in a behaviour (a checkpoint with its bundle, a
  handoff's bundle, a session or a run), by one sender: to a resource the others are
  no more than events that do not name it, as the signals of the policy are.
- `MCObservation` and `MCTeam`: two and four components stand side by side and
  read nothing of each other, and every property speaks of one of them, so a
  behaviour moves only one. The clock of presence steps back from its bound.
- `MCTeam`: at most two calls are under way, and an account that is not the
  owner's reads nothing it would then change. Of the signing keys, the first is
  published first and alone withdrawn; the first call goes first. So it is with the
  calls and tokens of GitHub: the first token is the first account's and alone
  revoked. Contents, revisions and imports are used in their order.
- `MCSkillReview`: at most four reviews in a behaviour, at most one experience
  whose validity ends.

`CHECK_DEADLOCK` is off in all passing runs but `handoff_core`: the other
clocks, versions or budgets are bounded, and once they are used up nothing is
left to do. Handoffs can always be listed.

The properties, by hazard:

- `SettlementsAreFinal` (one settlement per claim and token, a spent token owns
  nothing, what is delivered stays so): racing, repeated and delayed settlements.
- `AnswersStand` (`AnswersAreDurable`, `AckRefusalIsFinal`): what a caller was told
  stays true.
- `OwnerIsEntitled` (a directed handoff reaches its recipient only, a lease is
  bounded), `PromotedIsFrozen`: two protocols and two services share one row, and
  renewals meet moving limits.
- `ViewsAgree`: what the inbox offers can be claimed, and nothing else; `get`
  gives a claimant again what its claim was granted for exactly as long as it
  could settle that claim; "claimed" and "received" show what it holds and what
  it acknowledged.
- `WorkIsOwned` (types, the owner's entitlement, the lease within retention),
  `TakeoverWasSeen`, `TerminalIsFinal`, `SenderNeverSucceeds`: reassignment.
- `WorkIsReachable`: reassignments strand no open work, and once nobody works on it,
  be it that its owner vanished, every assignee may claim it (`OpenTo`, the guard of
  `Claim`).
- `ClaimsAreUnique`: a delayed claim never takes a unit twice.
- `ErasureIsComplete`, `ClassificationNeverDrops`: erasure and history.
- `OneResultPerJob`, `AccountsBalance`, `ResultsAreFresh`: crashed, late and
  competing workers; repeated redrives; sources that drift while the provider runs.
- `JobsSettle`: every job ends, whatever older jobs do.
- `ImplementsFencedLease`: handoffs, work units and jobs implement one lease.
- `FeedIsSound` (types, no gap between what is purged and the head) and
  `NoSilentChange`: what a reader shows is what is there, or it will be told.
  Expiry alone needs no telling, since the deadline that was read with a resource
  still counts; that a session or run was retired is announced to its administrator
  only, and is excepted.
- `IdleIsObserved`, `SessionsAreSound`: nobody is shown idle over time that
  nobody observed; a late report does not rewind or revive a session.
- `GuardNeverRefuses`, `RunsNeverRegress`: what the code accepts the triggers of
  the database accept, whatever the order of reports.
- `LedgerIsSound`, `CountedOnce`: revisions only replace what they revise; a run
  counts once, in one period.
- `ReviewIsSound`, `SkillOnlyAdvances`, `SuppressedStaysOut`,
  `GuardsNeverRefuse`: reviews that overtake each other.
- `DirectoryIsSound`, `RightsAreCurrent`, `RecordsAreKept`, `ChangedAsSeen`:
  rights and directories that change under a call.
- `AssetsAreSound`, `SharedAsGranted`: repeated publications, imports and
  observations; a grant that ends or changes while it is read.
- `VerdictsAreJustified`: calls that race for keys while the issuer rotates them.
- `LoginIsSound` (who is let in was vouched for, no two accounts are one user, a
  place with GitHub is held by a call that waits there, who is told "busy" is told
  so for a reason): calls that wait, fail or are cut while tokens, usernames and
  accounts change.

Each property is accompanied by a mutant, a changed operator marked
`\* mutant` in the module, with the bug a plausible edit would make (a dropped
guard, a missing reset, an off-by-one): with it in place of the operator below
it, TLC finds the property violated in the same run.

### Fairness

Only `GenerationQueue` assumes any, for `JobsSettle`: time passes (a lease
lapses, a delay passes), a worker that can go on goes on, and the queue is
scanned again and again. The latter is what docs/memory-generation.md
asks of its operator ("Use an operator scheduler to repeat scans and worker
invocations"), as workers of this server are finite and end. No fairness is
assumed of any outcome: the provider may fail each time, workers may crash each
time, redrives need not come. What makes jobs end is the budget of attempts. The
other components promise nothing that must happen by itself; what their leases
allow after they lapsed is stated as safety (`WorkIsReachable`, `ViewsAgree`).

## 5. Proofs

Of the 40 properties above all but one, `JobsSettle`, are also proved, for every value of the constants
that satisfies the assumptions; the runs show them on one instance.

| Module | Assumptions | Inductive invariant | Theorems |
|---|---|---|---|
| `HandoffLeaseProofs` | `BoundsAssumption`, `NullAssumption` | `SettlementInv`; `OwnedAt`, over `RowMove` | every property of `handoff_core`, and what `FencedLease` gives (`LeaseIsSafe`) |
| `WorkContinuityProofs` | `WorkAssumption`, `WorkNullAssumption` | `WorkInv`, `HistoryInv`, `PlanInv` | every property of the three work runs |
| `GenerationQueueProofs` | `QueueAssumption`, `IdleAssumption` | `QueueInv` | all but `JobsSettle` |
| `TeamProofs` | `DirectoryAssumption`, `TeamAssumption`, `KeysAssumption`, `LoginAssumption`, `NobodyAssumption` | `TypeOK`, `SeenIsCurrent`; `TeamInv`; `KeysInv`; `LoginInv` | every property of `team` |
| `SkillReviewProofs` | `ReviewAssumption`, `SkillAssumption` | `ExperienceInv`, `SkillInv` | every property of `skill_review` |
| `EventFeedProofs` | `FeedAssumption` | `FeedInv` | both properties of `event_feed` |
| `PresenceSessionsProofs` | `PresenceAssumption` | `PresenceInv` | `SessionsAreSound`, `IdleIsObserved`, `GuardNeverRefuses` |
| `UsageLedgerProofs` | `UsageAssumption` | `LedgerInv` | `LedgerIsSound`, `CountedOnce`, `RunsNeverRegress` |

The assumptions say that null values are not values and kinds of resources do not
overlap, that bounds are positive numbers where the configuration demands it, and which kinds of credentials
there are; TLC evaluates them with every run.

**Handoffs.** The invariants are not inductive by themselves: that a receipt is
not written twice depends on the row having left the claimed state when the
first was written, which depends on what owner, token and generation the row
keeps after a nack. `SettlementInv` states that relation row by row (`RowInv`:
no receipt or grant is ahead of the generation of the row; a receipt of the
current generation matches the row and its disposition; a spent token does not
own; receipts share neither generation nor token) and request by request
(`RequestInv`: a request carries a claim that was granted, and its answer
agrees with the receipts). The proof has one step per action and, under it,
one per conjunct the action can disturb.

The second half of the module goes on from there. Its lemma `EveryRowMoves` says
what any step does to any one row, in eight cases (`RowMove`); everything else
follows from the row alone: the invariant `OwnedAt` (a promoted row is pending,
hence without an owner; a directed row has version 2, so the old pull never
takes it; a lease names its claimant and is bounded while it runs), from it the
properties, and `HandoffImplementsLease`: a move of a row is an acquisition, a
settlement, a lapse, a revocation or nothing to the lease; the clock alone
makes leases lapse. `LeaseIsSafe` proves from the abstract specification alone
that no fence is settled twice and that what is settled is free;
`HandoffLeaseIsSafe` follows by the refinement.

**Continuity.** `WorkInv` relates a source, its bundle, its deliveries and its
units (`SourceInv`, `Placed`) and a unit and its claims (`Claimed`: no claim is
ahead of the unit's generation, none of the present generation is settled while
the unit runs). `WorkIsReachable` follows because a reassignment gives every
open unit assignees among the deliveries that it leaves in force, so that all of them
still locate the unit when its lease is over. `HistoryInv`
needs a latest version per user and work, erased or not, which every new version
exceeds. `PlanInv` says that what an administrator read is old or still so: no
claim starts under a generation that was read, so `Forced` breaks only what the
plan names.

**Generation.** `QueueInv` balances each job's row against its attempts
(`RowAccounts`), each result against the attempt that stored it (`EffectsMatch`),
and says that who stores holds the lock and the current lease
(`StorerIsAlone`, `StorersAreCurrent`). What `RedrivesCount` needs is that the
versions of a row only grow. `QueueImplementsLease` maps an attempt
number to both claimant and fence.

**Directory.** `SeenIsCurrent`: whoever read the project at its present revision
read it as it is. That invariant makes the comparison of revisions in
`assign` enough; `DirectoryStep` shows that every change of a membership
numbers the project anew.

**Assets.** `TeamInv` adds to the types that documents in force are complete and
that a reader found a grant of its own which never goes away. What is
served is decided under the owner's lock, so `SharedAsGranted` follows from the
second look alone.

**Signing keys.** `KeysInv` says of the cached keys, of an answer that is not yet
loaded and of a call that waits for one, which span of time they speak of: what was
asked for at a time holds every key that was published before and not withdrawn
since, and none that was withdrawn before. Keys therefore have to count from the
time they were asked for, as they do in the code, and not from when they came. That a
refused key is new, or the last attempt failed, needs that the gap between two
attempts is no longer than the lifetime of the keys (`KeysAssumption`; 30 and 3600
seconds in the code).

**GitHub logins.** `LoginInv` says of every kept answer, and of every call from the
moment it holds one, that GitHub gave it about this very token, while the token
was good (`Vouched`, `GoodEntry`, `GoodLogin`); that is what a step may do to
tokens that keeps it: they are issued once and end once. An answer is kept for a time
that counts from its arrival. Attempts are in order of time, so dropping the old
ones from the left drops them all, which is what makes "busy" true. Places are counted:
a step moves one call (`login` changes at one `c`), and the cardinality of the calls
that wait changes by what `active` changes by.

**Experiences and skills.** The proof goes row by row. `ExperienceMoves` and
`RevisionMoves` say what any step does to one row; `Effects` what a step does to
experiences together (one enters at most, in place of its parent). From these
follow one active experience per family, one active revision per skill with live
sources (`InForce`, `Cited`), and that a revision's base is never ahead of the
active one. `GuardsAgree` compares the same moves with the triggers and CHECKs.

**Events.** `FeedInv` has four parts. `GoodFeed` says that the feed is one run of
positions, from the recorded gap to the head, in order of time. A purge takes a
batch from below, and a batch reaches down to the first event (`LowestIs`), so what
is left is a run again (`PurgedGood`), also after the two purges of a transaction
that appends two events (`AppendedGood`). `TxnInv` says that one transaction at most
is open, that its positions follow the head, and of each resource it changes
(`GoodChange`) that the row is a next one (`Follows`: the deadline of what exists
stays, and whose it is) and that the change is announced to everyone who saw the
resource or will see it (`Announced`; one lemma per operation, as each announces
something else to others). An erasure tells the readers of two resources by one
signal, which reaches the readers of the bundle only because its sender and
classification are its checkpoint's (`ItemInv`, by way of `FromSource`).
`ClientInv` says of every reader, with its cursor and again with the answer under
way, and of every resource: what it has read is up to date, or its cursor is lost for
good (`Lost`), or an event beyond the cursor tells (`Told`), or the resource has
expired or was retired (`Ended`). A lost cursor stays lost; an event that tells stays
there until it elapses, by which time the cursor is lost (`LostStays`, `EventStays`),
or until its resource expires and hides it. For that last case nobody is told, and
`ReadInv` stands in: what was read of a resource has the deadline that the resource
has, so a screen that drops what is over shows nothing, as the resource's own reads
do. A commit that makes a view stale appends the event that says so (`HeardIsTold`);
and an answer moves a cursor only past events it names, because its page ends before
every visible event that is not in it (`PollAnswer`). That
the head row stays locked is what this rests on: with two open transactions the
positions need not follow the order of commits.

**Presence.** `PresenceInv` orders the accepted reports of a session (`Ordered`),
says that its row is what the newest of them made it (`Latest`), and that a row
which claims to be idle since some time has a report of that time, from which on
all said idle and each came before the last went stale (`IdleSince`). That is
inductive because an interval restarts with every other report and after every gap
or step back of the clock. `IdleIsObserved` follows through the aggregation:
the smallest of the idle times of a user is bounded by each of them.

**Usage.** `LedgerInv` orders the receipts of a run by their sequence and says
that the newest one is the run (`InOrder`, `AsReported`). A new report is only
compared with the run; that it revises every receipt before it follows from the
newest one, because revising is transitive (`CounterRevises`: what was estimated
may be reported lower, but what was reported stays reported). `CountedOnce` needs
that sums over two disjoint sets of runs add up. A sum counts units, one
pair for each token and run (`Units`), so it is the cardinality of a union
(`TotalJoins`); that the summary agrees with the newest receipts is a renaming of
these pairs (`TotalRenames`, `SummaryIsReceived`).

Only model-checked:

- `JobsSettle`: liveness is out of the prover's reach.
- The two statements of §6, which do not hold.

## 6. Findings

- *Nack is not idempotent under concurrency* (`store/queries.py:464`). The
  README says ack and nack are "idempotent through digest-only durable
  receipts" (README.md:231). A duplicate nack that looked for its receipt
  before the first copy committed, and gets the row lock after the handoff was
  claimed again, is refused although the receipt is there. Ack has no such
  case (`AckRefusalIsFinal`): after an ack the row matches for ever.
- *A restore is not always noticed* (`continuity/events.py:176`). A cursor from
  before a restore is refused only while its position is above the restored
  head. Once the feed has grown past it the cursor is accepted again, as the key
  that seals cursors is restored with the database, and the events of the new
  history up to that position are skipped, where
  docs/memory-collaboration-events.md:45 says that a restore returns a
  new watermark and `reset_required`.

The first corrupts no state; the second leaves a console with an old view.
Also worth knowing: `checkpoints.forget` relabels completed units as cancelled
(`continuity/checkpoints.py:98`), the one exception in `TerminalIsFinal`; and a
change of a checkpoint or bundle is not announced to readers that poll after it
expired (`continuity/events.py:139`, `:143`), which is why a console has to keep the
deadline of what it shows.

## 7. Not modelled

- *Data.* Payloads, envelopes, prompts, candidates, summaries, wiki text and
  archives with their validation and normalisation; digests are what they are
  digests of. Audit events. Receipts of idempotent calls where they only answer
  a repetition (a repeated call changes nothing and is no step).
- *Refusals.* `expected_generation` and `expected_routing_version` of a claim,
  which can only refuse it; classification ceilings on reads other than those
  of events, presence, usage and grants.
- *Readings that change nothing*: listings of projects, bundles, work, usage and
  alerts, the overview, search and citations (`retrieval/`).
- *Identities and authentication.* The binding of a company account to a former
  user before its first login is fixed data; the signatures and claims of company
  tokens, the shape of what GitHub sends, and the principal of the local stdio
  server are left out. In the check that a
  namespace may be adopted by a registration, only tokens that name the project
  count as its data.
- *Events.* Usage runs enter the feed with their first final report; corrections of
  that report change what a summary shows and are not announced, nor is the
  retirement of sessions and runs to those who saw them
  (docs/memory-collaboration-events.md:22 to 26), so views are not compared over
  them. Heartbeats and renewals that are no event are left out. The clock stands
  still inside a transaction, so none straddles a deadline.
- *Validity of experiences.* An experience's own window (`valid_from`,
  `expires_at`), which is checked whenever it is read, is not part of
  `TeamAssets.Live`; it only hides.
- *What a caller sees of a project.* `ProjectDirectory.Get` lets the caller remember
  all roles, where the code answers with the caller's own role only; what
  is remembered is only used in the comparison of revisions.
- *The registry*: it inserts immutable rows behind pure checks of digests and
  policy; there is no second state to relate them to.
- *Storage, transport, tools and configuration*: I/O, dispatch and SQL
  translation, and the retries of the database driver. The models take from
  them what a transaction isolates: on PostgreSQL transactions interleave
  between their locks, on SQLite they are serial, so every behaviour there is
  one of the model.
