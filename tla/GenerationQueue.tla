--------------------------- MODULE GenerationQueue ---------------------------
(***************************************************************************)
(* The durable queue of generation jobs of one project and the finite      *)
(* workers that drain it.  A job is one watermark of one source: a handoff *)
(* to extract from, a scope to summarise, a set of references to draft a   *)
(* skill from.  Workers claim the oldest runnable job under a lease, run   *)
(* outside of any transaction, and store their result together with the    *)
(* job's receipt in one transaction; they crash, time out, overrun their   *)
(* lease and answer late.                                                  *)
(*                                                                         *)
(* Every transaction takes the project's advisory lock first.  The one     *)
(* that stores a result is two steps, because its lease may lapse while it *)
(* waits; the lock keeps all others out in between.  Time is what it does: *)
(* a lease lapses, a delay passes.  Candidates, budgets and prompts are    *)
(* data; what became of them is a choice.  A scan may take any of the      *)
(* ScanLimit oldest handoffs next: jobs of one scan share created_at and   *)
(* are ordered by a random identifier.                                     *)
(***************************************************************************)
EXTENDS Naturals, FiniteSets

LOCAL INSTANCE FiniteSetsExt

CONSTANTS Handoffs,        \* sources of extraction, in the order of created_at
          Scopes,          \* sources of summaries
          Blueprints,      \* sets of references for skill scaffolds
          Watermarks,      \* what a source may look like
          Gone,            \* a source that cannot be read
          Workers,         \* worker processes
          Admins,          \* who may redrive
          Nobody,          \* NULL in redrive_actor, and a free project lock
          Idle,            \* a worker without a job
          InitialAttempts, \* the default of max_attempts
          RedriveStep,     \* what a redrive adds to it
          Lifetime,        \* what it never exceeds
          ScanLimit,       \* limit of one extraction scan
          MaxBudget        \* bound on the attempts all jobs together are given

ASSUME QueueAssumption ==
  /\ Handoffs \subseteq Nat
  /\ Handoffs \cap (Scopes \cup Blueprints) = {} /\ Scopes \cap Blueprints = {}
  /\ Gone \notin Watermarks
  /\ Nobody \notin Admins \cup Workers
  /\ InitialAttempts \in Nat \ {0} /\ RedriveStep \in Nat \ {0} /\ Lifetime \in Nat
  /\ InitialAttempts <= Lifetime
  /\ ScanLimit \in Nat \ {0}
  /\ MaxBudget \in Nat

VARIABLES source,          \* the current watermark of each source
          job,             \* memory_generation_jobs
          log,             \* memory_generation_attempts: the outcome code of each attempt
          effects,         \* experiences, snapshots and revisions stored, by attempt
          worker,          \* what each worker process carries
          lock,            \* the worker whose transaction holds the project lock
          redriven         \* the redrives that were applied

vars == <<source, job, log, effects, worker, lock, redriven>>

Sources == Handoffs \cup Scopes \cup Blueprints
Jobs == Sources \X Watermarks
Attempts == 1..Lifetime

Open == {"queued", "running"}
Settled == {"succeeded", "dead"}

Rows == [status : {"absent"} \cup Open \cup Settled, rank : Nat, version : Nat,
         attempts : 0..Lifetime, max : 0..Lifetime, token : 0..Lifetime, live : BOOLEAN,
         due : BOOLEAN, redriveVersion : Nat, redriveActor : Admins \cup {Nobody}]

\* Outcome codes, by what they mean for the job.
Codes == {"none", "open", "stored", "empty", "failed", "lease_expired"}

Tasks == [job : Jobs, attempt : Attempts, max : 0..Lifetime,
          phase : {"claimed", "ran", "storing", "failing"}, retryable : BOOLEAN,
          stores : BOOLEAN]

ASSUME IdleAssumption == Idle \notin Tasks

TypeOK ==
  /\ source \in [Sources -> Watermarks \cup {Gone}]
  /\ job \in [Jobs -> Rows]
  /\ log \in [Jobs -> [Attempts -> Codes]]
  /\ effects \in SUBSET [job : Jobs, attempt : Attempts]
  /\ worker \in [Workers -> Tasks \cup {Idle}]
  /\ lock \in Workers \cup {Nobody}
  /\ redriven \in SUBSET [job : Jobs, version : Nat]

Absent == [status |-> "absent", rank |-> 0, version |-> 0, attempts |-> 0, max |-> 0,
           token |-> 0, live |-> FALSE, due |-> FALSE, redriveVersion |-> 0,
           redriveActor |-> Nobody]

Init ==
  /\ source \in [Sources -> Watermarks \cup {Gone}]
  /\ job = [j \in Jobs |-> Absent]
  /\ log = [j \in Jobs |-> [n \in Attempts |-> "none"]]
  /\ effects = {}
  /\ worker = [w \in Workers |-> Idle]
  /\ lock = Nobody
  /\ redriven = {}

LowerOf(x, y) == IF x <= y THEN x ELSE y

\* The attempts that the jobs of the queue may make.
Budget == MapThenSumSet(LAMBDA j : job[j].max, Jobs)

(***************************************************************************)
(* Sources and time.                                                       *)
(***************************************************************************)

\* A handoff arrives once, possibly after younger ones, and may be deleted; its
\* payload never changes.  The experiences behind a scope or a blueprint do, but
\* not while a result is being stored: reviews take the project lock too.
Drift(s) ==
  /\ lock = Nobody
  /\ IF s \in Handoffs
     THEN \/ /\ source[s] = Gone /\ \A w \in Watermarks : job[<<s, w>>].status = "absent"
             /\ \E w \in Watermarks : source' = [source EXCEPT ![s] = w]
          \/ source[s] # Gone /\ source' = [source EXCEPT ![s] = Gone]
     ELSE \E w \in (Watermarks \cup {Gone}) \ {source[s]} : source' = [source EXCEPT ![s] = w]
  /\ UNCHANGED <<job, log, effects, worker, lock, redriven>>

Lapse(j) ==
  /\ job[j].status = "running" /\ job[j].live
  /\ job' = [job EXCEPT ![j].live = FALSE]
  /\ UNCHANGED <<source, log, effects, worker, lock, redriven>>

FallsDue(j) ==
  /\ job[j].status = "queued" /\ ~job[j].due
  /\ job' = [job EXCEPT ![j].due = TRUE]
  /\ UNCHANGED <<source, log, effects, worker, lock, redriven>>

(***************************************************************************)
(* The queue.                                                              *)
(***************************************************************************)

\* Handoffs whose payload no job of this recipe has a receipt for.
Unscheduled == {h \in Handoffs : source[h] # Gone /\ job[<<h, source[h]>>].status = "absent"}

\* enqueue: one source of a scan, one scope, or one blueprint.  A second job for
\* the same watermark is not inserted.
Enqueue(s) ==
  /\ lock = Nobody
  /\ source[s] # Gone
  /\ job[<<s, source[s]>>].status = "absent"
  /\ Budget + InitialAttempts <= MaxBudget
  /\ s \in Handoffs => Cardinality({h \in Unscheduled : h < s}) < ScanLimit
  /\ job' = [job EXCEPT ![<<s, source[s]>>] =
       [Absent EXCEPT !.status = "queued", !.version = 1, !.max = InitialAttempts, !.due = TRUE,
                      !.rank = Cardinality({j \in Jobs : job[j].status # "absent"}) + 1]]
  /\ UNCHANGED <<source, log, effects, worker, lock, redriven>>

Redriven(r, a) ==
  [r EXCEPT !.status = "queued", !.version = @ + 1, !.due = TRUE,
            !.max = LowerOf(Lifetime, @ + RedriveStep),
            !.redriveVersion = r.version + 1, !.redriveActor = a]

\* redrive: expected is the version its administrator read, however long ago.
\* The latest redrive of the same administrator is answered again, unchanged.
Redrive(a, j, expected) ==
  /\ lock = Nobody
  /\ Budget + RedriveStep <= MaxBudget
  /\ ~(job[j].redriveVersion = expected + 1 /\ job[j].redriveActor = a)
  /\ job[j].status = "dead" /\ job[j].version = expected /\ job[j].max < Lifetime
  /\ job' = [job EXCEPT ![j] = Redriven(@, a)]
  /\ redriven' = redriven \cup {[job |-> j, version |-> expected]}
  /\ UNCHANGED <<source, log, effects, worker, lock>>

LapsedAtOnce(r) == r.status = "running"                        \* mutant
LapsedRow(r) == r.status = "running" /\ ~r.live
Exhausted(r) == LapsedRow(r) /\ r.attempts >= r.max
RunnableQueued(r) == r.attempts < r.max /\ r.status = "queued" /\ r.due    \* mutant
Runnable(r) == r.attempts < r.max /\ ((r.status = "queued" /\ r.due) \/ LapsedRow(r))

\* finish_attempt: an attempt is finished once.
Finish(codes, n, code) == IF codes[n] = "open" THEN [codes EXCEPT ![n] = code] ELSE codes

Dead(r) ==
  [r EXCEPT !.status = "dead", !.version = @ + 1, !.token = 0, !.live = FALSE]

Succeeded(r) ==
  [r EXCEPT !.status = "succeeded", !.version = @ + 1, !.token = 0, !.live = FALSE]

Claimed(r) ==
  [r EXCEPT !.status = "running", !.version = @ + 1, !.attempts = @ + 1,
            !.token = r.attempts + 1, !.live = TRUE]

AbandonedOfDead(taken) == {j \in Jobs : Exhausted(job[j])}      \* mutant

\* The attempts that a claim finds abandoned: those of exhausted jobs, and that
\* of the job it takes over.
Abandoned(taken) == {j \in Jobs : Exhausted(job[j]) \/ (j = taken /\ LapsedRow(job[j]))}

\* The log a claim leaves behind: what was abandoned is finished first.
AfterClaim(taken) == [j \in Jobs |->
  LET codes == IF j \in Abandoned(taken) THEN Finish(log[j], job[j].attempts, "lease_expired")
               ELSE log[j]
  IN IF j = taken THEN [codes EXCEPT ![job[j].attempts + 1] = "open"] ELSE codes]

Drained(j) == IF Exhausted(job[j]) THEN Dead(job[j]) ELSE job[j]

\* claim: exhausted jobs die first; then the oldest runnable job is taken.  The
\* random lease token is as good as the number of the attempt it was drawn for.
Claim(w) ==
  /\ lock = Nobody
  /\ worker[w] = Idle
  /\ \E j \in Jobs :
       /\ Runnable(job[j])
       /\ \A k \in Jobs : Runnable(job[k]) => job[j].rank <= job[k].rank
       /\ job' = [[k \in Jobs |-> Drained(k)] EXCEPT ![j] = Claimed(@)]
       /\ log' = AfterClaim(j)
       /\ worker' = [worker EXCEPT ![w] =
            [job |-> j, attempt |-> job[j].attempts + 1, max |-> job[j].max,
             phase |-> "claimed", retryable |-> FALSE, stores |-> FALSE]]
  /\ UNCHANGED <<source, effects, lock, redriven>>

\* A claim that finds nothing runnable still drains.
Drain ==
  /\ lock = Nobody
  /\ \E j \in Jobs : Exhausted(job[j])
  /\ \A j \in Jobs : ~Runnable(job[j])
  /\ job' = [j \in Jobs |-> Drained(j)]
  /\ log' = [j \in Jobs |-> IF Exhausted(job[j])
                            THEN Finish(log[j], job[j].attempts, "lease_expired") ELSE log[j]]
  /\ UNCHANGED <<source, effects, worker, lock, redriven>>

\* Checked under the project lock, against the task as it was claimed.
FencedByStatus(t) == job[t.job].status = "running" /\ job[t.job].live     \* mutant

Fenced(t) ==
  LET r == job[t.job] IN
  r.status = "running" /\ r.live /\ r.token = t.attempt /\ r.attempts = t.attempt

(***************************************************************************)
(* Workers.                                                                *)
(***************************************************************************)

Current(t) == source[t.job[1]] = t.job[2]

Fails(w, retryable) ==
  worker' = [worker EXCEPT ![w] = [@ EXCEPT !.phase = "failing", !.retryable = retryable]]

InPhase(w, phase) == worker[w] # Idle /\ worker[w].phase = phase

\* process, up to the transaction that stores the result.  A scaffold is drawn
\* from the job alone; everything else reads its source.
Run(w) ==
  /\ InPhase(w, "claimed")
  /\ worker[w].job[1] \in Blueprints \/ Current(worker[w])
  /\ worker' = [worker EXCEPT ![w].phase = "ran"]
  /\ UNCHANGED <<source, job, log, effects, lock, redriven>>

\* The source changed; a budget, a recipe or the provider refused; a timeout.
GiveUp(w) ==
  /\ InPhase(w, "claimed") \/ InPhase(w, "ran")
  /\ \E retryable \in BOOLEAN : Fails(w, retryable)
  /\ UNCHANGED <<source, job, log, effects, lock, redriven>>

StoreStale(w) ==                                              \* mutant
  /\ InPhase(w, "ran")
  /\ lock = Nobody
  /\ Fenced(worker[w])
  /\ \E stores \in BOOLEAN :
       worker' = [worker EXCEPT ![w] = [@ EXCEPT !.phase = "storing", !.stores = stores]]
  /\ lock' = w
  /\ UNCHANGED <<source, job, log, effects, redriven>>

\* _complete, up to the second look at the lease: the source is read again, and
\* the result is written, unless it is empty, a duplicate or protected.
Store(w) ==
  /\ InPhase(w, "ran")
  /\ lock = Nobody
  /\ Fenced(worker[w])
  /\ IF Current(worker[w])
     THEN /\ \E stores \in BOOLEAN :
               worker' = [worker EXCEPT ![w] = [@ EXCEPT !.phase = "storing", !.stores = stores]]
          /\ lock' = w
     ELSE Fails(w, FALSE) /\ UNCHANGED lock
  /\ UNCHANGED <<source, job, log, effects, redriven>>

\* The lease was lost before anything was written.
StoreRefused(w) ==
  /\ InPhase(w, "ran")
  /\ lock = Nobody
  /\ ~Fenced(worker[w])
  /\ worker' = [worker EXCEPT ![w] = Idle]
  /\ UNCHANGED <<source, job, log, effects, lock, redriven>>

\* The rest of _complete: result and receipt, or neither.  A timeout may hide
\* the commit from the worker, which then reports a failure of its own.
Commit(w) ==
  LET t == worker[w] IN
  /\ InPhase(w, "storing")
  /\ Fenced(t)
  /\ job' = [job EXCEPT ![t.job] = Succeeded(@)]
  /\ log' = [log EXCEPT ![t.job] = Finish(@, t.attempt, IF t.stores THEN "stored" ELSE "empty")]
  /\ effects' = IF t.stores THEN effects \cup {[job |-> t.job, attempt |-> t.attempt]} ELSE effects
  /\ lock' = Nobody
  /\ worker' = [worker EXCEPT ![w] = Idle] \/ Fails(w, TRUE)
  /\ UNCHANGED <<source, redriven>>

\* The lease lapsed, the time ran out, or the candidate was refused.
Rollback(w) ==
  /\ InPhase(w, "storing")
  /\ \E retryable \in BOOLEAN : Fails(w, retryable)
  /\ lock' = Nobody
  /\ UNCHANGED <<source, job, log, effects, redriven>>

\* fail: the failure of an attempt that is still the current one.
Fail(w) ==
  LET t == worker[w] IN
  /\ InPhase(w, "failing")
  /\ lock = Nobody
  /\ IF Fenced(t)
     THEN /\ job' = [job EXCEPT ![t.job] =
               [Dead(@) EXCEPT !.status = IF t.retryable /\ t.attempt < t.max
                                          THEN "queued" ELSE "dead",
                               !.due = FALSE]]
          /\ log' = [log EXCEPT ![t.job] = Finish(@, t.attempt, "failed")]
     ELSE UNCHANGED <<job, log>>
  /\ worker' = [worker EXCEPT ![w] = Idle]
  /\ UNCHANGED <<source, effects, lock, redriven>>

\* The process is lost; its connection goes with it.
Crash(w) ==
  /\ worker[w] # Idle
  /\ worker' = [worker EXCEPT ![w] = Idle]
  /\ lock' = IF lock = w THEN Nobody ELSE lock
  /\ UNCHANGED <<source, job, log, effects, redriven>>

Step(w) == Claim(w) \/ Run(w) \/ GiveUp(w) \/ Store(w) \/ StoreRefused(w) \/ Commit(w)
           \/ Rollback(w) \/ Fail(w)

Next ==
  \/ \E s \in Sources : Drift(s)
  \/ \E s \in Sources : Enqueue(s)
  \/ \E j \in Jobs : Lapse(j)
  \/ \E j \in Jobs : FallsDue(j)
  \/ \E a \in Admins, j \in Jobs : \E v \in 1..job[j].version : Redrive(a, j, v)
  \/ Drain
  \/ \E w \in Workers : Claim(w)
  \/ \E w \in Workers : Run(w)
  \/ \E w \in Workers : GiveUp(w)
  \/ \E w \in Workers : Store(w)
  \/ \E w \in Workers : StoreRefused(w)
  \/ \E w \in Workers : Commit(w)
  \/ \E w \in Workers : Rollback(w)
  \/ \E w \in Workers : Fail(w)
  \/ \E w \in Workers : Crash(w)

\* Time passes, and operators keep running workers ("Use an operator scheduler
\* to repeat scans and worker invocations").  No worker owes an outcome.
Fairness ==
  /\ \A j \in Jobs : WF_vars(Lapse(j)) /\ WF_vars(FallsDue(j))
  /\ \A w \in Workers : WF_vars(Step(w))
  /\ WF_vars(Drain)

Spec == Init /\ [][Next]_vars /\ Fairness

(***************************************************************************)
(* Properties.                                                             *)
(***************************************************************************)

\* However many workers took a job over from each other, at most one stored a
\* result, and it is the one whose attempt made the job succeed: a result that
\* no receipt speaks for, or two results of one job, never exist.
OneResultPerJob ==
  /\ \A e \in effects : job[e.job].status = "succeeded" /\ log[e.job][e.attempt] = "stored"
  /\ \A d, e \in effects : d.job = e.job => d = e
  /\ \A j \in Jobs, n \in Attempts : log[j][n] = "stored" => [job |-> j, attempt |-> n] \in effects

\* Every attempt is accounted for: as many as the row counts, each finished, but
\* for the one that runs; none beyond the budget, and a success is the last one.
AttemptsAreAccounted ==
  \A j \in Jobs : LET r == job[j] IN
    /\ r.attempts <= r.max /\ r.max <= Lifetime
    /\ \A n \in Attempts : (log[j][n] # "none") <=> n <= r.attempts
    /\ \A n \in Attempts : log[j][n] = "open" <=> r.status = "running" /\ n = r.attempts
    /\ \A n \in Attempts : log[j][n] \in {"stored", "empty"} =>
         r.status = "succeeded" /\ n = r.attempts

\* A worker that is storing its result is the only one, and holds its job.
StorerIsAlone ==
  \A w \in Workers : InPhase(w, "storing") <=> lock = w

\* Each redrive answers one death that its administrator had read: repeated or
\* delayed, it never buys a second helping of attempts.
BudgetIsEarned ==
  \A j \in Jobs : job[j].status # "absent" =>
    job[j].max = LowerOf(Lifetime, InitialAttempts
                   + RedriveStep * Cardinality({r \in redriven : r.job = j}))

\* What was tried and what may be tried add up.
AccountsBalance == TypeOK /\ AttemptsAreAccounted /\ BudgetIsEarned

\* A result is stored only while the source it was drawn from is still as it was
\* when the job was queued, although the provider ran outside of any transaction.
ResultsAreFresh ==
  [][\A e \in effects' \ effects : source[e.job[1]] = e.job[2]]_vars

\* Every job is eventually done or dead, whatever crashes and however its
\* neighbours behave: an older job that keeps failing does not starve it.
JobsSettle ==
  \A j \in Jobs : job[j].status \in Open ~> job[j].status \in Settled

(***************************************************************************)
(* The abstract specification.                                             *)
(***************************************************************************)

Settlement(j, n) == [by |-> n, fence |-> n, outcome |-> log[j][n]]
SettledCodes == {"stored", "empty", "failed"}

Lease == INSTANCE FencedLease WITH
  Resources <- Jobs,
  Claimants <- Attempts,
  NoHolder <- 0,
  Outcomes <- SettledCodes,
  holder <- [j \in Jobs |-> IF job[j].live THEN job[j].token ELSE 0],
  fence <- [j \in Jobs |-> job[j].attempts],
  ledger <- [j \in Jobs |-> {Settlement(j, n) : n \in {m \in Attempts : log[j][m] \in SettledCodes}}]

\* Jobs are leased as handoffs and work units are: by attempt, whose number is
\* the fence.
ImplementsFencedLease == Lease!Spec
=============================================================================
