------------------------ MODULE GenerationQueueProofs ------------------------
(***************************************************************************)
(* Proofs about the safety of GenerationQueue, for any number of jobs,     *)
(* workers and attempts: every attempt and every redrive is accounted for, *)
(* at most one result is stored for a job, it is a fresh one, and the      *)
(* queue leases its jobs as FencedLease promises.                          *)
(***************************************************************************)
EXTENDS GenerationQueue, FiniteSetTheorems, TLAPS

(***************************************************************************)
(* One job: its row, and the codes of its attempts.                        *)
(***************************************************************************)

\* The attempts of one job are accounted for; what is running is leased to its
\* last attempt, and nothing else is leased.
RowAccounts(r, codes) ==
  /\ r.attempts <= r.max
  /\ \A n \in Attempts : (codes[n] # "none") <=> n <= r.attempts
  /\ \A n \in Attempts : codes[n] = "open" <=> r.status = "running" /\ n = r.attempts
  /\ \A n \in Attempts : codes[n] \in {"stored", "empty"} => r.status = "succeeded" /\ n = r.attempts
  /\ r.status = "running" => r.token = r.attempts /\ r.attempts > 0
  /\ r.status # "running" => ~r.live
  /\ r.status = "absent" => r.attempts = 0 /\ r.version = 0

\* What a step may do to one job, from row r to row s and from codes to cs.
Enqueues(r, codes, s, cs) ==
  /\ r.status = "absent" /\ cs = codes
  /\ \E k \in Nat : s = [Absent EXCEPT !.status = "queued", !.version = 1, !.max = InitialAttempts,
                                       !.due = TRUE, !.rank = k]

Redrives(r, codes, s, cs) ==
  /\ r.status = "dead" /\ cs = codes
  /\ \E a \in Admins : s = Redriven(r, a)

Waits(r, codes, s, cs) ==
  /\ cs = codes
  /\ \/ s = r
     \/ r.status = "running" /\ s = [r EXCEPT !.live = FALSE]
     \/ r.status = "queued" /\ s = [r EXCEPT !.due = TRUE]

Dies(r, codes, s, cs) ==
  Exhausted(r) /\ s = Dead(r) /\ cs = Finish(codes, r.attempts, "lease_expired")

Takes(r, codes, s, cs) ==
  /\ Runnable(r) /\ s = Claimed(r)
  /\ LET rest == IF LapsedRow(r) THEN Finish(codes, r.attempts, "lease_expired") ELSE codes
     IN  cs = [rest EXCEPT ![r.attempts + 1] = "open"]

Succeeds(r, codes, s, cs, code) ==
  /\ r.status = "running" /\ r.live
  /\ s = Succeeded(r)
  /\ cs = Finish(codes, r.attempts, code)

Misses(r, codes, s, cs) ==
  /\ r.status = "running" /\ r.live
  /\ \E status \in {"queued", "dead"} : s = [Dead(r) EXCEPT !.status = status, !.due = FALSE]
  /\ cs = Finish(codes, r.attempts, "failed")

\* Any of them that gives no job attempts to make, and stores nothing.
Quiet(r, codes, s, cs) ==
  \/ Waits(r, codes, s, cs)
  \/ Dies(r, codes, s, cs) \/ Takes(r, codes, s, cs) \/ Misses(r, codes, s, cs)
  \/ Succeeds(r, codes, s, cs, "empty")

Moves(r, codes, s, cs) ==
  \/ Enqueues(r, codes, s, cs) \/ Redrives(r, codes, s, cs)
  \/ Quiet(r, codes, s, cs) \/ Succeeds(r, codes, s, cs, "stored")

\* Finishing an attempt that is open changes its code and no other.
LEMMA FinishOpen ==
  ASSUME NEW codes \in [Attempts -> Codes], NEW n \in Attempts, codes[n] = "open", NEW code \in Codes
  PROVE  /\ Finish(codes, n, code) \in [Attempts -> Codes]
         /\ Finish(codes, n, code)[n] = code
         /\ \A m \in Attempts \ {n} : Finish(codes, n, code)[m] = codes[m]
BY DEF Finish

\* A running attempt is one of the attempts, and open.
LEMMA RunningOpen ==
  ASSUME NEW r \in Rows, NEW codes \in [Attempts -> Codes], RowAccounts(r, codes), r.status = "running"
  PROVE  r.attempts \in Attempts /\ codes[r.attempts] = "open"
<1>1. r.attempts \in 0..Lifetime /\ r.attempts > 0
  BY DEF Rows, RowAccounts
<1>2. r.attempts \in Attempts
  BY <1>1 DEF Attempts
<1>3. QED  BY <1>2 DEF RowAccounts

\* A running row that stops running, and the attempt that it finishes.
LEMMA StopKeeps ==
  ASSUME NEW r \in Rows, NEW codes \in [Attempts -> Codes], RowAccounts(r, codes), r.status = "running",
         NEW s \in Rows, NEW code \in {"stored", "empty", "failed", "lease_expired"},
         s.attempts = r.attempts, s.max = r.max, ~s.live, s.status \in {"queued", "dead", "succeeded"},
         code \in {"stored", "empty"} => s.status = "succeeded"
  PROVE  /\ Finish(codes, r.attempts, code) \in [Attempts -> Codes]
         /\ RowAccounts(s, Finish(codes, r.attempts, code))
<1> DEFINE cs == Finish(codes, r.attempts, code)
<1>1. r.attempts \in Attempts /\ codes[r.attempts] = "open"
  BY RunningOpen
<1>2. code \in Codes
  BY DEF Codes
<1>3. /\ cs \in [Attempts -> Codes] /\ cs[r.attempts] = code
      /\ \A m \in Attempts \ {r.attempts} : cs[m] = codes[m]
  BY <1>1, <1>2, FinishOpen
<1> HIDE DEF cs
<1>4. RowAccounts(s, cs)
  <2>1. \A m \in Attempts : (cs[m] # "none") <=> m <= s.attempts
    BY <1>1, <1>3 DEF RowAccounts
  <2>2. \A m \in Attempts : cs[m] # "open"
    BY <1>1, <1>3 DEF RowAccounts
  <2>3. \A m \in Attempts : cs[m] \in {"stored", "empty"} => s.status = "succeeded" /\ m = s.attempts
    BY <1>1, <1>3 DEF RowAccounts
  <2>4. QED  BY <2>1, <2>2, <2>3 DEF RowAccounts
<1>5. QED  BY <1>3, <1>4 DEF cs
\* The row before a job is queued is a row, and so is a queued one.
LEMMA QueuedRow ==
  ASSUME NEW k \in Nat
  PROVE  /\ Absent \in Rows
         /\ [Absent EXCEPT !.status = "queued", !.version = 1, !.max = InitialAttempts,
                           !.due = TRUE, !.rank = k] \in Rows
<1>1. InitialAttempts \in 0..Lifetime /\ 0 \in 0..Lifetime
  BY QueueAssumption
<1>2. QED  BY <1>1 DEF Absent, Rows, Open, Settled

\* The smaller of two numbers.
LEMMA LowerIs ==
  ASSUME NEW x \in Nat, NEW y \in Nat
  PROVE  LowerOf(x, y) \in 0..x /\ (y <= x => LowerOf(x, y) = y) /\ (y > x => LowerOf(x, y) = x)
BY DEF LowerOf

\* A step that waits keeps a job accounted for.
LEMMA WaitKeeps ==
  ASSUME NEW r \in Rows, NEW codes \in [Attempts -> Codes], RowAccounts(r, codes),
         NEW s, NEW cs, Waits(r, codes, s, cs)
  PROVE  s \in Rows /\ cs \in [Attempts -> Codes] /\ RowAccounts(s, cs)
<1>1. CASE s = r
  BY <1>1 DEF Waits
<1>2. CASE r.status = "running" /\ s = [r EXCEPT !.live = FALSE]
  BY <1>2 DEF Waits, Rows, RowAccounts
<1>3. CASE r.status = "queued" /\ s = [r EXCEPT !.due = TRUE]
  BY <1>3 DEF Waits, Rows, RowAccounts
<1>4. QED  BY <1>1, <1>2, <1>3 DEF Waits

\* A redrive raises the budget, never what was tried.
LEMMA RedriveKeeps ==
  ASSUME NEW r \in Rows, NEW codes \in [Attempts -> Codes], RowAccounts(r, codes),
         NEW s, NEW cs, Redrives(r, codes, s, cs)
  PROVE  s \in Rows /\ cs \in [Attempts -> Codes] /\ RowAccounts(s, cs)
<1>1. PICK a \in Admins :
        s = [r EXCEPT !.status = "queued", !.version = @ + 1, !.due = TRUE,
                      !.max = LowerOf(Lifetime, @ + RedriveStep),
                      !.redriveVersion = r.version + 1, !.redriveActor = a]
  BY DEF Redrives, Redriven
<1> DEFINE m == LowerOf(Lifetime, r.max + RedriveStep)
           v == r.version + 1
<1>2. Lifetime \in Nat /\ RedriveStep \in Nat /\ r.max \in 0..Lifetime /\ r.version \in Nat
  BY QueueAssumption DEF Rows
<1>3. m \in 0..Lifetime /\ r.max <= m
  <2>1. r.max + RedriveStep \in Nat /\ r.max <= r.max + RedriveStep /\ r.max <= Lifetime
    BY <1>2
  <2> DEFINE sum == r.max + RedriveStep
  <2> HIDE DEF sum
  <2>2. LowerOf(Lifetime, sum) \in {Lifetime, sum} /\ LowerOf(Lifetime, sum) <= Lifetime
    BY <1>2, <2>1 DEF LowerOf, sum
  <2>3. QED  BY <1>2, <2>1, <2>2 DEF sum
<1>4. v \in Nat
  BY <1>2
<1>5. s = [r EXCEPT !.status = "queued", !.version = v, !.due = TRUE, !.max = m,
                    !.redriveVersion = v, !.redriveActor = a]
  BY <1>1
<1> HIDE DEF m, v
<1>6. s \in Rows
  <2>1. [r EXCEPT !.status = "queued", !.version = v, !.due = TRUE] \in Rows
    BY <1>4 DEF Rows, Open
  <2>2. QED  BY <1>3, <1>4, <1>5 DEF Rows, Open
<1>7. /\ s.attempts = r.attempts /\ s.max = m /\ s.status = "queued" /\ s.live = r.live
      /\ cs = codes /\ r.status = "dead" /\ r.attempts \in Nat
  <2>1. r.status = "dead" /\ cs = codes
    BY DEF Redrives
  <2>2. r.attempts \in Nat
    BY DEF Rows
  <2>3. s.attempts = r.attempts /\ s.max = m /\ s.status = "queued" /\ s.live = r.live
    BY <1>5 DEF Rows
  <2>4. QED  BY <2>1, <2>2, <2>3
<1>8. QED  BY <1>2, <1>3, <1>6, <1>7 DEF RowAccounts

\* A job that is claimed opens one more attempt, within its budget, after the one
\* that it abandons is finished.
LEMMA TakeKeeps ==
  ASSUME NEW r \in Rows, NEW codes \in [Attempts -> Codes], RowAccounts(r, codes),
         NEW s, NEW cs, Takes(r, codes, s, cs)
  PROVE  s \in Rows /\ cs \in [Attempts -> Codes] /\ RowAccounts(s, cs)
<1> DEFINE n == r.attempts + 1
           rest == IF LapsedRow(r) THEN Finish(codes, r.attempts, "lease_expired") ELSE codes
<1>1. r.attempts \in 0..Lifetime /\ r.max \in 0..Lifetime /\ r.attempts < r.max /\ Lifetime \in Nat
  BY QueueAssumption DEF Takes, Runnable, Rows
<1>2. n \in Attempts /\ n \in 0..Lifetime
  BY <1>1 DEF Attempts
<1>3. s = [r EXCEPT !.status = "running", !.version = @ + 1, !.attempts = n, !.token = n, !.live = TRUE]
  BY DEF Takes, Claimed
<1>4. s \in Rows
  <2>1. r.version + 1 \in Nat
    BY DEF Rows
  <2>2. QED  BY <1>2, <1>3, <2>1 DEF Rows, Open
<1>5. /\ rest \in [Attempts -> Codes]
      /\ \A m \in Attempts : (rest[m] # "none") <=> m <= r.attempts
      /\ \A m \in Attempts : rest[m] # "open"
      /\ \A m \in Attempts : rest[m] \notin {"stored", "empty"}
  <2>1. CASE LapsedRow(r)
    <3>1. r.status = "running"
      BY <2>1 DEF LapsedRow
    <3>2. r.attempts \in Attempts /\ codes[r.attempts] = "open" /\ "lease_expired" \in Codes
      BY <3>1, RunningOpen DEF Codes
    <3>3. /\ rest \in [Attempts -> Codes] /\ rest[r.attempts] = "lease_expired"
          /\ \A m \in Attempts \ {r.attempts} : rest[m] = codes[m]
      BY <2>1, <3>2, FinishOpen
    <3> HIDE DEF rest
    <3>4. QED  BY <3>1, <3>2, <3>3 DEF RowAccounts
  <2>2. CASE ~LapsedRow(r)
    <3>1. rest = codes /\ r.status = "queued"
      BY <2>2 DEF Takes, Runnable
    <3> HIDE DEF rest
    <3>2. QED  BY <3>1 DEF RowAccounts
  <2>3. QED  BY <2>1, <2>2
<1>6. cs = [rest EXCEPT ![n] = "open"]
  BY DEF Takes
<1> HIDE DEF rest
<1>7. cs \in [Attempts -> Codes]
  BY <1>2, <1>5, <1>6 DEF Codes
<1>8. s.attempts = n /\ s.max = r.max /\ s.status = "running" /\ s.token = n
  BY <1>3 DEF Rows
<1>9. \A m \in Attempts : (cs[m] # "none") <=> m <= n
  BY <1>1, <1>2, <1>5, <1>6 DEF Attempts
<1>10. \A m \in Attempts : cs[m] = "open" <=> m = n
  BY <1>2, <1>5, <1>6
<1>11. \A m \in Attempts : cs[m] \notin {"stored", "empty"}
  BY <1>2, <1>5, <1>6
<1>12. RowAccounts(s, cs)
  BY <1>1, <1>8, <1>9, <1>10, <1>11 DEF RowAccounts
<1>13. QED  BY <1>4, <1>7, <1>12

\* Every step keeps every job accounted for.
LEMMA MoveKeeps ==
  ASSUME NEW r \in Rows, NEW codes \in [Attempts -> Codes], RowAccounts(r, codes),
         NEW s, NEW cs, Moves(r, codes, s, cs)
  PROVE  s \in Rows /\ cs \in [Attempts -> Codes] /\ RowAccounts(s, cs)
<1>0. r.version + 1 \in Nat /\ 0 \in 0..Lifetime
  BY QueueAssumption DEF Rows
<1>1. CASE Enqueues(r, codes, s, cs)
  <2>1. s \in Rows
    BY <1>1, QueuedRow DEF Enqueues
  <2>2. s.attempts = 0 /\ s.status = "queued" /\ ~s.live
    BY <1>1 DEF Enqueues, Absent
  <2>3. s.attempts <= s.max
    BY <2>1, <2>2, QueueAssumption DEF Rows
  <2>4. QED  BY <1>1, <2>1, <2>2, <2>3 DEF Enqueues, RowAccounts
<1>2. CASE Dies(r, codes, s, cs)
  <2>1. s \in Rows
    BY <1>0, <1>2 DEF Dies, Dead, Rows, Settled
  <2>2. /\ s.attempts = r.attempts /\ s.max = r.max /\ ~s.live /\ s.status = "dead"
        /\ r.status = "running" /\ cs = Finish(codes, r.attempts, "lease_expired")
    BY <1>2 DEF Dies, Dead, Exhausted, LapsedRow, Rows
  <2>3. QED  BY <2>1, <2>2, StopKeeps
<1>3. CASE Misses(r, codes, s, cs)
  <2>1. PICK status \in {"queued", "dead"} : s = [Dead(r) EXCEPT !.status = status, !.due = FALSE]
    BY <1>3 DEF Misses
  <2>2. Dead(r) \in Rows
    BY <1>0 DEF Dead, Rows, Settled
  <2>3. s \in Rows
    BY <2>1, <2>2 DEF Rows, Open, Settled
  <2>4. /\ s.attempts = r.attempts /\ s.max = r.max /\ ~s.live /\ s.status \in {"queued", "dead"}
        /\ r.status = "running" /\ cs = Finish(codes, r.attempts, "failed")
    BY <1>3, <2>1 DEF Misses, Dead, Rows
  <2>5. QED  BY <2>3, <2>4, StopKeeps
<1>4. ASSUME NEW code \in {"stored", "empty"}, Succeeds(r, codes, s, cs, code)
      PROVE  s \in Rows /\ cs \in [Attempts -> Codes] /\ RowAccounts(s, cs)
  <2>1. s \in Rows
    BY <1>0, <1>4 DEF Succeeds, Succeeded, Rows, Settled
  <2>2. /\ s.attempts = r.attempts /\ s.max = r.max /\ ~s.live /\ s.status = "succeeded"
        /\ r.status = "running" /\ cs = Finish(codes, r.attempts, code)
    BY <1>4 DEF Succeeds, Succeeded, Rows
  <2>3. QED  BY <2>1, <2>2, StopKeeps
<1>5. QED  BY <1>1, <1>2, <1>3, <1>4, WaitKeeps, RedriveKeeps, TakeKeeps DEF Moves, Quiet
(***************************************************************************)
(* All jobs: every step of the queue is one of these, job by job.          *)
(***************************************************************************)

QuietAt(j) == Quiet(job[j], log[j], job'[j], log'[j])

Present == {j \in Jobs : job[j].status # "absent"}

\* The steps that touch no job.
LEMMA Elsewhere ==
  ASSUME UNCHANGED <<job, log>>
  PROVE  \A j \in Jobs : QuietAt(j)
BY DEF QuietAt, Quiet, Waits

\* One job is inserted.
LEMMA EnqueueMoves ==
  ASSUME TypeOK, IsFiniteSet(Present), NEW q \in Sources, Enqueue(q)
  PROVE  \E i \in Jobs :
           /\ Enqueues(job[i], log[i], job'[i], log'[i])
           /\ \A j \in Jobs \ {i} : QuietAt(j)
<1> DEFINE rank == Cardinality(Present) + 1
           i == <<q, source[q]>>
<1>1. i \in Jobs /\ job[i].status = "absent" /\ log' = log
  BY DEF Enqueue, TypeOK, Jobs
<1>2. rank \in Nat
  BY FS_CardinalityType
<1>3. job' = [job EXCEPT ![i] = [Absent EXCEPT !.status = "queued", !.version = 1,
                !.max = InitialAttempts, !.due = TRUE, !.rank = rank]]
  BY DEF Enqueue, Present
<1> HIDE DEF rank, i
<1>4. job'[i] = [Absent EXCEPT !.status = "queued", !.version = 1, !.max = InitialAttempts,
                               !.due = TRUE, !.rank = rank]
  BY <1>1, <1>3 DEF TypeOK
<1>5. Enqueues(job[i], log[i], job'[i], log'[i])
  BY <1>1, <1>2, <1>4 DEF Enqueues
<1>6. \A j \in Jobs \ {i} : job'[j] = job[j] /\ log'[j] = log[j]
  BY <1>1, <1>3 DEF TypeOK
<1>7. QED  BY <1>1, <1>5, <1>6 DEF QuietAt, Quiet, Waits

\* Time passes.
LEMMA TimeMoves ==
  ASSUME TypeOK, NEW i \in Jobs, Lapse(i) \/ FallsDue(i)
  PROVE  \A j \in Jobs : QuietAt(j)
<1>1. log' = log /\ \A j \in Jobs \ {i} : job'[j] = job[j]
  BY DEF Lapse, FallsDue, TypeOK
<1>2. Waits(job[i], log[i], job'[i], log'[i])
  BY <1>1 DEF Lapse, FallsDue, TypeOK, Waits
<1>3. QED  BY <1>1, <1>2 DEF QuietAt, Quiet, Waits

\* One dead job is given another chance.
LEMMA RedriveMoves ==
  ASSUME TypeOK, NEW a \in Admins, NEW i \in Jobs, NEW v \in Nat, Redrive(a, i, v)
  PROVE  /\ Redrives(job[i], log[i], job'[i], log'[i])
         /\ \A j \in Jobs \ {i} : QuietAt(j)
<1>1. log' = log /\ \A j \in Jobs \ {i} : job'[j] = job[j]
  BY DEF Redrive, TypeOK
<1>2. Redrives(job[i], log[i], job'[i], log'[i])
  BY <1>1 DEF Redrive, TypeOK, Redrives
<1>3. QED  BY <1>1, <1>2 DEF QuietAt, Quiet, Waits

\* A claim takes one job over and buries the exhausted ones.
LEMMA ClaimMoves ==
  ASSUME TypeOK, NEW w \in Workers, Claim(w)
  PROVE  \A j \in Jobs : QuietAt(j)
<1>1. PICK i \in Jobs :
        /\ Runnable(job[i])
        /\ job' = [[k \in Jobs |-> Drained(k)] EXCEPT ![i] = Claimed(@)]
        /\ log' = AfterClaim(i)
  BY DEF Claim
<1>2. ~Exhausted(job[i])
  BY <1>1 DEF Runnable, Exhausted, TypeOK, Rows
<1>3. Takes(job[i], log[i], job'[i], log'[i])
  <2>1. job'[i] = Claimed(job[i])
    BY <1>1, <1>2 DEF Drained
  <2>2. i \in Abandoned(i) <=> LapsedRow(job[i])
    BY <1>2 DEF Abandoned
  <2>3. log'[i] = [IF i \in Abandoned(i) THEN Finish(log[i], job[i].attempts, "lease_expired")
                   ELSE log[i] EXCEPT ![job[i].attempts + 1] = "open"]
    BY <1>1 DEF AfterClaim
  <2>4. QED  BY <1>1, <2>1, <2>2, <2>3 DEF Takes
<1>4. ASSUME NEW j \in Jobs, j # i PROVE QuietAt(j)
  <2>1. job'[j] = Drained(j)
    BY <1>1, <1>4
  <2>2. log'[j] = IF j \in Abandoned(i) THEN Finish(log[j], job[j].attempts, "lease_expired") ELSE log[j]
    BY <1>1, <1>4 DEF AfterClaim
  <2>3. j \in Abandoned(i) <=> Exhausted(job[j])
    BY <1>4 DEF Abandoned
  <2>4. CASE Exhausted(job[j])
    BY <2>1, <2>2, <2>3, <2>4 DEF QuietAt, Quiet, Dies, Drained
  <2>5. CASE ~Exhausted(job[j])
    BY <2>1, <2>2, <2>3, <2>5 DEF QuietAt, Quiet, Waits, Drained
  <2>6. QED  BY <2>4, <2>5
<1>5. QED  BY <1>3, <1>4 DEF QuietAt, Quiet

\* A claim that finds nothing only buries.
LEMMA DrainMoves ==
  ASSUME TypeOK, Drain
  PROVE  \A j \in Jobs : QuietAt(j)
<1> SUFFICES ASSUME NEW j \in Jobs PROVE QuietAt(j)
  OBVIOUS
<1>1. /\ job'[j] = Drained(j)
      /\ log'[j] = IF Exhausted(job[j]) THEN Finish(log[j], job[j].attempts, "lease_expired") ELSE log[j]
  BY DEF Drain
<1>2. QED  BY <1>1 DEF QuietAt, Quiet, Waits, Dies, Drained

\* A failure is reported: of the attempt that still runs, or in vain.
LEMMA FailMoves ==
  ASSUME TypeOK, NEW w \in Workers, Fail(w)
  PROVE  \A j \in Jobs : QuietAt(j)
<1> DEFINE t == worker[w]
<1>1. t \in Tasks /\ t.job \in Jobs
  BY DEF TypeOK, Fail, InPhase, Tasks
<1>2. CASE Fenced(t)
  <2>1. /\ job' = [job EXCEPT ![t.job] =
             [Dead(@) EXCEPT !.status = IF t.retryable /\ t.attempt < t.max THEN "queued" ELSE "dead",
                             !.due = FALSE]]
        /\ log' = [log EXCEPT ![t.job] = Finish(@, t.attempt, "failed")]
    BY <1>2 DEF Fail
  <2>2. \A j \in Jobs \ {t.job} : job'[j] = job[j] /\ log'[j] = log[j]
    BY <1>1, <2>1 DEF TypeOK
  <2>3. job[t.job].status = "running" /\ job[t.job].live /\ job[t.job].attempts = t.attempt
    BY <1>2 DEF Fenced
  <2>4. log'[t.job] = Finish(log[t.job], t.attempt, "failed")
    BY <1>1, <2>1 DEF TypeOK
  <2>5. \E status \in {"queued", "dead"} :
          job'[t.job] = [Dead(job[t.job]) EXCEPT !.status = status, !.due = FALSE]
    BY <1>1, <2>1 DEF TypeOK
  <2>6. Misses(job[t.job], log[t.job], job'[t.job], log'[t.job])
    BY <2>3, <2>4, <2>5 DEF Misses
  <2>7. QED  BY <1>1, <2>2, <2>6 DEF QuietAt, Quiet, Waits
<1>3. CASE ~Fenced(t)
  BY <1>3, Elsewhere DEF Fail
<1>4. QED  BY <1>2, <1>3

\* A result is committed, for the attempt that still runs, and counted when it
\* was stored.
LEMMA CommitMoves ==
  ASSUME TypeOK, NEW w \in Workers, Commit(w)
  PROVE  LET t == worker[w]
             code == IF t.stores THEN "stored" ELSE "empty" IN
         /\ t \in Tasks /\ t.job \in Jobs /\ t.attempt \in Attempts
         /\ t.attempt = job[t.job].attempts
         /\ Succeeds(job[t.job], log[t.job], job'[t.job], log'[t.job], code)
         /\ \A j \in Jobs \ {t.job} : QuietAt(j) /\ log'[j] = log[j]
         /\ effects' = IF t.stores THEN effects \cup {[job |-> t.job, attempt |-> t.attempt]} ELSE effects
<1> DEFINE t == worker[w]
           code == IF t.stores THEN "stored" ELSE "empty"
<1>1. t \in Tasks /\ t.job \in Jobs /\ t.attempt \in Attempts
  BY DEF TypeOK, Commit, InPhase, Tasks
<1>2. /\ job' = [job EXCEPT ![t.job] = Succeeded(@)]
      /\ log' = [log EXCEPT ![t.job] = Finish(@, t.attempt, code)]
  BY DEF Commit
<1>3. \A j \in Jobs \ {t.job} : job'[j] = job[j] /\ log'[j] = log[j]
  BY <1>1, <1>2 DEF TypeOK
<1>4. job[t.job].status = "running" /\ job[t.job].live /\ job[t.job].attempts = t.attempt
  BY DEF Commit, Fenced
<1>5. /\ log'[t.job] = Finish(log[t.job], t.attempt, code)
      /\ job'[t.job] = Succeeded(job[t.job])
  BY <1>1, <1>2 DEF TypeOK
<1>6. Succeeds(job[t.job], log[t.job], job'[t.job], log'[t.job], code)
  BY <1>4, <1>5 DEF Succeeds
<1>7. effects' = IF t.stores THEN effects \cup {[job |-> t.job, attempt |-> t.attempt]} ELSE effects
  BY DEF Commit
<1> HIDE DEF t, code
<1>8. QED  BY <1>1, <1>3, <1>4, <1>6, <1>7, Zenon DEF QuietAt, Quiet, Waits, t, code
\* What the workers do to their own tasks.
WorkerStep(w) ==
  Run(w) \/ GiveUp(w) \/ Store(w) \/ StoreRefused(w) \/ Rollback(w) \/ Crash(w)

\* Every step is one of these.
LEMMA StepCases ==
  ASSUME [Next]_vars
  PROVE  \/ UNCHANGED vars
         \/ \E q \in Sources : Drift(q) \/ Enqueue(q)
         \/ \E j \in Jobs : Lapse(j) \/ FallsDue(j)
         \/ \E a \in Admins, j \in Jobs : \E v \in 1..job[j].version : Redrive(a, j, v)
         \/ Drain
         \/ \E w \in Workers : Claim(w) \/ Commit(w) \/ Fail(w) \/ WorkerStep(w)
BY DEF Next, WorkerStep

\* Every step moves every job, and keeps the tables of jobs and of their codes.
LEMMA StepMoves ==
  ASSUME TypeOK, IsFiniteSet(Present), [Next]_vars
  PROVE  /\ \A j \in Jobs : Moves(job[j], log[j], job'[j], log'[j])
         /\ job' = [j \in Jobs |-> job'[j]] /\ log' = [j \in Jobs |-> log'[j]]
<1> DEFINE All == \A j \in Jobs : Moves(job[j], log[j], job'[j], log'[j])
           Tables == job' = [j \in Jobs |-> job'[j]] /\ log' = [j \in Jobs |-> log'[j]]
<1>0. (\A j \in Jobs : QuietAt(j)) => All
  BY DEF QuietAt, Moves
<1>1. CASE UNCHANGED <<job, log>>
  <2>1. Tables
    BY <1>1 DEF TypeOK
  <2>2. QED  BY <1>0, <1>1, <2>1, Elsewhere
<1>2. ASSUME NEW q \in Sources, Enqueue(q) PROVE All /\ Tables
  <2>1. Tables
    BY <1>2 DEF Enqueue, TypeOK
  <2>2. All
    BY <1>2, EnqueueMoves DEF QuietAt, Moves
  <2>3. QED  BY <2>1, <2>2
<1>3. ASSUME NEW j \in Jobs, Lapse(j) \/ FallsDue(j) PROVE All /\ Tables
  <2>1. Tables
    BY <1>3 DEF Lapse, FallsDue, TypeOK
  <2>2. QED  BY <1>0, <1>3, <2>1, TimeMoves
<1>4. ASSUME NEW a \in Admins, NEW j \in Jobs, NEW v \in 1..job[j].version, Redrive(a, j, v)
      PROVE  All /\ Tables
  <2>1. Tables
    BY <1>4 DEF Redrive, TypeOK
  <2>2. v \in Nat
    BY DEF TypeOK, Rows
  <2>3. All
    BY <1>4, <2>2, RedriveMoves DEF QuietAt, Moves
  <2>4. QED  BY <2>1, <2>3
<1>5. CASE Drain
  <2>1. Tables
    BY <1>5 DEF Drain
  <2>2. QED  BY <1>0, <1>5, <2>1, DrainMoves
<1>6. ASSUME NEW w \in Workers, Claim(w) PROVE All /\ Tables
  <2>1. Tables
    BY <1>6 DEF Claim, AfterClaim
  <2>2. QED  BY <1>0, <1>6, <2>1, ClaimMoves
<1>7. ASSUME NEW w \in Workers, Commit(w) PROVE All /\ Tables
  <2>1. Tables
    BY <1>7 DEF Commit, TypeOK
  <2>2. All
    BY <1>7, CommitMoves DEF QuietAt, Moves, Quiet
  <2>3. QED  BY <2>1, <2>2
<1>8. ASSUME NEW w \in Workers, Fail(w) PROVE All /\ Tables
  <2>1. Tables
    BY <1>8 DEF Fail, TypeOK
  <2>2. QED  BY <1>0, <1>8, <2>1, FailMoves
<1>9. ASSUME NEW w \in Workers, WorkerStep(w) PROVE UNCHANGED <<job, log>>
  BY <1>9 DEF WorkerStep, Run, GiveUp, Store, StoreRefused, Rollback, Crash
<1>10. ASSUME NEW q \in Sources, Drift(q) PROVE UNCHANGED <<job, log>>
  BY <1>10 DEF Drift
<1>11. UNCHANGED vars => UNCHANGED <<job, log>>
  BY DEF vars
<1> HIDE DEF All, Tables
<1>12. QED
  BY <1>1, <1>2, <1>3, <1>4, <1>5, <1>6, <1>7, <1>8, <1>9, <1>10, <1>11, StepCases DEF All, Tables
(***************************************************************************)
(* The inductive invariant.                                                *)
(***************************************************************************)

\* The attempts of all jobs are accounted for, one by one.
EveryAccount == \A j \in Jobs : RowAccounts(job[j], log[j])

\* Results and receipts speak of each other.
EffectsMatch ==
  \A e \in [job : Jobs, attempt : Attempts] : e \in effects <=> log[e.job][e.attempt] = "stored"

\* What a worker is storing was drawn from a source that nobody changes meanwhile.
StorersAreCurrent == \A w \in Workers : InPhase(w, "storing") => Current(worker[w])

RedrivesOf(j) == {r \in redriven : r.job = j}

\* The redrives that were applied answered earlier versions of their jobs, one each.
RedrivesCount ==
  /\ IsFiniteSet(redriven)
  /\ \A r \in redriven : r.version < job[r.job].version
  /\ BudgetIsEarned

\* A move that stores nothing leaves what was stored, and no other does.
LEMMA StoredBy ==
  ASSUME NEW r \in Rows, NEW codes \in [Attempts -> Codes], RowAccounts(r, codes), NEW s, NEW cs
  PROVE  /\ Quiet(r, codes, s, cs) \/ Enqueues(r, codes, s, cs) \/ Redrives(r, codes, s, cs) =>
              \A n \in Attempts : cs[n] = "stored" <=> codes[n] = "stored"
         /\ \A code \in {"stored", "empty"} : Succeeds(r, codes, s, cs, code) =>
              \A n \in Attempts : cs[n] = "stored" <=>
                codes[n] = "stored" \/ (n = r.attempts /\ code = "stored")
<1>1. ASSUME NEW code \in {"stored", "empty", "failed", "lease_expired"}, r.status = "running",
             cs = Finish(codes, r.attempts, code)
      PROVE  \A n \in Attempts : cs[n] = "stored" <=>
               codes[n] = "stored" \/ (n = r.attempts /\ code = "stored")
  <2>1. r.attempts \in Attempts /\ codes[r.attempts] = "open" /\ code \in Codes
    BY <1>1, RunningOpen DEF Codes
  <2>2. QED  BY <1>1, <2>1, FinishOpen
<1> DEFINE Same == \A n \in Attempts : cs[n] = "stored" <=> codes[n] = "stored"
<1>2. ASSUME Enqueues(r, codes, s, cs) \/ Redrives(r, codes, s, cs) \/ Waits(r, codes, s, cs)
      PROVE  Same
  BY <1>2 DEF Enqueues, Redrives, Waits
<1>3. ASSUME Dies(r, codes, s, cs) PROVE Same
  BY <1>1, <1>3 DEF Dies, Exhausted, LapsedRow
<1>4. ASSUME Misses(r, codes, s, cs) PROVE Same
  BY <1>1, <1>4 DEF Misses
<1>5. ASSUME NEW code \in {"stored", "empty"}, Succeeds(r, codes, s, cs, code)
      PROVE  \A n \in Attempts : cs[n] = "stored" <=>
               codes[n] = "stored" \/ (n = r.attempts /\ code = "stored")
  BY <1>1, <1>5 DEF Succeeds
<1>6. ASSUME Takes(r, codes, s, cs) PROVE Same
  <2> DEFINE rest == IF LapsedRow(r) THEN Finish(codes, r.attempts, "lease_expired") ELSE codes
  <2>1. rest \in [Attempts -> Codes] /\ \A n \in Attempts : rest[n] = "stored" <=> codes[n] = "stored"
    <3>1. CASE LapsedRow(r)
      <4>1. r.attempts \in Attempts /\ codes[r.attempts] = "open" /\ "lease_expired" \in Codes
        BY <3>1, RunningOpen DEF Codes, LapsedRow
      <4>2. /\ rest \in [Attempts -> Codes] /\ rest[r.attempts] = "lease_expired"
            /\ \A m \in Attempts \ {r.attempts} : rest[m] = codes[m]
        BY <3>1, <4>1, FinishOpen
      <4> HIDE DEF rest
      <4>3. QED  BY <4>1, <4>2
    <3>2. CASE ~LapsedRow(r)
      BY <3>2
    <3>3. QED  BY <3>1, <3>2
  <2>2. cs = [rest EXCEPT ![r.attempts + 1] = "open"]
    BY <1>6 DEF Takes
  <2>3. \A n \in Attempts : n > r.attempts => codes[n] = "none"
    BY DEF RowAccounts, Rows, Attempts
  <2>4. r.attempts \in Nat
    BY DEF Rows
  <2> HIDE DEF rest
  <2>5. ASSUME NEW n \in Attempts PROVE cs[n] = "stored" <=> codes[n] = "stored"
    <3>1. CASE n = r.attempts + 1
      <4>1. codes[n] = "none" /\ cs[n] = "open"
        BY <2>1, <2>2, <2>3, <2>4, <3>1
      <4>2. QED  BY <4>1
    <3>2. CASE n # r.attempts + 1
      BY <2>1, <2>2, <3>2
    <3>3. QED  BY <3>1, <3>2
  <2>6. QED  BY <2>5
<1>7. QED  BY <1>2, <1>3, <1>4, <1>5, <1>6 DEF Quiet

\* Only a commit adds a result: its own, and only if it stored one.
LEMMA EffectsStep ==
  ASSUME TypeOK, [Next]_vars
  PROVE  effects' = effects \/ \E w \in Workers : Commit(w)
BY StepCases DEF vars, Drift, Enqueue, Lapse, FallsDue, Redrive, Drain, Claim, Fail, WorkerStep, Run,
   GiveUp, Store, StoreRefused, Rollback, Crash

\* But for the jobs that are queued, redriven or completed, every move is quiet.
LEMMA StepQuiet ==
  ASSUME TypeOK, IsFiniteSet(Present), [Next]_vars
  PROVE  \/ \A j \in Jobs : QuietAt(j)
         \/ \E i \in Jobs : /\ Enqueues(job[i], log[i], job'[i], log'[i])
                            /\ \A j \in Jobs \ {i} : QuietAt(j)
         \/ \E i \in Jobs : /\ Redrives(job[i], log[i], job'[i], log'[i])
                            /\ \A j \in Jobs \ {i} : QuietAt(j)
         \/ \E w \in Workers : Commit(w)
<1>1. ASSUME NEW w \in Workers, WorkerStep(w) PROVE UNCHANGED <<job, log>>
  BY <1>1 DEF WorkerStep, Run, GiveUp, Store, StoreRefused, Rollback, Crash
<1>2. ASSUME NEW q \in Sources, Drift(q) PROVE UNCHANGED <<job, log>>
  BY <1>2 DEF Drift
<1>3. UNCHANGED vars => UNCHANGED <<job, log>>
  BY DEF vars
<1>4. ASSUME NEW a \in Admins, NEW j \in Jobs, NEW v \in 1..job[j].version, Redrive(a, j, v)
      PROVE  /\ Redrives(job[j], log[j], job'[j], log'[j])
             /\ \A i \in Jobs \ {j} : QuietAt(i)
  <2>1. v \in Nat
    BY DEF TypeOK, Rows
  <2>2. QED  BY <1>4, <2>1, RedriveMoves
<1>5. QED
  BY <1>1, <1>2, <1>3, <1>4, StepCases, Elsewhere, EnqueueMoves, TimeMoves, DrainMoves, ClaimMoves, FailMoves

\* Results and receipts keep speaking of each other.
LEMMA EffectsKeep ==
  ASSUME TypeOK, IsFiniteSet(Present), EveryAccount, EffectsMatch, [Next]_vars
  PROVE  EffectsMatch'
<1> SUFFICES ASSUME NEW e \in [job : Jobs, attempt : Attempts]
             PROVE  e \in effects' <=> log'[e.job][e.attempt] = "stored"
  BY DEF EffectsMatch
<1>0. /\ e.job \in Jobs /\ e.attempt \in Attempts /\ job[e.job] \in Rows
      /\ log[e.job] \in [Attempts -> Codes] /\ RowAccounts(job[e.job], log[e.job])
      /\ e \in effects <=> log[e.job][e.attempt] = "stored"
  BY DEF TypeOK, EveryAccount, EffectsMatch
<1>1. ASSUME NEW w \in Workers, Commit(w)
      PROVE  e \in effects' <=> log'[e.job][e.attempt] = "stored"
  <2> DEFINE t == worker[w]
             code == IF t.stores THEN "stored" ELSE "empty"
  <2>1. /\ t \in Tasks /\ t.job \in Jobs /\ t.attempt \in Attempts
        /\ t.attempt = job[t.job].attempts
        /\ Succeeds(job[t.job], log[t.job], job'[t.job], log'[t.job], code)
        /\ \A j \in Jobs \ {t.job} : QuietAt(j) /\ log'[j] = log[j]
        /\ effects' = IF t.stores THEN effects \cup {[job |-> t.job, attempt |-> t.attempt]} ELSE effects
    BY <1>1, CommitMoves
  <2>2. code \in {"stored", "empty"} /\ (code = "stored" <=> t.stores)
    OBVIOUS
  <2> HIDE DEF t, code
  <2>3. CASE e.job = t.job
    <3>1. log'[e.job][e.attempt] = "stored" <=>
            log[e.job][e.attempt] = "stored" \/ (e.attempt = t.attempt /\ t.stores)
      BY <1>0, <2>1, <2>2, <2>3, StoredBy
    <3>2. e = [job |-> t.job, attempt |-> t.attempt] <=> e.attempt = t.attempt
      BY <2>3
    <3>3. QED  BY <1>0, <2>1, <3>1, <3>2
  <2>4. CASE e.job # t.job
    BY <1>0, <2>1, <2>4
  <2>5. QED  BY <2>3, <2>4
<1>2. CASE /\ effects' = effects
           /\ \/ QuietAt(e.job) \/ Enqueues(job[e.job], log[e.job], job'[e.job], log'[e.job])
              \/ Redrives(job[e.job], log[e.job], job'[e.job], log'[e.job])
  BY <1>0, <1>2, StoredBy DEF QuietAt
<1>3. QED  BY <1>0, <1>1, <1>2, EffectsStep, StepQuiet
\* The jobs that were ever queued stay finitely many.
LEMMA PresentKeeps ==
  ASSUME TypeOK, IsFiniteSet(Present), [Next]_vars
  PROVE  IsFiniteSet(Present')
<1>1. ASSUME NEW j \in Jobs, QuietAt(j), job[j].status = "absent" PROVE job'[j].status = "absent"
  BY <1>1 DEF QuietAt, Quiet, Waits, Dies, Exhausted, LapsedRow, Takes, Runnable, Misses, Succeeds
<1>2. Present' = {j \in Jobs : job'[j].status # "absent"}
  BY DEF Present
<1>3. CASE \A j \in Jobs : QuietAt(j)
  BY <1>1, <1>2, <1>3, FS_Subset DEF Present
<1>4. ASSUME NEW i \in Jobs, \A j \in Jobs \ {i} : QuietAt(j)
      PROVE  IsFiniteSet(Present')
  <2>1. Present' \subseteq Present \cup {i}
    BY <1>1, <1>2, <1>4 DEF Present
  <2>2. QED  BY <2>1, FS_AddElement, FS_Subset
<1>5. ASSUME NEW w \in Workers, Commit(w) PROVE IsFiniteSet(Present')
  BY <1>4, <1>5, CommitMoves
<1>6. QED  BY <1>3, <1>4, <1>5, StepQuiet

\* A task in another phase is a task, and never the idle worker.
LEMMA TaskPhase ==
  ASSUME NEW t \in Tasks, NEW p \in {"claimed", "ran", "storing", "failing"},
         NEW b \in BOOLEAN, NEW c \in BOOLEAN
  PROVE  /\ [t EXCEPT !.phase = p, !.retryable = b] \in Tasks
         /\ [t EXCEPT !.phase = p, !.stores = c] \in Tasks
         /\ [t EXCEPT !.phase = p] \in Tasks
BY DEF Tasks

\* What a worker may become: idle, or a task in some phase.
LEMMA WorkerTypes ==
  ASSUME TypeOK, [Next]_vars
  PROVE  worker' \in [Workers -> Tasks \cup {Idle}]
<1>1. ASSUME NEW w \in Workers, Claim(w) PROVE worker' \in [Workers -> Tasks \cup {Idle}]
  <2>1. PICK j \in Jobs :
          /\ Runnable(job[j])
          /\ worker' = [worker EXCEPT ![w] =
               [job |-> j, attempt |-> job[j].attempts + 1, max |-> job[j].max,
                phase |-> "claimed", retryable |-> FALSE, stores |-> FALSE]]
    BY <1>1 DEF Claim
  <2>2. job[j].attempts + 1 \in Attempts /\ job[j].max \in 0..Lifetime
    BY <2>1, QueueAssumption DEF TypeOK, Rows, Runnable, Attempts
  <2>3. [job |-> j, attempt |-> job[j].attempts + 1, max |-> job[j].max,
         phase |-> "claimed", retryable |-> FALSE, stores |-> FALSE] \in Tasks
    BY <2>2 DEF Tasks
  <2>4. QED  BY <2>1, <2>3 DEF TypeOK
<1>2. ASSUME NEW w \in Workers, worker[w] \in Tasks, NEW b \in BOOLEAN, Fails(w, b)
      PROVE  worker' \in [Workers -> Tasks \cup {Idle}]
  <2>1. worker[w].retryable \in BOOLEAN
    BY <1>2 DEF Tasks
  <2>2. [worker[w] EXCEPT !.phase = "failing", !.retryable = b] \in Tasks
    BY <1>2, TaskPhase
  <2>3. QED  BY <1>2, <2>2 DEF Fails, TypeOK
<1>3. ASSUME NEW w \in Workers, worker[w] \in Tasks, NEW c \in BOOLEAN,
             worker' = [worker EXCEPT ![w] = [@ EXCEPT !.phase = "storing", !.stores = c]]
      PROVE  worker' \in [Workers -> Tasks \cup {Idle}]
  <2>1. [worker[w] EXCEPT !.phase = "storing", !.stores = c] \in Tasks
    BY <1>3, TaskPhase
  <2>2. QED  BY <1>3, <2>1 DEF TypeOK
<1>4. ASSUME NEW w \in Workers, worker' = [worker EXCEPT ![w] = Idle]
      PROVE  worker' \in [Workers -> Tasks \cup {Idle}]
  BY <1>4 DEF TypeOK
<1>5. ASSUME NEW w \in Workers, Run(w) PROVE worker' \in [Workers -> Tasks \cup {Idle}]
  <2>1. worker[w] \in Tasks /\ worker' = [worker EXCEPT ![w] = [worker[w] EXCEPT !.phase = "ran"]]
    BY <1>5 DEF Run, InPhase, TypeOK
  <2>2. [worker[w] EXCEPT !.phase = "ran"] \in Tasks
    BY <2>1 DEF Tasks
  <2>3. QED  BY <2>1, <2>2 DEF TypeOK
<1>6. ASSUME NEW w \in Workers, GiveUp(w) \/ Rollback(w) \/ Store(w) \/ Commit(w)
      PROVE  worker' \in [Workers -> Tasks \cup {Idle}]
  <2>1. worker[w] \in Tasks
    BY <1>6 DEF GiveUp, Rollback, Store, Commit, InPhase, TypeOK
  <2>2. \/ \E b \in BOOLEAN : Fails(w, b)
        \/ \E c \in BOOLEAN : worker' = [worker EXCEPT ![w] = [@ EXCEPT !.phase = "storing", !.stores = c]]
        \/ worker' = [worker EXCEPT ![w] = Idle]
    BY <1>6 DEF GiveUp, Rollback, Store, Commit
  <2>3. QED  BY <1>2, <1>3, <1>4, <2>1, <2>2
<1>7. ASSUME NEW w \in Workers, StoreRefused(w) \/ Fail(w) \/ Crash(w)
      PROVE  worker' \in [Workers -> Tasks \cup {Idle}]
  BY <1>4, <1>7 DEF StoreRefused, Fail, Crash
<1>8. CASE UNCHANGED worker
  BY <1>8 DEF TypeOK
<1>9. QED
  BY <1>1, <1>5, <1>6, <1>7, <1>8, StepCases
  DEF vars, Drift, Enqueue, Lapse, FallsDue, Redrive, Drain, WorkerStep

\* The other tables.
LEMMA OtherTypes ==
  ASSUME TypeOK, [Next]_vars
  PROVE  /\ source' \in [Sources -> Watermarks \cup {Gone}]
         /\ effects' \in SUBSET [job : Jobs, attempt : Attempts]
         /\ lock' \in Workers \cup {Nobody}
         /\ redriven' \in SUBSET [job : Jobs, version : Nat]
<1>1. source' \in [Sources -> Watermarks \cup {Gone}]
  <2>1. ASSUME NEW q \in Sources, Drift(q) PROVE source' \in [Sources -> Watermarks \cup {Gone}]
    <3>1. \E m \in Watermarks \cup {Gone} : source' = [source EXCEPT ![q] = m]
      BY <2>1 DEF Drift
    <3>2. QED  BY <3>1 DEF TypeOK
  <2>2. CASE UNCHANGED source
    BY <2>2 DEF TypeOK
  <2>3. QED
    BY <2>1, <2>2, StepCases
    DEF vars, Enqueue, Lapse, FallsDue, Redrive, Drain, Claim, Commit, Fail, WorkerStep, Run, GiveUp,
        Store, StoreRefused, Rollback, Crash
<1>2. effects' \in SUBSET [job : Jobs, attempt : Attempts]
  <2>1. ASSUME NEW w \in Workers, Commit(w) PROVE effects' \in SUBSET [job : Jobs, attempt : Attempts]
    <3>1. /\ worker[w].job \in Jobs /\ worker[w].attempt \in Attempts
          /\ effects' = IF worker[w].stores
                        THEN effects \cup {[job |-> worker[w].job, attempt |-> worker[w].attempt]}
                        ELSE effects
      BY <2>1, CommitMoves
    <3>2. QED  BY <3>1 DEF TypeOK
  <2>2. QED  BY <2>1, EffectsStep DEF TypeOK
<1>3. lock' \in Workers \cup {Nobody}
  BY StepCases
  DEF TypeOK, vars, Drift, Enqueue, Lapse, FallsDue, Redrive, Drain, Claim, Commit, Fail, WorkerStep, Run,
      GiveUp, Store, StoreRefused, Rollback, Crash
<1>4. redriven' \in SUBSET [job : Jobs, version : Nat]
  <2>1. ASSUME NEW a \in Admins, NEW j \in Jobs, NEW v \in 1..job[j].version, Redrive(a, j, v)
        PROVE  redriven' \in SUBSET [job : Jobs, version : Nat]
    <3>1. v \in Nat /\ redriven' = redriven \cup {[job |-> j, version |-> v]}
      BY <2>1 DEF Redrive, TypeOK, Rows
    <3>2. QED  BY <3>1 DEF TypeOK
  <2>2. CASE UNCHANGED redriven
    BY <2>2 DEF TypeOK
  <2>3. QED
    BY <2>1, <2>2, StepCases
    DEF vars, Drift, Enqueue, Lapse, FallsDue, Drain, Claim, Commit, Fail, WorkerStep, Run, GiveUp, Store,
        StoreRefused, Rollback, Crash
<1>5. QED  BY <1>1, <1>2, <1>3, <1>4

\* Types and accounts together are inductive.
LEMMA TypesAndAccounts ==
  ASSUME TypeOK, IsFiniteSet(Present), EveryAccount, [Next]_vars
  PROVE  TypeOK' /\ EveryAccount'
<1>1. \A j \in Jobs : /\ job'[j] \in Rows /\ log'[j] \in [Attempts -> Codes]
                      /\ RowAccounts(job'[j], log'[j])
  BY StepMoves, MoveKeeps DEF TypeOK, EveryAccount
<1>2. job' \in [Jobs -> Rows] /\ log' \in [Jobs -> [Attempts -> Codes]]
  BY <1>1, StepMoves, Zenon
<1>3. QED  BY <1>1, <1>2, WorkerTypes, OtherTypes DEF TypeOK, EveryAccount
(***************************************************************************)
(* Storing.                                                                *)
(***************************************************************************)

\* Of a single worker whose task changes, what the others see.
LEMMA StorerKeeps ==
  ASSUME TypeOK, StorerIsAlone, StorersAreCurrent, [Next]_vars
  PROVE  StorerIsAlone' /\ StorersAreCurrent'
<1> DEFINE Good == \A w \in Workers : /\ InPhase(w, "storing")' <=> lock' = w
                                      /\ InPhase(w, "storing")' => Current(worker[w])'
<1> SUFFICES Good
  BY DEF StorerIsAlone, StorersAreCurrent
<1>0. /\ worker \in [Workers -> Tasks \cup {Idle}] /\ Idle \notin Tasks /\ Nobody \notin Workers
      /\ \A w \in Workers : (InPhase(w, "storing") <=> lock = w)
                            /\ (InPhase(w, "storing") => Current(worker[w]))
  BY IdleAssumption, QueueAssumption DEF TypeOK, StorerIsAlone, StorersAreCurrent
<1>1. CASE UNCHANGED <<worker, lock>> /\ (UNCHANGED source \/ lock = Nobody)
  BY <1>0, <1>1 DEF InPhase, Current
<1>2. ASSUME NEW w \in Workers, UNCHANGED <<source, lock>>, lock # w,
             \E t \in Tasks \cup {Idle} :
               /\ worker' = [worker EXCEPT ![w] = t]
               /\ t = Idle \/ t.phase # "storing"
      PROVE  Good
  BY <1>0, <1>2 DEF InPhase, Current
<1>3. ASSUME NEW w \in Workers, UNCHANGED source, lock = w, lock' = Nobody,
             \E t \in Tasks \cup {Idle} :
               /\ worker' = [worker EXCEPT ![w] = t]
               /\ t = Idle \/ t.phase # "storing"
      PROVE  Good
  BY <1>0, <1>3 DEF InPhase, Current
<1>4. ASSUME NEW w \in Workers, UNCHANGED source, lock = Nobody, lock' = w, Current(worker[w]),
             worker[w] \in Tasks,
             \E c \in BOOLEAN : worker' = [worker EXCEPT ![w] = [@ EXCEPT !.phase = "storing", !.stores = c]]
      PROVE  Good
  <2>1. PICK c \in BOOLEAN : worker' = [worker EXCEPT ![w] = [worker[w] EXCEPT !.phase = "storing", !.stores = c]]
    BY <1>4
  <2> DEFINE t == [worker[w] EXCEPT !.phase = "storing", !.stores = c]
  <2>2. t \in Tasks
    BY <1>4, TaskPhase
  <2>3. t.phase = "storing" /\ t.job = worker[w].job
    BY <1>4 DEF Tasks
  <2> HIDE DEF t
  <2>4. worker' = [worker EXCEPT ![w] = t]
    BY <2>1 DEF t
  <2>5. InPhase(w, "storing")' /\ Current(worker[w])'
    BY <1>0, <1>4, <2>2, <2>3, <2>4 DEF InPhase, Current
  <2>6. \A v \in Workers \ {w} : ~InPhase(v, "storing")' /\ lock' # v
    BY <1>0, <1>4, <2>4 DEF InPhase
  <2>7. QED  BY <1>4, <2>5, <2>6
<1>5. ASSUME NEW w \in Workers, worker[w] \in Tasks, NEW b \in BOOLEAN, Fails(w, b)
      PROVE  \E t \in Tasks \cup {Idle} : worker' = [worker EXCEPT ![w] = t] /\ t.phase # "storing"
  <2>1. worker[w].retryable \in BOOLEAN
    BY <1>5 DEF Tasks
  <2>2. [worker[w] EXCEPT !.phase = "failing", !.retryable = b] \in Tasks
    BY <1>5, TaskPhase
  <2>3. [worker[w] EXCEPT !.phase = "failing", !.retryable = b].phase = "failing"
    BY <1>5 DEF Tasks
  <2>4. QED  BY <1>5, <2>2, <2>3 DEF Fails
<1>6. ASSUME NEW w \in Workers, Claim(w) PROVE Good
  <2>1. worker[w] = Idle /\ UNCHANGED <<source, lock>>
    BY <1>6 DEF Claim
  <2>2. lock # w
    BY <1>0, <2>1 DEF InPhase
  <2>3. PICK j \in Jobs : worker' = [worker EXCEPT ![w] =
               [job |-> j, attempt |-> job[j].attempts + 1, max |-> job[j].max,
                phase |-> "claimed", retryable |-> FALSE, stores |-> FALSE]]
    BY <1>6 DEF Claim
  <2> DEFINE t == [job |-> j, attempt |-> job[j].attempts + 1, max |-> job[j].max,
                   phase |-> "claimed", retryable |-> FALSE, stores |-> FALSE]
  <2>4. t.phase = "claimed"
    OBVIOUS
  <2>5. t \in Tasks \cup {Idle}
    <3>1. worker'[w] = t
      BY <1>0, <2>3
    <3>2. worker'[w] \in Tasks \cup {Idle}
      BY WorkerTypes
    <3>3. QED  BY <3>1, <3>2
  <2> HIDE DEF t
  <2>6. worker' = [worker EXCEPT ![w] = t]
    BY <2>3 DEF t
  <2>7. QED  BY <1>2, <2>1, <2>2, <2>4, <2>5, <2>6
<1>7. ASSUME NEW w \in Workers, Run(w) PROVE Good
  <2>1. worker[w] \in Tasks /\ worker[w].phase = "claimed" /\ UNCHANGED <<source, lock>>
    BY <1>7 DEF Run, InPhase, TypeOK
  <2>2. lock # w
    BY <1>0, <2>1 DEF InPhase
  <2>3. worker' = [worker EXCEPT ![w] = [worker[w] EXCEPT !.phase = "ran"]]
    BY <1>7 DEF Run
  <2>4. [worker[w] EXCEPT !.phase = "ran"] \in Tasks /\ [worker[w] EXCEPT !.phase = "ran"].phase = "ran"
    BY <2>1 DEF Tasks
  <2>5. QED  BY <1>2, <2>1, <2>2, <2>3, <2>4
<1>8. ASSUME NEW w \in Workers, GiveUp(w) PROVE Good
  <2>1. /\ worker[w] \in Tasks /\ worker[w].phase # "storing" /\ UNCHANGED <<source, lock>>
        /\ \E b \in BOOLEAN : Fails(w, b)
    BY <1>8 DEF GiveUp, InPhase, TypeOK
  <2>2. lock # w
    BY <1>0, <2>1 DEF InPhase
  <2>3. QED  BY <1>2, <1>5, <2>1, <2>2
<1>9. ASSUME NEW w \in Workers, Store(w) PROVE Good
  <2>1. /\ worker[w] \in Tasks /\ worker[w].phase = "ran" /\ UNCHANGED source /\ lock = Nobody
        /\ IF Current(worker[w])
           THEN /\ \E c \in BOOLEAN :
                     worker' = [worker EXCEPT ![w] = [@ EXCEPT !.phase = "storing", !.stores = c]]
                /\ lock' = w
           ELSE Fails(w, FALSE) /\ UNCHANGED lock
    BY <1>9 DEF Store, InPhase, TypeOK
  <2>2. QED  BY <1>0, <1>2, <1>4, <1>5, <2>1
<1>10. ASSUME NEW w \in Workers, Commit(w) \/ Rollback(w) PROVE Good
  <2>1. /\ worker[w] \in Tasks /\ UNCHANGED source /\ lock' = Nobody /\ InPhase(w, "storing")
        /\ worker' = [worker EXCEPT ![w] = Idle] \/ \E b \in BOOLEAN : Fails(w, b)
    BY <1>10 DEF Commit, Rollback, InPhase, TypeOK
  <2>2. lock = w
    BY <1>0, <2>1
  <2>3. QED  BY <1>3, <1>5, <2>1, <2>2
<1>11. ASSUME NEW w \in Workers, StoreRefused(w) \/ Fail(w) PROVE Good
  <2>1. /\ ~InPhase(w, "storing") /\ UNCHANGED <<source, lock>>
        /\ worker' = [worker EXCEPT ![w] = Idle]
    BY <1>11 DEF StoreRefused, Fail, InPhase
  <2>2. lock # w
    BY <1>0, <2>1
  <2>3. QED  BY <1>2, <2>1, <2>2
<1>12. ASSUME NEW w \in Workers, Crash(w) PROVE Good
  <2>1. /\ UNCHANGED source /\ worker' = [worker EXCEPT ![w] = Idle]
        /\ lock' = IF lock = w THEN Nobody ELSE lock
    BY <1>12 DEF Crash
  <2>2. QED  BY <1>2, <1>3, <2>1
<1>13. ASSUME NEW q \in Sources, Drift(q) PROVE UNCHANGED <<worker, lock>> /\ lock = Nobody
  BY <1>13 DEF Drift
<1>14. ASSUME UNCHANGED vars \/ (\E q \in Sources : Enqueue(q)) \/ (\E j \in Jobs : Lapse(j) \/ FallsDue(j))
              \/ (\E a \in Admins, j \in Jobs : \E v \in 1..job[j].version : Redrive(a, j, v)) \/ Drain
       PROVE  UNCHANGED <<worker, lock, source>>
  BY <1>14 DEF vars, Enqueue, Lapse, FallsDue, Redrive, Drain
<1> HIDE DEF Good
<1>15. QED
  BY <1>1, <1>6, <1>7, <1>8, <1>9, <1>10, <1>11, <1>12, <1>13, <1>14, StepCases DEF WorkerStep
(***************************************************************************)
(* Redrives.                                                               *)
(***************************************************************************)

\* A version never goes back; without a redrive the budget stays, and a job is
\* queued as Enqueues says only.
LEMMA VersionsGrow ==
  ASSUME NEW r \in Rows, NEW codes, NEW s, NEW cs,
         Quiet(r, codes, s, cs) \/ \E code : Succeeds(r, codes, s, cs, code)
  PROVE  /\ r.version <= s.version /\ s.max = r.max
         /\ r.status = "absent" => s.status = "absent"
<1>1. CASE Waits(r, codes, s, cs)
  BY <1>1 DEF Waits, Rows
<1>2. CASE Dies(r, codes, s, cs)
  BY <1>2 DEF Dies, Dead, Exhausted, LapsedRow, Rows
<1>3. CASE Takes(r, codes, s, cs)
  BY <1>3 DEF Takes, Claimed, Runnable, LapsedRow, Rows
<1>4. CASE Misses(r, codes, s, cs)
  <2>1. PICK status \in {"queued", "dead"} : s = [Dead(r) EXCEPT !.status = status, !.due = FALSE]
    BY <1>4 DEF Misses
  <2>2. QED  BY <1>4, <2>1 DEF Misses, Dead, Rows
<1>5. ASSUME NEW code, Succeeds(r, codes, s, cs, code)
      PROVE  /\ r.version <= s.version /\ s.max = r.max
             /\ r.status = "absent" => s.status = "absent"
  BY <1>5 DEF Succeeds, Succeeded, Rows
<1>6. QED  BY <1>1, <1>2, <1>3, <1>4, <1>5 DEF Quiet

\* A redriven job gets its step, up to the limit of its lifetime.
LEMMA OneMoreStep ==
  ASSUME NEW c \in Nat, NEW m \in Nat, m = LowerOf(Lifetime, InitialAttempts + RedriveStep * c)
  PROVE  LowerOf(Lifetime, m + RedriveStep) = LowerOf(Lifetime, InitialAttempts + RedriveStep * (c + 1))
<1>1. Lifetime \in Nat /\ InitialAttempts \in Nat /\ RedriveStep \in Nat
  BY QueueAssumption
<1> DEFINE p == RedriveStep * c
<1>2. p \in Nat /\ RedriveStep * (c + 1) = p + RedriveStep
  BY <1>1
<1> HIDE DEF p
<1>3. m = LowerOf(Lifetime, InitialAttempts + p)
  BY DEF p
<1>4. LowerOf(Lifetime, m + RedriveStep) = LowerOf(Lifetime, InitialAttempts + (p + RedriveStep))
  BY <1>1, <1>2, <1>3 DEF LowerOf
<1>5. QED  BY <1>2, <1>4

\* One redrive more.
LEMMA RedriveCounts ==
  ASSUME TypeOK, RedrivesCount, NEW a \in Admins, NEW i \in Jobs, NEW v \in Nat, Redrive(a, i, v)
  PROVE  RedrivesCount'
<1> DEFINE x == [job |-> i, version |-> v]
<1>1. /\ job[i] \in Rows /\ job[i].status = "dead" /\ job[i].version = v
      /\ job' = [job EXCEPT ![i] = Redriven(@, a)] /\ redriven' = redriven \cup {x}
  BY DEF Redrive, TypeOK
<1>2. /\ job'[i].version = v + 1 /\ job'[i].max = LowerOf(Lifetime, job[i].max + RedriveStep)
      /\ \A j \in Jobs \ {i} : job'[j] = job[j]
  <2>1. job'[i] = Redriven(job[i], a) /\ \A j \in Jobs \ {i} : job'[j] = job[j]
    BY <1>1 DEF TypeOK
  <2>2. ASSUME NEW r \in Rows
        PROVE  /\ Redriven(r, a).version = r.version + 1
               /\ Redriven(r, a).max = LowerOf(Lifetime, r.max + RedriveStep)
    BY DEF Redriven, Rows
  <2>3. QED  BY <1>1, <2>1, <2>2
<1>3. x \notin redriven
  BY <1>1 DEF RedrivesCount, Rows
<1>4. IsFiniteSet(redriven')
  BY <1>1, FS_AddElement DEF RedrivesCount
<1>5. \A r \in redriven' : r.version < job'[r.job].version
  <2>1. \A r \in redriven : r.job \in Jobs /\ r.version \in Nat /\ r.version < job[r.job].version
    BY DEF TypeOK, RedrivesCount
  <2>2. job[i].version \in Nat
    BY <1>1 DEF Rows
  <2>3. \A r \in redriven : r.version < job'[r.job].version
    BY <1>1, <1>2, <2>1, <2>2
  <2>4. QED  BY <1>1, <1>2, <2>3
<1>6. ASSUME NEW j \in Jobs \ {i} PROVE RedrivesOf(j)' = RedrivesOf(j)
  BY <1>1, <1>6 DEF RedrivesOf
<1>7. RedrivesOf(i)' = RedrivesOf(i) \cup {x}
  BY <1>1 DEF RedrivesOf
<1>8. Cardinality(RedrivesOf(i))' = Cardinality(RedrivesOf(i)) + 1 /\ Cardinality(RedrivesOf(i)) \in Nat
  <2>1. IsFiniteSet(RedrivesOf(i))
    BY FS_Subset DEF RedrivesCount, RedrivesOf
  <2>2. x \notin RedrivesOf(i)
    BY <1>3 DEF RedrivesOf
  <2>3. QED  BY <1>7, <2>1, <2>2, FS_AddElement, FS_CardinalityType
<1>9. job[i].max = LowerOf(Lifetime, InitialAttempts + RedriveStep * Cardinality(RedrivesOf(i)))
  BY <1>1 DEF RedrivesCount, BudgetIsEarned, RedrivesOf
<1>10. job[i].max \in Nat
  BY <1>1 DEF Rows
<1>11. job'[i].max = LowerOf(Lifetime, InitialAttempts + RedriveStep * Cardinality(RedrivesOf(i))')
  BY <1>2, <1>8, <1>9, <1>10, OneMoreStep
<1>12. BudgetIsEarned'
  <2> SUFFICES ASSUME NEW j \in Jobs, job'[j].status # "absent"
               PROVE  job'[j].max = LowerOf(Lifetime, InitialAttempts + RedriveStep * Cardinality(RedrivesOf(j))')
    BY DEF BudgetIsEarned, RedrivesOf
  <2>1. CASE j = i
    BY <1>11, <2>1
  <2>2. CASE j # i
    BY <1>2, <1>6, <2>2 DEF RedrivesCount, BudgetIsEarned, RedrivesOf
  <2>3. QED  BY <2>1, <2>2
<1>13. QED  BY <1>4, <1>5, <1>12 DEF RedrivesCount

\* A job that is queued has not been redriven yet.
LEMMA NewBudget ==
  ASSUME TypeOK, EveryAccount, RedrivesCount,
         NEW i \in Jobs, Enqueues(job[i], log[i], job'[i], log'[i])
  PROVE  /\ job'[i].max = LowerOf(Lifetime, InitialAttempts + RedriveStep * Cardinality(RedrivesOf(i)))
         /\ job[i].version <= job'[i].version
<1>1. job[i] \in Rows /\ job[i].version = 0
  BY DEF TypeOK, EveryAccount, RowAccounts, Enqueues
<1>2. RedrivesOf(i) = {}
  <2>1. ASSUME NEW r \in RedrivesOf(i) PROVE FALSE
    <3>1. r.version \in Nat /\ r.version < job[i].version
      BY DEF RedrivesOf, RedrivesCount, TypeOK
    <3>2. QED  BY <1>1, <3>1
  <2>2. QED  BY <2>1
<1>3. Cardinality(RedrivesOf(i)) = 0
  BY <1>2, FS_EmptySet
<1>4. LowerOf(Lifetime, InitialAttempts + RedriveStep * 0) = InitialAttempts
  BY QueueAssumption DEF LowerOf
<1>5. job'[i].max = InitialAttempts /\ job'[i].version = 1
  BY DEF Enqueues, Absent
<1>6. QED  BY <1>1, <1>3, <1>4, <1>5

\* The redrives keep counting.
LEMMA RedrivesKeep ==
  ASSUME TypeOK, IsFiniteSet(Present), EveryAccount, RedrivesCount, [Next]_vars
  PROVE  RedrivesCount'
<1>1. ASSUME NEW a \in Admins, NEW j \in Jobs, NEW v \in 1..job[j].version, Redrive(a, j, v)
      PROVE  RedrivesCount'
  <2>1. v \in Nat
    BY DEF TypeOK, Rows
  <2>2. QED  BY <1>1, <2>1, RedriveCounts
<1>2. CASE ~\E a \in Admins, j \in Jobs : \E v \in 1..job[j].version : Redrive(a, j, v)
  <2>1. redriven' = redriven
    BY <1>2, StepCases
    DEF vars, Drift, Enqueue, Lapse, FallsDue, Drain, Claim, Commit, Fail, WorkerStep, Run, GiveUp, Store,
        StoreRefused, Rollback, Crash
  <2>2. ASSUME NEW j \in Jobs
        PROVE  \/ Enqueues(job[j], log[j], job'[j], log'[j])
               \/ QuietAt(j)
               \/ \E code : Succeeds(job[j], log[j], job'[j], log'[j], code)
    <3>1. ASSUME NEW w \in Workers, Commit(w)
          PROVE  QuietAt(j) \/ \E code : Succeeds(job[j], log[j], job'[j], log'[j], code)
      BY <3>1, CommitMoves
    <3>2. ASSUME NEW q \in Sources, Enqueue(q)
          PROVE  QuietAt(j) \/ Enqueues(job[j], log[j], job'[j], log'[j])
      BY <3>2, EnqueueMoves
    <3>3. ASSUME NEW w \in Workers, WorkerStep(w) PROVE UNCHANGED <<job, log>>
      BY <3>3 DEF WorkerStep, Run, GiveUp, Store, StoreRefused, Rollback, Crash
    <3>4. ASSUME NEW q \in Sources, Drift(q) PROVE UNCHANGED <<job, log>>
      BY <3>4 DEF Drift
    <3>5. UNCHANGED vars => UNCHANGED <<job, log>>
      BY DEF vars
    <3>6. QED
      BY <1>2, <3>1, <3>2, <3>3, <3>4, <3>5, StepCases, Elsewhere, TimeMoves, DrainMoves, ClaimMoves, FailMoves
  <2>3. ASSUME NEW j \in Jobs
        PROVE  /\ job[j].version \in Nat /\ job'[j].version \in Nat /\ job[j].version <= job'[j].version
               /\ job'[j].status # "absent" =>
                    job'[j].max = LowerOf(Lifetime, InitialAttempts + RedriveStep * Cardinality(RedrivesOf(j)))
    <3>1. job[j] \in Rows /\ job'[j] \in Rows
      BY TypesAndAccounts DEF TypeOK
    <3>2. CASE Enqueues(job[j], log[j], job'[j], log'[j])
      BY <3>1, <3>2, NewBudget DEF Rows
    <3>3. CASE QuietAt(j) \/ \E code : Succeeds(job[j], log[j], job'[j], log'[j], code)
      <4>1. /\ job[j].version <= job'[j].version /\ job'[j].max = job[j].max
            /\ job[j].status = "absent" => job'[j].status = "absent"
        BY <3>1, <3>3, VersionsGrow DEF QuietAt
      <4>2. QED  BY <3>1, <4>1 DEF Rows, RedrivesCount, BudgetIsEarned, RedrivesOf
    <3>4. QED  BY <2>2, <3>2, <3>3
  <2>4. \A r \in redriven : r.version < job'[r.job].version
    <3>1. \A r \in redriven : r.job \in Jobs /\ r.version \in Nat /\ r.version < job[r.job].version
      BY DEF TypeOK, RedrivesCount
    <3>2. QED  BY <2>3, <3>1
  <2>5. BudgetIsEarned'
    BY <2>1, <2>3 DEF BudgetIsEarned, RedrivesOf
  <2>6. QED  BY <2>1, <2>4, <2>5 DEF RedrivesCount
<1>3. QED  BY <1>1, <1>2
(***************************************************************************)
(* The theorems.                                                           *)
(***************************************************************************)

\* What holds of the queue at all times: each part needs the others.
QueueInv ==
  /\ TypeOK /\ IsFiniteSet(Present) /\ EveryAccount
  /\ EffectsMatch
  /\ StorerIsAlone /\ StorersAreCurrent
  /\ RedrivesCount

\* The empty queue.
LEMMA QueueStarts == Init => QueueInv
<1> SUFFICES ASSUME Init PROVE QueueInv
  OBVIOUS
<1>1. Absent \in Rows
  BY QueuedRow
<1>2. TypeOK
  BY <1>1 DEF Init, TypeOK, Codes
<1>3. Present = {}
  BY DEF Init, Present, Absent
<1>4. EveryAccount
  BY QueueAssumption DEF Init, EveryAccount, RowAccounts, Absent, Attempts
<1>5. EffectsMatch
  BY DEF Init, EffectsMatch
<1>6. StorerIsAlone /\ StorersAreCurrent
  BY QueueAssumption DEF Init, StorerIsAlone, StorersAreCurrent, InPhase
<1>7. RedrivesCount
  BY FS_EmptySet DEF Init, RedrivesCount, BudgetIsEarned, Absent
<1>8. QED  BY <1>2, <1>3, <1>4, <1>5, <1>6, <1>7, FS_EmptySet DEF QueueInv

\* Every step keeps it.
LEMMA QueueInductive == QueueInv /\ [Next]_vars => QueueInv'
<1> SUFFICES ASSUME QueueInv, [Next]_vars PROVE QueueInv'
  OBVIOUS
<1>1. TypeOK' /\ EveryAccount'
  BY TypesAndAccounts DEF QueueInv
<1>2. IsFiniteSet(Present)'
  BY PresentKeeps DEF QueueInv
<1>3. EffectsMatch'
  BY EffectsKeep DEF QueueInv
<1>4. StorerIsAlone' /\ StorersAreCurrent'
  BY StorerKeeps DEF QueueInv
<1>5. RedrivesCount'
  BY RedrivesKeep DEF QueueInv
<1>6. QED  BY <1>1, <1>2, <1>3, <1>4, <1>5 DEF QueueInv

\* So it always holds.
LEMMA QueueInvariant == Spec => []QueueInv
<1>1. QED  BY QueueStarts, QueueInductive, PTL DEF Spec

\* Tables, attempts and budgets add up, however often jobs fail, workers vanish
\* and administrators repeat themselves.
THEOREM AccountsAlwaysBalance == Spec => []AccountsBalance
<1>1. QueueInv => AccountsBalance
  <2> SUFFICES ASSUME QueueInv PROVE AccountsBalance
    OBVIOUS
  <2>1. AttemptsAreAccounted
    <3> SUFFICES ASSUME NEW j \in Jobs
                 PROVE  LET r == job[j] IN
                        /\ r.attempts <= r.max /\ r.max <= Lifetime
                        /\ \A n \in Attempts : (log[j][n] # "none") <=> n <= r.attempts
                        /\ \A n \in Attempts : log[j][n] = "open" <=> r.status = "running" /\ n = r.attempts
                        /\ \A n \in Attempts : log[j][n] \in {"stored", "empty"} =>
                             r.status = "succeeded" /\ n = r.attempts
      BY DEF AttemptsAreAccounted
    <3>1. RowAccounts(job[j], log[j])
      BY DEF QueueInv, EveryAccount
    <3>2. job[j].max <= Lifetime
      BY QueueAssumption DEF QueueInv, TypeOK, Rows
    <3>3. QED  BY <3>1, <3>2 DEF RowAccounts
  <2>2. QED  BY <2>1 DEF QueueInv, AccountsBalance, RedrivesCount
<1>2. QED  BY <1>1, QueueInvariant, PTL

\* A job has one result at most, with the receipt of the attempt that stored it.
THEOREM OneResultEach == Spec => []OneResultPerJob
<1>1. QueueInv => OneResultPerJob
  <2> SUFFICES ASSUME QueueInv PROVE OneResultPerJob
    OBVIOUS
  <2>1. ASSUME NEW e \in effects
        PROVE  /\ e \in [job : Jobs, attempt : Attempts] /\ log[e.job][e.attempt] = "stored"
               /\ job[e.job].status = "succeeded" /\ e.attempt = job[e.job].attempts
    BY DEF QueueInv, TypeOK, EffectsMatch, EveryAccount, RowAccounts
  <2>2. \A d, e \in effects : d.job = e.job => d = e
    BY <2>1
  <2>3. \A j \in Jobs, n \in Attempts : log[j][n] = "stored" => [job |-> j, attempt |-> n] \in effects
    BY DEF QueueInv, EffectsMatch
  <2>4. QED  BY <2>1, <2>2, <2>3 DEF OneResultPerJob
<1>2. QED  BY <1>1, QueueInvariant, PTL

\* What is stored was drawn from the source as it is.
THEOREM ResultsFresh == Spec => ResultsAreFresh
<1>1. QueueInv /\ [Next]_vars => \A e \in effects' \ effects : source[e.job[1]] = e.job[2]
  <2> SUFFICES ASSUME QueueInv, [Next]_vars, NEW e \in effects' \ effects
               PROVE  source[e.job[1]] = e.job[2]
    OBVIOUS
  <2>1. PICK w \in Workers : Commit(w)
    BY EffectsStep DEF QueueInv
  <2>2. e = [job |-> worker[w].job, attempt |-> worker[w].attempt]
    BY <2>1 DEF Commit
  <2>3. Current(worker[w])
    BY <2>1 DEF QueueInv, StorersAreCurrent, Commit
  <2>4. QED  BY <2>2, <2>3 DEF Current
<1>2. QED  BY <1>1, QueueInvariant, PTL DEF Spec, ResultsAreFresh
(***************************************************************************)
(* The queue leases its jobs.                                              *)
(***************************************************************************)

HolderOf(r) == IF r.live THEN r.token ELSE 0
EntryOf(codes, n) == [by |-> n, fence |-> n, outcome |-> codes[n]]
EntriesOf(codes) == {EntryOf(codes, n) : n \in {m \in Attempts : codes[m] \in SettledCodes}}

\* What a move means for the lease of its job.
LeaseMoves(r, codes, s, cs) ==
  \/ HolderOf(s) = HolderOf(r) /\ s.attempts = r.attempts /\ EntriesOf(cs) = EntriesOf(codes)
  \/ /\ HolderOf(r) = 0 /\ HolderOf(s) \in Attempts /\ s.attempts = r.attempts + 1
     /\ EntriesOf(cs) = EntriesOf(codes)
  \/ HolderOf(s) = 0 /\ s.attempts = r.attempts /\ EntriesOf(cs) = EntriesOf(codes)
  \/ /\ HolderOf(r) # 0 /\ HolderOf(s) = 0 /\ s.attempts = r.attempts
     /\ \E o \in SettledCodes :
          EntriesOf(cs) = EntriesOf(codes) \cup {[by |-> HolderOf(r), fence |-> r.attempts, outcome |-> o]}

\* Codes that agree on what is settled make the same entries.
LEMMA SameEntries ==
  ASSUME NEW codes, NEW cs,
         \A n \in Attempts : codes[n] = cs[n] \/ (codes[n] \notin SettledCodes /\ cs[n] \notin SettledCodes)
  PROVE  EntriesOf(cs) = EntriesOf(codes)
BY DEF EntriesOf, EntryOf

\* A running attempt that is finished settles, or is abandoned.
LEMMA FinishEntries ==
  ASSUME NEW r \in Rows, NEW codes \in [Attempts -> Codes], RowAccounts(r, codes), r.status = "running",
         NEW code \in {"stored", "empty", "failed", "lease_expired"}
  PROVE  /\ r.attempts \in Attempts
         /\ code = "lease_expired" => EntriesOf(Finish(codes, r.attempts, code)) = EntriesOf(codes)
         /\ code \in SettledCodes =>
              EntriesOf(Finish(codes, r.attempts, code)) =
                EntriesOf(codes) \cup {[by |-> r.attempts, fence |-> r.attempts, outcome |-> code]}
<1> DEFINE cs == Finish(codes, r.attempts, code)
<1>1. r.attempts \in Attempts /\ codes[r.attempts] = "open" /\ code \in Codes
  BY RunningOpen DEF Codes
<1>2. /\ cs[r.attempts] = code
      /\ \A m \in Attempts \ {r.attempts} : cs[m] = codes[m]
  BY <1>1, FinishOpen
<1> HIDE DEF cs
<1>3. "open" \notin SettledCodes /\ "lease_expired" \notin SettledCodes
  BY DEF SettledCodes
<1>4. code = "lease_expired" => EntriesOf(cs) = EntriesOf(codes)
  BY <1>1, <1>2, <1>3, SameEntries
<1>5. ASSUME code \in SettledCodes
      PROVE  EntriesOf(cs) = EntriesOf(codes) \cup {EntryOf(cs, r.attempts)}
  BY <1>1, <1>2, <1>3, <1>5 DEF EntriesOf, EntryOf
<1>6. QED  BY <1>1, <1>2, <1>4, <1>5 DEF cs, EntryOf

\* Every move of a job is a move of its lease.
LEMMA MoveIsLeaseMove ==
  ASSUME NEW r \in Rows, NEW codes \in [Attempts -> Codes], RowAccounts(r, codes),
         NEW s, NEW cs, Moves(r, codes, s, cs)
  PROVE  LeaseMoves(r, codes, s, cs)
<1>1. CASE Enqueues(r, codes, s, cs)
  BY <1>1 DEF Enqueues, Absent, RowAccounts, HolderOf, LeaseMoves
<1>2. CASE Redrives(r, codes, s, cs)
  BY <1>2 DEF Redrives, Redriven, RowAccounts, HolderOf, LeaseMoves, Rows
<1>3. CASE Waits(r, codes, s, cs)
  BY <1>3 DEF Waits, HolderOf, LeaseMoves, Rows
<1>4. CASE Dies(r, codes, s, cs)
  <2>1. r.status = "running" /\ cs = Finish(codes, r.attempts, "lease_expired")
    BY <1>4 DEF Dies, Exhausted, LapsedRow
  <2>2. ~s.live /\ s.attempts = r.attempts
    BY <1>4 DEF Dies, Dead, Rows
  <2>3. QED  BY <2>1, <2>2, FinishEntries DEF LeaseMoves, HolderOf
<1>5. ASSUME NEW code \in {"stored", "empty", "failed"}, r.status = "running", r.live,
             cs = Finish(codes, r.attempts, code), ~s.live, s.attempts = r.attempts
      PROVE  LeaseMoves(r, codes, s, cs)
  <2>1. HolderOf(r) = r.attempts /\ HolderOf(s) = 0 /\ code \in SettledCodes
    BY <1>5 DEF HolderOf, RowAccounts, SettledCodes
  <2>2. r.attempts # 0
    BY <1>5, FinishEntries DEF Attempts
  <2>3. EntriesOf(cs) = EntriesOf(codes) \cup {[by |-> r.attempts, fence |-> r.attempts, outcome |-> code]}
    BY <1>5, <2>1, FinishEntries
  <2>4. QED  BY <1>5, <2>1, <2>2, <2>3 DEF LeaseMoves
<1>6. CASE Misses(r, codes, s, cs)
  <2>1. PICK status \in {"queued", "dead"} : s = [Dead(r) EXCEPT !.status = status, !.due = FALSE]
    BY <1>6 DEF Misses
  <2>2. ~s.live /\ s.attempts = r.attempts
    BY <2>1 DEF Dead, Rows
  <2>3. QED  BY <1>5, <1>6, <2>2 DEF Misses
<1>7. ASSUME NEW code \in {"stored", "empty"}, Succeeds(r, codes, s, cs, code)
      PROVE  LeaseMoves(r, codes, s, cs)
  <2>1. ~s.live /\ s.attempts = r.attempts
    BY <1>7 DEF Succeeds, Succeeded, Rows
  <2>2. QED  BY <1>5, <1>7, <2>1 DEF Succeeds
<1>8. CASE Takes(r, codes, s, cs)
  <2> DEFINE rest == IF LapsedRow(r) THEN Finish(codes, r.attempts, "lease_expired") ELSE codes
             n == r.attempts + 1
  <2>1. /\ s.live /\ s.token = n /\ s.attempts = n
        /\ cs = [rest EXCEPT ![n] = "open"]
    BY <1>8 DEF Takes, Claimed, Rows
  <2>2. ~r.live
    BY <1>8 DEF Takes, Runnable, LapsedRow, RowAccounts
  <2>3. n \in Attempts
    BY <1>8, QueueAssumption DEF Takes, Runnable, Rows, Attempts
  <2>4. EntriesOf(rest) = EntriesOf(codes) /\ rest \in [Attempts -> Codes] /\ rest[n] \notin SettledCodes
    <3>1. codes[n] = "none" /\ "none" \notin SettledCodes
      <4>1. ~(n <= r.attempts)
        BY DEF Rows
      <4>2. QED  BY <2>3, <4>1 DEF RowAccounts, SettledCodes
    <3>2. CASE LapsedRow(r)
      <4>1. r.status = "running"
        BY <3>2 DEF LapsedRow
      <4>2. /\ r.attempts \in Attempts /\ codes[r.attempts] = "open" /\ "lease_expired" \in Codes
            /\ n # r.attempts
        BY <4>1, RunningOpen DEF Codes, Rows
      <4>3. /\ rest \in [Attempts -> Codes]
            /\ \A m \in Attempts \ {r.attempts} : rest[m] = codes[m]
        BY <3>2, <4>2, FinishOpen
      <4>4. EntriesOf(rest) = EntriesOf(codes)
        BY <3>2, <4>1, FinishEntries
      <4> HIDE DEF rest, n
      <4>5. QED  BY <2>3, <3>1, <4>2, <4>3, <4>4
    <3>3. CASE ~LapsedRow(r)
      BY <3>1, <3>3
    <3>4. QED  BY <3>2, <3>3
  <2> HIDE DEF rest
  <2>5. EntriesOf(cs) = EntriesOf(rest)
    <3>1. "open" \notin SettledCodes
      BY DEF SettledCodes
    <3>2. \A m \in Attempts : rest[m] = cs[m] \/ (rest[m] \notin SettledCodes /\ cs[m] \notin SettledCodes)
      BY <2>1, <2>3, <2>4, <3>1
    <3>3. QED  BY <3>2, SameEntries
  <2>6. QED  BY <2>1, <2>2, <2>3, <2>4, <2>5 DEF LeaseMoves, HolderOf
<1>9. QED  BY <1>1, <1>2, <1>3, <1>4, <1>6, <1>7, <1>8 DEF Moves, Quiet

\* Every step of the queue is a step of the leases of its jobs.
LEMMA StepIsLeaseStep == QueueInv /\ QueueInv' /\ [Next]_vars => Lease!Next
<1> SUFFICES ASSUME QueueInv, QueueInv', [Next]_vars PROVE Lease!Next
  OBVIOUS
<1>1. ASSUME NEW j \in Jobs
      PROVE  LeaseMoves(job[j], log[j], job'[j], log'[j])
  BY <1>1, StepMoves, MoveIsLeaseMove DEF QueueInv, TypeOK, EveryAccount
<1>2. ASSUME NEW j \in Jobs
      PROVE  /\ HolderOf(job'[j]) \in Attempts \cup {0}
             /\ job'[j].attempts \in Nat
             /\ EntriesOf(log'[j]) \in SUBSET Lease!Settlements
  <2>1. job'[j] \in Rows
    BY DEF QueueInv, TypeOK
  <2>2. job'[j].token \in Attempts \cup {0} /\ job'[j].attempts \in Nat
    BY <2>1, QueueAssumption DEF Rows, Attempts
  <2>3. \A n \in Attempts : n \in Nat
    BY QueueAssumption DEF Attempts
  <2>4. EntriesOf(log'[j]) \in SUBSET Lease!Settlements
    BY <2>3 DEF EntriesOf, EntryOf, Lease!Settlements
  <2>5. QED  BY <2>2, <2>4 DEF HolderOf
<1>3. ASSUME NEW j \in Jobs PROVE Lease!Step(j) \/ Lease!Keep(j)
  BY <1>1 DEF LeaseMoves, HolderOf, EntriesOf, EntryOf, Settlement, Lease!Step, Lease!Keep,
     Lease!Acquire, Lease!Settle, Lease!Lapse
<1>4. QED  BY <1>2, <1>3 DEF Lease!Next, HolderOf, EntriesOf, EntryOf, Settlement

\* The queue keeps the promise of a fenced lease: a job has one worker at a time,
\* every attempt a number of its own, and settles by its own worker or not at all.
THEOREM QueueImplementsLease == Spec => ImplementsFencedLease
<1>1. Init => Lease!Init
  <2> SUFFICES ASSUME Init PROVE Lease!Init
    OBVIOUS
  <2>1. \A j \in Jobs : job[j].live = FALSE /\ job[j].attempts = 0
    BY DEF Init, Absent
  <2>2. \A j \in Jobs : \A n \in Attempts : log[j][n] \notin SettledCodes
    BY DEF Init, SettledCodes
  <2>3. QED  BY <2>1, <2>2 DEF Lease!Init, Settlement
<1>2. QueueInv /\ QueueInv' /\ [Next]_vars => [Lease!Next]_(Lease!vars)
  BY StepIsLeaseStep
<1>3. QED  BY <1>1, <1>2, QueueInvariant, PTL DEF Spec, ImplementsFencedLease, Lease!Spec
=============================================================================
