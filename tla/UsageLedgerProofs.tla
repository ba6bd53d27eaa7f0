------------------------- MODULE UsageLedgerProofs -------------------------
(***************************************************************************)
(* Proofs about UsageLedger, for any runs, reports and limits: the         *)
(* receipts of a run tell one consistent story, the run is what the newest *)
(* of them says, the database never has to refuse an update, and every     *)
(* token is counted once in the period it falls into.                      *)
(***************************************************************************)
EXTENDS UsageLedger, FiniteSetTheorems, FunctionTheorems, TLAPS

(***************************************************************************)
(* Metrics.                                                                *)
(***************************************************************************)

\* Counters that revise each other in turn revise the first.
LEMMA CounterRevises ==
  ASSUME NEW a \in Counters, NEW b \in Counters, NEW c \in Counters,
         \/ a.quality = "unavailable"
         \/ a.quality = "estimated" /\ b.quality = "reported"
         \/ Comparable(a, b) /\ b.value >= a.value,
         \/ b.quality = "unavailable"
         \/ b.quality = "estimated" /\ c.quality = "reported"
         \/ Comparable(b, c) /\ c.value >= b.value
  PROVE  \/ a.quality = "unavailable"
         \/ a.quality = "estimated" /\ c.quality = "reported"
         \/ Comparable(a, c) /\ c.value >= a.value
<1>1. CASE a.quality = "unavailable"
  BY <1>1
<1>2. CASE a.quality = "estimated" /\ b.quality = "reported"
  <2>1. c.quality = "reported"
    BY <1>2 DEF Comparable
  <2>2. QED  BY <1>2, <2>1
<1>3. CASE Comparable(a, b) /\ b.value >= a.value
  <2>1. CASE b.quality = "estimated" /\ c.quality = "reported"
    BY <1>3, <2>1 DEF Comparable
  <2>2. CASE Comparable(b, c) /\ c.value >= b.value
    <3>1. a.value \in Nat /\ b.value \in Nat /\ c.value \in Nat
      BY <1>3, <2>2 DEF Comparable, Counters
    <3>2. QED  BY <1>3, <2>2, <3>1 DEF Comparable
  <2>3. QED  BY <1>3, <2>1, <2>2 DEF Comparable
<1>4. QED  BY <1>1, <1>2, <1>3

\* So do metrics: what revises the newest report revises all before it.
LEMMA RevisesOn ==
  ASSUME NEW a \in [MetricNames -> Counters], NEW b \in [MetricNames -> Counters],
         NEW c \in [MetricNames -> Counters], Revises(a, b), Revises(b, c)
  PROVE  Revises(a, c)
<1> SUFFICES ASSUME NEW f \in MetricNames
             PROVE  \/ a[f].quality = "unavailable"
                    \/ a[f].quality = "estimated" /\ c[f].quality = "reported"
                    \/ Comparable(a[f], c[f]) /\ c[f].value >= a[f].value
  BY DEF Revises
<1>1. a[f] \in Counters /\ b[f] \in Counters /\ c[f] \in Counters
  OBVIOUS
<1>2. \/ a[f].quality = "unavailable"
      \/ a[f].quality = "estimated" /\ b[f].quality = "reported"
      \/ Comparable(a[f], b[f]) /\ b[f].value >= a[f].value
  BY DEF Revises
<1>3. \/ b[f].quality = "unavailable"
      \/ b[f].quality = "estimated" /\ c[f].quality = "reported"
      \/ Comparable(b[f], c[f]) /\ c[f].value >= b[f].value
  BY DEF Revises
<1>4. QED  BY ONLY <1>1, <1>2, <1>3, CounterRevises

(***************************************************************************)
(* The invariant, run by run: of a run r with the receipts K at the time t.*)
(***************************************************************************)

\* Receipts are numbered apart, none is newer than the run, and the newest is there.
InOrder(r, K) ==
  /\ \A k \in K : k.sequence <= r.sequence
  /\ \A j, k \in K : j.sequence = k.sequence => j = k
  /\ K # {} => \E k \in K : k.sequence = r.sequence

\* All came in the window that the run was promised, and before now.
InTime(r, K, t) ==
  /\ r.status # "absent" => r.created <= t
  /\ \A k \in K : k.at \in r.created .. r.accepts /\ k.at <= t

\* Each revises all that were before it.
Revising(K) ==
  \A j, k \in K : j.sequence < k.sequence =>
    /\ j.at <= k.at
    /\ Revises(j.report.metrics, k.report.metrics)
    /\ j.report.complete => k.report.complete
    /\ j.report.final => k.report.final /\ k.bucket = j.bucket

\* The run is what the newest says, until it is retired.
AsReported(r, K) ==
  r.status = "live" =>
    \A k \in K : k.sequence = r.sequence =>
      /\ r.bucket = k.bucket
      /\ r.metrics = k.report.metrics
      /\ r.complete = k.report.complete
      /\ r.final = k.report.final

RunInv(r, K, t) ==
  /\ r.status = "absent" => K = {}
  /\ r.metrics # Nothing => K # {}
  /\ InOrder(r, K) /\ InTime(r, K, t) /\ Revising(K) /\ AsReported(r, K)
  /\ r.final => r.bucket \in Nat
  /\ r.first # Nothing => r.bucket \in Nat

Known == {x \in Runs : run[x].status # "absent"}

LedgerInv ==
  /\ LedgerTypeOK
  /\ IsFiniteSet(Known)
  /\ \A x \in Runs : RunInv(run[x], Of(x), clock)

\* The invariant says what the property does, and how a run gets there.
LEMMA LedgerFollows == LedgerInv => LedgerIsSound
<1> SUFFICES ASSUME LedgerInv PROVE LedgerIsSound
  OBVIOUS
<1>1. ASSUME NEW x \in Runs
      PROVE  /\ \A j, k \in Of(x) : j.sequence < k.sequence =>
                  /\ j.at <= k.at
                  /\ Revises(j.report.metrics, k.report.metrics)
                  /\ j.report.complete => k.report.complete
                  /\ j.report.final => k.report.final /\ k.bucket = j.bucket
             /\ \A k \in Of(x) : k.at \in run[x].created .. run[x].accepts
  BY DEF LedgerInv, RunInv, Revising, InTime
<1>2. ASSUME NEW x \in Runs, run[x].status = "live", NEW k \in Of(x),
             \A j \in Of(x) : j.sequence <= k.sequence
      PROVE  /\ run[x].sequence = k.sequence /\ run[x].bucket = k.bucket
             /\ run[x].metrics = k.report.metrics
  <2>1. RunInv(run[x], Of(x), clock)
    BY DEF LedgerInv
  <2>2. PICK n \in Of(x) : n.sequence = run[x].sequence
    BY <2>1 DEF RunInv, InOrder
  <2>3. k.sequence <= run[x].sequence /\ n.sequence <= k.sequence
    BY <1>2, <2>1 DEF RunInv, InOrder
  <2>4. k.sequence \in Nat /\ run[x].sequence \in Nat
    BY DEF LedgerInv, LedgerTypeOK, RunRows, Receipts, Of
  <2>5. k.sequence = run[x].sequence
    BY <2>2, <2>3, <2>4
  <2>6. QED  BY <1>2, <2>1, <2>5 DEF RunInv, AsReported
<1>3. QED  BY <1>1, <1>2 DEF LedgerIsSound, LedgerIsConsistent, LedgerInv

(***************************************************************************)
(* The steps.                                                              *)
(***************************************************************************)

\* Later, nothing that was in time is out of it.
LEMMA LaterInTime ==
  ASSUME NEW r \in RunRows, NEW K \in SUBSET Receipts, NEW t \in Nat, NEW u \in Nat, t <= u,
         RunInv(r, K, t)
  PROVE  RunInv(r, K, u)
<1>1. InTime(r, K, u)
  <2>1. r.status # "absent" => r.created <= u
    BY DEF RunInv, InTime, RunRows
  <2>2. ASSUME NEW k \in K PROVE k.at \in r.created .. r.accepts /\ k.at <= u
    BY DEF RunInv, InTime, Receipts
  <2>3. QED  BY <2>1, <2>2 DEF InTime
<1>2. QED  BY <1>1 DEF RunInv

\* What the reports of one run are, are receipts.
LEMMA OfIs ==
  ASSUME LedgerTypeOK, NEW x \in Runs
  PROVE  Of(x) \in SUBSET Receipts
BY DEF LedgerTypeOK, Of

\* One more run, and still finitely many.
LEMMA KnownGrows ==
  ASSUME IsFiniteSet(Known), NEW x, Known' \subseteq Known \cup {x}
  PROVE  IsFiniteSet(Known)'
<1>1. IsFiniteSet(Known \cup {x})
  BY FS_AddElement
<1>2. IsFiniteSet(Known')
  BY <1>1, FS_Subset
<1>3. QED  BY <1>2

\* The clock ticks.
LEMMA TickStep ==
  ASSUME LedgerInv, UsageTick
  PROVE  LedgerInv'
<1>1. clock \in Nat /\ clock' \in Nat /\ clock <= clock' /\ UNCHANGED <<usagePolicy, run, receipts>>
  BY UsageAssumption DEF UsageTick, LedgerInv, LedgerTypeOK
<1>2. LedgerTypeOK'
  BY <1>1 DEF LedgerInv, LedgerTypeOK
<1>3. ASSUME NEW x \in Runs PROVE RunInv(run'[x], Of(x)', clock')
  <2>1. RunInv(run[x], Of(x), clock) /\ run[x] \in RunRows /\ Of(x) \in SUBSET Receipts
    BY OfIs DEF LedgerInv, LedgerTypeOK
  <2>2. RunInv(run[x], Of(x), clock')
    BY <1>1, <2>1, LaterInTime
  <2>3. Of(x)' = Of(x) /\ run'[x] = run[x]
    BY <1>1 DEF Of
  <2>4. QED  BY <2>2, <2>3
<1>4. QED  BY <1>1, <1>2, <1>3 DEF LedgerInv, Known

\* An administrator sets a policy.
LEMMA SetPolicyStep ==
  ASSUME LedgerInv, NEW body \in UsagePolicies, SetUsagePolicy(body)
  PROVE  LedgerInv'
<1>1. LedgerTypeOK'
  BY UsageAssumption DEF LedgerInv, LedgerTypeOK, SetUsagePolicy
<1>2. \A x \in Runs : RunInv(run'[x], Of(x)', clock')
  BY DEF LedgerInv, SetUsagePolicy, Of
<1>3. Known' = Known
  BY DEF SetUsagePolicy, Known
<1>4. QED  BY <1>1, <1>2, <1>3 DEF LedgerInv

\* The classification of a run is one that somebody gave.
LEMMA ClassIs ==
  ASSUME LedgerTypeOK, NEW class \in RunClasses, NEW parent \in Runs \cup {Nothing}
  PROVE  Max({class} \cup {run[p].class : p \in {parent} \ {Nothing}}) \in RunClasses \cup {0}
<1> DEFINE S == {class} \cup {run[p].class : p \in {parent} \ {Nothing}}
<1>1. class \in Nat
  BY UsageAssumption
<1>2. CASE parent = Nothing
  <2>1. S = {class}
    BY <1>2
  <2>2. Max({class}) = class
    BY <1>1 DEF Max
  <2>3. QED  BY <2>1, <2>2
<1>3. CASE parent # Nothing
  <2>1. parent \in Runs /\ run[parent].class \in RunClasses \cup {0}
    BY <1>3 DEF LedgerTypeOK, RunRows
  <2>2. run[parent].class \in Nat
    <3>1. RunClasses \subseteq Nat
      BY UsageAssumption
    <3>2. run[parent].class \in RunClasses \/ run[parent].class = 0
      BY <2>1
    <3>3. CASE run[parent].class \in RunClasses
      BY <3>1, <3>3
    <3>4. CASE run[parent].class = 0
      BY <3>4
    <3>5. QED  BY <3>2, <3>3, <3>4
  <2>3. S = {class, run[parent].class}
    BY <1>3
  <2>4. Max({class, run[parent].class}) \in {class, run[parent].class}
    BY <1>1, <2>2 DEF Max
  <2>5. QED  BY <2>1, <2>3, <2>4
<1>4. QED  BY <1>2, <1>3

\* The row of a run that is registered.
LEMMA RegisteredRow ==
  ASSUME NEW level \in RunClasses \cup {0}, NEW parent \in Runs \cup {Nothing},
         NEW t \in Nat, NEW late \in Nat
  PROVE  [AbsentRun EXCEPT !.status = "live", !.parent = parent, !.class = level,
                        !.created = t, !.accepts = t + late] \in RunRows
<1> DEFINE r1 == [AbsentRun EXCEPT !.status = "live", !.parent = parent]
           r2 == [r1 EXCEPT !.class = level, !.created = t]
           r3 == [r2 EXCEPT !.accepts = t + late]
<1>1. AbsentRun \in RunRows
  BY DEF AbsentRun, RunRows, Times
<1>2. r1 \in RunRows
  BY <1>1 DEF RunRows
<1>3. r2 \in RunRows
  BY <1>2 DEF RunRows
<1>4. r3 \in RunRows
  <2>1. \A r \in RunRows, n \in Nat : [r EXCEPT !.accepts = n] \in RunRows
    BY DEF RunRows
  <2>2. t + late \in Nat
    OBVIOUS
  <2> HIDE DEF r2
  <2>3. QED  BY <1>3, <2>1, <2>2
<1>5. [AbsentRun EXCEPT !.status = "live", !.parent = parent, !.class = level,
                     !.created = t, !.accepts = t + late] = r3
  BY DEF AbsentRun
<1>6. QED  BY <1>4, <1>5

\* A run is registered: it has no receipts yet.
LEMMA RegisterStep ==
  ASSUME LedgerInv, NEW x \in Runs, NEW class \in RunClasses, NEW parent \in Runs \cup {Nothing},
         RegisterRun(x, class, parent)
  PROVE  LedgerInv'
<1> DEFINE level == Max({class} \cup {run[p].class : p \in {parent} \ {Nothing}})
           row == [AbsentRun EXCEPT !.status = "live", !.parent = parent, !.class = level,
                                 !.created = clock, !.accepts = clock + usagePolicy.body.late]
<1>1. run' = [run EXCEPT ![x] = row] /\ UNCHANGED <<clock, usagePolicy, receipts>> /\ run[x].status = "absent"
  BY DEF RegisterRun
<1>2. clock \in Nat /\ usagePolicy.body.late \in Nat
  BY DEF LedgerInv, LedgerTypeOK, UsagePolicyBodies
<1>3. level \in RunClasses \cup {0}
  BY ClassIs DEF LedgerInv
<1>4. row \in RunRows
  BY <1>2, <1>3, RegisteredRow
<1>5. run' \in [Runs -> RunRows] /\ run'[x] = row /\ \A y \in Runs \ {x} : run'[y] = run[y]
  BY <1>1, <1>4 DEF LedgerInv, LedgerTypeOK
<1>6. LedgerTypeOK'
  <2>1. row.metrics = Nothing
    BY DEF AbsentRun
  <2>2. \A y \in Runs : run'[y].metrics # Nothing => Consistent(run'[y].metrics)
    BY <1>5, <2>1 DEF LedgerInv, LedgerTypeOK
  <2>3. QED  BY <1>1, <1>5, <2>2 DEF LedgerInv, LedgerTypeOK
<1>7. \A y \in Runs : Of(y)' = Of(y)
  BY <1>1 DEF Of
<1>8. RunInv(row, {}, clock)
  BY <1>2 DEF RunInv, InOrder, InTime, Revising, AsReported, AbsentRun
<1>9. Of(x) = {}
  BY <1>1 DEF LedgerInv, RunInv
<1>10. ASSUME NEW y \in Runs PROVE RunInv(run'[y], Of(y)', clock')
  <2>1. CASE y = x
    BY <1>1, <1>5, <1>7, <1>8, <1>9, <2>1
  <2>2. CASE y # x
    BY <1>1, <1>5, <1>7, <2>2 DEF LedgerInv
  <2>3. QED  BY <2>1, <2>2
<1>11. IsFiniteSet(Known)'
  <2>1. Known' \subseteq Known \cup {x}
    BY <1>5 DEF Known
  <2>2. QED  BY <2>1, KnownGrows DEF LedgerInv
<1>12. QED  BY <1>6, <1>10, <1>11 DEF LedgerInv

\* Old runs are retired, and keep their receipts.
LEMMA PruneStep ==
  ASSUME LedgerInv, PruneRuns
  PROVE  LedgerInv'
<1>1. PICK batch \in SUBSET {x \in Runs : run[x].status = "live"} :
        run' = [x \in Runs |->
          IF x \in batch THEN [run[x] EXCEPT !.status = "retired", !.metrics = Nothing] ELSE run[x]]
  BY DEF PruneRuns
<1>2. UNCHANGED <<clock, usagePolicy, receipts>>
  BY DEF PruneRuns
<1>3. \A x \in Runs : Of(x)' = Of(x)
  BY <1>2 DEF Of
<1>4. ASSUME NEW x \in Runs
      PROVE  /\ run'[x] \in RunRows
             /\ run'[x].metrics # Nothing => Consistent(run'[x].metrics)
             /\ RunInv(run'[x], Of(x), clock)
  <2>1. run[x] \in RunRows /\ RunInv(run[x], Of(x), clock)
        /\ (run[x].metrics # Nothing => Consistent(run[x].metrics))
    BY DEF LedgerInv, LedgerTypeOK
  <2>2. CASE x \notin batch
    BY <1>1, <2>1, <2>2
  <2>3. CASE x \in batch
    <3> DEFINE r == [run[x] EXCEPT !.status = "retired", !.metrics = Nothing]
    <3>1. run'[x] = r
      BY <1>1, <2>3
    <3>2. r \in RunRows /\ r.metrics = Nothing
      BY <2>1 DEF RunRows
    <3>4. /\ r.status = "retired" /\ r.sequence = run[x].sequence /\ r.created = run[x].created
          /\ r.accepts = run[x].accepts /\ r.final = run[x].final /\ r.bucket = run[x].bucket
          /\ r.first = run[x].first
      BY <2>1 DEF RunRows
    <3>5. run[x].status # "absent"
      BY <2>3
    <3>6. RunInv(r, Of(x), clock)
      BY <2>1, <3>4, <3>5 DEF RunInv, InOrder, InTime, Revising, AsReported
    <3>7. QED  BY <3>1, <3>2, <3>6
  <2>4. QED  BY <2>2, <2>3
<1>5. LedgerTypeOK'
  BY <1>1, <1>2, <1>4 DEF LedgerInv, LedgerTypeOK
<1>6. Known' = Known
  BY <1>1, <1>4 DEF Known, LedgerInv, LedgerTypeOK, RunRows
<1>7. QED  BY <1>2, <1>3, <1>4, <1>5, <1>6 DEF LedgerInv

(***************************************************************************)
(* A report.                                                               *)
(***************************************************************************)

\* A report is attributed to some time.
LEMMA BucketIs ==
  ASSUME NEW r \in RunRows, NEW report \in UsageReports, clock \in Nat,
         r.final => r.bucket \in Nat,
         r.first # Nothing => r.bucket \in Nat
  PROVE  /\ Bucket(r, report) \in Nat
         /\ r.final => Bucket(r, report) = r.bucket
<1>1. report.source \in Times /\ r.first \in Times
  BY DEF UsageReports, RunRows
<1>2. SourceTime(report.source) \in Nat
  BY <1>1 DEF SourceTime, Times
<1>3. QED  BY <1>1, <1>2 DEF Bucket, First, Times

\* The row of a run after a report.
ReportedAs(r, sequence, report, first, bucket) ==
  [r EXCEPT !.sequence = sequence, !.metrics = report.metrics,
            !.complete = report.complete, !.final = report.final,
            !.source = report.source, !.first = first, !.bucket = bucket]

\* It is a row, and says what was reported.
LEMMA ReportedRow ==
  ASSUME NEW r \in RunRows, NEW sequence \in Nat, NEW report \in UsageReports, NEW bucket \in Nat,
         NEW first \in Nat \cup {Nothing}
  PROVE  LET u == ReportedAs(r, sequence, report, first, bucket) IN
         /\ u \in RunRows
         /\ u.parent = r.parent /\ u.class = r.class
         /\ u.status = r.status /\ u.created = r.created /\ u.accepts = r.accepts
         /\ u.sequence = sequence /\ u.bucket = bucket /\ u.first = first
         /\ u.metrics = report.metrics /\ u.complete = report.complete
         /\ u.final = report.final
<1> DEFINE r1 == [r EXCEPT !.sequence = sequence, !.metrics = report.metrics]
           r2 == [r1 EXCEPT !.complete = report.complete, !.final = report.final]
           r3 == [r2 EXCEPT !.source = report.source]
           r4 == [r3 EXCEPT !.first = first, !.bucket = bucket]
<1>1. /\ report.metrics \in [MetricNames -> Counters] /\ report.complete \in BOOLEAN
      /\ report.final \in BOOLEAN /\ report.source \in Times
  BY DEF UsageReports
<1>2. /\ r1 \in RunRows /\ r1.parent = r.parent /\ r1.class = r.class
      /\ r1.status = r.status /\ r1.created = r.created /\ r1.accepts = r.accepts
      /\ r1.sequence = sequence /\ r1.metrics = report.metrics
  BY <1>1 DEF RunRows
<1>3. /\ r2 \in RunRows /\ r2.parent = r.parent /\ r2.class = r.class
      /\ r2.status = r.status /\ r2.created = r.created /\ r2.accepts = r.accepts
      /\ r2.sequence = sequence /\ r2.metrics = report.metrics
      /\ r2.complete = report.complete /\ r2.final = report.final
  <2> HIDE DEF r1
  <2>1. QED  BY <1>1, <1>2 DEF RunRows
<1>4. /\ r3 \in RunRows /\ r3.parent = r.parent /\ r3.class = r.class
      /\ r3.status = r.status /\ r3.created = r.created /\ r3.accepts = r.accepts
      /\ r3.sequence = sequence /\ r3.metrics = report.metrics
      /\ r3.complete = report.complete /\ r3.final = report.final
  <2> HIDE DEF r2
  <2>1. QED  BY <1>1, <1>3 DEF RunRows
<1>5. first \in Times /\ bucket \in Times
  BY DEF Times
<1>6. /\ r4 \in RunRows /\ r4.parent = r.parent /\ r4.class = r.class
      /\ r4.status = r.status /\ r4.created = r.created /\ r4.accepts = r.accepts
      /\ r4.sequence = sequence /\ r4.metrics = report.metrics
      /\ r4.complete = report.complete /\ r4.final = report.final
      /\ r4.first = first /\ r4.bucket = bucket
  <2> HIDE DEF r3
  <2>1. QED  BY <1>4, <1>5 DEF RunRows
<1>7. ReportedAs(r, sequence, report, first, bucket) = r4
  BY DEF ReportedAs
<1>8. QED  BY <1>6, <1>7

\* A new report that revises the newest one revises them all.
LEMMA ReportRevises ==
  ASSUME NEW r \in RunRows, NEW K \in SUBSET Receipts, NEW t \in Nat, RunInv(r, K, t),
         r.status = "live",
         NEW n \in Receipts, n.sequence > r.sequence, n.at = t,
         r.metrics # Nothing => Revises(r.metrics, n.report.metrics),
         r.final => n.report.final /\ n.bucket = r.bucket,
         r.complete => n.report.complete
  PROVE  Revising(K \cup {n})
<1> SUFFICES ASSUME NEW j \in K \cup {n}, NEW k \in K \cup {n}, j.sequence < k.sequence
             PROVE  /\ j.at <= k.at
                    /\ Revises(j.report.metrics, k.report.metrics)
                    /\ j.report.complete => k.report.complete
                    /\ j.report.final => k.report.final /\ k.bucket = j.bucket
  BY DEF Revising
<1>1. \A l \in K : l.sequence <= r.sequence /\ l.sequence \in Nat
  BY DEF RunInv, InOrder, Receipts
<1>2. r.sequence \in Nat /\ n.sequence \in Nat
  BY DEF RunRows, Receipts
<1>3. j \in K
  BY <1>1, <1>2
<1>4. CASE k \in K
  BY <1>3, <1>4 DEF RunInv, Revising
<1>5. CASE k = n
  <2>1. PICK l \in K : l.sequence = r.sequence
    BY <1>3 DEF RunInv, InOrder
  <2>2. /\ r.metrics = l.report.metrics /\ r.bucket = l.bucket
        /\ r.complete = l.report.complete /\ r.final = l.report.final
    BY <2>1 DEF RunInv, AsReported
  <2>3. /\ j.report.metrics \in [MetricNames -> Counters]
        /\ l.report.metrics \in [MetricNames -> Counters]
        /\ n.report.metrics \in [MetricNames -> Counters]
    BY <1>3 DEF Receipts, UsageReports
  <2>4. r.metrics # Nothing
    BY <2>2, <2>3, UsageAssumption
  <2>5. Revises(l.report.metrics, n.report.metrics)
    BY <2>2, <2>4
  <2>6. j.at <= t
    BY <1>3 DEF RunInv, InTime
  <2>7. CASE j = l
    BY <1>5, <2>2, <2>5, <2>6, <2>7
  <2>8. CASE j # l
    <3>1. j.sequence < l.sequence
      BY <1>1, <1>2, <1>3, <2>1, <2>8 DEF RunInv, InOrder
    <3>2. /\ Revises(j.report.metrics, l.report.metrics)
          /\ j.report.complete => l.report.complete
          /\ j.report.final => l.report.final /\ l.bucket = j.bucket
      BY <1>3, <3>1 DEF RunInv, Revising
    <3>3. Revises(j.report.metrics, n.report.metrics)
      BY <2>3, <2>5, <3>2, RevisesOn
    <3>4. QED  BY <1>5, <2>2, <2>6, <3>2, <3>3
  <2>9. QED  BY <2>7, <2>8
<1>6. QED  BY <1>4, <1>5

\* A report is received.
LEMMA ReportStep ==
  ASSUME LedgerInv, NEW x \in Runs, NEW sequence \in 1..MaxRunSequence, NEW report \in Sent,
         Report(x, sequence, report)
  PROVE  LedgerInv'
<1> DEFINE r == run[x]
           b == Bucket(r, report)
           n == [run |-> x, sequence |-> sequence, report |-> report, at |-> clock,
                 bucket |-> b]
           first == First(r)
           u == ReportedAs(r, sequence, report, first, b)
<1>1. /\ r \in RunRows /\ clock \in Nat /\ report \in UsageReports /\ sequence \in Nat
      /\ run \in [Runs -> RunRows] /\ receipts \subseteq Receipts
      /\ RunInv(r, Of(x), clock)
  <2>1. MaxRunSequence \in Nat /\ Sent \subseteq UsageReports
    BY UsageAssumption
  <2>2. QED  BY <2>1 DEF LedgerInv, LedgerTypeOK
<1>2. /\ run' = [run EXCEPT ![x] = u] /\ receipts' = receipts \cup {n}
      /\ UNCHANGED <<clock, usagePolicy>>
  BY DEF Report, ReportedAs
<1>3. /\ Consistent(report.metrics) /\ r.status = "live" /\ sequence > r.sequence
      /\ WithinWindow(r)
      /\ r.metrics # Nothing => Revises(r.metrics, report.metrics)
      /\ r.final => report.final
      /\ r.complete => report.complete
  BY DEF Report, NewerReport
<1>4. /\ Bucket(r, report) \in Nat
      /\ r.final => Bucket(r, report) = r.bucket
  BY <1>1, BucketIs DEF RunInv
<1>5. first \in Nat \cup {Nothing} /\ first # Nothing
  <2>1. r.first \in Nat \cup {Nothing} /\ clock # Nothing
    BY <1>1, UsageAssumption DEF RunRows, Times
  <2>2. QED  BY <1>1, <2>1 DEF First
<1>6. n \in Receipts
  BY <1>1, <1>4 DEF Receipts
<1>7. /\ u \in RunRows
      /\ u.status = r.status /\ u.created = r.created /\ u.accepts = r.accepts
      /\ u.sequence = sequence /\ u.bucket = b /\ u.first = first
      /\ u.metrics = report.metrics /\ u.complete = report.complete /\ u.final = report.final
  <2>1. r \in RunRows /\ sequence \in Nat /\ report \in UsageReports /\ b \in Nat /\ first \in Nat \cup {Nothing}
    BY <1>1, <1>4, <1>5
  <2> HIDE DEF r, first, b
  <2>2. QED  BY ONLY <2>1, ReportedRow
<1>8. /\ run' \in [Runs -> RunRows] /\ run'[x] = u /\ \A y \in Runs \ {x} : run'[y] = run[y]
  BY <1>1, <1>2, <1>7
<1>9. LedgerTypeOK'
  <2>1. \A y \in Runs : run'[y].metrics # Nothing => Consistent(run'[y].metrics)
    <3> HIDE DEF u
    <3>1. \A y \in Runs : run[y].metrics # Nothing => Consistent(run[y].metrics)
      BY DEF LedgerInv, LedgerTypeOK
    <3>2. QED  BY <1>3, <1>7, <1>8, <3>1
  <2>2. QED  BY <1>1, <1>2, <1>6, <1>8, <2>1 DEF LedgerInv, LedgerTypeOK
<1>10. Of(x)' = Of(x) \cup {n} /\ \A y \in Runs \ {x} : Of(y)' = Of(y)
  BY <1>2 DEF Of
<1>11. Of(x) \in SUBSET Receipts
  BY OfIs DEF LedgerInv
<1>12. RunInv(u, Of(x) \cup {n}, clock)
  <2> DEFINE K == Of(x)
  <2>1. r.sequence \in Nat /\ r.created \in Nat /\ r.accepts \in Nat /\ usagePolicy.body.late \in Nat
    BY <1>1 DEF RunRows, LedgerInv, LedgerTypeOK, UsagePolicyBodies
  <2>2. \A k \in K : k.sequence \in Nat /\ k.sequence <= r.sequence
    BY <1>1, <1>11 DEF RunInv, InOrder, Receipts
  <2>3. n.sequence = sequence /\ n.at = clock /\ n.bucket = b /\ n.report = report
    OBVIOUS
  <2> HIDE DEF u, n, r, K, first
  <2>4. InOrder(u, K \cup {n})
    <3>1. \A k \in K \cup {n} : k.sequence <= u.sequence
      BY <1>1, <1>3, <1>7, <2>1, <2>2, <2>3
    <3>2. ASSUME NEW j \in K \cup {n}, NEW k \in K \cup {n}, j.sequence = k.sequence PROVE j = k
      <4>1. \A l \in K : l.sequence # n.sequence
        BY <1>1, <1>3, <2>1, <2>2, <2>3
      <4>2. QED  BY <1>1, <3>2, <4>1 DEF RunInv, InOrder, K
    <3>3. n.sequence = u.sequence
      BY <1>7, <2>3
    <3>4. QED  BY <3>1, <3>2, <3>3 DEF InOrder
  <2>5. InTime(u, K \cup {n}, clock)
    <3>1. r.created <= clock
      BY <1>1, <1>3 DEF RunInv, InTime
    <3>2. clock <= r.accepts
      <4>1. Min({r.accepts, r.created + usagePolicy.body.late}) <= r.accepts
        <5>1. \A p, q \in Nat : Min({p, q}) <= p
          BY DEF Min
        <5>2. r.created + usagePolicy.body.late \in Nat
          BY <2>1
        <5>3. QED  BY <2>1, <5>1, <5>2
      <4>2. Min({r.accepts, r.created + usagePolicy.body.late}) \in Nat
        <5>1. \A p, q \in Nat : Min({p, q}) \in Nat
          BY DEF Min
        <5>2. r.created + usagePolicy.body.late \in Nat
          BY <2>1
        <5>3. QED  BY <2>1, <5>1, <5>2
      <4>3. QED  BY <1>1, <1>3, <2>1, <4>1, <4>2 DEF WithinWindow
    <3>3. \A k \in K : k.at \in r.created .. r.accepts /\ k.at <= clock
      BY <1>1 DEF RunInv, InTime, K
    <3>4. n.at \in r.created .. r.accepts /\ n.at <= clock
      BY <1>1, <2>1, <2>3, <3>1, <3>2
    <3>5. QED  BY <1>7, <3>1, <3>3, <3>4 DEF InTime
  <2>6. Revising(K \cup {n})
    <3>1. /\ n.sequence > r.sequence
          /\ r.metrics # Nothing => Revises(r.metrics, n.report.metrics)
          /\ r.final => n.report.final /\ n.bucket = r.bucket
          /\ r.complete => n.report.complete
      BY <1>3, <1>4, <2>3
    <3>2. K \in SUBSET Receipts /\ RunInv(r, K, clock)
      BY <1>1, <1>11 DEF K
    <3>3. QED  BY <1>1, <1>3, <1>6, <2>3, <3>1, <3>2, ReportRevises
  <2>7. AsReported(u, K \cup {n})
    <3>1. \A k \in K \cup {n} : k.sequence = u.sequence => k = n
      BY <1>1, <1>3, <1>7, <2>1, <2>2
    <3>2. QED  BY <1>7, <2>3, <3>1 DEF AsReported
  <2>8. u.bucket \in Nat /\ u.status # "absent"
    BY <1>3, <1>4, <1>7
  <2>9. QED  BY <2>4, <2>5, <2>6, <2>7, <2>8 DEF RunInv, K
<1>13. ASSUME NEW y \in Runs PROVE RunInv(run'[y], Of(y)', clock')
  <2>1. CASE y = x
    BY <1>2, <1>8, <1>10, <1>12, <2>1
  <2>2. CASE y # x
    BY <1>2, <1>8, <1>10, <2>2 DEF LedgerInv
  <2>3. QED  BY <2>1, <2>2
<1>14. Known' = Known
  BY <1>3, <1>7, <1>8 DEF Known
<1>15. QED  BY <1>9, <1>13, <1>14 DEF LedgerInv

\* At first nothing is known of any run.
LEMMA LedgerStarts == UsageInit => LedgerInv
<1> SUFFICES ASSUME UsageInit PROVE LedgerInv
  OBVIOUS
<1>1. AbsentRun \in RunRows
  BY DEF AbsentRun, RunRows, Times
<1>2. AbsentRun.metrics = Nothing
  BY DEF AbsentRun
<1>3. LedgerTypeOK
  <2>1. run \in [Runs -> RunRows] /\ \A x \in Runs : run[x].metrics = Nothing
    BY <1>1, <1>2 DEF UsageInit
  <2>2. usagePolicy \in [version : Nat, body : UsagePolicyBodies]
    BY UsageAssumption DEF UsageInit
  <2>3. QED  BY <2>1, <2>2 DEF UsageInit, LedgerTypeOK
<1>4. \A x \in Runs : Of(x) = {} /\ run[x] = AbsentRun
  BY DEF UsageInit, Of
<1>5. RunInv(AbsentRun, {}, clock)
  BY DEF RunInv, InOrder, InTime, Revising, AsReported, AbsentRun
<1>6. Known = {}
  BY <1>4 DEF Known, AbsentRun
<1>7. QED  BY <1>3, <1>4, <1>5, <1>6, FS_EmptySet DEF LedgerInv

(***************************************************************************)
(* The theorems.                                                           *)
(***************************************************************************)

\* The invariant of the proof always holds.
THEOREM LedgerIsSafe == UsageSpec => []LedgerInv
<1>1. UsageInit => LedgerInv
  BY LedgerStarts
<1>2. LedgerInv /\ [UsageNext]_usageVars => LedgerInv'
  <2> SUFFICES ASSUME LedgerInv, [UsageNext]_usageVars PROVE LedgerInv'
    OBVIOUS
  <2>1. CASE UsageTick
    BY <2>1, TickStep
  <2>2. CASE \E body \in UsagePolicies : SetUsagePolicy(body)
    BY <2>2, SetPolicyStep
  <2>3. CASE \E x \in Runs, class \in RunClasses, parent \in Runs \cup {Nothing} :
               RegisterRun(x, class, parent)
    BY <2>3, RegisterStep
  <2>4. CASE \E x \in Runs, n \in 1..MaxRunSequence, report \in Sent : Report(x, n, report)
    BY <2>4, ReportStep
  <2>5. CASE PruneRuns
    BY <2>5, PruneStep
  <2>6. CASE UNCHANGED usageVars
    BY <2>6 DEF usageVars, LedgerInv, LedgerTypeOK, Of, Known
  <2>7. QED  BY <2>1, <2>2, <2>3, <2>4, <2>5, <2>6 DEF UsageNext
<1>3. QED  BY <1>1, <1>2, PTL DEF UsageSpec

\* However reports are delayed, repeated and reordered, the receipts of a run
\* tell one consistent story, and the run is what the newest of them says.
THEOREM LedgerStaysSound == UsageSpec => []LedgerIsSound
<1>1. QED  BY LedgerFollows, LedgerIsSafe, PTL

(***************************************************************************)
(* The guard of the table.                                                 *)
(***************************************************************************)

\* What a report does to its run.
LEMMA ReportIsAllowed ==
  ASSUME LedgerInv, NEW x \in Runs, NEW sequence \in 1..MaxRunSequence, NEW report \in Sent,
         Report(x, sequence, report)
  PROVE  ~RunGuard(run[x], run'[x])
<1> DEFINE r == run[x]
           b == Bucket(r, report)
           first == First(r)
           u == ReportedAs(r, sequence, report, first, b)
<1>1. /\ r \in RunRows /\ clock \in Nat /\ report \in UsageReports /\ sequence \in Nat
      /\ RunInv(r, Of(x), clock)
  <2>1. MaxRunSequence \in Nat /\ Sent \subseteq UsageReports
    BY UsageAssumption
  <2>2. QED  BY <2>1 DEF LedgerInv, LedgerTypeOK
<1>2. run'[x] = u
  BY DEF Report, ReportedAs, LedgerInv, LedgerTypeOK
<1>3. r.status = "live" /\ sequence > r.sequence /\ (r.final => report.final)
  BY DEF Report, NewerReport
<1>4. b \in Nat /\ (r.final => b = r.bucket)
  BY <1>1, BucketIs DEF RunInv
<1>5. first \in Nat \cup {Nothing} /\ (r.first # Nothing => first = r.first)
  BY <1>1 DEF First, RunRows, Times
<1>6. /\ u.parent = r.parent /\ u.class = r.class
      /\ u.status = r.status /\ u.created = r.created /\ u.accepts = r.accepts
      /\ u.sequence = sequence /\ u.bucket = b /\ u.first = first /\ u.final = report.final
  <2>1. r \in RunRows /\ sequence \in Nat /\ report \in UsageReports /\ b \in Nat
        /\ first \in Nat \cup {Nothing}
    BY <1>1, <1>4, <1>5
  <2> HIDE DEF r, b, first
  <2>2. /\ u \in RunRows
        /\ u.parent = r.parent /\ u.class = r.class
        /\ u.status = r.status /\ u.created = r.created /\ u.accepts = r.accepts
        /\ u.sequence = sequence /\ u.bucket = b /\ u.first = first
        /\ u.metrics = report.metrics /\ u.complete = report.complete
        /\ u.final = report.final
    BY ONLY <2>1, ReportedRow
  <2> HIDE DEF u
  <2>3. QED  BY <2>2
<1>7. r.sequence \in Nat
  BY <1>1 DEF RunRows
<1> HIDE DEF u, b, first
<1>8. QED  BY <1>1, <1>2, <1>3, <1>4, <1>5, <1>6, <1>7 DEF RunGuard

\* The retirement of a run is allowed, once.
LEMMA PruneIsAllowed ==
  ASSUME LedgerInv, PruneRuns, NEW x \in Runs, run'[x] # run[x]
  PROVE  ~RunGuard(run[x], run'[x])
<1>1. /\ run[x].status = "live"
      /\ run'[x] = [run[x] EXCEPT !.status = "retired", !.metrics = Nothing]
  BY DEF PruneRuns
<1>2. run[x] \in RunRows
  BY DEF LedgerInv, LedgerTypeOK
<1>3. /\ run'[x].parent = run[x].parent /\ run'[x].class = run[x].class
      /\ run'[x].created = run[x].created /\ run'[x].accepts = run[x].accepts
      /\ run'[x].sequence = run[x].sequence /\ run'[x].first = run[x].first
      /\ run'[x].final = run[x].final /\ run'[x].bucket = run[x].bucket
  BY <1>1, <1>2 DEF RunRows
<1>4. run[x].sequence \in Nat
  BY <1>2 DEF RunRows
<1>5. QED  BY <1>1, <1>3, <1>4 DEF RunGuard

\* No handler makes an update that the guard of the table refuses.
THEOREM RunsAdvance == UsageSpec => RunsNeverRegress
<1>1. ASSUME LedgerInv, [UsageNext]_usageVars, NEW x \in Runs,
             run[x].status # "absent", run'[x] # run[x]
      PROVE  ~RunGuard(run[x], run'[x])
  <2>1. ASSUME NEW y \in Runs, NEW n \in 1..MaxRunSequence, NEW report \in Sent,
               Report(y, n, report)
        PROVE  ~RunGuard(run[x], run'[x])
    <3>1. y = x
      BY <1>1, <2>1 DEF Report, LedgerInv, LedgerTypeOK
    <3>2. QED  BY <1>1, <2>1, <3>1, ReportIsAllowed
  <2>2. CASE PruneRuns
    BY <1>1, <2>2, PruneIsAllowed
  <2>3. ASSUME NEW y \in Runs, NEW class \in RunClasses, NEW parent \in Runs \cup {Nothing},
               RegisterRun(y, class, parent)
        PROVE  FALSE
    <3>1. run[y].status = "absent" /\ \A z \in Runs \ {y} : run'[z] = run[z]
      BY <2>3 DEF RegisterRun, LedgerInv, LedgerTypeOK
    <3>2. QED  BY <1>1, <3>1
  <2>4. CASE UsageTick \/ (\E body \in UsagePolicies : SetUsagePolicy(body)) \/ UNCHANGED usageVars
    BY <1>1, <2>4 DEF UsageTick, SetUsagePolicy, usageVars
  <2>5. QED  BY <1>1, <2>1, <2>2, <2>3, <2>4 DEF UsageNext
<1>2. LedgerInv /\ [UsageNext]_usageVars =>
        \A x \in Runs : run[x].status # "absent" /\ run'[x] # run[x] => ~RunGuard(run[x], run'[x])
  BY <1>1
<1>3. QED  BY <1>2, LedgerIsSafe, PTL DEF UsageSpec, RunsNeverRegress

(***************************************************************************)
(* Sums.                                                                   *)
(***************************************************************************)

\* Finitely many values amount to finitely many units.
LEMMA UnitsFinite ==
  ASSUME NEW S, IsFiniteSet(S), NEW v \in [S -> Nat]
  PROVE  IsFiniteSet(Units(v))
<1> DEFINE F == {{x} \X (1..v[x]) : x \in S}
           g == [x \in S |-> {x} \X (1..v[x])]
<1>1. g \in Surjection(S, F)
  BY Fun_IsSurj
<1>2. IsFiniteSet(F)
  <2> HIDE DEF F, g
  <2>1. QED  BY <1>1, FS_Surjection
<1>3. ASSUME NEW T \in F PROVE IsFiniteSet(T)
  <2>1. PICK x \in S : T = {x} \X (1..v[x])
    OBVIOUS
  <2>2. IsFiniteSet({x})
    BY FS_EmptySet, FS_AddElement
  <2>3. IsFiniteSet(1..v[x])
    <3>1. v[x] \in Int
      OBVIOUS
    <3>2. QED  BY <3>1, FS_Interval
  <2>4. QED  BY <2>1, <2>2, <2>3, FS_Product
<1>4. IsFiniteSet(UNION F)
  <2> HIDE DEF F
  <2>1. QED  BY <1>2, <1>3, FS_UNION
<1>5. DOMAIN v = S
  OBVIOUS
<1>6. QED  BY <1>4, <1>5 DEF Units

\* What is cut in two amounts to both parts.
LEMMA TotalJoins ==
  ASSUME NEW S, NEW T, IsFiniteSet(S), IsFiniteSet(T), S \cap T = {},
         NEW u \in [S -> Nat], NEW v \in [T -> Nat], NEW w \in [S \cup T -> Nat],
         \A x \in S : w[x] = u[x], \A x \in T : w[x] = v[x]
  PROVE  /\ Total(w) = Total(u) + Total(v)
         /\ Total(u) \in Nat /\ Total(v) \in Nat
<1>1. DOMAIN u = S /\ DOMAIN v = T /\ DOMAIN w = S \cup T
  OBVIOUS
<1>2. Units(w) = Units(u) \cup Units(v)
  BY <1>1 DEF Units
<1>3. Units(u) \cap Units(v) = {}
  BY <1>1 DEF Units
<1>4. IsFiniteSet(Units(u)) /\ IsFiniteSet(Units(v))
  BY UnitsFinite
<1>5. Cardinality(Units(u) \cup Units(v)) =
        Cardinality(Units(u)) + Cardinality(Units(v)) - Cardinality(Units(u) \cap Units(v))
  BY <1>4, FS_Union
<1>6. Cardinality(Units(u)) \in Nat /\ Cardinality(Units(v)) \in Nat
  BY <1>4, FS_CardinalityType
<1>7. Cardinality(Units(u) \cap Units(v)) = 0
  BY <1>3, FS_EmptySet
<1>8. QED  BY <1>2, <1>5, <1>6, <1>7 DEF Total

\* What is counted under other names amounts to the same.
LEMMA TotalRenames ==
  ASSUME NEW S, NEW T, IsFiniteSet(S), NEW g \in Bijection(S, T),
         NEW u \in [S -> Nat], NEW v \in [T -> Nat], \A x \in S : u[x] = v[g[x]]
  PROVE  Total(u) = Total(v)
<1>1. DOMAIN u = S /\ DOMAIN v = T
  OBVIOUS
<1>2. /\ g \in [S -> T]
      /\ \A a, b \in S : g[a] = g[b] => a = b
      /\ \A t \in T : \E a \in S : g[a] = t
  BY Fun_BijectionProperties
<1>3. \A p : p \in Units(u) <=> \E x \in S : \E n \in 1..u[x] : p = <<x, n>>
  BY <1>1 DEF Units
<1>4. \A p : p \in Units(v) <=> \E y \in T : \E n \in 1..v[y] : p = <<y, n>>
  BY <1>1 DEF Units
<1> DEFINE h == [p \in Units(u) |-> <<g[p[1]], p[2]>>]
<1>5. ASSUME NEW p \in Units(u)
      PROVE  p[1] \in S /\ p = <<p[1], p[2]>> /\ h[p] = <<g[p[1]], p[2]>> /\ h[p] \in Units(v)
  <2>1. PICK x \in S : \E n \in 1..u[x] : p = <<x, n>>
    BY <1>3
  <2>2. PICK n \in 1..u[x] : p = <<x, n>>
    BY <2>1
  <2>3. g[x] \in T /\ n \in 1..v[g[x]]
    BY <1>2
  <2>4. <<g[x], n>> \in Units(v)
    BY <1>4, <2>3
  <2>5. QED  BY <2>2, <2>4
<1>6. h \in [Units(u) -> Units(v)]
  BY <1>5
<1>7. ASSUME NEW p \in Units(u), NEW q \in Units(u), h[p] = h[q] PROVE p = q
  <2>1. g[p[1]] = g[q[1]] /\ p[2] = q[2]
    BY <1>5, <1>7
  <2>2. p[1] = q[1]
    BY <1>2, <1>5, <2>1
  <2>3. QED  BY <1>5, <2>1, <2>2
<1>8. ASSUME NEW t \in Units(v) PROVE \E p \in Units(u) : h[p] = t
  <2>1. PICK y \in T : \E n \in 1..v[y] : t = <<y, n>>
    BY <1>4
  <2>2. PICK n \in 1..v[y] : t = <<y, n>>
    BY <2>1
  <2>3. PICK x \in S : g[x] = y
    BY <1>2
  <2>4. <<x, n>> \in Units(u)
    BY <1>3, <2>2, <2>3
  <2>5. h[<<x, n>>] = t
    BY <2>2, <2>3, <2>4
  <2>6. QED  BY <2>4, <2>5
<1>9. h \in Bijection(Units(u), Units(v))
  <2> HIDE DEF h
  <2>1. h \in Injection(Units(u), Units(v))
    BY <1>6, <1>7, Fun_IsInj
  <2>2. h \in Surjection(Units(u), Units(v))
    BY <1>6, <1>8, Fun_IsSurj
  <2>3. QED  BY <2>1, <2>2, Fun_IsBij
<1>10. ExistsBijection(Units(u), Units(v))
  <2> HIDE DEF h
  <2>1. QED  BY <1>9, Fun_ExistsBij
<1>11. IsFiniteSet(Units(u))
  BY UnitsFinite
<1>12. QED  BY <1>10, <1>11, FS_Bijection DEF Total

(***************************************************************************)
(* Usage is counted once.                                                  *)
(***************************************************************************)

Qualities == {"reported", "estimated"}

\* The runs of C whose counter f is known with quality q, and what they count.
KnownIn(C, f, q) == {x \in C : Metrics(run[x])[f].quality = q}

Values(C, f, q) == [x \in KnownIn(C, f, q) |-> Metrics(run[x])[f].value]

SumIn(C, f, q) == IF KnownIn(C, f, q) = {} THEN Nothing ELSE Total(Values(C, f, q))

\* One entry of a summary.
LEMMA AggregateIs ==
  ASSUME NEW C, NEW i \in MetricNames \X Qualities
  PROVE  AggregateUsage(C)[i] =
           [value |-> SumIn(C, i[1], i[2]), known |-> Cardinality(KnownIn(C, i[1], i[2])),
            missing |-> Cardinality(C \ KnownIn(C, i[1], i[2]))]
BY DEF AggregateUsage, KnownIn, Values, SumIn, Qualities

\* A counter that is known has a value.
LEMMA CounterIs ==
  ASSUME LedgerInv, NEW x \in Runs, NEW f \in MetricNames, NEW q \in Qualities,
         Metrics(run[x])[f].quality = q
  PROVE  /\ run[x].metrics # Nothing /\ Metrics(run[x]) = run[x].metrics
         /\ Metrics(run[x])[f].value \in Nat
<1>1. run[x].metrics # Nothing
  BY DEF Metrics, Unavailable, Qualities
<1>2. run[x].metrics \in [MetricNames -> Counters]
  BY <1>1 DEF LedgerInv, LedgerTypeOK, RunRows
<1>3. Metrics(run[x]) = run[x].metrics
  BY <1>1 DEF Metrics
<1>4. Metrics(run[x])[f] \in Counters
  BY <1>2, <1>3
<1>5. QED  BY <1>1, <1>3, <1>4 DEF Counters, Qualities

\* Adding up entries.
LEMMA PlusIs ==
  ASSUME NEW a1, NEW a2, NEW a3, NEW b1, NEW b2, NEW b3
  PROVE  Plus([value |-> a1, known |-> a2, missing |-> a3],
              [value |-> b1, known |-> b2, missing |-> b3]) =
           [value |-> IF a1 = Nothing THEN b1 ELSE IF b1 = Nothing THEN a1 ELSE a1 + b1,
            known |-> a2 + b2, missing |-> a3 + b3]
BY DEF Plus

\* The summary of two sets of runs is that of both together.
LEMMA AggregateJoins ==
  ASSUME LedgerInv, NEW A \in SUBSET Runs, NEW B \in SUBSET Runs,
         IsFiniteSet(A), IsFiniteSet(B), A \cap B = {},
         NEW i \in MetricNames \X Qualities
  PROVE  AggregateUsage(A \cup B)[i] = Plus(AggregateUsage(A)[i], AggregateUsage(B)[i])
<1> DEFINE f == i[1]  q == i[2]
           KA == KnownIn(A, f, q)  KB == KnownIn(B, f, q)  K == KnownIn(A \cup B, f, q)
<1>1. f \in MetricNames /\ q \in Qualities
  OBVIOUS
<1>2. /\ K = KA \cup KB /\ KA \cap KB = {}
      /\ (A \cup B) \ K = (A \ KA) \cup (B \ KB) /\ (A \ KA) \cap (B \ KB) = {}
  BY DEF KnownIn
<1>3. /\ IsFiniteSet(KA) /\ IsFiniteSet(KB) /\ IsFiniteSet(A \ KA) /\ IsFiniteSet(B \ KB)
  <2>1. KA \in SUBSET A /\ KB \in SUBSET B /\ (A \ KA) \in SUBSET A /\ (B \ KB) \in SUBSET B
    BY DEF KnownIn
  <2>2. QED  BY <2>1, FS_Subset
<1>4. ASSUME NEW S, NEW T, IsFiniteSet(S), IsFiniteSet(T), S \cap T = {}
      PROVE  Cardinality(S \cup T) = Cardinality(S) + Cardinality(T)
  <2>1. Cardinality(S) \in Nat /\ Cardinality(T) \in Nat /\ Cardinality(S \cap T) = 0
    BY <1>4, FS_CardinalityType, FS_EmptySet
  <2>2. Cardinality(S \cup T) = Cardinality(S) + Cardinality(T) - Cardinality(S \cap T)
    BY <1>4, FS_Union
  <2>3. QED  BY <2>1, <2>2
<1>5. Cardinality(K) = Cardinality(KA) + Cardinality(KB)
  BY <1>2, <1>3, <1>4
<1>6. Cardinality((A \cup B) \ K) = Cardinality(A \ KA) + Cardinality(B \ KB)
  BY <1>2, <1>3, <1>4
<1>7. /\ Values(A, f, q) \in [KA -> Nat] /\ Values(B, f, q) \in [KB -> Nat]
      /\ Values(A \cup B, f, q) \in [KA \cup KB -> Nat]
  <2>1. \A x \in KA \cup KB : Metrics(run[x])[f].value \in Nat
    BY <1>1, CounterIs DEF KnownIn
  <2>2. QED  BY <1>2, <2>1 DEF Values
<1>8. /\ \A x \in KA : Values(A \cup B, f, q)[x] = Values(A, f, q)[x]
      /\ \A x \in KB : Values(A \cup B, f, q)[x] = Values(B, f, q)[x]
  BY <1>2 DEF Values
<1>9. /\ Total(Values(A \cup B, f, q)) = Total(Values(A, f, q)) + Total(Values(B, f, q))
      /\ Total(Values(A, f, q)) \in Nat /\ Total(Values(B, f, q)) \in Nat
  <2> DEFINE u == Values(A, f, q)  v == Values(B, f, q)  w == Values(A \cup B, f, q)
  <2>1. /\ u \in [KA -> Nat] /\ v \in [KB -> Nat] /\ w \in [KA \cup KB -> Nat]
        /\ \A x \in KA : w[x] = u[x]
        /\ \A x \in KB : w[x] = v[x]
        /\ IsFiniteSet(KA) /\ IsFiniteSet(KB) /\ KA \cap KB = {}
    BY <1>2, <1>3, <1>7, <1>8
  <2> HIDE DEF KA, KB, u, v, w
  <2>2. Total(w) = Total(u) + Total(v) /\ Total(u) \in Nat /\ Total(v) \in Nat
    BY ONLY <2>1, TotalJoins
  <2>3. QED  BY <2>2 DEF u, v, w
<1>10. SumIn(A \cup B, f, q) =
         IF SumIn(A, f, q) = Nothing THEN SumIn(B, f, q)
         ELSE IF SumIn(B, f, q) = Nothing THEN SumIn(A, f, q)
         ELSE SumIn(A, f, q) + SumIn(B, f, q)
  <2>1. Nothing \notin Nat
    BY UsageAssumption
  <2>2. CASE KA = {}
    <3>1. K = KB /\ Values(A \cup B, f, q) = Values(B, f, q)
      BY <1>2, <2>2 DEF Values
    <3>2. QED  BY <2>2, <3>1 DEF SumIn
  <2>3. CASE KA # {} /\ KB = {}
    <3>1. K = KA /\ Values(A \cup B, f, q) = Values(A, f, q)
      BY <1>2, <2>3 DEF Values
    <3>2. QED  BY <1>9, <2>1, <2>3, <3>1 DEF SumIn
  <2>4. CASE KA # {} /\ KB # {}
    <3>1. K # {}
      BY <1>2, <2>4
    <3>2. QED  BY <1>9, <2>1, <2>4, <3>1 DEF SumIn
  <2>5. QED  BY <2>2, <2>3, <2>4
<1>11. AggregateUsage(A \cup B)[i] =
         [value |-> SumIn(A \cup B, f, q), known |-> Cardinality(K),
          missing |-> Cardinality((A \cup B) \ K)]
  BY AggregateIs
<1>12. /\ AggregateUsage(A)[i] =
            [value |-> SumIn(A, f, q), known |-> Cardinality(KA), missing |-> Cardinality(A \ KA)]
       /\ AggregateUsage(B)[i] =
            [value |-> SumIn(B, f, q), known |-> Cardinality(KB), missing |-> Cardinality(B \ KB)]
  BY AggregateIs
<1> HIDE DEF K, KA, KB, f, q
<1>13. QED  BY <1>5, <1>6, <1>10, <1>11, <1>12, PlusIs

\* What is visible is finite, and in use.
LEMMA VisibleIs ==
  ASSUME LedgerInv, NEW reader, NEW from, NEW to
  PROVE  /\ VisibleRuns(reader, from, to) \in SUBSET Runs
         /\ IsFiniteSet(VisibleRuns(reader, from, to))
         /\ \A x \in VisibleRuns(reader, from, to) : run[x].status = "live"
<1>1. VisibleRuns(reader, from, to) \in SUBSET Known
  BY DEF VisibleRuns, Known
<1>2. IsFiniteSet(VisibleRuns(reader, from, to))
  BY <1>1, FS_Subset DEF LedgerInv
<1>3. QED  BY <1>2 DEF VisibleRuns

\* The newest receipt of a run that reported says what the run does.
LEMMA NewestIs ==
  ASSUME LedgerInv, NEW x \in Runs, run[x].status = "live", NEW k \in receipts, k.run = x,
         \A j \in Of(x) : j.sequence <= k.sequence
  PROVE  run[x].metrics = k.report.metrics /\ run[x].sequence = k.sequence
<1>1. k \in Of(x)
  BY DEF Of
<1>2. QED  BY <1>1, LedgerFollows DEF LedgerIsSound, LedgerIsConsistent

\* A run that shows a counter has one newest receipt.
LEMMA NewestExists ==
  ASSUME LedgerInv, NEW x \in Runs, run[x].metrics # Nothing
  PROVE  \E k \in Of(x) : k.sequence = run[x].sequence /\ \A j \in Of(x) : j.sequence <= k.sequence
BY DEF LedgerInv, RunInv, InOrder

\* The newest receipts of the runs of C that carry a counter of some quality.
NewestKnown(C, f, q) ==
  {k \in receipts : /\ k.run \in C
                    /\ \A j \in Of(k.run) : j.sequence <= k.sequence
                    /\ k.report.metrics[f].quality = q}

\* They are as many as the runs, and amount to the same.
LEMMA NewestCounted ==
  ASSUME LedgerInv, NEW C \in SUBSET Runs, IsFiniteSet(C),
         \A x \in C : run[x].status = "live",
         NEW f \in MetricNames, NEW q \in Qualities
  PROVE  /\ Cardinality(KnownIn(C, f, q)) = Cardinality(NewestKnown(C, f, q))
         /\ Total(Values(C, f, q)) =
              Total([k \in NewestKnown(C, f, q) |-> k.report.metrics[f].value])
         /\ NewestKnown(C, f, q) # {} => KnownIn(C, f, q) # {}
<1> DEFINE K == KnownIn(C, f, q)
           N == NewestKnown(C, f, q)
           g == [k \in N |-> k.run]
           u == [k \in N |-> k.report.metrics[f].value]
           v == Values(C, f, q)
<1>1. ASSUME NEW k \in N
      PROVE  /\ k \in receipts /\ k.run \in C /\ k.run \in Runs /\ k \in Of(k.run)
             /\ run[k.run].metrics = k.report.metrics /\ run[k.run].sequence = k.sequence
             /\ Metrics(run[k.run]) = k.report.metrics
             /\ k.report.metrics[f].quality = q
  <2>1. /\ k \in receipts /\ k.run \in C /\ k.run \in Runs /\ k \in Of(k.run)
        /\ k.report.metrics[f].quality = q
        /\ \A j \in Of(k.run) : j.sequence <= k.sequence
    BY DEF NewestKnown, Of
  <2>2. run[k.run].metrics = k.report.metrics /\ run[k.run].sequence = k.sequence
    BY <2>1, NewestIs
  <2>3. k.report.metrics \in [MetricNames -> Counters]
    BY <2>1 DEF LedgerInv, LedgerTypeOK, Receipts, UsageReports
  <2>4. k.report.metrics # Nothing
    BY <2>3, UsageAssumption
  <2>5. QED  BY <2>1, <2>2, <2>4 DEF Metrics
<1>2. g \in [N -> K]
  BY <1>1 DEF KnownIn
<1>3. ASSUME NEW j \in N, NEW k \in N, g[j] = g[k] PROVE j = k
  <2>1. j.run = k.run /\ j \in Of(k.run) /\ k \in Of(k.run) /\ j.sequence = k.sequence
    BY <1>1, <1>3
  <2>2. QED  BY <1>1, <2>1 DEF LedgerInv, RunInv, InOrder
<1>4. ASSUME NEW x \in K PROVE \E k \in N : g[k] = x
  <2>1. x \in C /\ x \in Runs /\ Metrics(run[x])[f].quality = q
    BY DEF KnownIn
  <2>2. run[x].metrics # Nothing /\ Metrics(run[x]) = run[x].metrics
    BY <2>1, CounterIs
  <2>3. PICK k \in Of(x) : \A j \in Of(x) : j.sequence <= k.sequence
    BY <2>1, <2>2, NewestExists
  <2>4. k \in receipts /\ k.run = x
    BY <2>3 DEF Of
  <2>5. run[x].metrics = k.report.metrics
    BY <2>1, <2>3, <2>4, NewestIs
  <2>6. k \in N
    BY <2>1, <2>2, <2>3, <2>4, <2>5 DEF NewestKnown
  <2>7. QED  BY <2>4, <2>6
<1>5. g \in Bijection(N, K)
  <2> HIDE DEF g, N, K
  <2>1. g \in Injection(N, K)
    BY <1>2, <1>3, Fun_IsInj
  <2>2. g \in Surjection(N, K)
    BY <1>2, <1>4, Fun_IsSurj
  <2>3. QED  BY <2>1, <2>2, Fun_IsBij
<1>6. IsFiniteSet(K)
  <2>1. K \in SUBSET C
    BY DEF KnownIn
  <2>2. QED  BY <2>1, FS_Subset
<1>7. ExistsBijection(K, N)
  <2> HIDE DEF g, N, K
  <2>1. Inverse(g, N, K) \in Bijection(K, N)
    BY <1>5, Fun_BijInverse
  <2>2. QED  BY <2>1, Fun_ExistsBij
<1>8. IsFiniteSet(N) /\ Cardinality(N) = Cardinality(K)
  <2> HIDE DEF N, K
  <2>1. QED  BY <1>6, <1>7, FS_Bijection
<1>9. v \in [K -> Nat] /\ u \in [N -> Nat]
  <2>1. \A x \in K : Metrics(run[x])[f].value \in Nat
    BY CounterIs DEF KnownIn
  <2>2. \A k \in N : k.run \in K /\ k.report.metrics[f].value = Metrics(run[k.run])[f].value
    BY <1>1 DEF KnownIn
  <2>3. QED  BY <2>1, <2>2 DEF Values
<1>10. \A k \in N : u[k] = v[g[k]]
  BY <1>1, <1>2 DEF Values
<1>11. Total(u) = Total(v)
  <2> HIDE DEF u, v, g, N, K
  <2>1. QED  BY ONLY <1>5, <1>8, <1>9, <1>10, TotalRenames
<1>12. QED  BY <1>2, <1>8, <1>11

\* One cut of all time.
LEMMA CutAddsUp ==
  ASSUME LedgerInv, NEW reader, NEW end \in Nat, NEW cut \in 0..end,
         NEW i \in MetricNames \X Qualities
  PROVE  Summary(reader, 0, end)[i] = Plus(Summary(reader, 0, cut)[i], Summary(reader, cut, end)[i])
<1> DEFINE A == VisibleRuns(reader, 0, cut)
           B == VisibleRuns(reader, cut, end)
<1>1. ASSUME NEW x \in Runs, run[x].status = "live" PROVE CountsAt(run[x]) \in Nat
  BY DEF CountsAt, LedgerInv, LedgerTypeOK, RunRows, Times
<1>2. VisibleRuns(reader, 0, end) = A \cup B
  BY <1>1 DEF VisibleRuns, InWindow
<1>3. A \cap B = {}
  BY <1>1 DEF VisibleRuns, InWindow
<1>4. A \in SUBSET Runs /\ B \in SUBSET Runs /\ IsFiniteSet(A) /\ IsFiniteSet(B)
  BY VisibleIs
<1>5. AggregateUsage(A \cup B)[i] = Plus(AggregateUsage(A)[i], AggregateUsage(B)[i])
  <2> HIDE DEF A, B
  <2>1. QED  BY <1>3, <1>4, AggregateJoins
<1>6. QED  BY <1>2, <1>5 DEF Summary

\* Every period counts the newest receipts of the runs that fall into it.
LEMMA SummaryIsReceived ==
  ASSUME LedgerInv, NEW reader, NEW end \in Nat, NEW i \in MetricNames \X Qualities
  PROVE  LET counted == NewestKnown(VisibleRuns(reader, 0, end), i[1], i[2])
             all == Summary(reader, 0, end)
         IN  /\ all[i].known = Cardinality(counted)
             /\ counted # {} =>
                  all[i].value = Total([k \in counted |-> k.report.metrics[i[1]].value])
<1> DEFINE C == VisibleRuns(reader, 0, end)
<1>1. C \in SUBSET Runs /\ IsFiniteSet(C) /\ \A x \in C : run[x].status = "live"
  BY VisibleIs
<1>2. i[1] \in MetricNames /\ i[2] \in Qualities
  OBVIOUS
<1>3. Summary(reader, 0, end)[i] =
        [value |-> SumIn(C, i[1], i[2]), known |-> Cardinality(KnownIn(C, i[1], i[2])),
         missing |-> Cardinality(C \ KnownIn(C, i[1], i[2]))]
  BY AggregateIs DEF Summary
<1> HIDE DEF C
<1>4. /\ Cardinality(KnownIn(C, i[1], i[2])) = Cardinality(NewestKnown(C, i[1], i[2]))
      /\ Total(Values(C, i[1], i[2])) =
           Total([k \in NewestKnown(C, i[1], i[2]) |-> k.report.metrics[i[1]].value])
      /\ NewestKnown(C, i[1], i[2]) # {} => KnownIn(C, i[1], i[2]) # {}
  BY <1>1, <1>2, NewestCounted
<1>5. QED  BY <1>3, <1>4 DEF SumIn, C

\* Usage is counted once: periods that cut all of time add up to the whole, and
\* the whole is what the newest receipts of the retained runs say.
THEOREM UsageCountsOnce == UsageSpec => []CountedOnce
<1>1. LedgerInv => CountedOnce
  <2> SUFFICES ASSUME LedgerInv PROVE CountedOnce
    OBVIOUS
  <2> DEFINE end == MaxClock + Skew + 1
  <2>1. end \in Nat
    BY UsageAssumption
  <2>2. ASSUME NEW reader \in UsageReaders PROVE DOMAIN Summary(reader, 0, end) = MetricNames \X Qualities
    BY DEF Summary, AggregateUsage, Qualities
  <2>3. ASSUME NEW reader \in UsageReaders, NEW cut \in 0..end, NEW i \in MetricNames \X Qualities
        PROVE  Summary(reader, 0, end)[i] =
                 Plus(Summary(reader, 0, cut)[i], Summary(reader, cut, end)[i])
    BY <2>1, CutAddsUp
  <2>4. ASSUME NEW reader \in UsageReaders, NEW i \in MetricNames \X Qualities
        PROVE  LET newest == {k \in receipts : k.run \in VisibleRuns(reader, 0, end)
                                              /\ \A j \in Of(k.run) : j.sequence <= k.sequence}
                   counted == {k \in newest : k.report.metrics[i[1]].quality = i[2]}
                   all == Summary(reader, 0, end)
               IN  /\ all[i].known = Cardinality(counted)
                   /\ counted # {} =>
                        all[i].value = Total([k \in counted |-> k.report.metrics[i[1]].value])
    <3> DEFINE newest == {k \in receipts : k.run \in VisibleRuns(reader, 0, end)
                                           /\ \A j \in Of(k.run) : j.sequence <= k.sequence}
               counted == {k \in newest : k.report.metrics[i[1]].quality = i[2]}
    <3>1. counted = NewestKnown(VisibleRuns(reader, 0, end), i[1], i[2])
      BY DEF NewestKnown
    <3> HIDE DEF end, counted
    <3>2. /\ Summary(reader, 0, end)[i].known = Cardinality(counted)
          /\ counted # {} =>
               Summary(reader, 0, end)[i].value =
                 Total([k \in counted |-> k.report.metrics[i[1]].value])
      BY <2>1, <3>1, SummaryIsReceived
    <3>3. QED  BY <3>2 DEF counted
  <2> HIDE DEF end
  <2>5. QED  BY <2>2, <2>3, <2>4 DEF CountedOnce, end
<1>2. QED  BY <1>1, LedgerIsSafe, PTL
=============================================================================
