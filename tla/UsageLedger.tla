---------------------------- MODULE UsageLedger ----------------------------
(***************************************************************************)
(* Token usage of one project: a reporter registers one run and reports    *)
(* absolute counters, revision by revision; each accepted revision leaves  *)
(* a receipt and replaces the last.  Summaries add up the latest revision  *)
(* of each run, in the period that its bucket falls into.                  *)
(*                                                                         *)
(* Any report may arrive at any time, late, repeated or out of order.  The *)
(* server's clock is counted in ticks; a source's clock is not trusted.    *)
(* The work lease a run may be bound to matters when it registers, for the *)
(* classification: one that is not held refuses the registration.  Why a   *)
(* counter is unavailable is left out.                                     *)
(***************************************************************************)
EXTENDS Integers, FiniteSets, FiniteSetsExt

CONSTANTS Reporters,
          Runs, RunOwner,  \* execution attempts, and whose they are
          RunClasses,      \* classifications, from 0 (public) upwards
          Sent,            \* what reporters report, of UsageReports
          UsagePolicies,   \* policies that administrators set
          DefaultUsagePolicy,
          MaxIdentities, MaxLiveRuns, MaxRegistered,            \* limits
          MaxReceipts, MaxRevisions, MaxReported, UsageMinute,  \* limits
          Skew,            \* how far a source may be ahead
          PruneRunsLimit,
          Nothing,
          MaxClock,        \* bound on the clock
          MaxRunSequence,  \* bound on the sequence of a run
          MaxUsagePolicy   \* bound on the version of the policy

MetricNames == {"input", "output", "total", "cache_read", "cache_write", "reasoning"}

Methods == {"prompt_length_div4", "provider_estimate"}

\* Counter: a value of some quality; unavailable is not zero.
Counters == [value : Nat, quality : {"reported"}, method : {Nothing}]
       \cup [value : Nat, quality : {"estimated"}, method : Methods]
       \cup [value : {Nothing}, quality : {"unavailable"}, method : {Nothing}]

Unavailable == [value |-> Nothing, quality |-> "unavailable", method |-> Nothing]

Comparable(c, d) == c.quality # "unavailable" /\ c.quality = d.quality /\ c.method = d.method

\* Metrics: cache counters are disjoint parts of the input, reasoning is part of
\* the output, input and output make the total; as far as they can be compared.
Consistent(m) ==
  /\ Comparable(m["input"], m["output"]) /\ Comparable(m["total"], m["input"]) =>
       m["total"].value = m["input"].value + m["output"].value
  /\ \A p \in {<<"total", "input">>, <<"total", "output">>, <<"input", "cache_read">>,
               <<"input", "cache_write">>, <<"output", "reasoning">>} :
       Comparable(m[p[1]], m[p[2]]) => m[p[2]].value <= m[p[1]].value
  /\ Comparable(m["input"], m["cache_read"]) /\ Comparable(m["input"], m["cache_write"]) =>
       m["cache_read"].value + m["cache_write"].value <= m["input"].value

Times == Nat \cup {Nothing}

UsageReports ==
  [metrics : [MetricNames -> Counters], complete : BOOLEAN, final : BOOLEAN, source : Times]

UsagePolicyBodies == [enabled : BOOLEAN, late : Nat \ {0}, retention : Nat \ {0}]

ASSUME UsageAssumption ==
  /\ RunOwner \in [Runs -> Reporters]
  /\ RunClasses \subseteq Nat
  /\ Sent \subseteq UsageReports
  /\ UsagePolicies \subseteq UsagePolicyBodies
  /\ DefaultUsagePolicy \in UsagePolicyBodies /\ ~DefaultUsagePolicy.enabled
  /\ {MaxIdentities, MaxLiveRuns, MaxRegistered, MaxReceipts, MaxRevisions, MaxReported, UsageMinute,
      Skew, PruneRunsLimit, MaxClock, MaxRunSequence, MaxUsagePolicy} \subseteq Nat
  /\ Nothing \notin Nat \cup Runs \cup [MetricNames -> Counters]

VARIABLES clock,
          usagePolicy,     \* memory_usage_policies
          run,             \* memory_usage_sessions
          receipts         \* memory_usage_receipts; digests are what was reported

usageVars == <<clock, usagePolicy, run, receipts>>

RunRows == [status : {"absent", "live", "retired"}, class : RunClasses \cup {0},
         parent : Runs \cup {Nothing}, created : Nat, accepts : Nat, sequence : Nat,
         metrics : [MetricNames -> Counters] \cup {Nothing}, complete : BOOLEAN, final : BOOLEAN,
         source : Times, first : Times, bucket : Times]

Receipts == [run : Runs, sequence : Nat, report : UsageReports, at : Nat, bucket : Nat]

LedgerTypeOK ==
  /\ clock \in Nat
  /\ usagePolicy \in [version : Nat, body : UsagePolicyBodies]
  /\ run \in [Runs -> RunRows]
  /\ receipts \subseteq Receipts
  /\ \A x \in Runs : run[x].metrics # Nothing => Consistent(run[x].metrics)

AbsentRun == [status |-> "absent", class |-> 0, parent |-> Nothing, created |-> 0, accepts |-> 0,
           sequence |-> 0, metrics |-> Nothing, complete |-> FALSE, final |-> FALSE,
           source |-> Nothing, first |-> Nothing, bucket |-> Nothing]

UsageInit ==
  /\ clock = 0
  /\ usagePolicy = [version |-> 0, body |-> DefaultUsagePolicy]
  /\ run = [x \in Runs |-> AbsentRun]
  /\ receipts = {}

Of(x) == {k \in receipts : k.run = x}

(***************************************************************************)
(* Mutations.  Each runs under the lock of the project.                    *)
(***************************************************************************)

UsageTick == clock < MaxClock /\ clock' = clock + 1 /\ UNCHANGED <<usagePolicy, run, receipts>>

\* policy_set replaces the version that its administrator read.
SetUsagePolicy(body) ==
  /\ usagePolicy.version < MaxUsagePolicy
  /\ usagePolicy' = [version |-> usagePolicy.version + 1, body |-> body]
  /\ UNCHANGED <<clock, run, receipts>>

\* register: once per attempt, with one epoch; a repetition is answered as
\* before, and a retired attempt never comes back.
RegisterRun(x, class, parent) ==
  LET known == {y \in Runs : run[y].status # "absent"} IN
  /\ run[x].status = "absent"
  /\ usagePolicy.body.enabled
  /\ Cardinality(known) < MaxIdentities
  /\ Cardinality({y \in known : run[y].status = "live"}) < MaxLiveRuns
  /\ Cardinality({y \in known : RunOwner[y] = RunOwner[x] /\ run[y].created + UsageMinute > clock})
       < MaxRegistered
  /\ parent # Nothing => RunOwner[parent] = RunOwner[x] /\ run[parent].status = "live"
  /\ run' = [run EXCEPT ![x] =
       [AbsentRun EXCEPT !.status = "live", !.parent = parent,
                      !.class = Max({class} \cup {run[p].class : p \in {parent} \ {Nothing}}),
                      !.created = clock, !.accepts = clock + usagePolicy.body.late]]
  /\ UNCHANGED <<clock, usagePolicy, receipts>>

\* validate_revision: in one epoch counters neither shrink nor disappear nor
\* change their method; what was reported may fall below what was estimated.
Revises(old, new) ==
  \A f \in MetricNames :
    \/ old[f].quality = "unavailable"
    \/ old[f].quality = "estimated" /\ new[f].quality = "reported"
    \/ Comparable(old[f], new[f]) /\ new[f].value >= old[f].value

\* A known sequence is answered by its receipt, or conflicts; an older one that
\* was never received comes too late.
NewerReport(x, sequence) == sequence > run[x].sequence

WithinWindow(r) == clock <= Min({r.accepts, r.created + usagePolicy.body.late})

WithinReportLimits(x) ==
  /\ Cardinality(receipts) < MaxReceipts
  /\ Cardinality(Of(x)) < MaxRevisions
  /\ Cardinality({k \in receipts : RunOwner[k.run] = RunOwner[x] /\ k.at + UsageMinute > clock})
       < MaxReported

\* source_time: the end of a run as its source tells it, if that is plausible.
SourceTime(source) ==
  IF source # Nothing /\ source \in clock - usagePolicy.body.late .. clock + Skew
  THEN source ELSE clock

FirstAnew(r) == clock                                          \* mutant

First(r) == IF r.first = Nothing THEN clock ELSE r.first

BucketAnew(r, report) ==                                       \* mutant
  IF report.final THEN SourceTime(report.source) ELSE First(r)

\* The time a report is attributed to: provisional until the run is final, and
\* pinned from then on.
Bucket(r, report) ==
  IF r.final THEN r.bucket
  ELSE IF report.final THEN SourceTime(report.source) ELSE First(r)

Report(x, sequence, report) ==
  LET r == run[x] IN
  /\ Consistent(report.metrics)
  /\ report.complete => report.metrics["total"].quality # "unavailable"
  /\ r.status = "live"
  /\ NewerReport(x, sequence)
  /\ usagePolicy.body.enabled
  /\ WithinWindow(r)
  /\ r.metrics # Nothing => Revises(r.metrics, report.metrics)
  /\ r.final => report.final /\ report.source = r.source
  /\ r.complete => report.complete
  /\ WithinReportLimits(x)
  /\ run' = [run EXCEPT ![x] =
       [r EXCEPT !.sequence = sequence, !.metrics = report.metrics, !.complete = report.complete,
                 !.final = report.final, !.source = report.source,
                 !.first = First(r), !.bucket = Bucket(r, report)]]
  /\ receipts' = receipts \cup
       {[run |-> x, sequence |-> sequence, report |-> report, at |-> clock,
         bucket |-> Bucket(r, report)]}
  /\ UNCHANGED <<clock, usagePolicy>>

\* The time that a run counts at, for retention and for periods.
CountsAt(r) == IF r.bucket = Nothing THEN r.created ELSE r.bucket

RunExpired(r) == CountsAt(r) < clock - usagePolicy.body.retention

\* prune: retires the oldest expired runs, and forgets what they counted; their
\* receipts stay.
PruneRuns ==
  LET candidates == {x \in Runs : run[x].status = "live" /\ RunExpired(run[x])} IN
  \E batch \in SUBSET candidates :
    /\ Cardinality(batch) = Min({PruneRunsLimit, Cardinality(candidates)})
    /\ \A x \in batch, y \in candidates \ batch : run[x].created <= run[y].created
    /\ run' = [x \in Runs |->
         IF x \in batch THEN [run[x] EXCEPT !.status = "retired", !.metrics = Nothing] ELSE run[x]]
    /\ UNCHANGED <<clock, usagePolicy, receipts>>

UsageNext ==
  \/ UsageTick
  \/ \E body \in UsagePolicies : SetUsagePolicy(body)
  \/ \E x \in Runs, class \in RunClasses, parent \in Runs \cup {Nothing} :
       RegisterRun(x, class, parent)
  \/ \E x \in Runs, n \in 1..MaxRunSequence, report \in Sent : Report(x, n, report)
  \/ PruneRuns

UsageSpec == UsageInit /\ [][UsageNext]_usageVars

(***************************************************************************)
(* Reads.                                                                  *)
(***************************************************************************)

InWindowClosed(r, from, to) == from <= CountsAt(r) /\ CountsAt(r) <= to    \* mutant

\* Periods are half open.
InWindow(r, from, to) == from <= CountsAt(r) /\ CountsAt(r) < to

\* VISIBLE: a reader sees its own runs, or those of the project, up to a
\* classification and while they are retained.
VisibleRuns(reader, from, to) ==
  {x \in Runs :
     LET r == run[x] IN
     /\ r.status = "live" /\ ~RunExpired(r)
     /\ reader.project \/ RunOwner[x] = reader.user
     /\ r.class <= reader.ceiling
     /\ InWindow(r, from, to)}

\* metrics: a run that reported nothing counts as missing, not as zero.
Metrics(r) == IF r.metrics = Nothing THEN [f \in MetricNames |-> Unavailable] ELSE r.metrics

\* The units that the values of a function amount to, and their number.
Units(v) == UNION {{x} \X (1..v[x]) : x \in DOMAIN v}

Total(v) == Cardinality(Units(v))

\* aggregate: reported and estimated counters apart, what is missing aside.
AggregateUsage(counted) ==
  [i \in MetricNames \X {"reported", "estimated"} |->
     LET known == {x \in counted : Metrics(run[x])[i[1]].quality = i[2]} IN
     [value |-> IF known = {} THEN Nothing
                ELSE Total([x \in known |-> Metrics(run[x])[i[1]].value]),
      known |-> Cardinality(known), missing |-> Cardinality(counted \ known)]]

\* summary, of a period.
Summary(reader, from, to) == AggregateUsage(VisibleRuns(reader, from, to))

(***************************************************************************)
(* Properties.                                                             *)
(***************************************************************************)

UsageReaders == [user : Reporters, project : BOOLEAN, ceiling : RunClasses]

\* The receipts of a run tell one consistent story, however its reports were
\* delayed and repeated: each revises every one before it, a final one is never
\* taken back nor moved to another time, all came within the window that was
\* promised at registration, and the run is what the newest of them says.
LedgerIsConsistent ==
  \A x \in Runs :
    /\ \A j, k \in Of(x) : j.sequence < k.sequence =>
         /\ j.at <= k.at
         /\ Revises(j.report.metrics, k.report.metrics)
         /\ j.report.complete => k.report.complete
         /\ j.report.final => k.report.final /\ k.bucket = j.bucket
    /\ \A k \in Of(x) : k.at \in run[x].created .. run[x].accepts
    /\ run[x].status = "live" =>
         \A k \in Of(x) : (\A j \in Of(x) : j.sequence <= k.sequence) =>
           /\ run[x].sequence = k.sequence /\ run[x].bucket = k.bucket
           /\ run[x].metrics = k.report.metrics

\* The receipts and the run that they add up to agree.
LedgerIsSound == LedgerTypeOK /\ LedgerIsConsistent

Plus(a, b) ==
  [value |-> IF a.value = Nothing THEN b.value
             ELSE IF b.value = Nothing THEN a.value ELSE a.value + b.value,
   known |-> a.known + b.known, missing |-> a.missing + b.missing]

\* Usage is counted once: wherever all of time is cut in two, the periods add
\* up to the whole, and the whole is the newest receipts of the runs that are
\* retained; a run that moves to the time it ended leaves the one it was in.
CountedOnce ==
  LET end == MaxClock + Skew + 1 IN
  \A reader \in UsageReaders :
    LET all == Summary(reader, 0, end)
        newest == {k \in receipts : k.run \in VisibleRuns(reader, 0, end)
                                    /\ \A j \in Of(k.run) : j.sequence <= k.sequence}
    IN /\ \A cut \in 0..end :
            LET before == Summary(reader, 0, cut)
                after == Summary(reader, cut, end)
            IN \A i \in DOMAIN all : all[i] = Plus(before[i], after[i])
       /\ \A i \in DOMAIN all :
            LET counted == {k \in newest : k.report.metrics[i[1]].quality = i[2]} IN
            /\ all[i].known = Cardinality(counted)
            /\ counted # {} =>
                 all[i].value = Total([k \in counted |-> k.report.metrics[i[1]].value])

\* guard_usage_session: the updates of a row that the database refuses.
RunGuard(old, new) ==
  \/ old.parent # new.parent \/ old.class # new.class
  \/ old.created # new.created \/ old.accepts # new.accepts
  \/ old.status = "retired"
  \/ new.sequence < old.sequence
  \/ old.first # Nothing /\ new.first # old.first
  \/ old.final /\ (~new.final \/ new.bucket # old.bucket)

\* The database never has to refuse an update that a handler makes: however runs
\* report and are pruned, none is counted anew after it was retired, none moves
\* to another time once it is final, and its first report stays its first.
RunsNeverRegress ==
  [][\A x \in Runs :
       run[x].status # "absent" /\ run'[x] # run[x] => ~RunGuard(run[x], run'[x])]_usageVars
=============================================================================
