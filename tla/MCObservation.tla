---------------------------- MODULE MCObservation ----------------------------
(***************************************************************************)
(* Presence and usage of one project.  Neither reads the other's state,    *)
(* and every property speaks of one of them, so a behaviour needs to move  *)
(* only one.                                                               *)
(***************************************************************************)
EXTENDS PresenceSessions, UsageLedger, TLC

CONSTANTS user, session1, session2

ASSUME PresenceAssumption

ASSUME UsageAssumption

MCOwner == session1 :> user @@ session2 :> user

MCWorkClass == <<>>

MCReports ==
  {[state |-> "idle", observed |-> TRUE, active |-> 0, work |-> None],
   [state |-> "running", observed |-> TRUE, active |-> 1, work |-> None]}

MCDefault == [enabled |-> FALSE, stale |-> 2, idle |-> 2, retention |-> 2]

MCPolicies ==
  {[enabled |-> TRUE, stale |-> 2, idle |-> 1, retention |-> 2],
   [enabled |-> FALSE, stale |-> 1, idle |-> 2, retention |-> 2]}

MCRunOwner == [r \in Runs |-> user]

MCUsagePolicies == {[enabled |-> TRUE, late |-> 1, retention |-> 1]}

MCDefaultUsage == [enabled |-> FALSE, late |-> 1, retention |-> 2]

Metered(value, quality, method) ==
  [f \in MetricNames |->
     IF f = "total" THEN [value |-> value, quality |-> quality, method |-> method] ELSE Unavailable]

Says(metrics, complete, final, source) ==
  [metrics |-> metrics, complete |-> complete, final |-> final, source |-> source]

\* An estimate, then what the provider reports, which may be less; a final
\* report with and without a time of its own; and nothing at all.
MCSent == {Says(Metered(2, "estimated", "provider_estimate"), FALSE, FALSE, Nothing),
           Says(Metered(1, "reported", Nothing), FALSE, FALSE, Nothing),
           Says(Metered(1, "reported", Nothing), TRUE, TRUE, Nothing),
           Says(Metered(2, "reported", Nothing), TRUE, TRUE, 0),
           Says(Metered(Nothing, "unavailable", Nothing), FALSE, FALSE, Nothing)}

Symmetric == Permutations(Runs) \cup Permutations(Sessions)

PresenceStarted == now > 0 \/ policy.version > 0
UsageStarted == clock > 0 \/ usagePolicy.version > 0

MCInit == Init /\ UsageInit

\* The clock steps back only from its bound.
PresenceNext ==
  /\ Next
  /\ now' < now => now = MaxTime
  /\ UNCHANGED usageVars
  /\ ~UsageStarted

LedgerNext == UsageNext /\ UNCHANGED vars /\ ~PresenceStarted

MCSpec == MCInit /\ [][PresenceNext \/ LedgerNext]_<<vars, usageVars>>
=============================================================================
