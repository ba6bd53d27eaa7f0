---------------------------- MODULE FencedLease ----------------------------
(***************************************************************************)
(* What every lease of the server promises its callers, whatever is        *)
(* leased: a handoff row or a continuity work unit.  A resource has at     *)
(* most one holder; a new holder always comes with a higher fence (the     *)
(* claim generation); a holder is never replaced without having settled,   *)
(* lapsed or been revoked first; and the ledger of settlements only ever   *)
(* receives the entry of the holder of the moment, under its own fence.    *)
(*                                                                         *)
(* Resources move independently, and one step of an implementation (the    *)
(* clock, an administrator's reassignment) may move several of them.       *)
(***************************************************************************)
EXTENDS Naturals

CONSTANTS Resources,     \* what is leased
          Claimants,     \* who may hold it: an actor with its private token
          Outcomes,      \* how a holder may settle
          NoHolder       \* nobody holds the resource

VARIABLES holder,        \* the claimant holding each resource, or NoHolder
          fence,         \* the generation of each resource
          ledger         \* the settlements recorded for each resource

vars == <<holder, fence, ledger>>

Settlements == [by : Claimants, fence : Nat, outcome : Outcomes]

Init ==
  /\ holder = [r \in Resources |-> NoHolder]
  /\ fence = [r \in Resources |-> 0]
  /\ ledger = [r \in Resources |-> {}]

Keep(r) ==
  /\ holder'[r] = holder[r]
  /\ fence'[r] = fence[r]
  /\ ledger'[r] = ledger[r]

\* A free resource gets a holder, and a fence no earlier holder ever saw.
Acquire(r) ==
  /\ holder[r] = NoHolder
  /\ holder'[r] \in Claimants
  /\ fence'[r] = fence[r] + 1
  /\ ledger'[r] = ledger[r]

\* The holder settles: the entry carries its own identity and fence.
Settle(r) ==
  /\ holder[r] # NoHolder
  /\ holder'[r] = NoHolder
  /\ fence'[r] = fence[r]
  /\ \E o \in Outcomes :
       ledger'[r] = ledger[r] \cup {[by |-> holder[r], fence |-> fence[r], outcome |-> o]}

\* The lease runs out: the next holder will get another fence.
Lapse(r) ==
  /\ holder'[r] = NoHolder
  /\ fence'[r] = fence[r]
  /\ ledger'[r] = ledger[r]

\* Someone with authority takes the resource away, or consumes it for good.
Revoke(r) ==
  /\ holder'[r] = NoHolder
  /\ fence'[r] = fence[r] + 1
  /\ ledger'[r] = ledger[r]

Step(r) == Acquire(r) \/ Settle(r) \/ Lapse(r) \/ Revoke(r)

Next ==
  /\ holder' \in [Resources -> Claimants \cup {NoHolder}]
  /\ fence' \in [Resources -> Nat]
  /\ ledger' \in [Resources -> SUBSET Settlements]
  /\ \A r \in Resources : Step(r) \/ Keep(r)

Spec == Init /\ [][Next]_vars

(***************************************************************************)
(* What follows from the promise, for every implementation.                *)
(***************************************************************************)

TypeOK ==
  /\ holder \in [Resources -> Claimants \cup {NoHolder}]
  /\ fence \in [Resources -> Nat]
  /\ ledger \in [Resources -> SUBSET Settlements]

\* No fence is settled twice, and no fence is settled before it is current.
SettledAtMostOnce ==
  \A r \in Resources : \A x, y \in ledger[r] : x.fence = y.fence => x = y

\* A resource whose current fence is settled has no holder until it moves on.
SettledMeansFree ==
  \A r \in Resources : \A x \in ledger[r] :
    /\ x.fence \in 0..fence[r]
    /\ x.fence = fence[r] => holder[r] = NoHolder
=============================================================================
