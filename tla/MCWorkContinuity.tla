-------------------------- MODULE MCWorkContinuity --------------------------
(***************************************************************************)
(* WorkContinuity on small sets, for TLC.                                  *)
(***************************************************************************)
EXTENDS WorkContinuity, TLC

CONSTANTS Boss, Alice, Bob

\* Alice's successors are chosen by policy; an administrator may choose others.
Body(enabled, takeover, retention, lease) ==
  [enabled |-> enabled, takeover |-> takeover, retention |-> retention, lease |-> lease,
   recipients |-> [u \in {Boss, Alice, Bob} |-> IF u = Bob THEN {Boss} ELSE {Bob}]]

\* A usual policy, one that allows takeovers and longer leases, a disabled one.
Bodies3 == {Body(TRUE, FALSE, 3, 1), Body(TRUE, TRUE, 2, 2), Body(FALSE, FALSE, 3, 1)}

\* One policy each, for the runs that are not about policies.
Usual == {Body(TRUE, FALSE, 1, 1)}
Lasting == {Body(TRUE, FALSE, 2, 1)}

Symmetry == Permutations(Tokens) \cup Permutations(UnitKeys)
=============================================================================
