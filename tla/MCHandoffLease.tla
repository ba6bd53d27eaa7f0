--------------------------- MODULE MCHandoffLease ---------------------------
(***************************************************************************)
(* HandoffLease on small sets, for TLC.                                    *)
(***************************************************************************)
EXTENDS HandoffLease, TLC

\* Actors, tokens, reasons and connections are interchangeable.
Symmetry == Permutations(Actors) \cup Permutations(Tokens) \cup Permutations(Connections)
=============================================================================
