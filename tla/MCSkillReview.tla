---------------------------- MODULE MCSkillReview ----------------------------
(***************************************************************************)
(* Experiences and skills on small sets, for TLC.  Reviews are bounded     *)
(* over a behaviour, because each of them is open to any administrator     *)
(* again and again.                                                        *)
(***************************************************************************)
EXTENDS SkillReview, TLC

CONSTANTS low, high, procedure,
          MaxReviews

\* An internal source and a confidential one, under one lock.
MCLevelOf == low :> 1 @@ high :> 2
MCLockOf == low :> 1 @@ high :> 1

\* One that lasts, and one that ends while it is in force.
MCWindows == {[from |-> 0, until |-> Forever], [from |-> 0, until |-> 1]}

\* A bound on the reviews of a behaviour, with what they supersede and invalidate.
Reviews ==
  Cardinality(UNION {{e} \X DOMAIN log[e] : e \in Experiences})
    + Cardinality(UNION {{r} \X DOMAIN history[r] : r \in Submissions})

Ends(e) == experience[e].window.until # Forever

\* At most one of the experiences is of the kind that ends.
Ending == \A e, f \in Proposed :
  Ends(e) /\ Ends(f) => e = f

MCSpec == Init /\ [][Next /\ Reviews' <= MaxReviews /\ Ending']_vars

Symmetric == Permutations(Experiences) \cup Permutations(Submissions)
=============================================================================
