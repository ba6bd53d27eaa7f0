----------------------------- MODULE MCEventFeed -----------------------------
(***************************************************************************)
(* An instance of the feed.                                                *)
(***************************************************************************)
EXTENDS EventFeed, TLC

CONSTANTS sender, receiver, admin, checkpoint, bundle, contract

\* One bundle comes from a checkpoint, the other from a handoff.
MCSourceOf == [b \in Bundles |-> IF b = bundle THEN checkpoint ELSE None]

\* Who sees its own work, who sees what it is sent, and an administrator that
\* looks at what is public in the whole project.
MCReaders == {[user |-> sender, project |-> FALSE, ceiling |-> 1],
              [user |-> receiver, project |-> FALSE, ceiling |-> 1],
              [user |-> admin, project |-> TRUE, ceiling |-> 0]}

WriterSymmetry == Permutations(Writers)

\* Readers change nothing but their own cursor, answer and view, and every
\* property speaks of one reader: a behaviour needs one that polls.
Polls(r) == answer[r] # None \/ cursor[r] # None

OneReader == \A q, r \in Readers : Polls(q) /\ Polls(r) => q = r

\* Every property speaks of one resource.  To it, others are events that do not
\* name it: a behaviour needs one kind of them, of one sender, beside the
\* signals of the policy.
Kinds == {Checkpoints \cup {bundle}, {contract}, Sessions, Runs}

Changing == UNION {DOMAIN txn[w].changes : w \in {x \in Writers : txn[x] # None}}

Touched(K) == \E i \in K : item[i].rev > 0 \/ i \in Changing

OneKind ==
  /\ \A K, L \in Kinds : Touched(K) /\ Touched(L) => K = L
  /\ \A w \in Writers : txn[w] # None =>
       \A i \in DOMAIN txn[w].changes \ {Policy} : txn[w].changes[i].from = sender

MCSpec == Init /\ [][Next /\ OneReader' /\ OneKind']_vars
=============================================================================
