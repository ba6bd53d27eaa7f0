----------------------------- MODULE TeamProofs -----------------------------
(***************************************************************************)
(* Proofs about who may do what, in ProjectDirectory, TeamAssets,          *)
(* SigningKeys and GitHubLogin.                                            *)
(*                                                                         *)
(* ProjectDirectory, for every directory whose credentials are of the      *)
(* kinds that DirectoryAssumption describes: the view that chooses         *)
(* recipients agrees with the code that binds calls, rights are those of   *)
(* the moment, and no change or record is lost.                            *)
(*                                                                         *)
(* TeamAssets, for any assets, projects, requests and lifetimes: what is   *)
(* published, imported and observed is there once, and a shared read shows *)
(* what was granted, while it is granted.                                  *)
(*                                                                         *)
(* SigningKeys and GitHubLogin, for any keys, tokens, accounts, calls and  *)
(* limits: who is let in, and who is kept out, is so for a reason.         *)
(***************************************************************************)
EXTENDS ProjectDirectory, TeamAssets, SigningKeys, GitHubLogin, FiniteSetTheorems,
        SequenceTheorems, NaturalsInduction, TLAPS

(***************************************************************************)
(* Type correctness.                                                       *)
(***************************************************************************)

\* A call that is bound carries scopes.
LEMMA BoundCall ==
  ASSUME DirectoryAssumption, TypeOK, NEW c \in Credentials, NEW tool \in Tools,
         NEW o \in Organizations \cup {None}, Bind(c, tool, o)
  PROVE  request' \in [Credentials -> Calls \cup {None}]
<1> DEFINE kept == ~Registered /\ ~Multiple(c)
           r == IF Creates(tool, seen[c].project.revision) THEN "owner" ELSE Role(UserOf[c])
           scopes == IF kept THEN Scopes[c] ELSE BoundScopes(c, r)
<1>1. request' = [request EXCEPT ![c] = [tool |-> tool, scopes |-> scopes, organization |-> o]]
  BY DEF Bind
<1>2. Scopes[c] \in SUBSET ScopeNames
  BY DEF DirectoryAssumption
<1>3. BoundScopes(c, r) \in SUBSET ScopeNames
  <2>1. Allowed(r) \in SUBSET ScopeNames
    BY DEF Allowed, ScopeNames
  <2>2. QED  BY <2>1 DEF BoundScopes
<1>4. scopes \in SUBSET ScopeNames
  BY <1>2, <1>3
<1> HIDE DEF scopes
<1>5. [tool |-> tool, scopes |-> scopes, organization |-> o] \in Calls
  BY <1>4 DEF Calls
<1>6. QED  BY <1>1, <1>5 DEF TypeOK

\* Handling a call ends it.
LEMMA HandledCall ==
  ASSUME TypeOK, NEW c \in Credentials, NEW tool, Handles(c, tool)
  PROVE  request' \in [Credentials -> Calls \cup {None}]
BY DEF Handles, TypeOK

\* A registration writes a project.
LEMMA RegisteredProject ==
  ASSUME DirectoryAssumption, TypeOK, NEW c \in Credentials, NEW m \in Metadata, Register(c, m)
  PROVE  project' \in Projects
<1>1. request[c] \in Calls \cup {None} /\ request[c] # None
  BY DEF Register, Handles, TypeOK
<1>2. request[c].organization \in Organizations \cup {None}
  BY <1>1 DEF Calls
<1>3. UserOf[c] \in Users
  BY DEF DirectoryAssumption
<1>4. project.revision + 1 \in Nat /\ project.owner \in Users \cup {None}
  BY DEF TypeOK, Projects
<1> DEFINE o == IF Registered THEN project.owner ELSE UserOf[c]
<1>5. o \in Users \cup {None}
  BY <1>3, <1>4
<1>6. project' = [revision |-> project.revision + 1, owner |-> o,
                  organization |-> request[c].organization, metadata |-> m]
  BY DEF Register
<1> HIDE DEF o
<1>7. QED  BY <1>2, <1>4, <1>5, <1>6 DEF Projects

\* Type correctness is inductive.
LEMMA TypeInductive ==
  ASSUME DirectoryAssumption, TypeOK, [Next]_vars
  PROVE  TypeOK'
<1> USE DEF Silent
<1>1. CASE Administer
  BY <1>1 DEF Administer, Issue, SwitchOff, Enable, TypeOK, Credentials
<1>2. ASSUME NEW c \in Credentials, Authenticate(c)
      PROVE  TypeOK'
  <2>1. Verified \in Calls
    BY DEF Verified, Calls
  <2>2. QED  BY <1>2, <2>1 DEF Authenticate, TypeOK
<1>3. ASSUME NEW c \in Credentials, NEW tool \in Tools,
             NEW o \in Organizations \cup {None}, Bind(c, tool, o)
      PROVE  TypeOK'
  <2>1. request' \in [Credentials -> Calls \cup {None}]
    BY <1>3, BoundCall
  <2>2. UNCHANGED <<credential, project, role, record, seen>> /\ answer' = None
    BY <1>3 DEF Bind
  <2>3. QED  BY <2>1, <2>2 DEF TypeOK
<1>4. ASSUME NEW c \in Credentials, Drop(c)
      PROVE  TypeOK'
  BY <1>4 DEF Drop, TypeOK
<1>5. ASSUME NEW c \in Credentials, Get(c)
      PROVE  TypeOK'
  <2>1. request' \in [Credentials -> Calls \cup {None}]
    BY <1>5, HandledCall DEF Get
  <2>2. [project |-> project, role |-> role] \in [project : Projects, role : [Users -> Roles]]
    BY DEF TypeOK
  <2>3. seen' \in [Credentials -> [project : Projects, role : [Users -> Roles]]]
    BY <1>5, <2>2 DEF Get, TypeOK
  <2>4. UNCHANGED <<credential, project, role, record>> /\ answer' = None
    BY <1>5 DEF Get
  <2>5. QED  BY <2>1, <2>3, <2>4 DEF TypeOK
<1>6. ASSUME NEW c \in Credentials, NEW m \in Metadata, Register(c, m)
      PROVE  TypeOK'
  <2>1. project' \in Projects
    BY <1>6, RegisteredProject
  <2>2. QED  BY <1>6, <2>1, HandledCall DEF Register, TypeOK
<1>7. ASSUME NEW c \in Credentials, NEW u \in Users, NEW r \in Roles, Assign(c, u, r)
      PROVE  TypeOK'
  <2>1. project' = [project EXCEPT !.revision = @ + 1]
    BY <1>7 DEF Assign
  <2>2. project \in Projects
    BY DEF TypeOK
  <2>3. project' \in Projects
    BY <2>1, <2>2 DEF Projects
  <2>4. QED  BY <1>7, <2>3, HandledCall DEF Assign, TypeOK
<1>8. ASSUME NEW c \in Credentials, NEW r \in Records, NEW b \in Bodies, Put(c, r, b)
      PROVE  TypeOK'
  <2>1. [by |-> UserOf[c], digest |-> b, body |-> b, removed |-> FALSE] \in RecordRows
    BY DEF DirectoryAssumption, RecordRows
  <2>2. record' \in [Records -> RecordRows \cup {None}]
    BY <1>8, <2>1 DEF Put, TypeOK
  <2>3. QED  BY <1>8, <2>2, HandledCall DEF Put, TypeOK
<1>9. ASSUME NEW c \in Credentials, NEW r \in Records, Remove(c, r)
      PROVE  TypeOK'
  <2>1. record[r] \in RecordRows
    BY <1>9 DEF Remove, TypeOK
  <2>2. record' = [record EXCEPT ![r] = [record[r] EXCEPT !.body = None, !.removed = TRUE]]
    BY <1>9 DEF Remove
  <2>3. [record[r] EXCEPT !.body = None, !.removed = TRUE] \in RecordRows
    BY <2>1 DEF RecordRows
  <2>4. record' \in [Records -> RecordRows \cup {None}]
    BY <2>2, <2>3 DEF TypeOK
  <2>5. QED  BY <1>9, <2>4, HandledCall DEF Remove, TypeOK
<1>10. ASSUME NEW c \in Credentials, List(c)
       PROVE  TypeOK'
  <2>1. UserOf[c] \in Users
    BY DEF DirectoryAssumption
  <2>2. answer' \in [to : Users, records : SUBSET Records, can_share : BOOLEAN]
    BY <1>10, <2>1 DEF List
  <2>3. QED  BY <1>10, <2>2, HandledCall DEF List, TypeOK
<1>11. CASE UNCHANGED vars
  BY <1>11 DEF vars, TypeOK
<1>12. "register" \in Tools /\ None \in Organizations \cup {None}
  BY DEF Tools
<1>13. QED
  BY <1>1, <1>2, <1>3, <1>4, <1>5, <1>6, <1>7, <1>8, <1>9, <1>10, <1>11, <1>12
  DEF Next, Handle

\* The directory starts well typed.
LEMMA TypeInitial == Init => TypeOK
BY DEF Init, TypeOK, Roles, Projects

\* The directory keeps its types.
THEOREM DirectoryTyped ==
  ASSUME DirectoryAssumption
  PROVE  Spec => []TypeOK
<1>1. TypeOK /\ [Next]_vars => TypeOK'
  BY TypeInductive
<1>2. QED  BY <1>1, TypeInitial, PTL DEF Spec

(***************************************************************************)
(* The view of eligible members.                                           *)
(***************************************************************************)

\* The rights that a credential for many projects or for this one leaves: both
\* reading and writing, for a member who may write and a credential that carries both.
LEMMA BoundBoth ==
  ASSUME DirectoryAssumption, TypeOK, NEW c \in Credentials, Registered, Role(UserOf[c]) # None
  PROVE  LET scopes == BoundScopes(c, Role(UserOf[c])) IN
         Passes(scopes, "get") /\ Passes(scopes, "put")
           <=> Role(UserOf[c]) \in {"write", "owner"} /\ ReadsAndWrites(Scopes[c])
<1> DEFINE r == Role(UserOf[c])
<1>1. UserOf[c] \in Users /\ Scopes[c] \in SUBSET ScopeNames
  BY DEF DirectoryAssumption
<1>2. r \in {"read", "write", "owner"}
  BY <1>1 DEF TypeOK, Role, RoleIn, Roles
<1>3. c \in Accounts => ReadsAndWrites(Scopes[c])
  BY DEF DirectoryAssumption, ReadsAndWrites
<1>4. ScopeOf["get"] = "read" /\ ScopeOf["put"] = "write"
  BY DEF ScopeOf, Tools
<1> HIDE DEF r
<1>5. LET scopes == BoundScopes(c, r) IN
      Passes(scopes, "get") /\ Passes(scopes, "put")
        <=> r \in {"write", "owner"} /\ ReadsAndWrites(Scopes[c])
  <2>1. CASE r = "read"
    BY <2>1, <1>4 DEF BoundScopes, Allowed, Passes
  <2>2. CASE r = "write"
    BY <2>2, <1>1, <1>3, <1>4 DEF BoundScopes, Allowed, Passes, ReadsAndWrites, ScopeNames
  <2>3. CASE r = "owner"
    BY <2>3, <1>1, <1>3, <1>4 DEF BoundScopes, Allowed, Passes, ReadsAndWrites, ScopeNames
  <2>4. QED  BY <1>2, <2>1, <2>2, <2>3
<1>6. QED  BY <1>5 DEF r

\* Credential by credential, the view and the binding agree.
LEMMA EligibleThroughOne ==
  ASSUME DirectoryAssumption, TypeOK, NEW u \in Users, NEW c \in Credentials,
         UserOf[c] = u, credential[c] = "live"
  PROVE  EligibleThrough(c, u) <=> Passes(Within(c), "get") /\ Passes(Within(c), "put")
<1>1. c \in Tokens \/ c \in Accounts
  BY DEF Credentials
<1>2. c \in Accounts => /\ Multiple(c) /\ ReadsAndWrites(Scopes[c])
                        /\ OrganizationOf[c] \in Organizations
  BY DEF DirectoryAssumption, Multiple, ReadsAndWrites
<1>3. c \in Tokens => Multiple(c) \/ c \in Named
  BY DEF DirectoryAssumption
<1>4. ScopeOf["get"] = "read" /\ ScopeOf["put"] = "write"
  BY DEF ScopeOf, Tools
<1>5. CASE ~Registered
  BY <1>1, <1>2, <1>3, <1>4, <1>5 DEF Within, Passes, EligibleThrough, ReadsAndWrites, Multiple
<1>6. CASE Registered /\ Role(u) = None
  <2>1. project.owner # u /\ role[u] # "write"
    BY <1>6 DEF Role, RoleIn, Registered, TypeOK, Roles, DirectoryAssumption
  <2>2. Within(c) = {}
    BY <1>6 DEF Within
  <2>3. QED  BY <1>4, <1>6, <2>1, <2>2 DEF EligibleThrough, Passes
<1>7. CASE Registered /\ Role(u) # None
  <2>1. Role(u) \in {"write", "owner"} <=> project.owner = u \/ role[u] = "write"
    BY <1>7 DEF Role, RoleIn, Registered, TypeOK, Roles
  <2>2. CASE c \in Accounts /\ OrganizationOf[c] # project.organization
    <3>1. Within(c) = {}
      BY <1>7, <2>2 DEF Within
    <3>2. ~EligibleThrough(c, u)
      BY <1>2, <1>7, <2>2 DEF EligibleThrough, DirectoryAssumption
    <3>3. QED  BY <1>4, <3>1, <3>2 DEF Passes
  <2>3. CASE ~(c \in Accounts /\ OrganizationOf[c] # project.organization)
    <3>1. Within(c) = BoundScopes(c, Role(UserOf[c]))
      BY <1>7, <2>3 DEF Within
    <3>2. EligibleThrough(c, u) <=> Role(u) \in {"write", "owner"} /\ ReadsAndWrites(Scopes[c])
      BY <1>1, <1>2, <1>3, <1>7, <2>1, <2>3 DEF EligibleThrough
    <3>3. QED  BY <1>7, <3>1, <3>2, BoundBoth
  <2>4. QED  BY <2>2, <2>3
<1>8. QED  BY <1>5, <1>6, <1>7

\* Work is sent to those, and only those, who can read and write it: the view that
\* chooses recipients never disagrees with the code that binds their calls.
THEOREM RecipientsCanWrite ==
  ASSUME DirectoryAssumption
  PROVE  Spec => []DirectoryIsSound
<1>1. TypeOK => EligibleCanWrite
  <2> SUFFICES ASSUME TypeOK, NEW u \in Users
               PROVE  Eligible(u) <=> \E c \in Credentials :
                        /\ UserOf[c] = u /\ credential[c] = "live"
                        /\ Passes(Within(c), "get") /\ Passes(Within(c), "put")
    BY DEF EligibleCanWrite
  <2>1. \A c \in Credentials : EligibleThrough(c, u) => UserOf[c] = u /\ credential[c] = "live"
    BY DEF EligibleThrough
  <2>2. QED  BY <2>1, EligibleThroughOne DEF Eligible
<1>2. TypeOK => DirectoryIsSound
  BY <1>1 DEF DirectoryIsSound
<1>3. QED  BY <1>2, DirectoryTyped, PTL

(***************************************************************************)
(* Records.                                                                *)
(***************************************************************************)

\* Only two operations touch the records.
LEMMA RecordStep ==
  ASSUME [Next]_vars, record' # record
  PROVE  \E c \in Credentials, r \in Records :
           Remove(c, r) \/ \E body \in Bodies : Put(c, r, body)
<1>1. CASE UNCHANGED vars
  BY <1>1 DEF vars
<1>2. CASE Administer
  BY <1>2 DEF Administer, Issue, SwitchOff, Enable
<1>3. ASSUME NEW c \in Credentials,
             \/ Authenticate(c) \/ Drop(c) \/ Get(c) \/ List(c)
             \/ \E tool, o : Bind(c, tool, o)
             \/ \E m : Register(c, m)
             \/ \E u, r : Assign(c, u, r)
      PROVE  FALSE
  BY <1>3 DEF Authenticate, Drop, Get, List, Bind, Register, Assign
<1>4. QED  BY <1>1, <1>2, <1>3 DEF Next, Handle

\* Only a listing answers.
LEMMA AnswerStep ==
  ASSUME Next, answer' # None
  PROVE  \E c \in Credentials : List(c)
<1> USE DEF Silent
<1>1. CASE Administer
  BY <1>1 DEF Administer, Issue, SwitchOff, Enable
<1>2. ASSUME NEW c \in Credentials,
             \/ Authenticate(c) \/ Drop(c) \/ Get(c)
             \/ \E tool, o : Bind(c, tool, o)
             \/ \E m : Register(c, m)
             \/ \E u, r : Assign(c, u, r)
             \/ \E r, body : Put(c, r, body)
             \/ \E r : Remove(c, r)
      PROVE  FALSE
  BY <1>2 DEF Authenticate, Drop, Get, Bind, Register, Assign, Put, Remove
<1>3. QED  BY <1>1, <1>2 DEF Next, Handle

\* What a record said stays what it said, until it is removed for good.
THEOREM RecordsKept ==
  ASSUME DirectoryAssumption
  PROVE  Spec => RecordsAreKept
<1> DEFINE Kept(r) ==
      record[r] # None =>
        /\ record'[r] # None
        /\ record'[r].by = record[r].by /\ record'[r].digest = record[r].digest
        /\ record'[r].body \in {record[r].body, None}
        /\ record[r].removed => record'[r].removed
<1>1. TypeOK /\ TypeOK' /\ [Next]_vars => \A r \in Records : Kept(r)
  <2> SUFFICES ASSUME TypeOK, TypeOK', [Next]_vars, NEW r \in Records, record[r] # None
               PROVE  Kept(r)
    OBVIOUS
  <2>1. record[r] \in RecordRows
    BY DEF TypeOK
  <2>2. CASE record'[r] = record[r]
    BY <2>2
  <2>3. CASE record'[r] # record[r]
    <3>1. PICK c \in Credentials, q \in Records :
            Remove(c, q) \/ \E body \in Bodies : Put(c, q, body)
      BY <2>3, RecordStep
    <3>2. record'[r] = [record[r] EXCEPT !.body = None, !.removed = TRUE]
      <4>1. CASE Remove(c, q)
        BY <2>3, <4>1 DEF Remove, TypeOK
      <4>2. ASSUME NEW body \in Bodies, Put(c, q, body) PROVE FALSE
        BY <2>3, <4>2 DEF Put, TypeOK
      <4>3. QED  BY <3>1, <4>1, <4>2
    <3>3. [record[r] EXCEPT !.body = None, !.removed = TRUE] \in RecordRows
      BY <2>1 DEF RecordRows
    <3>4. record'[r] # None
      BY <3>2, <3>3 DEF DirectoryAssumption
    <3>5. QED  BY <2>1, <3>2, <3>3, <3>4 DEF RecordRows
  <2>4. QED  BY <2>2, <2>3
<1>2. QED  BY <1>1, DirectoryTyped, PTL DEF Spec, RecordsAreKept

\* Nobody adds, withdraws or reads a record on the strength of a role they had.
THEOREM RightsCurrent ==
  ASSUME DirectoryAssumption
  PROVE  Spec => RightsAreCurrent
<1> DEFINE Justified(r) ==
      /\ record[r] = None /\ record'[r] # None => Role(record'[r].by) \in {"write", "owner"}
      /\ record[r] # None /\ record'[r] # record[r] =>
           \E c \in Credentials :
             /\ request[c] # None /\ request'[c] = None
             /\ Role(UserOf[c]) = "owner" \/ (UserOf[c] = record[r].by /\ role[UserOf[c]] # None)
<1> DEFINE Shown ==
      answer' # None =>
        /\ Role(answer'.to) # None
        /\ answer'.can_share => Role(answer'.to) \in {"write", "owner"}
<1>1. TypeOK /\ [Next]_vars => \A r \in Records : Justified(r)
  <2> SUFFICES ASSUME TypeOK, [Next]_vars, NEW r \in Records, record'[r] # record[r]
               PROVE  Justified(r)
    BY Zenon
  <2>1. PICK c \in Credentials, q \in Records :
          Remove(c, q) \/ \E body \in Bodies : Put(c, q, body)
    BY RecordStep
  <2>2. CASE Remove(c, q)
    <3>1. q = r /\ record[r] # None
      BY <2>2 DEF Remove, TypeOK
    <3>2. request[c] # None /\ request'[c] = None
      BY <2>2 DEF Remove, Handles, TypeOK
    <3>3. Role(UserOf[c]) = "owner" \/ (UserOf[c] = record[r].by /\ Role(UserOf[c]) = role[UserOf[c]])
      BY <2>2, <3>1 DEF Remove, Role, RoleIn
    <3>4. Role(UserOf[c]) # None
      BY <2>2 DEF Remove
    <3>5. QED  BY <3>1, <3>2, <3>3, <3>4
  <2>3. ASSUME NEW body \in Bodies, Put(c, q, body) PROVE Justified(r)
    <3>1. /\ q = r /\ record[r] = None
          /\ record'[r] = [by |-> UserOf[c], digest |-> body, body |-> body, removed |-> FALSE]
      BY <2>3 DEF Put, TypeOK
    <3>2. Role(UserOf[c]) \in {"write", "owner"}
      BY <2>3 DEF Put, Writes
    <3>3. QED  BY <3>1, <3>2
  <2>4. QED  BY <2>1, <2>2, <2>3
<1>2. TypeOK /\ Next => Shown
  <2> SUFFICES ASSUME TypeOK, Next, answer' # None PROVE Shown
    OBVIOUS
  <2>1. PICK c \in Credentials : List(c)
    BY AnswerStep
  <2>2. answer'.to = UserOf[c] /\ (answer'.can_share => Role(UserOf[c]) \in {"write", "owner"})
    BY <2>1 DEF List
  <2>3. Role(UserOf[c]) # None
    BY <2>1 DEF List
  <2>4. QED  BY <2>2, <2>3
<1>3. TypeOK /\ [Next]_vars => [(\A r \in Records : Justified(r)) /\ Shown]_vars
  BY <1>1, <1>2
<1>4. QED  BY <1>3, DirectoryTyped, PTL DEF Spec, RightsAreCurrent

(***************************************************************************)
(* Revisions.                                                              *)
(***************************************************************************)

\* Whoever has read the project at its present revision has read it as it is:
\* the invariant that makes the comparison of revisions enough.
SeenIsCurrent ==
  \A c \in Credentials :
    /\ seen[c].project.revision <= project.revision
    /\ seen[c].project.revision = project.revision =>
         seen[c] = [project |-> project, role |-> role]

\* The directory changes by a registration or an assignment, which number it anew.
LEMMA DirectoryStep ==
  ASSUME DirectoryAssumption, TypeOK, [Next]_vars, <<project, role>> # <<project', role'>>
  PROVE  \E c \in Credentials :
           /\ request[c] # None /\ request'[c] = None
           /\ project.revision = seen[c].project.revision
           /\ project'.revision = project.revision + 1
           /\ UNCHANGED seen
<1>1. CASE UNCHANGED vars
  BY <1>1 DEF vars
<1>2. CASE Administer
  BY <1>2 DEF Administer, Issue, SwitchOff, Enable
<1>3. ASSUME NEW c \in Credentials,
             \/ Authenticate(c) \/ Drop(c) \/ Get(c) \/ List(c)
             \/ \E tool, o : Bind(c, tool, o)
             \/ \E r, body : Put(c, r, body)
             \/ \E r : Remove(c, r)
      PROVE  FALSE
  BY <1>3 DEF Authenticate, Drop, Get, List, Bind, Put, Remove
<1>4. ASSUME NEW c \in Credentials, NEW m \in Metadata, Register(c, m)
      PROVE  /\ request[c] # None /\ request'[c] = None
             /\ project.revision = seen[c].project.revision
             /\ project'.revision = project.revision + 1
             /\ UNCHANGED seen
  BY <1>4 DEF Register, Handles, TypeOK
<1>5. ASSUME NEW c \in Credentials, NEW u \in Users, NEW r \in Roles, Assign(c, u, r)
      PROVE  /\ request[c] # None /\ request'[c] = None
             /\ project.revision = seen[c].project.revision
             /\ project'.revision = project.revision + 1
             /\ UNCHANGED seen
  <2>1. project \in Projects
    BY DEF TypeOK
  <2>2. project'.revision = project.revision + 1
    BY <1>5, <2>1 DEF Assign, Projects
  <2>3. QED  BY <1>5, <2>2 DEF Assign, Handles, TypeOK
<1>6. QED  BY <1>1, <1>2, <1>3, <1>4, <1>5 DEF Next, Handle

\* A reader learns the present project, or nothing.
LEMMA SeenStep ==
  ASSUME TypeOK, [Next]_vars, NEW d \in Credentials, seen'[d] # seen[d]
  PROVE  seen'[d] = [project |-> project, role |-> role] /\ UNCHANGED <<project, role>>
<1>1. CASE UNCHANGED vars
  BY <1>1 DEF vars
<1>2. CASE Administer
  BY <1>2 DEF Administer, Issue, SwitchOff, Enable
<1>3. ASSUME NEW c \in Credentials,
             \/ Authenticate(c) \/ Drop(c) \/ List(c)
             \/ \E tool, o : Bind(c, tool, o)
             \/ \E m : Register(c, m)
             \/ \E u, r : Assign(c, u, r)
             \/ \E r, body : Put(c, r, body)
             \/ \E r : Remove(c, r)
      PROVE  FALSE
  BY <1>3 DEF Authenticate, Drop, List, Bind, Register, Assign, Put, Remove
<1>4. ASSUME NEW c \in Credentials, Get(c)
      PROVE  seen'[d] = [project |-> project, role |-> role] /\ UNCHANGED <<project, role>>
  BY <1>4 DEF Get, TypeOK
<1>5. QED  BY <1>1, <1>2, <1>3, <1>4 DEF Next, Handle

\* What is seen stays current, or its revision falls behind.
LEMMA SeenInductive ==
  ASSUME DirectoryAssumption, TypeOK, SeenIsCurrent, [Next]_vars
  PROVE  SeenIsCurrent'
<1> SUFFICES ASSUME NEW d \in Credentials
             PROVE  /\ seen'[d].project.revision <= project'.revision
                    /\ seen'[d].project.revision = project'.revision =>
                         seen'[d] = [project |-> project', role |-> role']
  BY DEF SeenIsCurrent
<1>0. project.revision \in Nat /\ seen[d].project.revision \in Nat
  BY DEF TypeOK, Projects
<1>1. CASE <<project, role>> # <<project', role'>>
  BY <1>0, <1>1, DirectoryStep DEF SeenIsCurrent
<1>2. CASE UNCHANGED <<project, role>> /\ seen'[d] = seen[d]
  BY <1>2 DEF SeenIsCurrent
<1>3. CASE UNCHANGED <<project, role>> /\ seen'[d] # seen[d]
  BY <1>0, <1>3, SeenStep
<1>4. QED  BY <1>1, <1>2, <1>3

\* Every change of the directory was decided on the directory as it was: no lost
\* update, however long its author took.
THEOREM ChangesAsSeen ==
  ASSUME DirectoryAssumption
  PROVE  Spec => ChangedAsSeen
<1>1. Init => SeenIsCurrent
  BY DEF Init, SeenIsCurrent
<1>2. TypeOK /\ SeenIsCurrent /\ [Next]_vars => SeenIsCurrent'
  BY SeenInductive
<1>3. TypeOK /\ SeenIsCurrent /\ [Next]_vars =>
        (<<project, role>> # <<project', role'>> =>
           \E c \in Credentials :
             /\ request[c] # None /\ request'[c] = None
             /\ seen[c] = [project |-> project, role |-> role])
  BY DirectoryStep DEF SeenIsCurrent
<1>4. QED  BY <1>1, <1>2, <1>3, DirectoryTyped, PTL DEF Spec, ChangedAsSeen

(***************************************************************************)
(* The invariant: what TeamTypeOK leaves open for a document in force, and *)
(* that a reader who found a grant found its own, which never goes away.   *)
(***************************************************************************)

Complete == \A d \in Docs : doc[d].status = "active" => doc[d].content \in Contents /\ doc[d].level \in Levels

Located ==
  \A c \in Consumers : reading[c] # Null =>
    grant[reading[c].id] # Null /\ grant[reading[c].id].consumer = c

TeamInv == TeamTypeOK /\ Complete /\ Located /\ UsedOnce

\* What a grant binds is an asset with a version.
LEMMA BoundAsset ==
  ASSUME TeamTypeOK, Complete, NEW a \in Assets, Live(a)
  PROVE  Binding(a) \in Bindings
<1>1. CASE a \in Docs
  <2>1. doc[a] \in DocRows /\ doc[a].content \in Contents /\ doc[a].level \in Levels
    BY <1>1 DEF TeamTypeOK, Complete, Live
  <2>2. DocVersion(a) \in Nat
    BY <1>1 DEF TeamTypeOK, DocVersion
  <2>3. Binding(a) = [asset |-> a, version |-> DocVersion(a), level |-> doc[a].level,
                      content |-> doc[a].content, revision |-> doc[a].revision]
    BY <1>1 DEF Binding
  <2>4. doc[a].revision \in Revisions \cup {Null}
    BY <2>1 DEF DocRows
  <2>5. QED  BY <2>1, <2>2, <2>3, <2>4 DEF Bindings
<1>2. CASE a \notin Docs
  <2>1. a \in Reviewed
    BY <1>2 DEF Assets
  <2>2. reviewed[a].version \in Nat /\ reviewed[a].level \in Levels
    BY <2>1 DEF TeamTypeOK
  <2>3. Binding(a) = [asset |-> a, version |-> reviewed[a].version, level |-> reviewed[a].level,
                      content |-> a, revision |-> Null]
    BY <1>2 DEF Binding
  <2>4. QED  BY <2>1, <2>2, <2>3 DEF Bindings
<1>3. QED  BY <1>1, <1>2

(***************************************************************************)
(* One lemma per group of operations.                                      *)
(***************************************************************************)

\* A note adds an event of one document, and keeps the others.
LEMMA Noted ==
  ASSUME TeamTypeOK, NEW d \in Docs, NEW event \in KnowledgeEvents, Note(d, event)
  PROVE  /\ events' \in [Docs -> Seq(KnowledgeEvents)]
         /\ \A e \in Docs \ {d} : events'[e] = events[e]
         /\ events'[d] = Append(events[d], event)
<1>1. events[d] \in Seq(KnowledgeEvents)
  BY DEF TeamTypeOK
<1>2. Append(events[d], event) \in Seq(KnowledgeEvents)
  BY <1>1
<1>3. QED  BY <1>2 DEF Note, TeamTypeOK

\* A revision that is new to a document stays its only publication.
LEMMA NewRevision ==
  ASSUME TeamTypeOK, UsedOnce, NEW d \in Docs, NEW event \in KnowledgeEvents, Note(d, event),
         event.revision # Null => event.revision \notin Published(d)
  PROVE  \A e \in Docs : \A i, j \in DOMAIN events'[e] :
           events'[e][i].revision = events'[e][j].revision /\ events'[e][i].revision # Null => i = j
<1> SUFFICES ASSUME NEW e \in Docs, NEW i \in DOMAIN events'[e], NEW j \in DOMAIN events'[e],
                    events'[e][i].revision = events'[e][j].revision, events'[e][i].revision # Null
             PROVE  i = j
  OBVIOUS
<1>1. CASE e # d
  <2>1. events'[e] = events[e]
    BY <1>1, Noted
  <2>2. QED  BY <2>1 DEF UsedOnce
<1>2. CASE e = d
  <2> DEFINE s == events[d]
  <2>1. s \in Seq(KnowledgeEvents) /\ events'[d] = Append(s, event)
    BY Noted DEF TeamTypeOK
  <2>2. \A k \in DOMAIN s : s[k].revision # Null => s[k].revision \in Published(d)
    BY DEF Published
  <2>3. \A k, l \in DOMAIN s : s[k].revision = s[l].revision /\ s[k].revision # Null => k = l
    BY DEF UsedOnce
  <2> HIDE DEF s
  <2>4. /\ DOMAIN s = 1..Len(s) /\ Len(s) \in Nat
        /\ DOMAIN Append(s, event) = 1..(Len(s) + 1)
        /\ Append(s, event)[Len(s) + 1] = event
        /\ \A k \in 1..Len(s) : Append(s, event)[k] = s[k]
    BY <2>1
  <2>5. i \in 1..(Len(s) + 1) /\ j \in 1..(Len(s) + 1)
    BY <1>2, <2>1, <2>4
  <2>6. CASE i \in 1..Len(s) /\ j \in 1..Len(s)
    BY <1>2, <2>1, <2>3, <2>4, <2>6
  <2>7. CASE i = Len(s) + 1 /\ j \in 1..Len(s)
    <3>1. s[j].revision = event.revision /\ event.revision # Null
      BY <1>2, <2>1, <2>4, <2>7
    <3>2. s[j].revision \in Published(d)
      BY <2>2, <2>4, <2>7, <3>1
    <3>3. QED  BY <3>1, <3>2
  <2>8. CASE j = Len(s) + 1 /\ i \in 1..Len(s)
    <3>1. s[i].revision = event.revision /\ event.revision # Null
      BY <1>2, <2>1, <2>4, <2>8
    <3>2. s[i].revision \in Published(d)
      BY <2>2, <2>4, <2>8, <3>1
    <3>3. QED  BY <3>1, <3>2
  <2>9. QED  BY <2>4, <2>5, <2>6, <2>7, <2>8
<1>3. QED  BY <1>1, <1>2

\* Publishing keeps the invariant.
LEMMA SyncStep ==
  ASSUME TeamAssumption, TeamInv, NEW d \in Docs, NEW by \in Actors, NEW expected,
         NEW revision \in Revisions, NEW level \in Levels, NEW content \in Contents, NEW until,
         Sync(d, expected, by, revision, level, content, until)
  PROVE  TeamInv'
<1>1. [action |-> "sync", by |-> by, revision |-> revision] \in KnowledgeEvents
  BY DEF KnowledgeEvents
<1>2. until \in Nat
  BY DEF Sync, Deadlines, TeamInv, TeamTypeOK, TeamAssumption
<1> DEFINE row == [status |-> "active", content |-> content, revision |-> revision,
                   level |-> level, until |-> until]
<1>3. row \in DocRows
  BY <1>2 DEF DocRows
<1>4. doc' = [doc EXCEPT ![d] = row] /\ row.content \in Contents /\ row.level \in Levels
  BY DEF Sync
<1> HIDE DEF row
<1>5. Note(d, [action |-> "sync", by |-> by, revision |-> revision]) /\ revision \notin Published(d)
  BY DEF Sync
<1>6. UNCHANGED <<now, reviewed, grant, reading, imported, feedback>> /\ served' = Null
  BY DEF Sync, Unserved
<1>7. TeamTypeOK'
  <2>1. events' \in [Docs -> Seq(KnowledgeEvents)]
    BY <1>1, <1>5, Noted DEF TeamInv
  <2>2. doc' \in [Docs -> DocRows]
    BY <1>3, <1>4 DEF TeamInv, TeamTypeOK
  <2>3. QED  BY <1>6, <2>1, <2>2 DEF TeamInv, TeamTypeOK
<1>8. Complete'
  BY <1>4 DEF TeamInv, TeamTypeOK, Complete
<1>9. Located'
  BY <1>6 DEF TeamInv, Located
<1>10. UsedOnce'
  <2>1. \A e \in Docs : \A i, j \in DOMAIN events'[e] :
           events'[e][i].revision = events'[e][j].revision /\ events'[e][i].revision # Null => i = j
    BY <1>1, <1>5, NewRevision DEF TeamInv
  <2>2. QED  BY <1>6, <2>1 DEF TeamInv, UsedOnce
<1>11. QED  BY <1>7, <1>8, <1>9, <1>10 DEF TeamInv

\* Deleting keeps the invariant.
LEMMA DeleteStep ==
  ASSUME TeamAssumption, TeamInv, NEW d \in Docs, NEW by \in Actors, NEW expected,
         Delete(d, expected, by)
  PROVE  TeamInv'
<1> DEFINE event == [action |-> "delete", by |-> by, revision |-> Null]
<1>1. event \in KnowledgeEvents /\ event.revision = Null
  BY DEF KnowledgeEvents
<1>2. Note(d, event)
  BY DEF Delete
<1> HIDE DEF event
<1>3. UNCHANGED <<now, reviewed, grant, reading, imported, feedback>> /\ served' = Null
  BY DEF Delete, Unserved
<1>4. doc' = [doc EXCEPT ![d].status = "deleted", ![d].content = Null] /\ doc[d] \in DocRows
  BY DEF Delete, TeamInv, TeamTypeOK
<1>5. TeamTypeOK'
  <2>1. events' \in [Docs -> Seq(KnowledgeEvents)]
    BY <1>1, <1>2, Noted DEF TeamInv
  <2>2. [doc[d] EXCEPT !.status = "deleted", !.content = Null] \in DocRows
    BY <1>4 DEF DocRows
  <2>3. doc' \in [Docs -> DocRows]
    BY <1>4, <2>2 DEF TeamInv, TeamTypeOK
  <2>4. QED  BY <1>3, <2>1, <2>3 DEF TeamInv, TeamTypeOK
<1>6. Complete'
  <2>1. \A e \in Docs : doc'[e].status = "active" => e # d /\ doc'[e] = doc[e]
    BY <1>4 DEF TeamInv, TeamTypeOK, DocRows
  <2>2. QED  BY <2>1 DEF TeamInv, Complete
<1>7. Located'
  BY <1>3 DEF TeamInv, Located
<1>8. UsedOnce'
  <2>1. \A e \in Docs : \A i, j \in DOMAIN events'[e] :
           events'[e][i].revision = events'[e][j].revision /\ events'[e][i].revision # Null => i = j
    BY <1>1, <1>2, NewRevision DEF TeamInv
  <2>2. QED  BY <1>3, <2>1 DEF TeamInv, UsedOnce
<1>9. QED  BY <1>5, <1>6, <1>7, <1>8 DEF TeamInv

\* Time and the review of other assets keep the invariant.
LEMMA ReviewStep ==
  ASSUME TeamInv, Tick \/ \E a \in Reviewed : ReviewAsset(a)
  PROVE  TeamInv'
<1>1. CASE Tick
  BY <1>1 DEF Tick, Unserved, TeamInv, TeamTypeOK, Complete, Located, UsedOnce
<1>2. ASSUME NEW a \in Reviewed, ReviewAsset(a)
      PROVE  TeamInv'
  <2>1. UNCHANGED <<now, doc, events, grant, reading, imported, feedback>> /\ served' = Null
    BY <1>2 DEF ReviewAsset, Unserved
  <2> DEFINE Rows == [live : BOOLEAN, version : Nat, level : Levels]
  <2>2. reviewed' \in [Reviewed -> Rows]
    <3>1. reviewed \in [Reviewed -> Rows] /\ reviewed[a] \in Rows
      BY DEF TeamInv, TeamTypeOK
    <3>2. /\ [reviewed[a] EXCEPT !.live = TRUE, !.version = 2] \in Rows
          /\ [reviewed[a] EXCEPT !.live = FALSE, !.version = 3] \in Rows
      BY <3>1
    <3>3. \/ reviewed' = [reviewed EXCEPT ![a] = [reviewed[a] EXCEPT !.live = TRUE, !.version = 2]]
          \/ reviewed' = [reviewed EXCEPT ![a] = [reviewed[a] EXCEPT !.live = FALSE, !.version = 3]]
      BY <1>2, <3>1 DEF ReviewAsset
    <3> HIDE DEF Rows
    <3>4. QED  BY <3>1, <3>2, <3>3
  <2>3. TeamTypeOK'
    BY <2>1, <2>2 DEF TeamInv, TeamTypeOK
  <2>4. Complete' /\ Located' /\ UsedOnce'
    BY <2>1 DEF TeamInv, Complete, Located, UsedOnce
  <2>5. QED  BY <2>3, <2>4 DEF TeamInv
<1>3. QED  BY <1>1, <1>2

\* A grant keeps the invariant.
LEMMA GrantStep ==
  ASSUME TeamAssumption, TeamInv, NEW g \in Grants, NEW consumer \in Consumers, NEW a \in Assets,
         NEW version, NEW ceiling, NEW expires, NEW by \in Actors,
         CreateGrant(g, consumer, a, version, ceiling, expires, by)
  PROVE  TeamInv'
<1> DEFINE row == [status |-> "live", consumer |-> consumer, binding |-> Binding(a),
                   expires |-> expires, by |-> by]
<1>1. grant' = [grant EXCEPT ![g] = row] /\ grant[g] = Null
  BY DEF CreateGrant
<1>2. UNCHANGED <<now, doc, events, reviewed, reading, imported, feedback>> /\ served' = Null
  BY DEF CreateGrant, Unserved
<1>3. Binding(a) \in Bindings
  BY BoundAsset DEF CreateGrant, Resolves, TeamInv
<1>4. expires \in Nat
  BY DEF CreateGrant, Deadlines, TeamInv, TeamTypeOK, TeamAssumption
<1>5. row \in GrantRows
  BY <1>3, <1>4 DEF GrantRows
<1> HIDE DEF row
<1>6. TeamTypeOK'
  BY <1>1, <1>2, <1>5 DEF TeamInv, TeamTypeOK
<1>7. Complete' /\ UsedOnce'
  BY <1>2 DEF TeamInv, Complete, UsedOnce
<1>8. Located'
  <2> SUFFICES ASSUME NEW c \in Consumers, reading'[c] # Null
               PROVE  grant'[reading'[c].id] # Null /\ grant'[reading'[c].id].consumer = c
    BY DEF Located
  <2>1. grant[reading[c].id] # Null /\ grant[reading[c].id].consumer = c /\ reading'[c] = reading[c]
    BY <1>2 DEF TeamInv, Located
  <2>2. reading[c].id # g
    BY <1>1, <2>1
  <2>3. reading[c].id \in Grants
    BY <1>2 DEF TeamInv, TeamTypeOK
  <2>4. grant'[reading[c].id] = grant[reading[c].id]
    BY <1>1, <2>2, <2>3 DEF TeamInv, TeamTypeOK
  <2>5. QED  BY <2>1, <2>4
<1>9. QED  BY <1>6, <1>7, <1>8 DEF TeamInv

\* A revocation keeps the invariant.
LEMMA RevokeStep ==
  ASSUME TeamAssumption, TeamInv, NEW g \in Grants, Revoke(g)
  PROVE  TeamInv'
<1>1. grant' = [grant EXCEPT ![g].status = "revoked"] /\ grant[g] \in GrantRows
  BY DEF Revoke, TeamInv, TeamTypeOK
<1>2. UNCHANGED <<now, doc, events, reviewed, reading, imported, feedback>> /\ served' = Null
  BY DEF Revoke, Unserved
<1>3. /\ [grant[g] EXCEPT !.status = "revoked"] \in GrantRows
      /\ [grant[g] EXCEPT !.status = "revoked"].consumer = grant[g].consumer
  BY <1>1 DEF GrantRows
<1>4. [grant[g] EXCEPT !.status = "revoked"] # Null
  BY <1>3 DEF TeamAssumption
<1>5. TeamTypeOK'
  BY <1>1, <1>2, <1>3 DEF TeamInv, TeamTypeOK
<1>6. Complete' /\ UsedOnce'
  BY <1>2 DEF TeamInv, Complete, UsedOnce
<1>7. \A h \in Grants : grant[h] # Null => grant'[h] # Null /\ grant'[h].consumer = grant[h].consumer
  BY <1>1, <1>3, <1>4 DEF TeamInv, TeamTypeOK
<1>8. Located'
  BY <1>2, <1>7 DEF TeamInv, TeamTypeOK, Located
<1>9. QED  BY <1>5, <1>6, <1>8 DEF TeamInv

\* A shared read that finds a grant keeps the invariant.
LEMMA LocateStep ==
  ASSUME TeamAssumption, TeamInv, NEW c \in Consumers, NEW g \in Grants, Locate(c, g)
  PROVE  TeamInv'
<1> DEFINE found == [id |-> g, row |-> grant[g]]
<1>1. reading' = [reading EXCEPT ![c] = found] /\ grant[g] # Null /\ grant[g].consumer = c
  BY DEF Locate
<1>2. UNCHANGED <<now, doc, events, reviewed, grant, imported, feedback>> /\ served' = Null
  BY DEF Locate, Unserved
<1>3. grant[g] \in GrantRows
  BY <1>1 DEF TeamInv, TeamTypeOK
<1>4. found \in [id : Grants, row : GrantRows] /\ found.id = g
  BY <1>3
<1> HIDE DEF found
<1>5. TeamTypeOK'
  BY <1>1, <1>2, <1>4 DEF TeamInv, TeamTypeOK
<1>6. Complete' /\ UsedOnce'
  BY <1>2 DEF TeamInv, Complete, UsedOnce
<1>7. Located'
  BY <1>1, <1>2, <1>4 DEF TeamInv, TeamTypeOK, Located
<1>8. QED  BY <1>5, <1>6, <1>7 DEF TeamInv

\* A shared read that ends returns what is bound, and keeps the invariant.
LEMMA ReadStep ==
  ASSUME TeamAssumption, TeamInv, NEW c \in Consumers, NEW ceiling, ReadShared(c, ceiling)
  PROVE  TeamInv'
<1>1. reading' = [reading EXCEPT ![c] = Null] /\ reading[c] # Null
  BY DEF ReadShared
<1>2. UNCHANGED <<now, doc, events, reviewed, grant, imported, feedback>>
  BY DEF ReadShared
<1> DEFINE g == reading[c].id
<1>3. g \in Grants /\ grant[g] # Null /\ grant[g] \in GrantRows
  BY <1>1 DEF TeamInv, TeamTypeOK, Located
<1>4. served' \in [id : Grants, binding : Bindings] \cup {Null}
  <2>1. CASE Permits(grant[g], ceiling)
    <3>1. served' = [id |-> g, binding |-> Binding(grant[g].binding.asset)]
      BY <2>1 DEF ReadShared
    <3>2. Binding(grant[g].binding.asset) = grant[g].binding
      BY <2>1 DEF Permits
    <3>3. grant[g].binding \in Bindings
      BY <1>3 DEF GrantRows
    <3>4. QED  BY <1>3, <3>1, <3>2, <3>3
  <2>2. CASE ~Permits(grant[g], ceiling)
    BY <2>2 DEF ReadShared
  <2>3. QED  BY <2>1, <2>2
<1>5. TeamTypeOK'
  BY <1>1, <1>2, <1>4 DEF TeamInv, TeamTypeOK
<1>6. Complete' /\ UsedOnce'
  BY <1>2 DEF TeamInv, Complete, UsedOnce
<1>7. Located'
  BY <1>1, <1>2 DEF TeamInv, TeamTypeOK, Located
<1>8. QED  BY <1>5, <1>6, <1>7 DEF TeamInv

\* Feedback keeps the invariant.
LEMMA FeedbackStep ==
  ASSUME TeamAssumption, TeamInv, NEW key \in Keys, NEW reporter \in Consumers \cup {Owner},
         NEW actor \in Actors, NEW a \in Assets, NEW version \in Nat, NEW g \in Grants \cup {Null},
         NEW result, RecordFeedback(key, reporter, actor, a, version, g, result)
  PROVE  TeamInv'
<1> DEFINE row == [key |-> key, project |-> reporter, actor |-> actor, asset |-> a,
                   version |-> version, grant |-> g, outcome |-> result]
<1>1. UNCHANGED <<now, doc, events, reviewed, grant, reading, imported>> /\ served' = Null
  BY DEF RecordFeedback, Unserved
<1>2. feedback' = feedback \cup {row}
  BY DEF RecordFeedback
<1>3. row \in FeedbackRows
  <2>1. result \in {"not_attempted", "succeeded", "failed"}
    BY DEF RecordFeedback, TeamAssumption
  <2>2. QED  BY <2>1 DEF FeedbackRows
<1>4. \A f \in feedback :
        ~(f.project = row.project /\ f.actor = row.actor /\ f.asset = row.asset /\ f.version = row.version)
  BY DEF RecordFeedback
<1> HIDE DEF row
<1>5. TeamTypeOK'
  BY <1>1, <1>2, <1>3 DEF TeamInv, TeamTypeOK
<1>6. Complete' /\ Located'
  BY <1>1 DEF TeamInv, Complete, Located
<1>7. \A f, h \in feedback' :
        f.project = h.project /\ f.actor = h.actor /\ f.asset = h.asset /\ f.version = h.version => f = h
  BY <1>2, <1>4 DEF TeamInv, UsedOnce
<1>8. UsedOnce'
  BY <1>1, <1>7 DEF TeamInv, UsedOnce
<1>9. QED  BY <1>5, <1>6, <1>8 DEF TeamInv

\* Imports keep the invariant.
LEMMA ImportStep ==
  ASSUME TeamAssumption, TeamInv, Exchange
  PROVE  TeamInv'
<1>1. ASSUME NEW i \in Imports, NEW origin \in Origins, NEW claimed \in Levels, NEW level \in Levels,
             Ingest(i, origin, claimed, level)
      PROVE  TeamInv'
  <2> DEFINE row == [status |-> "quarantined", origin |-> origin, level |-> level, payload |-> origin]
  <2>1. UNCHANGED <<now, doc, events, reviewed, grant, reading, feedback>> /\ served' = Null
    BY <1>1 DEF Ingest, Unserved
  <2>2. imported' = [imported EXCEPT ![i] = row] /\ OriginFree(row.origin)
    BY <1>1 DEF Ingest
  <2>3. row \in ImportRows
    BY DEF ImportRows
  <2> HIDE DEF row
  <2>4. TeamTypeOK'
    BY <2>1, <2>2, <2>3 DEF TeamInv, TeamTypeOK
  <2>5. Complete' /\ Located'
    BY <2>1 DEF TeamInv, Complete, Located
  <2>6. \A k, l \in Imports :
          imported'[k] # Null /\ imported'[l] # Null /\ imported'[k].origin = imported'[l].origin => k = l
    BY <2>2 DEF TeamInv, TeamTypeOK, UsedOnce, OriginFree
  <2>7. UsedOnce'
    BY <2>1, <2>6 DEF TeamInv, UsedOnce
  <2>8. QED  BY <2>4, <2>5, <2>7 DEF TeamInv
<1>2. ASSUME NEW i \in Imports, ForgetImport(i)
      PROVE  TeamInv'
  <2>1. UNCHANGED <<now, doc, events, reviewed, grant, reading, feedback>> /\ served' = Null
    BY <1>2 DEF ForgetImport, Unserved
  <2>2. imported' = [imported EXCEPT ![i].status = "forgotten", ![i].payload = Null]
    BY <1>2 DEF ForgetImport
  <2>3. imported[i] # Null /\ imported[i] \in ImportRows
    BY <1>2 DEF ForgetImport, TeamInv, TeamTypeOK
  <2>4. /\ [imported[i] EXCEPT !.status = "forgotten", !.payload = Null] \in ImportRows
        /\ [imported[i] EXCEPT !.status = "forgotten", !.payload = Null].origin = imported[i].origin
    BY <2>3 DEF ImportRows
  <2>5. TeamTypeOK'
    BY <2>1, <2>2, <2>4 DEF TeamInv, TeamTypeOK
  <2>6. Complete' /\ Located'
    BY <2>1 DEF TeamInv, Complete, Located
  <2>7. \A k \in Imports : imported'[k] # Null => imported[k] # Null /\ imported'[k].origin = imported[k].origin
    BY <2>2, <2>3, <2>4 DEF TeamInv, TeamTypeOK
  <2>8. UsedOnce'
    BY <2>1, <2>7 DEF TeamInv, UsedOnce
  <2>9. QED  BY <2>5, <2>6, <2>8 DEF TeamInv
<1>3. QED  BY <1>1, <1>2 DEF Exchange

\* Versions of assets are natural numbers.
LEMMA VersionIsNat ==
  ASSUME TeamTypeOK, NEW a \in Assets, NEW version \in 1..Binding(a).version
  PROVE  version \in Nat
<1>1. Binding(a).version \in Nat
  <2>1. CASE a \in Docs
    BY <2>1 DEF Binding, DocVersion, TeamTypeOK
  <2>2. CASE a \notin Docs
    BY <2>2 DEF Binding, Assets, TeamTypeOK
  <2>3. QED  BY <2>1, <2>2
<1>2. QED  BY <1>1

\* The invariant is inductive.
LEMMA TeamInductive ==
  ASSUME TeamAssumption, TeamInv, [TeamNext]_teamVars
  PROVE  TeamInv'
<1>1. CASE Tick \/ \E a \in Reviewed : ReviewAsset(a)
  BY <1>1, ReviewStep
<1>2. CASE Publish
  BY <1>2, SyncStep, DeleteStep DEF Publish
<1>3. CASE Share
  BY <1>3, GrantStep, RevokeStep, LocateStep, ReadStep DEF Share
<1>4. CASE Exchange
  BY <1>4, ImportStep
<1>5. CASE Observe
  <2>1. PICK key \in Keys, reporter \in Consumers \cup {Owner}, actor \in Actors, a \in Assets :
          \E version \in 1..Binding(a).version, g \in Grants \cup {Null},
             result \in Evidence \cup {"not_attempted"} :
            RecordFeedback(key, reporter, actor, a, version, g, result)
    BY <1>5 DEF Observe
  <2>2. PICK version \in 1..Binding(a).version, g \in Grants \cup {Null},
             result \in Evidence \cup {"not_attempted"} :
          RecordFeedback(key, reporter, actor, a, version, g, result)
    BY <2>1
  <2>3. version \in Nat
    BY VersionIsNat DEF TeamInv
  <2>4. QED  BY <2>2, <2>3, FeedbackStep
<1>6. CASE UNCHANGED teamVars
  BY <1>6 DEF teamVars, TeamInv, TeamTypeOK, Complete, Located, UsedOnce
<1>7. QED  BY <1>1, <1>2, <1>3, <1>4, <1>5, <1>6 DEF TeamNext

\* The invariant holds at first.
LEMMA TeamInitial ==
  ASSUME TeamAssumption, TeamInit
  PROVE  TeamInv
<1>1. \A d \in Docs : doc[d] \in DocRows /\ doc[d].status = "absent" /\ events[d] = <<>>
  BY DEF TeamInit, DocRows
<1>2. doc \in [Docs -> DocRows] /\ events \in [Docs -> Seq(KnowledgeEvents)]
  BY <1>1 DEF TeamInit
<1>3. reviewed \in [Reviewed -> [live : BOOLEAN, version : Nat, level : Levels]]
  BY DEF TeamInit
<1>4. TeamTypeOK
  BY <1>2, <1>3 DEF TeamInit, TeamTypeOK
<1>5. Complete /\ Located
  BY <1>1 DEF TeamInit, Complete, Located
<1>6. UsedOnce
  BY <1>1 DEF TeamInit, UsedOnce
<1>7. QED  BY <1>4, <1>5, <1>6 DEF TeamInv

(***************************************************************************)
(* The theorems.                                                           *)
(***************************************************************************)

\* The invariant of the proof always holds.
THEOREM TeamIsSafe ==
  ASSUME TeamAssumption
  PROVE  TeamSpec => []TeamInv
<1>1. TeamInit => TeamInv
  BY TeamInitial
<1>2. TeamInv /\ [TeamNext]_teamVars => TeamInv'
  BY TeamInductive
<1>3. QED  BY <1>1, <1>2, PTL DEF TeamSpec

\* What was published, imported and observed is there once: Sync, Ingest and
\* RecordFeedback never use a revision, an archive or an observation again.
THEOREM AssetsStaySound ==
  ASSUME TeamAssumption
  PROVE  TeamSpec => []AssetsAreSound
<1>1. TeamInv => AssetsAreSound
  BY DEF TeamInv, AssetsAreSound
<1>2. QED  BY <1>1, TeamIsSafe, PTL

\* A shared read that ends shows what its grant fixed.
LEMMA ReadShows ==
  ASSUME TeamInv, NEW c \in Consumers, NEW ceiling, ReadShared(c, ceiling), served' # Null
  PROVE  LET row == grant[served'.id] IN
         /\ row.consumer = c
         /\ row.status = "live" /\ now < row.expires
         /\ served'.binding = row.binding
         /\ Live(row.binding.asset)
<1> DEFINE g == reading[c].id
<1>1. grant[g].consumer = c
  BY DEF ReadShared, TeamInv, Located
<1>2. Permits(grant[g], ceiling) /\ served' = [id |-> g, binding |-> Binding(grant[g].binding.asset)]
  BY DEF ReadShared
<1>3. served'.id = g /\ served'.binding = Binding(grant[g].binding.asset)
  BY <1>2
<1>4. QED  BY <1>1, <1>2, <1>3 DEF Permits, Resolves

\* Nothing else than a shared read changes what shared reads found.
LEMMA OnlySharedReads ==
  ASSUME [TeamNext]_teamVars,
         ~(\E c \in Consumers, ceiling \in Levels : ReadShared(c, ceiling)),
         ~(\E c \in Consumers, g \in Grants : Locate(c, g))
  PROVE  reading' = reading
<1>1. CASE Tick \/ \E a \in Reviewed : ReviewAsset(a)
  BY <1>1 DEF Tick, ReviewAsset
<1>2. CASE Publish
  BY <1>2 DEF Publish, Sync, Delete
<1>3. CASE Share
  BY <1>3 DEF Share, CreateGrant, Revoke
<1>4. CASE Exchange
  BY <1>4 DEF Exchange, Ingest, ForgetImport
<1>5. CASE Observe
  BY <1>5 DEF Observe, RecordFeedback
<1>6. QED  BY <1>1, <1>2, <1>3, <1>4, <1>5 DEF TeamNext, teamVars

\* What a project is shown through a grant is what was granted, while it is: only
\* ReadShared ends a shared read, and it looks again under the lock of the owner.
THEOREM ReadsAsGranted ==
  ASSUME TeamAssumption
  PROVE  TeamSpec => SharedAsGranted
<1> DEFINE Granted(c) ==
      LET row == grant[served'.id] IN
      /\ row.consumer = c
      /\ row.status = "live" /\ now < row.expires
      /\ served'.binding = row.binding
      /\ Live(row.binding.asset)
<1>1. ASSUME TeamInv, [TeamNext]_teamVars, NEW c \in Consumers,
             reading[c] # Null, reading'[c] = Null, served' # Null
      PROVE  Granted(c)
  <2>1. reading' # reading
    BY <1>1
  <2>2. CASE \E k \in Consumers, ceiling \in Levels : ReadShared(k, ceiling)
    <3>1. PICK k \in Consumers, ceiling \in Levels : ReadShared(k, ceiling)
      BY <2>2
    <3>2. reading' = [reading EXCEPT ![k] = Null]
      BY <3>1 DEF ReadShared
    <3>3. k = c
      BY <1>1, <3>2 DEF TeamInv, TeamTypeOK
    <3>4. QED  BY <1>1, <3>1, <3>3, ReadShows
  <2>3. CASE \E k \in Consumers, g \in Grants : Locate(k, g)
    BY <1>1, <2>3 DEF Locate, Unserved
  <2>4. CASE ~(\E k \in Consumers, ceiling \in Levels : ReadShared(k, ceiling))
             /\ ~(\E k \in Consumers, g \in Grants : Locate(k, g))
    <3>1. reading' = reading
      BY <1>1, <2>4, OnlySharedReads
    <3>2. QED  BY <2>1, <3>1
  <2>5. QED  BY <2>2, <2>3, <2>4
<1>2. TeamInv /\ [TeamNext]_teamVars =>
        [\A c \in Consumers : reading[c] # Null /\ reading'[c] = Null /\ served' # Null => Granted(c)]_teamVars
  BY <1>1
<1> HIDE DEF Granted
<1>3. TeamSpec => [][\A c \in Consumers :
                   reading[c] # Null /\ reading'[c] = Null /\ served' # Null => Granted(c)]_teamVars
  BY <1>2, TeamIsSafe, PTL DEF TeamSpec
<1>4. QED  BY <1>3 DEF SharedAsGranted, Granted

(***************************************************************************)
(* The signing keys.  What calls know of the issuer is stated of a record  *)
(* I of what it published and withdrew.                                    *)
(***************************************************************************)

\* A set of keys that were asked for at t holds all that were published before,
\* and none that was withdrawn before.
Covers(I, K, t) ==
  /\ \A k \in K : I[k].from # Unset /\ (I[k].until # Unset => I[k].until >= t)
  /\ \A k \in Kids : I[k].from # Unset /\ I[k].until = Unset /\ I[k].from < t => k \in K

IssuedBefore(I, t) ==
  \A k \in Kids : /\ I[k].from # Unset => I[k].from <= t
                  /\ I[k].until # Unset => I[k].until <= t

\* An answer under way covers the time at which it was asked for.
GoodWait(I, v, t) ==
  v # Unset =>
    /\ v.since <= v.at /\ v.at <= t
    /\ v.stage = "answer" => Covers(I, v.document, v.at)

KeysInv ==
  /\ KeysTypeOK /\ IssuedBefore(issuer, moment)
  /\ loaded_at <= moment /\ Covers(issuer, keys, loaded_at)
  /\ \A c \in Verifications : GoodWait(issuer, verifying[c], moment)
  /\ VerdictsAreJustified

\* What the issuer does to a key spoils nothing that was asked for before.
LEMMA CoversOn ==
  ASSUME NEW I \in [Kids -> Issued], NEW k \in Kids, NEW m \in Nat, NEW J \in [Kids -> Issued],
         m # Unset,
         \/ I[k].from = Unset /\ J = [I EXCEPT ![k] = [from |-> m, until |-> Unset]]
         \/ I[k].until = Unset /\ J = [I EXCEPT ![k] = [from |-> I[k].from, until |-> m]],
         NEW K \in SUBSET Kids, NEW t \in Int, t <= m, Covers(I, K, t)
  PROVE  Covers(J, K, t)
<1>1. \A j \in Kids : j # k => J[j] = I[j]
  OBVIOUS
<1>2. CASE I[k].from = Unset /\ J = [I EXCEPT ![k] = [from |-> m, until |-> Unset]]
  <2>1. J[k].from = m /\ k \notin K
    BY <1>2 DEF Covers, Issued
  <2>2. ~(m < t)
    OBVIOUS
  <2>3. QED  BY <1>1, <2>1, <2>2 DEF Covers
<1>3. CASE I[k].until = Unset /\ J = [I EXCEPT ![k] = [from |-> I[k].from, until |-> m]]
  <2>1. J[k].from = I[k].from /\ J[k].until = m
    BY <1>3 DEF Issued
  <2>2. m >= t
    OBVIOUS
  <2>3. QED  BY <1>1, <2>1, <2>2 DEF Covers
<1>4. QED  BY <1>2, <1>3

\* Publishing or withdrawing a key.
LEMMA IssuerStep ==
  ASSUME KeysAssumption, KeysInv, NEW k \in Kids, PublishKey(k) \/ WithdrawKey(k)
  PROVE  KeysInv'
<1> USE DEF KeysInv
<1>1. UNCHANGED <<moment, keys, loaded_at, last_attempt, verifying>> /\ verdict' = Unset
  BY DEF PublishKey, WithdrawKey
<1>2. /\ moment \in Nat /\ loaded_at \in Int /\ keys \in SUBSET Kids /\ moment # Unset
      /\ issuer \in [Kids -> Issued] /\ verifying \in [Verifications -> Waiting \cup {Unset}]
  BY DEF KeysTypeOK, KeysAssumption
<1>3. \/ /\ issuer[k].from = Unset
         /\ issuer' = [issuer EXCEPT ![k] = [from |-> moment, until |-> Unset]]
      \/ /\ issuer[k].until = Unset
         /\ issuer' = [issuer EXCEPT ![k] = [from |-> issuer[k].from, until |-> moment]]
  BY DEF PublishKey, WithdrawKey, Valid
<1>4. issuer' \in [Kids -> Issued] /\ IssuedBefore(issuer', moment)
  <2>1. PICK from \in Nat \cup {Unset}, until \in {moment, Unset} :
          /\ issuer' = [issuer EXCEPT ![k] = [from |-> from, until |-> until]]
          /\ from # Unset => from <= moment
    <3>1. issuer[k].from \in Nat \cup {Unset}
      BY <1>2 DEF Issued
    <3>2. issuer[k].from # Unset => issuer[k].from <= moment
      BY DEF IssuedBefore
    <3>3. moment \in Nat \cup {Unset} /\ moment <= moment
      BY <1>2
    <3>4. QED  BY <1>3, <3>1, <3>2, <3>3
  <2>2. [from |-> from, until |-> until] \in Issued
    BY <1>2 DEF Issued
  <2>3. issuer' \in [Kids -> Issued]
    BY <1>2, <2>1, <2>2
  <2>4. \A j \in Kids : issuer'[j] = IF j = k THEN [from |-> from, until |-> until] ELSE issuer[j]
    BY <1>2, <2>1
  <2>5. IssuedBefore(issuer', moment)
    BY <1>2, <2>1, <2>4 DEF IssuedBefore
  <2>6. QED  BY <2>3, <2>5
<1>5. Covers(issuer', keys, loaded_at)
  BY <1>2, <1>3, <1>4, CoversOn
<1>6. ASSUME NEW c \in Verifications PROVE GoodWait(issuer', verifying[c], moment)
  <2>1. SUFFICES ASSUME verifying[c] # Unset, verifying[c].stage = "answer"
                 PROVE  Covers(issuer', verifying[c].document, verifying[c].at)
    BY DEF GoodWait
  <2>2. /\ verifying[c].document \in SUBSET Kids /\ verifying[c].at \in Int
        /\ verifying[c].at <= moment
        /\ Covers(issuer, verifying[c].document, verifying[c].at)
    BY <1>2, <2>1 DEF Waiting, GoodWait
  <2>3. QED  BY <1>2, <1>3, <1>4, <2>2, CoversOn
<1>7. KeysTypeOK'
  BY <1>1, <1>2, <1>4 DEF KeysTypeOK
<1>8. VerdictsAreJustified'
  BY <1>1 DEF VerdictsAreJustified, AcceptedIsFresh, RefusedIsUnknown
<1>9. QED  BY <1>1, <1>4, <1>5, <1>6, <1>7, <1>8

LEMMA KeysTickStep == ASSUME KeysInv, KeysTick PROVE KeysInv'
<1> USE DEF KeysInv
<1>1. /\ moment' = moment + 1 /\ verdict' = Unset
      /\ UNCHANGED <<issuer, keys, loaded_at, last_attempt, verifying>>
  BY DEF KeysTick
<1>2. /\ moment \in Nat /\ loaded_at \in Int /\ issuer \in [Kids -> Issued]
      /\ verifying \in [Verifications -> Waiting \cup {Unset}]
  BY DEF KeysTypeOK
<1>3. KeysTypeOK'
  BY <1>1, <1>2 DEF KeysTypeOK
<1>4. IssuedBefore(issuer, moment + 1)
  <2> SUFFICES ASSUME NEW k \in Kids
               PROVE  /\ issuer[k].from # Unset => issuer[k].from <= moment + 1
                      /\ issuer[k].until # Unset => issuer[k].until <= moment + 1
    BY DEF IssuedBefore
  <2>1. issuer[k].from \in Nat \cup {Unset} /\ issuer[k].until \in Nat \cup {Unset}
    BY <1>2 DEF Issued
  <2>2. /\ issuer[k].from # Unset => issuer[k].from <= moment
        /\ issuer[k].until # Unset => issuer[k].until <= moment
    BY DEF IssuedBefore
  <2>3. QED  BY <1>2, <2>1, <2>2
<1>5. ASSUME NEW c \in Verifications PROVE GoodWait(issuer, verifying[c], moment + 1)
  <2>1. verifying[c] # Unset => verifying[c].at \in Nat
    BY <1>2 DEF Waiting
  <2>2. QED  BY <1>2, <2>1 DEF GoodWait
<1>6. VerdictsAreJustified'
  BY <1>1 DEF VerdictsAreJustified, AcceptedIsFresh, RefusedIsUnknown
<1>7. QED  BY <1>1, <1>2, <1>3, <1>4, <1>5, <1>6

\* A key that is cached was not withdrawn a lifetime ago.
LEMMA CachedIsFresh ==
  ASSUME KeysAssumption, KeysInv, NEW k \in Kids, Cached(k), NEW since \in Nat, since <= moment
  PROVE  /\ issuer[k].from # Unset
         /\ issuer[k].until # Unset => since < issuer[k].until + Lifetime
<1>1. issuer[k].from # Unset /\ (issuer[k].until # Unset => issuer[k].until >= loaded_at)
  BY DEF KeysInv, Covers, Cached
<1>2. issuer[k].until \in Nat \cup {Unset} /\ loaded_at \in Int /\ moment \in Nat /\ Lifetime \in Nat
  BY DEF KeysInv, KeysTypeOK, Issued, KeysAssumption
<1>3. moment - loaded_at < Lifetime
  BY DEF Cached
<1>4. QED  BY <1>1, <1>2, <1>3

\* A key that is not is new, or the keys are old and somebody asked in vain.
LEMMA UncachedIsUnknown ==
  ASSUME KeysAssumption, KeysInv, NEW k \in Kids, ~Cached(k), Early, Valid(k)
  PROVE  \/ issuer[k].from >= loaded_at
         \/ loaded_at < last_attempt /\ moment - loaded_at >= Lifetime
<1>1. /\ issuer[k].from \in Nat /\ loaded_at \in Int /\ moment \in Nat /\ last_attempt \in Int
      /\ Lifetime \in Nat /\ RetryGap \in Nat /\ RetryGap <= Lifetime
  BY DEF KeysInv, KeysTypeOK, Issued, KeysAssumption, Valid
<1>2. CASE k \in keys
  <2>1. ~(moment - loaded_at < Lifetime) /\ moment - last_attempt < RetryGap
    BY <1>2 DEF Cached, Early
  <2>2. QED  BY <1>1, <2>1
<1>3. CASE k \notin keys
  <2>1. ~(issuer[k].from < loaded_at)
    BY <1>3 DEF KeysInv, Covers, Valid
  <2>2. QED  BY <1>1, <2>1
<1>4. QED  BY <1>2, <1>3

\* A call changes what it waits for itself, and nothing of the others.
LEMMA OneWaits ==
  ASSUME KeysInv, NEW c \in Verifications, NEW v \in Waiting \cup {Unset},
         verifying' = [verifying EXCEPT ![c] = v], GoodWait(issuer, v, moment)
  PROVE  /\ verifying' \in [Verifications -> Waiting \cup {Unset}]
         /\ \A d \in Verifications : GoodWait(issuer, verifying'[d], moment)
<1>1. verifying \in [Verifications -> Waiting \cup {Unset}]
  BY DEF KeysInv, KeysTypeOK
<1>2. \A d \in Verifications : verifying'[d] = IF d = c THEN v ELSE verifying[d]
  BY <1>1
<1>3. QED  BY <1>1, <1>2 DEF KeysInv

LEMMA LookUpStep ==
  ASSUME KeysAssumption, KeysInv, NEW c \in Verifications, NEW k \in Kids, NEW since \in Nat,
         since <= moment, LookUp(c, k, since)
  PROVE  KeysInv'
<1>1. UNCHANGED <<moment, issuer, keys, loaded_at>>
  BY DEF LookUp
<1>2. moment \in Nat /\ last_attempt \in Int
  BY DEF KeysInv, KeysTypeOK
<1>3. SUFFICES /\ last_attempt' \in Int /\ verdict' \in Verdicts \cup {Unset}
               /\ verifying' \in [Verifications -> Waiting \cup {Unset}]
               /\ \A d \in Verifications : GoodWait(issuer, verifying'[d], moment)
               /\ VerdictsAreJustified'
  BY <1>1 DEF KeysInv, KeysTypeOK
<1>4. ASSUME NEW what \in {"accepted", "unavailable"}, Judged(c, k, what, since)
      PROVE  /\ verdict' = [kid |-> k, says |-> what, since |-> since]
             /\ verdict' \in Verdicts \cup {Unset}
             /\ verifying' \in [Verifications -> Waiting \cup {Unset}]
             /\ \A d \in Verifications : GoodWait(issuer, verifying'[d], moment)
  <2>1. verdict' = [kid |-> k, says |-> what, since |-> since] /\ verifying' = [verifying EXCEPT ![c] = Unset]
    BY <1>4 DEF Judged
  <2>2. GoodWait(issuer, Unset, moment)
    BY DEF GoodWait
  <2>3. QED  BY <2>1, <2>2, OneWaits DEF Verdicts
<1>5. CASE Cached(k) /\ Judged(c, k, "accepted", since) /\ UNCHANGED last_attempt
  <2>1. /\ issuer[k].from # Unset
        /\ issuer[k].until # Unset => since < issuer[k].until + Lifetime
    BY <1>5, CachedIsFresh
  <2>2. VerdictsAreJustified'
    BY <1>1, <1>4, <1>5, <2>1 DEF VerdictsAreJustified, AcceptedIsFresh, RefusedIsUnknown
  <2>3. QED  BY <1>2, <1>4, <1>5, <2>2
<1>6. CASE ~Cached(k) /\ Early /\ Judged(c, k, "unavailable", since) /\ UNCHANGED last_attempt
  <2>1. Valid(k) => \/ issuer[k].from >= loaded_at
                    \/ loaded_at < last_attempt /\ moment - loaded_at >= Lifetime
    BY <1>6, UncachedIsUnknown
  <2>2. VerdictsAreJustified'
    BY <1>1, <1>4, <1>6, <2>1 DEF VerdictsAreJustified, AcceptedIsFresh, RefusedIsUnknown, Valid
  <2>3. QED  BY <1>2, <1>4, <1>6, <2>2
<1>7. CASE ~Cached(k) /\ ~Early /\ Waits(c, "issuer", k, since) /\ last_attempt' = moment
  <2> DEFINE v == [stage |-> "issuer", kid |-> k, since |-> since, at |-> moment, document |-> {}]
  <2>1. verifying' = [verifying EXCEPT ![c] = v] /\ verdict' = Unset
    BY <1>7 DEF Waits
  <2>2. v \in Waiting \cup {Unset} /\ GoodWait(issuer, v, moment)
    BY <1>2 DEF Waiting, GoodWait
  <2> HIDE DEF v
  <2>3. VerdictsAreJustified'
    BY <2>1 DEF VerdictsAreJustified, AcceptedIsFresh, RefusedIsUnknown
  <2>4. /\ verifying' \in [Verifications -> Waiting \cup {Unset}]
        /\ \A d \in Verifications : GoodWait(issuer, verifying'[d], moment)
    BY <2>1, <2>2, OneWaits
  <2>5. last_attempt' \in Int
    BY <1>2, <1>7
  <2>6. QED  BY <2>1, <2>3, <2>4, <2>5
<1>8. QED  BY <1>5, <1>6, <1>7 DEF LookUp

\* The calls that only go on or stop waiting.
LEMMA WaitStep ==
  ASSUME KeysAssumption, KeysInv, NEW c \in Verifications,
         \/ \E k \in Kids : Queue(c, k)
         \/ Answer(c)
         \/ GiveUpKey(c)
  PROVE  KeysInv'
<1>1. UNCHANGED <<moment, issuer, keys, loaded_at, last_attempt>> /\ verdict' = Unset
  BY DEF Queue, Waits, Answer, GiveUpKey
<1>2. /\ moment \in Nat /\ issuer \in [Kids -> Issued]
      /\ verifying \in [Verifications -> Waiting \cup {Unset}]
  BY DEF KeysInv, KeysTypeOK
<1>3. \E v \in Waiting \cup {Unset} :
        verifying' = [verifying EXCEPT ![c] = v] /\ GoodWait(issuer, v, moment)
  <2>1. ASSUME NEW k \in Kids, Queue(c, k)
        PROVE  \E v \in Waiting \cup {Unset} :
                 verifying' = [verifying EXCEPT ![c] = v] /\ GoodWait(issuer, v, moment)
    <3> DEFINE v == [stage |-> "lock", kid |-> k, since |-> moment, at |-> moment, document |-> {}]
    <3>1. verifying' = [verifying EXCEPT ![c] = v]
      BY <2>1 DEF Queue, Waits
    <3>2. v \in Waiting /\ GoodWait(issuer, v, moment)
      BY <1>2 DEF Waiting, GoodWait
    <3> HIDE DEF v
    <3>3. QED  BY <3>1, <3>2
  <2>2. CASE Answer(c)
    <3> DEFINE document == {k \in Kids : Valid(k)}
               u == verifying[c]
               v == [stage |-> "answer", kid |-> u.kid, since |-> u.since, at |-> u.at,
                     document |-> document]
    <3>1. u \in Waiting
      BY <1>2, <2>2 DEF Answer
    <3>2. verifying' = [verifying EXCEPT ![c] = v]
      BY <2>2 DEF Answer
    <3>3. v \in Waiting /\ v.document = document /\ v.at = u.at /\ v.since = u.since
      BY <3>1 DEF Waiting
    <3>4. v.since <= v.at /\ v.at <= moment
      BY <2>2, <3>3 DEF KeysInv, GoodWait, Answer
    <3>5. Covers(issuer, v.document, v.at)
      BY <3>3 DEF Covers, Valid
    <3> HIDE DEF v
    <3>6. QED  BY <3>2, <3>3, <3>4, <3>5 DEF GoodWait
  <2>3. CASE GiveUpKey(c)
    BY <2>3 DEF GiveUpKey, GoodWait
  <2>4. QED  BY <2>1, <2>2, <2>3
<1>4. VerdictsAreJustified'
  BY <1>1 DEF VerdictsAreJustified, AcceptedIsFresh, RefusedIsUnknown
<1>5. QED  BY <1>1, <1>3, <1>4, OneWaits DEF KeysInv, KeysTypeOK

LEMMA LoadStep ==
  ASSUME KeysAssumption, KeysInv, NEW c \in Verifications, Load(c)
  PROVE  KeysInv'
<1> DEFINE v == verifying[c]
           what == IF v.kid \in v.document THEN "accepted" ELSE "unknown"
<1>1. /\ v \in Waiting /\ v.stage = "answer" /\ GoodWait(issuer, v, moment) /\ v # Unset
  BY DEF KeysInv, KeysTypeOK, Load
<1>2. /\ keys' = v.document /\ loaded_at' = v.at
      /\ verdict' = [kid |-> v.kid, says |-> what, since |-> v.since]
      /\ verifying' = [verifying EXCEPT ![c] = Unset]
      /\ UNCHANGED <<moment, issuer, last_attempt>>
  BY DEF Load, LoadedAt, Judged
<1>3. /\ v.kid \in Kids /\ v.since \in Nat /\ v.at \in Nat /\ v.document \in SUBSET Kids
      /\ moment \in Nat /\ issuer[v.kid] \in Issued /\ Lifetime \in Nat \ {0}
  BY <1>1 DEF Waiting, KeysInv, KeysTypeOK, KeysAssumption
<1>4. v.since <= v.at /\ v.at <= moment /\ Covers(issuer, v.document, v.at)
  BY <1>1 DEF GoodWait
<1>5. GoodWait(issuer, Unset, moment)
  BY DEF GoodWait
<1> HIDE DEF v
<1>6. what = "accepted" =>
        /\ issuer[v.kid].from # Unset
        /\ issuer[v.kid].until # Unset => v.since < issuer[v.kid].until + Lifetime
  <2> SUFFICES ASSUME v.kid \in v.document
               PROVE  /\ issuer[v.kid].from # Unset
                      /\ issuer[v.kid].until # Unset => v.since < issuer[v.kid].until + Lifetime
    OBVIOUS
  <2>1. /\ issuer[v.kid].from # Unset
        /\ issuer[v.kid].until # Unset => issuer[v.kid].until >= v.at
    BY <1>4 DEF Covers
  <2>2. QED  BY <1>3, <1>4, <2>1 DEF Issued
<1>7. what # "accepted" /\ issuer[v.kid].from # Unset /\ issuer[v.kid].until = Unset =>
        issuer[v.kid].from >= v.at
  BY <1>3, <1>4 DEF Covers, Issued
<1>8. what \in {"accepted", "unknown"}
  OBVIOUS
<1> HIDE DEF what
<1>9. VerdictsAreJustified'
  BY <1>2, <1>6, <1>7 DEF VerdictsAreJustified, AcceptedIsFresh, RefusedIsUnknown, Valid
<1>10. verdict' \in Verdicts
  BY <1>2, <1>3, <1>8 DEF Verdicts
<1>11. QED  BY <1>2, <1>3, <1>4, <1>5, <1>9, <1>10, OneWaits DEF KeysInv, KeysTypeOK

LEMMA KeysStart == ASSUME KeysAssumption, KeysInit PROVE KeysInv
<1> USE DEF KeysInit
<1>1. Lifetime \in Nat /\ RetryGap \in Nat /\ Unset \notin Nat
  BY DEF KeysAssumption
<1>2. KeysTypeOK
  BY <1>1 DEF KeysTypeOK, Issued
<1>3. IssuedBefore(issuer, moment) /\ Covers(issuer, keys, loaded_at) /\ loaded_at <= moment
  BY <1>1 DEF IssuedBefore, Covers
<1>4. \A c \in Verifications : GoodWait(issuer, verifying[c], moment)
  BY DEF GoodWait
<1>5. VerdictsAreJustified
  BY DEF VerdictsAreJustified, AcceptedIsFresh, RefusedIsUnknown
<1>6. QED  BY <1>2, <1>3, <1>4, <1>5 DEF KeysInv

\* Whatever was loaded, and whatever is under way, covers the time at which the
\* issuer was asked for it.
THEOREM KeysAreSafe == KeysSpec => []KeysInv
<1>1. KeysInit => KeysInv
  BY KeysAssumption, KeysStart
<1>2. ASSUME KeysInv, [KeysNext]_keysVars PROVE KeysInv'
  <2>1. ASSUME NEW c \in Verifications, NEW k \in Kids, Verify(c, k) PROVE KeysInv'
    <3>1. moment \in Nat
      BY <1>2 DEF KeysInv, KeysTypeOK
    <3>2. QED  BY <1>2, <2>1, <3>1, KeysAssumption, LookUpStep DEF Verify
  <2>2. ASSUME NEW c \in Verifications, Enter(c) PROVE KeysInv'
    <3>1. verifying[c] \in Waiting /\ GoodWait(issuer, verifying[c], moment) /\ verifying[c] # Unset
      BY <1>2, <2>2 DEF Enter, KeysInv, KeysTypeOK
    <3>2. /\ verifying[c].kid \in Kids /\ verifying[c].since \in Nat /\ verifying[c].at \in Nat
          /\ moment \in Nat
      BY <1>2, <3>1 DEF Waiting, KeysInv, KeysTypeOK
    <3>3. verifying[c].since <= moment
      BY <3>1, <3>2 DEF GoodWait
    <3>4. PICK k \in Kids, since \in Nat : since <= moment /\ LookUp(c, k, since)
      BY <2>2, <3>2, <3>3 DEF Enter
    <3>5. QED  BY <1>2, <3>4, KeysAssumption, LookUpStep
  <2>3. CASE UNCHANGED keysVars
    BY <1>2, <2>3 DEF keysVars, KeysInv, KeysTypeOK, VerdictsAreJustified, AcceptedIsFresh,
                      RefusedIsUnknown, Valid
  <2>4. CASE KeysNext
    BY <1>2, <2>1, <2>2, <2>4, KeysAssumption, IssuerStep, KeysTickStep, WaitStep, LoadStep DEF KeysNext
  <2>5. QED  BY <1>2, <2>3, <2>4
<1>3. QED  BY <1>1, <1>2, PTL DEF KeysSpec

\* However many calls race for the keys, and whatever the issuer does meanwhile,
\* each is judged by keys that are young enough, and by all of them.
THEOREM VerdictsStayJustified == KeysSpec => []VerdictsAreJustified
<1>1. KeysInv => VerdictsAreJustified
  BY DEF KeysInv
<1>2. QED  BY <1>1, KeysAreSafe, PTL

(***************************************************************************)
(* Logins from GitHub.  What calls and the cache hold was said of a token  *)
(* by GitHub: by then it was good, and it is that account's for ever.      *)
(***************************************************************************)

Vouched(t, found) ==
  /\ apptoken[t].owner = found.owner
  /\ apptoken[t].until # Nobody => found.said <= apptoken[t].until
  /\ found.said <= found.came /\ found.came <= instant

\* What a call holds when it goes on.
GoodLogin(call) ==
  call # Nobody =>
    /\ call.since <= instant
    /\ call.stage \notin {"exchange", "failed"} => call.token # Nobody
    /\ call.stage \in {"told", "resolve", "read"} =>
         call.found \in Answers /\ Vouched(call.token, call.found)
    /\ call.stage \in {"resolve", "read"} =>
         Permitted(call.found) /\ call.since < call.found.came + CacheTime
    /\ call.stage = "read" => identities[call.found.owner] # Nobody

GoodEntry(t) ==
  confirmed[t] # Nobody =>
    /\ Vouched(t, confirmed[t].found)
    /\ confirmed[t].deadline = confirmed[t].found.came + CacheTime

AttemptsInOrder ==
  \A i \in 1..Len(attempts), j \in 1..Len(attempts) :
    (i <= j => attempts[i] <= attempts[j]) /\ attempts[i] <= instant

LoginInv ==
  /\ LoginTypeOK
  /\ \A t \in AppTokens : GoodEntry(t)
  /\ \A c \in Logins : GoodLogin(login[c])
  /\ AttemptsInOrder
  /\ LoginIsSound

\* What is vouched for stays so, whatever becomes of tokens, and what a call holds
\* stays good as long as no account is forgotten.
LEMMA VouchedStays ==
  ASSUME LoginAssumption, LoginTypeOK,
         instant' \in Nat, instant <= instant',
         \A t \in AppTokens :
           \/ apptoken'[t] = apptoken[t]
           \/ apptoken[t].owner = Nobody
           \/ apptoken'[t].owner = apptoken[t].owner /\ apptoken'[t].until = instant,
         NEW t \in AppTokens, NEW found \in Answers, Vouched(t, found)
  PROVE  Vouched(t, found)'
<1>1. /\ instant \in Nat /\ found.owner \in GitHubIds /\ found.said \in Nat /\ found.came \in Nat
      /\ Nobody \notin GitHubIds
  BY DEF LoginTypeOK, Answers, LoginAssumption
<1>2. /\ apptoken[t].owner = found.owner /\ apptoken[t].owner # Nobody
      /\ found.said <= instant /\ found.came <= instant'
  BY <1>1 DEF Vouched
<1>3. CASE apptoken'[t] = apptoken[t]
  BY <1>2, <1>3 DEF Vouched
<1>4. CASE apptoken'[t].owner = apptoken[t].owner /\ apptoken'[t].until = instant
  BY <1>2, <1>4 DEF Vouched
<1>5. QED  BY <1>2, <1>3, <1>4

LEMMA GoodLoginStays ==
  ASSUME LoginAssumption, NobodyAssumption, LoginTypeOK,
         instant' \in Nat, instant <= instant',
         \A t \in AppTokens :
           \/ apptoken'[t] = apptoken[t]
           \/ apptoken[t].owner = Nobody
           \/ apptoken'[t].owner = apptoken[t].owner /\ apptoken'[t].until = instant,
         \A u \in GitHubIds : identities[u] # Nobody => identities'[u] # Nobody,
         NEW call \in LoginCalls \cup {Nobody}, GoodLogin(call)
  PROVE  GoodLogin(call)'
<1> SUFFICES ASSUME call # Nobody PROVE GoodLogin(call)'
  BY DEF GoodLogin
<1>1. /\ call.since \in Nat /\ instant \in Nat /\ call.token \in AppTokens \cup {Nobody}
      /\ call.found \in Answers \cup {Nobody}
  BY DEF LoginCalls, LoginTypeOK
<1>2. call.since <= instant'
  BY <1>1 DEF GoodLogin
<1>3. call.stage \in {"told", "resolve", "read"} =>
        call.found \in Answers /\ Vouched(call.token, call.found)'
  <2> SUFFICES ASSUME call.stage \in {"told", "resolve", "read"}
               PROVE  call.found \in Answers /\ Vouched(call.token, call.found)'
    OBVIOUS
  <2>1. call.found \in Answers /\ call.token # Nobody /\ Vouched(call.token, call.found)
    BY DEF GoodLogin
  <2>2. QED  BY <1>1, <2>1, VouchedStays
<1>4. call.stage = "read" => identities'[call.found.owner] # Nobody
  <2> SUFFICES ASSUME call.stage = "read" PROVE identities'[call.found.owner] # Nobody
    OBVIOUS
  <2>1. call.found \in Answers /\ identities[call.found.owner] # Nobody
    BY DEF GoodLogin
  <2>2. call.found.owner \in GitHubIds
    BY <1>1, <2>1 DEF Answers
  <2>3. QED  BY <2>1, <2>2
<1>5. QED  BY <1>2, <1>3, <1>4 DEF GoodLogin, Permitted

\* The steps of others, and of the clock, which no call takes.
LEMMA OutsideStep ==
  ASSUME LoginAssumption, NobodyAssumption, LoginInv,
         LoginTypeOK', OneAccountPerUser',
         outcome' = Nobody, UNCHANGED <<confirmed, attempts, active, login>>,
         instant <= instant',
         \A t \in AppTokens :
           \/ apptoken'[t] = apptoken[t]
           \/ apptoken[t].owner = Nobody
           \/ apptoken'[t].owner = apptoken[t].owner /\ apptoken'[t].until = instant,
         \A u \in GitHubIds : identities[u] # Nobody => identities'[u] # Nobody
  PROVE  LoginInv'
<1>1. LoginTypeOK /\ instant' \in Nat
  BY DEF LoginInv, LoginTypeOK
<1>2. \A t \in AppTokens : GoodEntry(t)'
  <2> SUFFICES ASSUME NEW t \in AppTokens, confirmed[t] # Nobody
               PROVE  /\ Vouched(t, confirmed[t].found)'
                      /\ confirmed[t].deadline = confirmed[t].found.came + CacheTime
    BY DEF GoodEntry
  <2>1. confirmed[t].found \in Answers
    BY <1>1 DEF LoginTypeOK
  <2>2. GoodEntry(t)
    BY DEF LoginInv
  <2>3. \A f \in Answers : Vouched(t, f) => Vouched(t, f)'
    BY <1>1, VouchedStays
  <2>4. QED  BY <2>1, <2>2, <2>3 DEF GoodEntry, Vouched
<1>3. \A c \in Logins : GoodLogin(login[c])'
  <2> SUFFICES ASSUME NEW c \in Logins PROVE GoodLogin(login[c])'
    OBVIOUS
  <2>1. \A call \in LoginCalls \cup {Nobody} : GoodLogin(call) => GoodLogin(call)'
    BY <1>1, GoodLoginStays
  <2>2. login[c] \in LoginCalls \cup {Nobody} /\ GoodLogin(login[c]) /\ login'[c] = login[c]
    BY <1>1 DEF LoginInv, LoginTypeOK
  <2>3. QED  BY <2>1, <2>2 DEF GoodLogin, Vouched, Permitted
<1>4. AttemptsInOrder'
  <2>1. attempts \in Seq(Nat) /\ instant \in Nat
    BY <1>1 DEF LoginTypeOK
  <2>2. AttemptsInOrder
    BY DEF LoginInv
  <2>3. \A i \in 1..Len(attempts) : attempts[i] \in Nat
    BY <2>1
  <2>4. \A i \in 1..Len(attempts) : attempts[i] <= instant'
    <3> SUFFICES ASSUME NEW i \in 1..Len(attempts) PROVE attempts[i] <= instant'
      OBVIOUS
    <3>1. attempts[i] <= instant /\ attempts[i] \in Nat
      BY <2>2, <2>3 DEF AttemptsInOrder
    <3>2. QED  BY <1>1, <2>1, <3>1
  <2>5. attempts' = attempts
    OBVIOUS
  <2>6. QED  BY <2>2, <2>4, <2>5 DEF AttemptsInOrder
<1>5. AdmittedIsVouched' /\ BusyIsTrue'
  BY DEF AdmittedIsVouched, BusyIsTrue
<1>6. PlacesAreReturned'
  BY DEF LoginInv, LoginIsSound, PlacesAreReturned
<1>7. QED  BY <1>2, <1>3, <1>4, <1>5, <1>6 DEF LoginInv, LoginIsSound

\* The accounts, the tokens and the clock may change under a call.
LEMMA OutsideSteps ==
  ASSUME LoginAssumption, NobodyAssumption, LoginInv,
         \/ \E u \in GitHubIds, n \in Usernames \cup {Nobody} : Rename(u, n)
         \/ \E t \in AppTokens : RevokeToken(t)
         \/ \E u \in GitHubIds, m \in MemoryUsers : BindLegacy(u, m)
         \/ \E u \in GitHubIds, off \in BOOLEAN : SwitchAccount(u, off)
         \/ InstantTick
  PROVE  LoginInv'
<1>1. /\ LoginTypeOK /\ OneAccountPerUser /\ instant \in Nat
      /\ username \in [GitHubIds -> Usernames \cup {Nobody}]
      /\ apptoken \in [AppTokens -> [owner : GitHubIds \cup {Nobody}, until : Nat \cup {Nobody}]]
      /\ identities \in [GitHubIds -> GitHubRows \cup {Nobody}]
  BY DEF LoginInv, LoginIsSound, LoginTypeOK
<1>2. ASSUME NEW u \in GitHubIds, NEW n \in Usernames \cup {Nobody}, Rename(u, n) PROVE LoginInv'
  <2>1. username' \in [GitHubIds -> Usernames \cup {Nobody}]
    BY <1>1, <1>2 DEF Rename
  <2>2. /\ UNCHANGED <<instant, apptoken, confirmed, attempts, active, identities, login>>
        /\ outcome' = Nobody
    BY <1>2 DEF Rename
  <2>3. LoginTypeOK' /\ OneAccountPerUser'
    BY <1>1, <2>1, <2>2 DEF LoginTypeOK, OneAccountPerUser
  <2>4. QED  BY <1>1, <2>2, <2>3, OutsideStep
<1>3. ASSUME NEW t \in AppTokens, RevokeToken(t) PROVE LoginInv'
  <2>1. /\ UNCHANGED <<instant, username, confirmed, attempts, active, identities, login>>
        /\ outcome' = Nobody /\ apptoken' = [apptoken EXCEPT ![t].until = instant]
    BY <1>3 DEF RevokeToken
  <2>2. /\ apptoken' \in [AppTokens -> [owner : GitHubIds \cup {Nobody}, until : Nat \cup {Nobody}]]
        /\ \A s \in AppTokens :
             \/ apptoken'[s] = apptoken[s]
             \/ apptoken'[s].owner = apptoken[s].owner /\ apptoken'[s].until = instant
    BY <1>1, <2>1
  <2>3. LoginTypeOK' /\ OneAccountPerUser'
    BY <1>1, <2>1, <2>2 DEF LoginTypeOK, OneAccountPerUser
  <2>4. instant <= instant'
    BY <1>1, <2>1
  <2>5. QED  BY <2>1, <2>2, <2>3, <2>4, OutsideStep
<1>4. ASSUME NEW u \in GitHubIds, NEW m \in MemoryUsers, BindLegacy(u, m) PROVE LoginInv'
  <2> DEFINE row == [user |-> m, disabled |-> FALSE]
  <2>1. /\ UNCHANGED <<instant, username, apptoken, confirmed, attempts, active, login>>
        /\ outcome' = Nobody /\ identities' = [identities EXCEPT ![u] = row]
        /\ identities[u] = Nobody /\ ~Taken(m)
    BY <1>4 DEF BindLegacy
  <2>2. row \in GitHubRows /\ row # Nobody /\ row.user = m
    <3>1. row \in GitHubRows /\ row.user = m
      BY DEF GitHubRows
    <3> HIDE DEF row
    <3>2. QED  BY <3>1 DEF NobodyAssumption
  <2> HIDE DEF row
  <2>3. /\ identities' \in [GitHubIds -> GitHubRows \cup {Nobody}]
        /\ \A v \in GitHubIds : identities'[v] = IF v = u THEN row ELSE identities[v]
    BY <1>1, <2>1, <2>2
  <2>4. OneAccountPerUser'
    BY <1>1, <2>1, <2>2, <2>3 DEF OneAccountPerUser, Taken
  <2>5. LoginTypeOK'
    BY <1>1, <2>1, <2>3 DEF LoginTypeOK
  <2>6. instant <= instant'
    BY <1>1, <2>1
  <2>7. QED  BY <2>1, <2>2, <2>3, <2>4, <2>5, <2>6, OutsideStep
<1>5. ASSUME NEW u \in GitHubIds, NEW off \in BOOLEAN, SwitchAccount(u, off) PROVE LoginInv'
  <2> DEFINE row == [identities[u] EXCEPT !.disabled = off]
  <2>1. /\ UNCHANGED <<instant, username, apptoken, confirmed, attempts, active, login>>
        /\ outcome' = Nobody /\ identities' = [identities EXCEPT ![u] = row]
        /\ identities[u] # Nobody
    BY <1>5 DEF SwitchAccount
  <2>2. row \in GitHubRows /\ row # Nobody /\ row.user = identities[u].user
    BY <1>1, <2>1 DEF GitHubRows, NobodyAssumption
  <2> HIDE DEF row
  <2>3. /\ identities' \in [GitHubIds -> GitHubRows \cup {Nobody}]
        /\ \A v \in GitHubIds : identities'[v] = IF v = u THEN row ELSE identities[v]
    BY <1>1, <2>1, <2>2
  <2>4. OneAccountPerUser'
    BY <1>1, <2>1, <2>2, <2>3 DEF OneAccountPerUser
  <2>5. LoginTypeOK'
    BY <1>1, <2>1, <2>3 DEF LoginTypeOK
  <2>6. instant <= instant'
    BY <1>1, <2>1
  <2>7. QED  BY <2>1, <2>2, <2>3, <2>4, <2>5, <2>6, OutsideStep
<1>6. CASE InstantTick
  <2>1. /\ UNCHANGED <<username, apptoken, confirmed, attempts, active, identities, login>>
        /\ outcome' = Nobody /\ instant' = instant + 1
    BY <1>6 DEF InstantTick
  <2>2. instant' \in Nat /\ instant <= instant'
    BY <1>1, <2>1
  <2>3. LoginTypeOK' /\ OneAccountPerUser'
    BY <1>1, <2>1, <2>2 DEF LoginTypeOK, OneAccountPerUser
  <2>4. QED  BY <2>1, <2>2, <2>3, OutsideStep
<1>7. QED  BY <1>2, <1>3, <1>4, <1>5, <1>6

\* What is left of the attempts lies within the window.
LEMMA RecentIs ==
  ASSUME LoginAssumption, LoginTypeOK, AttemptsInOrder
  PROVE  /\ Recent \in Seq(Nat)
         /\ \A i \in 1..Len(Recent) : Recent[i] <= instant /\ ~(Recent[i] < instant - RateWindow)
         /\ \A i \in 1..Len(Recent), j \in 1..Len(Recent) : i <= j => Recent[i] <= Recent[j]
<1> DEFINE Drops(n) == /\ \A i \in 1..n : Aged(i)
                       /\ n < Len(attempts) => ~Aged(n + 1)
           n == CHOOSE n \in 0..Len(attempts) : Drops(n)
           m == Len(attempts)
<1>1. attempts \in Seq(Nat) /\ instant \in Nat /\ RateWindow \in Nat /\ m \in Nat
  BY DEF LoginTypeOK, LoginAssumption
<1>2. \A i \in 1..m : attempts[i] \in Nat
  BY <1>1
<1>3. \E k \in 0..m : Drops(k)
  <2>1. CASE \A i \in 1..m : Aged(i)
    BY <1>1, <2>1
  <2>2. CASE \E i \in 1..m : ~Aged(i)
    <3> DEFINE S == {i \in 1..m : ~Aged(i)}
               R == OpToRel(<, Nat)
    <3>1. IsWellFoundedOn(R, Nat)
      BY NatLessThanWellFounded
    <3>2. \A x, y \in Nat : x < y => <<x, y>> \in R
      BY DEF OpToRel
    <3>3. S \in SUBSET Nat /\ S # {}
      BY <1>1, <2>2
    <3> HIDE DEF R
    <3>4. PICK k \in S : \A y \in S : ~(<<y, k>> \in R)
      BY <3>1, <3>3, WFMin
    <3>5. \A y \in S : ~(y < k)
      BY <3>2, <3>3, <3>4
    <3>6. k \in 1..m /\ ~Aged(k) /\ \A i \in 1..(k - 1) : Aged(i)
      BY <1>1, <3>4, <3>5
    <3>7. k - 1 \in 0..m /\ (k - 1) + 1 = k
      BY <1>1, <3>6
    <3>8. Drops(k - 1)
      BY <3>6, <3>7
    <3>9. QED  BY <3>7, <3>8
  <2>3. QED  BY <2>1, <2>2
<1>4. n \in 0..m /\ Drops(n)
  BY <1>3
<1> HIDE DEF n
<1>5. Recent = SubSeq(attempts, n + 1, m)
  BY DEF Recent, n
<1>6. /\ Recent \in Seq(Nat) /\ Len(Recent) = m - n
      /\ \A i \in 1..(m - n) : Recent[i] = attempts[n + i]
  <2>1. n + 1 \in Int /\ m \in Int /\ \A i \in (n + 1)..m : attempts[i] \in Nat
    BY <1>1, <1>2, <1>4
  <2>2. /\ SubSeq(attempts, n + 1, m) \in Seq(Nat)
        /\ Len(SubSeq(attempts, n + 1, m)) = IF n + 1 <= m THEN m - (n + 1) + 1 ELSE 0
        /\ \A i \in 1..(m - (n + 1) + 1) : SubSeq(attempts, n + 1, m)[i] = attempts[(n + 1) + i - 1]
    BY <2>1, SubSeqProperties
  <2>3. /\ m - (n + 1) + 1 = m - n /\ (~(n + 1 <= m) => m - n = 0)
        /\ \A i \in 1..(m - n) : (n + 1) + i - 1 = n + i
    BY <1>1, <1>4
  <2>4. QED  BY <1>5, <2>2, <2>3
<1>7. ASSUME NEW i \in 1..(m - n), NEW j \in 1..(m - n)
      PROVE  /\ Recent[i] <= instant /\ ~(Recent[i] < instant - RateWindow)
             /\ i <= j => Recent[i] <= Recent[j]
  <2>1. n + i \in 1..m /\ n + j \in 1..m /\ n + 1 \in 1..m /\ n < m /\ n + 1 <= n + i
        /\ (i <= j => n + i <= n + j)
    BY <1>1, <1>4
  <2>2. /\ attempts[n + i] \in Nat /\ attempts[n + 1] \in Nat
        /\ attempts[n + 1] <= attempts[n + i] /\ attempts[n + i] <= instant
        /\ i <= j => attempts[n + i] <= attempts[n + j]
    BY <1>2, <2>1 DEF AttemptsInOrder
  <2>3. ~(attempts[n + 1] < instant - RateWindow)
    BY <1>4, <2>1 DEF Aged
  <2>4. ~(attempts[n + i] < instant - RateWindow)
    BY <1>1, <2>2, <2>3
  <2>5. QED  BY <1>6, <2>2, <2>4
<1>8. QED  BY <1>6, <1>7

(***************************************************************************)
(* Calls.  A call goes on holding v, or ends; n places are taken by others.*)
(***************************************************************************)

Held(call) == IF call # Nobody /\ call.stage \in AtGitHub THEN 1 ELSE 0

MovesOn(c, n) ==
  \E v \in LoginCalls \cup {Nobody} :
    /\ login' = [login EXCEPT ![c] = v] /\ GoodLogin(v)'
    /\ active' = n + Held(v) /\ active' <= MaxActive

ToldRightly == outcome' \in Outcomes \cup {Nobody} /\ AdmittedIsVouched' /\ BusyIsTrue'

\* The places that are taken change with the call, and with no other.
LEMMA PlacesMove ==
  ASSUME LoginAssumption, LoginTypeOK, PlacesAreReturned,
         NEW c \in Logins, NEW n \in Nat, n = active - Held(login[c]), MovesOn(c, n)
  PROVE  PlacesAreReturned' /\ active' \in Nat
<1> DEFINE W == {d \in Logins : login[d] # Nobody /\ login[d].stage \in AtGitHub}
           W1 == {d \in Logins : login'[d] # Nobody /\ login'[d].stage \in AtGitHub}
<1>1. PICK v \in LoginCalls \cup {Nobody} :
        login' = [login EXCEPT ![c] = v] /\ active' = n + Held(v) /\ active' <= MaxActive
  BY DEF MovesOn
<1>2. \A d \in Logins : login'[d] = IF d = c THEN v ELSE login[d]
  BY <1>1 DEF LoginTypeOK
<1>3. W \in SUBSET Logins /\ IsFiniteSet(Logins)
  BY DEF LoginAssumption
<1>4. /\ W1 = IF Held(v) = 1 THEN W \cup {c} ELSE W \ {c}
      /\ c \in W <=> Held(login[c]) = 1
  BY <1>2 DEF Held
<1>5. /\ Held(v) = 1 \/ Held(v) = 0
      /\ Held(login[c]) = 1 \/ Held(login[c]) = 0
  BY DEF Held
<1>6. active = Cardinality(W)
  BY DEF PlacesAreReturned
<1> HIDE DEF W, W1, Held
<1>7. IsFiniteSet(W)
  BY <1>3, FS_Subset
<1>8. Cardinality(W) \in Nat
  BY <1>7, FS_CardinalityType
<1>9. /\ Cardinality(W \cup {c}) = IF c \in W THEN Cardinality(W) ELSE Cardinality(W) + 1
      /\ Cardinality(W \ {c}) = IF c \in W THEN Cardinality(W) - 1 ELSE Cardinality(W)
  BY <1>7, FS_AddElement, FS_RemoveElement
<1>10. Cardinality(W1) = n + Held(v)
  <2>1. CASE Held(v) = 1
    BY <1>4, <1>5, <1>6, <1>8, <1>9, <2>1
  <2>2. CASE Held(v) = 0
    BY <1>4, <1>5, <1>6, <1>8, <1>9, <2>2
  <2>3. QED  BY <1>5, <2>1, <2>2
<1>11. active' \in Nat
  BY <1>1, <1>5
<1>12. QED  BY <1>1, <1>10, <1>11 DEF PlacesAreReturned, W1

\* A step of a call keeps the invariant if it leaves good what it touches.
LEMMA CallStep ==
  ASSUME LoginAssumption, NobodyAssumption, LoginInv,
         NEW c \in Logins, NEW n \in Nat, n = active - Held(login[c]), MovesOn(c, n), ToldRightly,
         UNCHANGED <<instant, username>>,
         apptoken' \in [AppTokens -> [owner : GitHubIds \cup {Nobody}, until : Nat \cup {Nobody}]],
         \A t \in AppTokens : apptoken'[t] = apptoken[t] \/ apptoken[t].owner = Nobody,
         confirmed' \in [AppTokens -> [deadline : Nat, found : Answers] \cup {Nobody}],
         \A t \in AppTokens : GoodEntry(t)',
         attempts' \in Seq(Nat), AttemptsInOrder',
         identities' \in [GitHubIds -> GitHubRows \cup {Nobody}], OneAccountPerUser',
         \A u \in GitHubIds : identities[u] # Nobody => identities'[u] # Nobody
  PROVE  LoginInv'
<1>1. LoginTypeOK /\ PlacesAreReturned /\ instant \in Nat /\ instant' \in Nat /\ instant <= instant'
  BY DEF LoginInv, LoginIsSound, LoginTypeOK
<1>2. PlacesAreReturned' /\ active' \in Nat
  BY <1>1, PlacesMove
<1>3. PICK v \in LoginCalls \cup {Nobody} : login' = [login EXCEPT ![c] = v] /\ GoodLogin(v)'
  BY DEF MovesOn
<1>4. login \in [Logins -> LoginCalls \cup {Nobody}]
  BY <1>1 DEF LoginTypeOK
<1>5. /\ login' \in [Logins -> LoginCalls \cup {Nobody}]
      /\ \A d \in Logins : login'[d] = IF d = c THEN v ELSE login[d]
  BY <1>3, <1>4
<1>6. ASSUME NEW d \in Logins PROVE GoodLogin(login[d])'
  <2>1. CASE d = c
    BY <1>3, <1>5, <2>1 DEF GoodLogin, Vouched, Permitted
  <2>2. CASE d # c
    <3>1. login[d] \in LoginCalls \cup {Nobody} /\ GoodLogin(login[d])
      BY <1>4 DEF LoginInv
    <3>2. \A call \in LoginCalls \cup {Nobody} : GoodLogin(call) => GoodLogin(call)'
      BY <1>1, GoodLoginStays
    <3>3. QED  BY <1>5, <2>2, <3>1, <3>2 DEF GoodLogin, Vouched, Permitted
  <2>3. QED  BY <2>1, <2>2
<1>7. LoginTypeOK'
  BY <1>1, <1>2, <1>5 DEF LoginTypeOK, ToldRightly
<1>8. QED  BY <1>2, <1>6, <1>7 DEF LoginInv, LoginIsSound, ToldRightly

\* A call that ends without being let in.
LEMMA RefusedRightly ==
  ASSUME NEW c \in Logins, NEW call \in LoginCalls, Ends(c, "refused", call, Nobody)
  PROVE  ToldRightly
<1>1. outcome' = [says |-> "refused", call |-> call, user |-> Nobody]
  BY DEF Ends
<1>2. outcome' \in Outcomes
  BY <1>1 DEF Outcomes
<1>3. QED  BY <1>1, <1>2 DEF ToldRightly, AdmittedIsVouched, BusyIsTrue

LEMMA GoesRightly ==
  ASSUME NEW c \in Logins, NEW call, Goes(c, call)
  PROVE  ToldRightly
BY DEF Goes, ToldRightly, AdmittedIsVouched, BusyIsTrue

\* A call that turns to GitHub takes a place, or hears that there is none.
LEMMA RemoteStep ==
  ASSUME LoginAssumption, NobodyAssumption, LoginInv, NEW c \in Logins, NEW n \in Nat, n <= MaxActive,
         NEW call \in LoginCalls, call.stage \in {"exchange", "asked"}, call.since <= instant,
         call.stage # "exchange" => call.token # Nobody,
         UNCHANGED instant, Remote(c, call, n)
  PROVE  MovesOn(c, n) /\ ToldRightly /\ attempts' \in Seq(Nat) /\ AttemptsInOrder'
<1>1. /\ LoginTypeOK /\ AttemptsInOrder /\ instant \in Nat /\ MaxActive \in Nat /\ RateWindow \in Nat
      /\ MaxAttempts \in Nat
  BY DEF LoginInv, LoginTypeOK, LoginAssumption
<1>2. /\ Recent \in Seq(Nat)
      /\ \A i \in 1..Len(Recent) : Recent[i] <= instant /\ ~(Recent[i] < instant - RateWindow)
      /\ \A i \in 1..Len(Recent), j \in 1..Len(Recent) : i <= j => Recent[i] <= Recent[j]
  BY <1>1, RecentIs
<1>3. CASE n >= MaxActive \/ Len(Recent) >= MaxAttempts
  <2>1. /\ attempts' = Recent /\ active' = n /\ login' = [login EXCEPT ![c] = Nobody]
        /\ outcome' = [says |-> "busy", call |-> call, user |-> Nobody]
    BY <1>3 DEF Remote, Ends
  <2>2. MovesOn(c, n)
    <3>1. GoodLogin(Nobody)' /\ Held(Nobody) = 0
      BY DEF GoodLogin, Held
    <3>2. active' = n + Held(Nobody) /\ active' <= MaxActive
      BY <2>1, <3>1
    <3>3. QED  BY <2>1, <3>1, <3>2 DEF MovesOn
  <2>3. attempts' \in Seq(Nat) /\ AttemptsInOrder'
    BY <1>2, <2>1 DEF AttemptsInOrder
  <2>4. \A i \in 1..Len(attempts') : ~Aged(i)'
    BY <1>2, <2>1 DEF Aged
  <2>5. BusyIsTrue'
    <3>1. active' >= MaxActive \/ Len(attempts') >= MaxAttempts
      BY <1>3, <2>1
    <3>2. QED  BY <2>4, <3>1 DEF BusyIsTrue
  <2>6. outcome' \in Outcomes
    BY <2>1 DEF Outcomes
  <2>7. AdmittedIsVouched'
    BY <2>1 DEF AdmittedIsVouched
  <2>8. QED  BY <2>2, <2>3, <2>5, <2>6, <2>7 DEF ToldRightly
<1>4. CASE ~(n >= MaxActive \/ Len(Recent) >= MaxAttempts)
  <2>1. attempts' = Append(Recent, instant) /\ active' = n + 1 /\ Goes(c, call)
    BY <1>4 DEF Remote
  <2>2. ToldRightly
    BY <2>1, GoesRightly
  <2>3. MovesOn(c, n)
    <3>1. call # Nobody
      BY DEF NobodyAssumption
    <3>2. Held(call) = 1
      BY <3>1 DEF Held, AtGitHub
    <3>3. GoodLogin(call)'
      BY DEF GoodLogin
    <3>4. active' = n + Held(call) /\ active' <= MaxActive
      BY <1>1, <1>4, <2>1, <3>2
    <3>5. QED  BY <2>1, <3>3, <3>4 DEF MovesOn, Goes
  <2>4. /\ attempts' \in Seq(Nat) /\ Len(attempts') = Len(Recent) + 1
        /\ \A i \in 1..(Len(Recent) + 1) :
             attempts'[i] = IF i = Len(Recent) + 1 THEN instant ELSE Recent[i]
    BY <1>1, <1>2, <2>1
  <2>5. \A i \in 1..Len(Recent) : Recent[i] \in Nat
    BY <1>2
  <2>6. AttemptsInOrder'
    <3> SUFFICES ASSUME NEW i \in 1..(Len(Recent) + 1), NEW j \in 1..(Len(Recent) + 1)
                 PROVE  (i <= j => attempts'[i] <= attempts'[j]) /\ attempts'[i] <= instant
      BY <2>4 DEF AttemptsInOrder
    <3>1. Len(Recent) \in Nat
      BY <1>2
    <3>2. attempts'[i] <= instant
      <4>1. CASE i = Len(Recent) + 1
        BY <1>1, <2>4, <4>1
      <4>2. CASE i # Len(Recent) + 1
        <5>1. i \in 1..Len(Recent) /\ attempts'[i] = Recent[i]
          BY <2>4, <3>1, <4>2
        <5>2. QED  BY <1>2, <5>1
      <4>3. QED  BY <4>1, <4>2
    <3>3. CASE j = Len(Recent) + 1
      BY <2>4, <3>2, <3>3
    <3>4. CASE j # Len(Recent) + 1 /\ i <= j
      <4>1. i \in 1..Len(Recent) /\ j \in 1..Len(Recent)
        BY <3>1, <3>4
      <4>2. attempts'[i] = Recent[i] /\ attempts'[j] = Recent[j]
        BY <2>4, <3>1, <4>1
      <4>3. QED  BY <1>2, <3>2, <3>4, <4>1, <4>2
    <3>5. QED  BY <3>2, <3>3, <3>4
  <2>7. QED  BY <2>2, <2>3, <2>4, <2>6
<1>5. QED  BY <1>3, <1>4

\* What a call holds once it is known whose its token is.
LEMMA KnownStep ==
  ASSUME LoginAssumption, NobodyAssumption, LoginInv, NEW c \in Logins, NEW n \in Nat, n <= MaxActive,
         NEW t \in AppTokens, NEW since \in Nat, since <= instant,
         NEW found \in Answers, Vouched(t, found), since < found.came + CacheTime,
         UNCHANGED <<instant, apptoken, identities>>, active' = n, Known(c, t, since, found)
  PROVE  MovesOn(c, n) /\ ToldRightly
<1> DEFINE call == [stage |-> "resolve", token |-> t, since |-> since, found |-> found]
<1>1. /\ call \in LoginCalls /\ call.stage = "resolve" /\ call.token = t /\ call.since = since
      /\ call.found = found /\ t # Nobody
  BY DEF LoginCalls, LoginAssumption
<1>2. IF Permitted(found) THEN Goes(c, call) ELSE Ends(c, "refused", call, Nobody)
  BY DEF Known
<1> HIDE DEF call
<1>3. CASE Permitted(found)
  <2>1. GoodLogin(call)
    BY <1>1, <1>3 DEF GoodLogin
  <2>2. GoodLogin(call)'
    BY <2>1 DEF GoodLogin, Vouched, Permitted
  <2>3. Held(call) = 0
    BY <1>1 DEF Held, AtGitHub
  <2>4. login' = [login EXCEPT ![c] = call]
    BY <1>2, <1>3 DEF Goes
  <2>5. ToldRightly
    BY <1>1, <1>2, <1>3, GoesRightly
  <2>6. active' = n + Held(call) /\ active' <= MaxActive
    BY <2>3
  <2>7. QED  BY <1>1, <2>2, <2>4, <2>5, <2>6 DEF MovesOn
<1>4. CASE ~Permitted(found)
  <2>1. ToldRightly
    BY <1>1, <1>2, <1>4, RefusedRightly
  <2>2. login' = [login EXCEPT ![c] = Nobody]
    BY <1>2, <1>4 DEF Ends
  <2>3. GoodLogin(Nobody)' /\ Held(Nobody) = 0
    BY DEF GoodLogin, Held
  <2>4. active' = n + Held(Nobody) /\ active' <= MaxActive
    BY <2>3
  <2>5. QED  BY <2>1, <2>2, <2>3, <2>4 DEF MovesOn
<1>5. QED  BY <1>3, <1>4

\* A call that shows a token.
LEMMA IdentifyStep ==
  ASSUME LoginAssumption, NobodyAssumption, LoginInv, NEW c \in Logins, NEW n \in Nat, n <= MaxActive,
         NEW t \in AppTokens, NEW since \in Nat, since <= instant,
         UNCHANGED <<instant, apptoken, identities>>, Identify(c, t, since, n)
  PROVE  /\ MovesOn(c, n) /\ ToldRightly /\ attempts' \in Seq(Nat) /\ AttemptsInOrder'
         /\ UNCHANGED confirmed
<1>1. LoginTypeOK /\ AttemptsInOrder /\ attempts \in Seq(Nat) /\ instant \in Nat /\ CacheTime \in Nat
  BY DEF LoginInv, LoginTypeOK, LoginAssumption
<1>2. CASE confirmed[t] # Nobody /\ confirmed[t].deadline > instant
  <2>1. confirmed[t].found \in Answers
    BY <1>1, <1>2 DEF LoginTypeOK
  <2>2. GoodEntry(t)
    BY DEF LoginInv
  <2>3. /\ Vouched(t, confirmed[t].found) /\ confirmed[t].found.came \in Nat
        /\ confirmed[t].deadline = confirmed[t].found.came + CacheTime
    BY <1>2, <2>1, <2>2 DEF GoodEntry, Answers
  <2>4. since < confirmed[t].found.came + CacheTime
    BY <1>1, <1>2, <2>3
  <2>5. Known(c, t, since, confirmed[t].found) /\ active' = n /\ UNCHANGED <<attempts, confirmed>>
    BY <1>2 DEF Identify
  <2>6. MovesOn(c, n) /\ ToldRightly
    BY <2>1, <2>3, <2>4, <2>5, KnownStep
  <2>7. QED  BY <1>1, <2>5, <2>6 DEF AttemptsInOrder
<1>3. CASE ~(confirmed[t] # Nobody /\ confirmed[t].deadline > instant)
  <2> DEFINE call == [stage |-> "asked", token |-> t, since |-> since, found |-> Nobody]
  <2>1. /\ call \in LoginCalls /\ call.stage = "asked" /\ call.since = since
        /\ call.token = t /\ t # Nobody
    BY DEF LoginCalls, AtGitHub, LoginAssumption
  <2>2. Remote(c, call, n) /\ UNCHANGED confirmed
    BY <1>3 DEF Identify
  <2> HIDE DEF call
  <2>3. QED  BY <2>1, <2>2, RemoteStep
<1>4. QED  BY <1>2, <1>3

\* What is not touched stays good.
LEMMA EntriesStay ==
  ASSUME LoginInv, UNCHANGED <<instant, apptoken, confirmed>>
  PROVE  \A t \in AppTokens : GoodEntry(t)'
BY DEF LoginInv, GoodEntry, Vouched

LEMMA LoginFacts ==
  ASSUME LoginAssumption, LoginInv
  PROVE  /\ instant \in Nat /\ active \in Nat /\ active <= MaxActive /\ MaxActive \in Nat
         /\ apptoken \in [AppTokens -> [owner : GitHubIds \cup {Nobody}, until : Nat \cup {Nobody}]]
         /\ confirmed \in [AppTokens -> [deadline : Nat, found : Answers] \cup {Nobody}]
         /\ attempts \in Seq(Nat) /\ AttemptsInOrder
         /\ identities \in [GitHubIds -> GitHubRows \cup {Nobody}] /\ OneAccountPerUser
         /\ login \in [Logins -> LoginCalls \cup {Nobody}]
BY DEF LoginInv, LoginIsSound, LoginTypeOK, PlacesAreReturned, LoginAssumption

\* A call that holds a place can give it back.
LEMMA HeldIsCounted ==
  ASSUME LoginAssumption, LoginInv, NEW c \in Logins, Held(login[c]) = 1
  PROVE  active - 1 \in Nat
<1> DEFINE W == {d \in Logins : login[d] # Nobody /\ login[d].stage \in AtGitHub}
<1>1. c \in W /\ W \in SUBSET Logins /\ IsFiniteSet(Logins)
  BY DEF Held, LoginAssumption
<1>2. active = Cardinality(W) /\ active \in Nat
  BY LoginFacts DEF LoginInv, LoginIsSound, PlacesAreReturned
<1> HIDE DEF W
<1>3. IsFiniteSet(W)
  BY <1>1, FS_Subset
<1>4. Cardinality(W) # 0
  BY <1>1, <1>3, FS_EmptySet
<1>5. QED  BY <1>2, <1>4

\* A call that waits for GitHub holds its place.
LEMMA WaitsThere ==
  ASSUME LoginAssumption, LoginInv, NEW c \in Logins, NEW stage, AtStage(c, stage)
  PROVE  /\ login[c] # Nobody /\ login[c] \in LoginCalls /\ login[c].stage = stage /\ GoodLogin(login[c])
         /\ login[c].since \in Nat /\ login[c].since <= instant
         /\ stage \in AtGitHub =>
              Held(login[c]) = 1 /\ active - 1 \in Nat /\ active - 1 <= MaxActive
         /\ stage \notin AtGitHub => Held(login[c]) = 0
<1>1. login[c] # Nobody /\ login[c].stage = stage
  BY DEF AtStage
<1>2. login[c] \in LoginCalls /\ GoodLogin(login[c])
  BY <1>1, LoginFacts DEF LoginInv
<1>3. login[c].since \in Nat /\ login[c].since <= instant
  BY <1>1, <1>2 DEF LoginCalls, GoodLogin
<1>4. Held(login[c]) = IF stage \in AtGitHub THEN 1 ELSE 0
  BY <1>1 DEF Held
<1>5. ASSUME stage \in AtGitHub PROVE active - 1 \in Nat /\ active - 1 <= MaxActive
  <2>1. active - 1 \in Nat
    BY <1>4, <1>5, HeldIsCounted
  <2>2. active \in Nat /\ active <= MaxActive /\ MaxActive \in Nat
    BY LoginFacts
  <2>3. QED  BY <2>1, <2>2
<1>6. QED  BY <1>1, <1>2, <1>3, <1>4, <1>5

LEMMA VerifyLoginStep ==
  ASSUME LoginAssumption, NobodyAssumption, LoginInv,
         NEW c \in Logins, NEW t \in AppTokens, VerifyLogin(c, t)
  PROVE  LoginInv'
<1>1. /\ login[c] = Nobody /\ Identify(c, t, instant, active)
      /\ UNCHANGED <<instant, username, apptoken, identities>>
  BY DEF VerifyLogin
<1>2. instant <= instant /\ active - 0 = active /\ Held(login[c]) = 0
  BY <1>1, LoginFacts DEF Held
<1>3. /\ MovesOn(c, active) /\ ToldRightly /\ attempts' \in Seq(Nat) /\ AttemptsInOrder'
      /\ UNCHANGED confirmed
  BY <1>1, <1>2, LoginFacts, IdentifyStep
<1>4. \A s \in AppTokens : GoodEntry(s)'
  BY <1>1, <1>3, EntriesStay
<1>5. OneAccountPerUser'
  BY <1>1, LoginFacts DEF OneAccountPerUser
<1>6. QED  BY <1>1, <1>2, <1>3, <1>4, <1>5, LoginFacts, CallStep

LEMMA TradeStep ==
  ASSUME LoginAssumption, NobodyAssumption, LoginInv, NEW c \in Logins, Trade(c)
  PROVE  LoginInv'
<1> DEFINE call == [stage |-> "exchange", token |-> Nobody, since |-> instant, found |-> Nobody]
<1>1. /\ login[c] = Nobody /\ Remote(c, call, active)
      /\ UNCHANGED <<instant, username, apptoken, confirmed, identities>>
  BY DEF Trade
<1>2. /\ instant <= instant /\ active - 0 = active /\ Held(login[c]) = 0
      /\ call \in LoginCalls /\ call.stage = "exchange" /\ call.since = instant
  BY <1>1, LoginFacts DEF Held, LoginCalls, AtGitHub
<1> HIDE DEF call
<1>3. MovesOn(c, active) /\ ToldRightly /\ attempts' \in Seq(Nat) /\ AttemptsInOrder'
  BY <1>1, <1>2, LoginFacts, RemoteStep
<1>4. \A s \in AppTokens : GoodEntry(s)'
  BY <1>1, EntriesStay
<1>5. OneAccountPerUser'
  BY <1>1, LoginFacts DEF OneAccountPerUser
<1>6. QED  BY <1>1, <1>2, <1>3, <1>4, <1>5, LoginFacts, CallStep

\* GitHub answers, or does not: the call keeps its place until it goes on.
LEMMA AnsweredStep ==
  ASSUME LoginAssumption, NobodyAssumption, LoginInv, NEW c \in Logins, Held(login[c]) = 1,
         NEW v \in LoginCalls, v.stage \in AtGitHub, GoodLogin(v)', Goes(c, v),
         UNCHANGED <<instant, username, confirmed, attempts, active, identities>>,
         apptoken' \in [AppTokens -> [owner : GitHubIds \cup {Nobody}, until : Nat \cup {Nobody}]],
         \A s \in AppTokens : apptoken'[s] = apptoken[s] \/ apptoken[s].owner = Nobody
  PROVE  LoginInv'
<1> DEFINE n == active - 1
<1>1. v # Nobody /\ login' = [login EXCEPT ![c] = v]
  BY DEF NobodyAssumption, Goes
<1>2. n \in Nat
  BY HeldIsCounted
<1>3. Held(v) = 1 /\ active' = n + 1 /\ active' <= MaxActive /\ n = active - Held(login[c])
  BY <1>1, LoginFacts DEF Held
<1>4. MovesOn(c, n) /\ ToldRightly
  BY <1>1, <1>3, GoesRightly DEF MovesOn
<1>5. \A s \in AppTokens : GoodEntry(s)'
  <2> SUFFICES ASSUME NEW s \in AppTokens, confirmed[s] # Nobody
               PROVE  /\ Vouched(s, confirmed[s].found)'
                      /\ confirmed[s].deadline = confirmed[s].found.came + CacheTime
    BY DEF GoodEntry
  <2>1. confirmed[s].found \in Answers /\ GoodEntry(s)
    BY LoginFacts DEF LoginInv
  <2>2. \A f \in Answers : Vouched(s, f) => Vouched(s, f)'
    <3>1. instant' \in Nat /\ instant <= instant' /\ LoginTypeOK
      BY LoginFacts DEF LoginInv
    <3>2. QED  BY <3>1, VouchedStays
  <2>3. QED  BY <2>1, <2>2 DEF GoodEntry, Vouched
<1>6. AttemptsInOrder' /\ OneAccountPerUser' /\ attempts' \in Seq(Nat)
  BY LoginFacts DEF AttemptsInOrder, OneAccountPerUser
<1> HIDE DEF n
<1>7. QED  BY <1>2, <1>3, <1>4, <1>5, <1>6, LoginFacts, CallStep

LEMMA GrantStepLogin ==
  ASSUME LoginAssumption, NobodyAssumption, LoginInv, NEW c \in Logins,
         NEW u \in GitHubIds, NEW t \in AppTokens, Grant(c, u, t)
  PROVE  LoginInv'
<1>1. /\ AtStage(c, "exchange") /\ apptoken[t].owner = Nobody
      /\ apptoken' = [apptoken EXCEPT ![t].owner = u]
      /\ Goes(c, [login[c] EXCEPT !.stage = "granted", !.token = t])
      /\ UNCHANGED <<instant, username, confirmed, attempts, active, identities>>
  BY DEF Grant
<1>2. login[c] \in LoginCalls /\ login[c].since <= instant /\ Held(login[c]) = 1
  BY <1>1, WaitsThere DEF AtGitHub
<1>3. PICK v \in LoginCalls : /\ v = [login[c] EXCEPT !.stage = "granted", !.token = t]
                              /\ v.stage = "granted" /\ v.token = t /\ v.since = login[c].since
  <2> DEFINE e == [login[c] EXCEPT !.stage = "granted", !.token = t]
  <2>1. e \in LoginCalls /\ e.stage = "granted" /\ e.token = t /\ e.since = login[c].since
    BY <1>2 DEF LoginCalls, AtGitHub
  <2> HIDE DEF e
  <2>2. e = [login[c] EXCEPT !.stage = "granted", !.token = t]
    BY DEF e
  <2>3. QED  BY <2>1, <2>2
<1>4. v.stage \in AtGitHub /\ t # Nobody /\ v.since <= instant'
  BY <1>1, <1>2, <1>3 DEF AtGitHub, LoginAssumption
<1>5. GoodLogin(v)'
  BY <1>3, <1>4 DEF GoodLogin
<1>6. apptoken \in [AppTokens -> [owner : GitHubIds \cup {Nobody}, until : Nat \cup {Nobody}]]
  BY LoginFacts
<1>7. /\ apptoken' \in [AppTokens -> [owner : GitHubIds \cup {Nobody}, until : Nat \cup {Nobody}]]
      /\ \A s \in AppTokens : apptoken'[s] = apptoken[s] \/ apptoken[s].owner = Nobody
  BY <1>1, <1>6
<1>8. QED  BY <1>1, <1>2, <1>3, <1>4, <1>5, <1>7, AnsweredStep

LEMMA TellStep ==
  ASSUME LoginAssumption, NobodyAssumption, LoginInv, NEW c \in Logins, Tell(c)
  PROVE  LoginInv'
<1>1. /\ AtStage(c, "asked") /\ Good(login[c].token)
      /\ UNCHANGED <<instant, username, apptoken, confirmed, attempts, active, identities>>
  BY DEF Tell
<1>2. /\ login[c] \in LoginCalls /\ login[c] # Nobody /\ login[c].stage = "asked"
      /\ GoodLogin(login[c]) /\ login[c].since <= instant /\ Held(login[c]) = 1
  BY <1>1, WaitsThere DEF AtGitHub
<1>3. PICK t \in AppTokens : t = login[c].token
  BY <1>2 DEF GoodLogin, LoginCalls
<1>4. apptoken[t].owner \in GitHubIds /\ apptoken[t].until = Nobody /\ t # Nobody
  BY <1>1, <1>3, LoginFacts DEF Good, LoginAssumption
<1>5. username[apptoken[t].owner] \in Usernames \cup {Nobody} /\ instant \in Nat
  BY <1>4 DEF LoginInv, LoginTypeOK
<1>6. PICK found \in Answers :
        /\ found = [owner |-> apptoken[t].owner, name |-> username[apptoken[t].owner],
                    said |-> instant, came |-> instant]
        /\ found.owner = apptoken[t].owner /\ found.said = instant /\ found.came = instant
  <2> DEFINE e == [owner |-> apptoken[t].owner, name |-> username[apptoken[t].owner], said |-> instant, came |-> instant]
  <2>1. e \in Answers /\ e.owner = apptoken[t].owner /\ e.said = instant /\ e.came = instant
    BY <1>4, <1>5 DEF Answers
  <2> HIDE DEF e
  <2>2. e = [owner |-> apptoken[t].owner, name |-> username[apptoken[t].owner], said |-> instant, came |-> instant]
    BY DEF e
  <2>3. QED  BY <2>1, <2>2
<1>7. PICK v \in LoginCalls :
        /\ v = [login[c] EXCEPT !.stage = "told", !.found = found]
        /\ v.stage = "told" /\ v.token = t /\ v.since = login[c].since /\ v.found = found
  <2> DEFINE e == [login[c] EXCEPT !.stage = "told", !.found = found]
  <2>1. e \in LoginCalls /\ e.stage = "told" /\ e.token = t /\ e.since = login[c].since /\ e.found = found
    BY <1>2, <1>3 DEF LoginCalls, AtGitHub
  <2> HIDE DEF e
  <2>2. e = [login[c] EXCEPT !.stage = "told", !.found = found]
    BY DEF e
  <2>3. QED  BY <2>1, <2>2
<1>8. Goes(c, v)
  BY <1>3, <1>6, <1>7 DEF Tell
<1>9. Vouched(t, found)'
  BY <1>1, <1>4, <1>5, <1>6 DEF Vouched
<1>10. GoodLogin(v)'
  <2>1. v.since <= instant' /\ Vouched(v.token, v.found)'
    BY <1>1, <1>2, <1>7, <1>9
  <2>2. QED  BY <1>4, <1>7, <2>1 DEF GoodLogin
<1>11. v.stage \in AtGitHub
  BY <1>7 DEF AtGitHub
<1>12. QED  BY <1>1, <1>2, <1>8, <1>10, <1>11, LoginFacts, AnsweredStep

LEMMA FailStep ==
  ASSUME LoginAssumption, NobodyAssumption, LoginInv, NEW c \in Logins, Fail(c)
  PROVE  LoginInv'
<1>1. PICK stage \in AtGitHub \ {"failed"} : AtStage(c, stage)
  BY DEF Fail
<1>2. /\ Goes(c, [login[c] EXCEPT !.stage = "failed"])
      /\ UNCHANGED <<instant, username, apptoken, confirmed, attempts, active, identities>>
  BY DEF Fail
<1>3. login[c] \in LoginCalls /\ login[c].since <= instant /\ Held(login[c]) = 1
  BY <1>1, WaitsThere
<1>4. PICK v \in LoginCalls : /\ v = [login[c] EXCEPT !.stage = "failed"]
                              /\ v.stage = "failed" /\ v.since = login[c].since
  <2> DEFINE e == [login[c] EXCEPT !.stage = "failed"]
  <2>1. e \in LoginCalls /\ e.stage = "failed" /\ e.since = login[c].since
    BY <1>3 DEF LoginCalls, AtGitHub
  <2> HIDE DEF e
  <2>2. e = [login[c] EXCEPT !.stage = "failed"]
    BY DEF e
  <2>3. QED  BY <2>1, <2>2
<1>5. v.since <= instant' /\ v.stage \in AtGitHub
  BY <1>2, <1>3, <1>4 DEF AtGitHub
<1>6. GoodLogin(v)'
  BY <1>4, <1>5 DEF GoodLogin
<1>7. QED  BY <1>2, <1>3, <1>4, <1>5, <1>6, LoginFacts, AnsweredStep

\* A token came: the call shows it itself.
LEMMA TakeTokenStep ==
  ASSUME LoginAssumption, NobodyAssumption, LoginInv, NEW c \in Logins, TakeToken(c)
  PROVE  LoginInv'
<1> DEFINE n == active - 1
<1>1. /\ AtStage(c, "granted") /\ Identify(c, login[c].token, login[c].since, n)
      /\ UNCHANGED <<instant, username, apptoken, identities>>
  BY DEF TakeToken
<1>2. /\ login[c] # Nobody /\ login[c] \in LoginCalls /\ login[c].stage = "granted"
      /\ GoodLogin(login[c]) /\ login[c].since \in Nat /\ login[c].since <= instant
      /\ Held(login[c]) = 1 /\ n \in Nat /\ n <= MaxActive
  BY <1>1, WaitsThere DEF AtGitHub
<1>3. PICK t \in AppTokens : t = login[c].token
  BY <1>2 DEF GoodLogin, LoginCalls
<1>4. n = active - Held(login[c])
  BY <1>2
<1> HIDE DEF n
<1>5. /\ MovesOn(c, n) /\ ToldRightly /\ attempts' \in Seq(Nat) /\ AttemptsInOrder'
      /\ UNCHANGED confirmed
  BY <1>1, <1>2, <1>3, IdentifyStep
<1>6. \A s \in AppTokens : GoodEntry(s)'
  BY <1>1, <1>5, EntriesStay
<1>7. OneAccountPerUser'
  BY <1>1, LoginFacts DEF OneAccountPerUser
<1>8. QED  BY <1>1, <1>2, <1>4, <1>5, <1>6, <1>7, LoginFacts, CallStep

\* An answer came: it is kept, and the call goes on with it.
LEMMA TakeIdentityStep ==
  ASSUME LoginAssumption, NobodyAssumption, LoginInv, NEW c \in Logins, TakeIdentity(c)
  PROVE  LoginInv'
<1> DEFINE n == active - 1
<1>1. /\ AtStage(c, "told") /\ active' = n
      /\ UNCHANGED <<instant, username, apptoken, attempts, identities>>
  BY DEF TakeIdentity
<1>2. /\ login[c] # Nobody /\ login[c] \in LoginCalls /\ login[c].stage = "told"
      /\ GoodLogin(login[c]) /\ login[c].since \in Nat /\ login[c].since <= instant
      /\ Held(login[c]) = 1 /\ n \in Nat /\ n <= MaxActive
  BY <1>1, WaitsThere DEF AtGitHub
<1>3. PICK t \in AppTokens, since \in Nat, told \in Answers :
        t = login[c].token /\ since = login[c].since /\ told = login[c].found
  BY <1>2 DEF GoodLogin, LoginCalls
<1>4. /\ Vouched(t, told) /\ told.came \in Nat /\ told.said \in Nat
      /\ instant \in Nat /\ CacheTime \in Nat \ {0}
  BY <1>2, <1>3, LoginFacts DEF GoodLogin, Answers, LoginAssumption
<1>5. PICK found \in Answers : /\ found = [told EXCEPT !.came = instant] /\ found.came = instant
                               /\ found.said = told.said /\ found.owner = told.owner
  <2> DEFINE e == [told EXCEPT !.came = instant]
  <2>1. e \in Answers /\ e.came = instant /\ e.said = told.said /\ e.owner = told.owner
    BY <1>4 DEF Answers
  <2> HIDE DEF e
  <2>2. e = [told EXCEPT !.came = instant]
    BY DEF e
  <2>3. QED  BY <2>1, <2>2
<1>6. confirmed' = Remembered(t, found) /\ Known(c, t, since, found)
  BY <1>3, <1>5 DEF TakeIdentity
<1>7. Vouched(t, found) /\ since < found.came + CacheTime /\ since <= instant
  <2>1. found.said <= instant /\ found.came <= instant
    BY <1>4, <1>5 DEF Vouched
  <2>2. Vouched(t, found)
    BY <1>4, <1>5, <2>1 DEF Vouched
  <2>3. since <= instant
    BY <1>2, <1>3
  <2>4. QED  BY <1>4, <1>5, <2>2, <2>3
<1>8. n = active - Held(login[c])
  BY <1>2
<1> HIDE DEF n
<1>9. MovesOn(c, n) /\ ToldRightly
  BY <1>1, <1>2, <1>6, <1>7, KnownStep
<1>10. /\ confirmed' \in [AppTokens -> [deadline : Nat, found : Answers] \cup {Nobody}]
       /\ \A s \in AppTokens : GoodEntry(s)'
  <2> DEFINE entry == [deadline |-> instant + CacheTime, found |-> found]
  <2>1. /\ entry \in [deadline : Nat, found : Answers]
        /\ entry.deadline = instant + CacheTime /\ entry.found = found
    BY <1>4
  <2>2. PICK full \in BOOLEAN :
          confirmed' = [s \in AppTokens |-> IF s = t THEN entry
                                            ELSE IF full THEN Nobody ELSE confirmed[s]]
    BY <1>6 DEF Remembered
  <2> HIDE DEF entry
  <2>3. confirmed \in [AppTokens -> [deadline : Nat, found : Answers] \cup {Nobody}]
    BY LoginFacts
  <2>4. confirmed' \in [AppTokens -> [deadline : Nat, found : Answers] \cup {Nobody}]
    BY <2>1, <2>2, <2>3
  <2>5. ASSUME NEW s \in AppTokens PROVE GoodEntry(s)'
    <3>1. CASE s = t
      <4>1. confirmed'[s] = entry
        BY <2>2, <3>1
      <4>2. Vouched(s, found)'
        BY <1>1, <1>7, <3>1 DEF Vouched
      <4>3. Vouched(s, confirmed[s].found)'
        BY <2>1, <4>1, <4>2 DEF Vouched
      <4>4. confirmed'[s].deadline = confirmed'[s].found.came + CacheTime
        BY <1>5, <2>1, <4>1
      <4>5. QED  BY <4>3, <4>4 DEF GoodEntry
    <3>2. CASE s # t /\ full
      BY <2>2, <3>2 DEF GoodEntry
    <3>3. CASE s # t /\ ~full
      <4>1. confirmed'[s] = confirmed[s] /\ GoodEntry(s)
        BY <2>2, <3>3 DEF LoginInv
      <4>2. QED  BY <1>1, <4>1 DEF GoodEntry, Vouched
    <3>4. QED  BY <3>1, <3>2, <3>3
  <2>6. QED  BY <2>4, <2>5
<1>11. AttemptsInOrder' /\ OneAccountPerUser'
  BY <1>1, LoginFacts DEF AttemptsInOrder, OneAccountPerUser
<1>12. QED  BY <1>1, <1>2, <1>8, <1>9, <1>10, <1>11, LoginFacts, CallStep

\* A call that ends, or goes on to read its account, and changes no more than that.
LEMMA PassingStep ==
  ASSUME LoginAssumption, NobodyAssumption, LoginInv, NEW c \in Logins,
         NEW v \in LoginCalls \cup {Nobody}, login' = [login EXCEPT ![c] = v], GoodLogin(v)',
         Held(v) = 0, active' = active - Held(login[c]), ToldRightly,
         UNCHANGED <<instant, username, apptoken, confirmed, attempts>>,
         identities' \in [GitHubIds -> GitHubRows \cup {Nobody}], OneAccountPerUser',
         \A u \in GitHubIds : identities[u] # Nobody => identities'[u] # Nobody
  PROVE  LoginInv'
<1> DEFINE n == active - Held(login[c])
<1>1. n \in Nat /\ n <= MaxActive
  <2>1. CASE Held(login[c]) = 1
    <3>1. active - 1 \in Nat
      BY <2>1, HeldIsCounted
    <3>2. QED  BY <2>1, <3>1, LoginFacts
  <2>2. CASE Held(login[c]) = 0
    BY <2>2, LoginFacts
  <2>3. QED  BY <2>1, <2>2 DEF Held
<1>2. active' = n + Held(v) /\ active' <= MaxActive /\ n = active - Held(login[c])
  BY <1>1
<1> HIDE DEF n
<1>3. MovesOn(c, n)
  BY <1>2 DEF MovesOn
<1>4. \A s \in AppTokens : GoodEntry(s)'
  BY EntriesStay
<1>5. AttemptsInOrder'
  BY LoginFacts DEF AttemptsInOrder
<1>6. QED  BY <1>1, <1>2, <1>3, <1>4, <1>5, LoginFacts, CallStep

LEMMA TakeFailureStep ==
  ASSUME LoginAssumption, NobodyAssumption, LoginInv, NEW c \in Logins, TakeFailure(c)
  PROVE  LoginInv'
<1>1. /\ AtStage(c, "failed") /\ active' = active - 1 /\ Ends(c, "refused", login[c], Nobody)
      /\ UNCHANGED <<instant, username, apptoken, confirmed, attempts, identities>>
  BY DEF TakeFailure
<1>2. login[c] \in LoginCalls /\ Held(login[c]) = 1
  BY <1>1, WaitsThere DEF AtGitHub
<1>3. ToldRightly
  BY <1>1, <1>2, RefusedRightly
<1>4. /\ login' = [login EXCEPT ![c] = Nobody] /\ GoodLogin(Nobody)' /\ Held(Nobody) = 0
      /\ active' = active - Held(login[c])
  BY <1>1, <1>2 DEF Ends, GoodLogin, Held
<1>5. OneAccountPerUser'
  BY <1>1, LoginFacts DEF OneAccountPerUser
<1>6. QED  BY <1>1, <1>3, <1>4, <1>5, LoginFacts, PassingStep

LEMMA CutStep ==
  ASSUME LoginAssumption, NobodyAssumption, LoginInv, NEW c \in Logins, Cut(c)
  PROVE  LoginInv'
<1>1. /\ login[c] # Nobody /\ Goes(c, Nobody)
      /\ active' = IF login[c].stage \in AtGitHub THEN active - 1 ELSE active
      /\ UNCHANGED <<instant, username, apptoken, confirmed, attempts, identities>>
  BY DEF Cut
<1>2. /\ login' = [login EXCEPT ![c] = Nobody] /\ GoodLogin(Nobody)' /\ Held(Nobody) = 0
      /\ ToldRightly
  BY <1>1, GoesRightly DEF Goes, GoodLogin, Held
<1>3. active' = active - Held(login[c])
  BY <1>1, LoginFacts DEF Held
<1>4. OneAccountPerUser'
  BY <1>1, LoginFacts DEF OneAccountPerUser
<1>5. QED  BY <1>1, <1>2, <1>3, <1>4, LoginFacts, PassingStep

\* An account becomes its own user unless that user is somebody else's.
LEMMA RegisterAccountStep ==
  ASSUME LoginAssumption, NobodyAssumption, LoginInv, NEW c \in Logins, RegisterAccount(c)
  PROVE  LoginInv'
<1>1. AtStage(c, "resolve") /\ UNCHANGED <<instant, username, apptoken, confirmed, attempts, active>>
  BY DEF RegisterAccount
<1>2. /\ login[c] # Nobody /\ login[c] \in LoginCalls /\ login[c].stage = "resolve"
      /\ GoodLogin(login[c]) /\ login[c].since \in Nat /\ login[c].since <= instant
      /\ Held(login[c]) = 0
  BY <1>1, WaitsThere DEF AtGitHub
<1>3. PICK u \in GitHubIds : u = login[c].found.owner
  BY <1>2 DEF GoodLogin, Answers
<1>4. PICK v \in LoginCalls :
        /\ v = [login[c] EXCEPT !.stage = "read"] /\ v.stage = "read" /\ v.token = login[c].token
        /\ v.since = login[c].since /\ v.found = login[c].found
  <2> DEFINE e == [login[c] EXCEPT !.stage = "read"]
  <2>1. /\ e \in LoginCalls /\ e.stage = "read" /\ e.token = login[c].token
        /\ e.since = login[c].since /\ e.found = login[c].found
    BY <1>2 DEF LoginCalls
  <2> HIDE DEF e
  <2>2. e = [login[c] EXCEPT !.stage = "read"]
    BY DEF e
  <2>3. QED  BY <2>1, <2>2
<1>5. active' = active - 0 /\ Held(v) = 0 /\ v # Nobody /\ v.found.owner = u
  BY <1>1, <1>3, <1>4, LoginFacts DEF Held, AtGitHub, NobodyAssumption
<1>6. identities'[u] # Nobody => GoodLogin(v)'
  <2> SUFFICES ASSUME identities'[u] # Nobody PROVE GoodLogin(v)'
    OBVIOUS
  <2>1. /\ v.since <= instant /\ v.token # Nobody /\ v.found \in Answers
        /\ Vouched(v.token, v.found) /\ Permitted(v.found) /\ v.since < v.found.came + CacheTime
    BY <1>2, <1>4 DEF GoodLogin
  <2>2. Vouched(v.token, v.found)'
    BY <1>1, <2>1 DEF Vouched
  <2>3. QED  BY <1>1, <1>4, <1>5, <2>1, <2>2 DEF GoodLogin, Permitted
<1>7. CASE identities[u] # Nobody /\ Goes(c, v) /\ UNCHANGED identities
  <2>1. GoodLogin(v)' /\ ToldRightly /\ login' = [login EXCEPT ![c] = v]
    BY <1>6, <1>7, GoesRightly DEF Goes
  <2>2. OneAccountPerUser'
    BY <1>7, LoginFacts DEF OneAccountPerUser
  <2>3. QED  BY <1>1, <1>2, <1>5, <1>7, <2>1, <2>2, LoginFacts, PassingStep
<1>8. CASE /\ identities[u] = Nobody /\ ~Taken(OwnUser[u]) /\ Goes(c, v)
           /\ identities' = [identities EXCEPT ![u] = [user |-> OwnUser[u], disabled |-> FALSE]]
  <2> DEFINE row == [user |-> OwnUser[u], disabled |-> FALSE]
  <2>1. row \in GitHubRows /\ row.user = OwnUser[u]
    BY DEF GitHubRows, LoginAssumption
  <2>2. identities' = [identities EXCEPT ![u] = row]
    BY <1>8
  <2> HIDE DEF row
  <2>3. row # Nobody
    BY <2>1 DEF NobodyAssumption
  <2>4. identities \in [GitHubIds -> GitHubRows \cup {Nobody}]
    BY LoginFacts
  <2>5. /\ identities' \in [GitHubIds -> GitHubRows \cup {Nobody}]
        /\ \A w \in GitHubIds : identities'[w] = IF w = u THEN row ELSE identities[w]
    BY <2>1, <2>2, <2>4
  <2>6. OneAccountPerUser'
    BY <1>8, <2>1, <2>3, <2>5, LoginFacts DEF OneAccountPerUser, Taken
  <2>7. identities'[u] # Nobody
    BY <2>3, <2>5
  <2>8. GoodLogin(v)' /\ ToldRightly /\ login' = [login EXCEPT ![c] = v]
    BY <1>6, <1>8, <2>7, GoesRightly DEF Goes
  <2>9. QED  BY <1>1, <1>2, <1>5, <1>8, <2>3, <2>5, <2>6, <2>8, PassingStep
<1>9. CASE Ends(c, "refused", login[c], Nobody) /\ UNCHANGED identities
  <2>1. ToldRightly
    BY <1>2, <1>9, RefusedRightly
  <2>2. login' = [login EXCEPT ![c] = Nobody] /\ GoodLogin(Nobody)' /\ Held(Nobody) = 0
    BY <1>9 DEF Ends, GoodLogin, Held
  <2>3. OneAccountPerUser'
    BY <1>9, LoginFacts DEF OneAccountPerUser
  <2>4. QED  BY <1>1, <1>2, <1>5, <1>9, <2>1, <2>2, <2>3, LoginFacts, PassingStep
<1>10. QED  BY <1>3, <1>4, <1>7, <1>8, <1>9 DEF RegisterAccount

\* Who is let in carries what vouches for it.
LEMMA AdmitStep ==
  ASSUME LoginAssumption, NobodyAssumption, LoginInv, NEW c \in Logins, Admit(c)
  PROVE  LoginInv'
<1> DEFINE row == identities[login[c].found.owner]
<1>1. /\ AtStage(c, "read")
      /\ IF row.disabled THEN Ends(c, "refused", login[c], Nobody)
         ELSE Ends(c, "admitted", login[c], row.user)
      /\ UNCHANGED <<instant, username, apptoken, confirmed, attempts, active, identities>>
  BY DEF Admit
<1>2. /\ login[c] # Nobody /\ login[c] \in LoginCalls /\ login[c].stage = "read"
      /\ GoodLogin(login[c]) /\ login[c].since \in Nat /\ Held(login[c]) = 0
  BY <1>1, WaitsThere DEF AtGitHub
<1>3. PICK call \in LoginCalls : call = login[c]
  BY <1>2
<1>4. PICK u \in GitHubIds : u = call.found.owner
  BY <1>2, <1>3 DEF GoodLogin, Answers
<1>5. /\ Vouched(call.token, call.found) /\ Permitted(call.found)
      /\ call.since < call.found.came + CacheTime /\ identities[u] # Nobody
  BY <1>2, <1>3, <1>4 DEF GoodLogin
<1>6. identities[u] \in GitHubRows
  BY <1>5, LoginFacts
<1>7. ToldRightly
  <2>1. CASE row.disabled
    BY <1>1, <1>2, <2>1, RefusedRightly
  <2>2. CASE ~row.disabled
    <3> DEFINE o == [says |-> "admitted", call |-> call, user |-> identities[u].user]
    <3>1. outcome' = o
      BY <1>1, <1>3, <1>4, <2>2 DEF Ends
    <3>2. o \in Outcomes /\ o.says = "admitted" /\ o.call = call /\ o.user = identities[u].user
      BY <1>6 DEF Outcomes, GitHubRows
    <3> HIDE DEF o
    <3>3. BusyIsTrue'
      BY <3>1, <3>2 DEF BusyIsTrue
    <3>4. /\ apptoken'[call.token].owner = call.found.owner
          /\ apptoken'[call.token].until # Nobody => call.found.said <= apptoken'[call.token].until
          /\ identities'[call.found.owner] # Nobody
          /\ identities'[call.found.owner].user = identities[u].user
      BY <1>1, <1>4, <1>5 DEF Vouched
    <3>5. AdmittedIsVouched'
      BY <1>5, <3>1, <3>2, <3>4 DEF AdmittedIsVouched, Permitted
    <3>6. QED  BY <3>1, <3>2, <3>3, <3>5 DEF ToldRightly
  <2>3. QED  BY <2>1, <2>2
<1>8. /\ login' = [login EXCEPT ![c] = Nobody] /\ GoodLogin(Nobody)' /\ Held(Nobody) = 0
      /\ active' = active - Held(login[c])
  BY <1>1, <1>2, LoginFacts DEF Ends, GoodLogin, Held
<1>9. OneAccountPerUser'
  BY <1>1, LoginFacts DEF OneAccountPerUser
<1>10. QED  BY <1>1, <1>7, <1>8, <1>9, LoginFacts, PassingStep

LEMMA LoginStart == ASSUME LoginAssumption, NobodyAssumption, LoginInit PROVE LoginInv
<1>1. LoginTypeOK
  <2>1. attempts \in Seq(Nat) /\ instant \in Nat /\ active \in Nat
    BY DEF LoginInit
  <2>2. /\ username \in [GitHubIds -> Usernames \cup {Nobody}]
        /\ apptoken \in [AppTokens -> [owner : GitHubIds \cup {Nobody}, until : Nat \cup {Nobody}]]
        /\ confirmed \in [AppTokens -> [deadline : Nat, found : Answers] \cup {Nobody}]
        /\ identities \in [GitHubIds -> GitHubRows \cup {Nobody}]
        /\ login \in [Logins -> LoginCalls \cup {Nobody}]
        /\ outcome \in Outcomes \cup {Nobody}
    BY DEF LoginInit
  <2>3. QED  BY <2>1, <2>2 DEF LoginTypeOK
<1>2. \A t \in AppTokens : GoodEntry(t)
  BY DEF LoginInit, GoodEntry
<1>3. \A c \in Logins : GoodLogin(login[c])
  BY DEF LoginInit, GoodLogin
<1>4. AttemptsInOrder
  BY DEF LoginInit, AttemptsInOrder
<1>5. PlacesAreReturned
  <2>1. {c \in Logins : login[c] # Nobody /\ login[c].stage \in AtGitHub} = {}
    BY DEF LoginInit
  <2>2. Cardinality({c \in Logins : login[c] # Nobody /\ login[c].stage \in AtGitHub}) = 0
    BY <2>1, FS_EmptySet, Zenon
  <2>3. active = 0 /\ 0 <= MaxActive
    BY DEF LoginInit, LoginAssumption
  <2>4. active = Cardinality({c \in Logins : login[c] # Nobody /\ login[c].stage \in AtGitHub})
    BY <2>2, <2>3, Zenon
  <2>5. active <= MaxActive
    BY <2>3
  <2>6. QED  BY <2>4, <2>5, Zenon DEF PlacesAreReturned
<1>6. AdmittedIsVouched /\ OneAccountPerUser /\ BusyIsTrue
  BY DEF LoginInit, AdmittedIsVouched, OneAccountPerUser, BusyIsTrue
<1>7. QED  BY <1>1, <1>2, <1>3, <1>4, <1>5, <1>6 DEF LoginInv, LoginIsSound

LEMMA LoginStutters ==
  ASSUME LoginInv, UNCHANGED loginVars
  PROVE  LoginInv'
<1>1. /\ UNCHANGED <<instant, username, apptoken, confirmed, attempts>>
      /\ UNCHANGED <<active, identities, login, outcome>>
  BY DEF loginVars
<1>2. LoginTypeOK' /\ AttemptsInOrder'
  BY <1>1 DEF LoginInv, LoginTypeOK, AttemptsInOrder
<1>3. \A t \in AppTokens : GoodEntry(t)'
  BY <1>1, EntriesStay
<1>4. \A c \in Logins : GoodLogin(login[c])'
  BY <1>1 DEF LoginInv, GoodLogin, Vouched, Permitted
<1>5. AdmittedIsVouched' /\ OneAccountPerUser'
  BY <1>1 DEF LoginInv, LoginIsSound, AdmittedIsVouched, OneAccountPerUser, Permitted
<1>6. PlacesAreReturned' /\ BusyIsTrue'
  BY <1>1 DEF LoginInv, LoginIsSound, PlacesAreReturned, BusyIsTrue, Aged
<1>7. QED  BY <1>2, <1>3, <1>4, <1>5, <1>6 DEF LoginInv, LoginIsSound

\* The inductive invariant: the cache and every call under way hold only what GitHub
\* said of the token they are about, while it was good.
THEOREM LoginIsSafe == LoginSpec => []LoginInv
<1>1. LoginInit => LoginInv
  BY LoginStart, LoginAssumption, NobodyAssumption
<1>2. LoginInv /\ [LoginNext]_loginVars => LoginInv'
  <2> SUFFICES ASSUME LoginInv, [LoginNext]_loginVars PROVE LoginInv'
    OBVIOUS
  <2> USE LoginAssumption, NobodyAssumption
  <2>1. CASE \/ \E u \in GitHubIds, n \in Usernames \cup {Nobody} : Rename(u, n)
             \/ \E t \in AppTokens : RevokeToken(t)
             \/ \E u \in GitHubIds, m \in MemoryUsers : BindLegacy(u, m)
             \/ \E u \in GitHubIds, off \in BOOLEAN : SwitchAccount(u, off)
             \/ InstantTick
    BY <2>1, OutsideSteps
  <2>2. CASE \/ \E c \in Logins, t \in AppTokens : VerifyLogin(c, t)
             \/ \E c \in Logins : Trade(c)
    BY <2>2, VerifyLoginStep, TradeStep
  <2>3. CASE \/ \E c \in Logins, u \in GitHubIds, t \in AppTokens : Grant(c, u, t)
             \/ \E c \in Logins : Tell(c)
             \/ \E c \in Logins : Fail(c)
    BY <2>3, GrantStepLogin, TellStep, FailStep
  <2>4. CASE \/ \E c \in Logins : TakeToken(c)
             \/ \E c \in Logins : TakeIdentity(c)
             \/ \E c \in Logins : TakeFailure(c)
    BY <2>4, TakeTokenStep, TakeIdentityStep, TakeFailureStep
  <2>5. CASE \/ \E c \in Logins : RegisterAccount(c)
             \/ \E c \in Logins : Admit(c)
             \/ \E c \in Logins : Cut(c)
    BY <2>5, RegisterAccountStep, AdmitStep, CutStep
  <2>6. CASE UNCHANGED loginVars
    BY <2>6, LoginStutters
  <2>7. QED  BY <2>1, <2>2, <2>3, <2>4, <2>5, <2>6 DEF LoginNext
<1>3. QED  BY <1>1, <1>2, PTL DEF LoginSpec

\* Whatever calls do at once, and whatever becomes of tokens, names and accounts
\* meanwhile, who is let in was vouched for, no two accounts are one user, and a
\* place with GitHub is held by a call that waits there.
THEOREM LoginsStaySound == LoginSpec => []LoginIsSound
<1>1. LoginInv => LoginIsSound
  BY DEF LoginInv
<1>2. QED  BY <1>1, LoginIsSafe, PTL
=============================================================================
