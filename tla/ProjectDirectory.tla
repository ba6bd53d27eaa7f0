-------------------------- MODULE ProjectDirectory --------------------------
(***************************************************************************)
(* One project of the directory: who owns it, who is a member, which       *)
(* credentials act for them, and the records that the members share.       *)
(*                                                                         *)
(* A call is authenticated, then bound to the project with the rights that *)
(* the caller's membership leaves of the credential, then handled in a     *)
(* transaction.  Each step reads the database on its own, so credentials   *)
(* and memberships may change in between.                                  *)
(***************************************************************************)
EXTENDS Integers, FiniteSets

CONSTANTS Users, Organizations, Metadata,
          Tokens, Accounts,        \* credentials: access tokens, company accounts
          UserOf, Scopes,          \* of a credential
          Named,                   \* the tokens whose row names this project
          OrganizationOf,          \* of an account
          Records, Bodies,
          None,
          MaxRevision              \* bound on the revision of the project

Credentials == Tokens \cup Accounts

ScopeNames == {"read", "write", "admin", "projects"}

Multiple(c) == c \in Accounts \/ "projects" \in Scopes[c]

RecordRows ==
  [by : Users, digest : Bodies, body : Bodies \cup {None}, removed : BOOLEAN]

\* A token is good for many projects or for the one that it names.  What the
\* login of a company account carries is fixed.
DirectoryAssumption ==
  /\ UserOf \in [Credentials -> Users]
  /\ Scopes \in [Credentials -> SUBSET ScopeNames]
  /\ OrganizationOf \in [Accounts -> Organizations]
  /\ Named \subseteq Tokens
  /\ \A t \in Tokens : Multiple(t) \/ t \in Named
  /\ \A a \in Accounts : Scopes[a] = {"read", "write", "projects"}
  /\ Tokens \cap Accounts = {}
  /\ None \notin Users \cup Organizations \cup Bodies \cup RecordRows \cup {"read", "write", "owner"}

VARIABLES credential,              \* access_tokens, memory_identities
          project,                 \* memory_projects
          role,                    \* memory_project_members
          record,                  \* memory_project_records
          request,                 \* the call that a credential has under way
          seen,                    \* the project as its user last read it
          answer                   \* what the step before showed, and to whom, if it was a listing

vars == <<credential, project, role, record, request, seen, answer>>

Roles == {"read", "write", None}

Tools == {"get", "register", "assign", "put", "list", "remove"}

ScopeOf == [tool \in Tools |-> IF tool \in {"get", "list"} THEN "read" ELSE "write"]

Projects ==
  [revision : Nat, owner : Users \cup {None}, organization : Organizations \cup {None},
   metadata : Metadata \cup {None}]

Calls == [tool : Tools \cup {"unbound"}, scopes : SUBSET ScopeNames, organization : Organizations \cup {None}]

\* A call whose credential was verified.
Verified == [tool |-> "unbound", scopes |-> {}, organization |-> None]

TypeOK ==
  /\ credential \in [Credentials -> {"absent", "live", "off"}]
  /\ project \in Projects
  /\ role \in [Users -> Roles]
  /\ record \in [Records -> RecordRows \cup {None}]
  /\ request \in [Credentials -> Calls \cup {None}]
  /\ seen \in [Credentials -> [project : Projects, role : [Users -> Roles]]]
  /\ answer \in [to : Users, records : SUBSET Records, can_share : BOOLEAN] \cup {None}

Silent == answer' = None

Registered == project.revision > 0

Init ==
  /\ credential = [c \in Credentials |-> "absent"]
  /\ project = [revision |-> 0, owner |-> None, organization |-> None, metadata |-> None]
  /\ role = [u \in Users |-> None]
  /\ record = [r \in Records |-> None]
  /\ request = [c \in Credentials |-> None]
  /\ seen = [c \in Credentials |-> [project |-> project, role |-> role]]
  /\ answer = None

(***************************************************************************)
(* Credentials.                                                            *)
(***************************************************************************)

Issue(t) ==
  /\ credential[t] = "absent"
  /\ credential' = [credential EXCEPT ![t] = "live"]
  /\ UNCHANGED <<project, role, record, request, seen>> /\ Silent

\* A token that is revoked or expires stays so; an account may be enabled again.
SwitchOff(c) ==
  /\ credential[c] = "live"
  /\ credential' = [credential EXCEPT ![c] = "off"]
  /\ UNCHANGED <<project, role, record, request, seen>> /\ Silent

Enable(a) ==
  /\ credential[a] = "off"
  /\ credential' = [credential EXCEPT ![a] = "live"]
  /\ UNCHANGED <<project, role, record, request, seen>> /\ Silent

\* An account is entered when it first logs in.
Authenticate(c) ==
  /\ request[c] = None
  /\ \/ credential[c] = "live" /\ UNCHANGED credential
     \/ /\ c \in Accounts /\ credential[c] = "absent"
        /\ credential' = [credential EXCEPT ![c] = "live"]
  /\ request' = [request EXCEPT ![c] = Verified]
  /\ UNCHANGED <<project, role, record, seen>> /\ Silent

(***************************************************************************)
(* The rights of a call.                                                   *)
(***************************************************************************)

RoleIn(p, u) == IF p.revision > 0 /\ u = p.owner THEN "owner" ELSE role[u]

Role(u) == RoleIn(project, u)

\* Mutant: a membership of any kind lets the credential do all it can.
AllowedAll(r) ==
  {"read", "projects", "write"} \cup IF r = "owner" THEN {"admin"} ELSE {}

Allowed(r) ==
  {"read", "projects"} \cup (IF r \in {"write", "owner"} THEN {"write"} ELSE {})
                       \cup (IF r = "owner" THEN {"admin"} ELSE {})

\* Of an administrator's credential reading and writing, of the company account
\* of the owner the administration of this project; never more than the role allows.
BoundScopes(c, r) ==
  (Scopes[c] \cup (IF "admin" \in Scopes[c] THEN {"read", "write"} ELSE {})
             \cup (IF c \in Accounts /\ r = "owner" THEN {"admin"} ELSE {}))
  \cap Allowed(r)

Passes(scopes, tool) == ScopeOf[tool] \in scopes \/ "admin" \in scopes

Creates(tool, expected) == ~Registered /\ tool = "register" /\ expected = 0

\* bind and authorize_tool.  A project that is not in the directory keeps the
\* contract of its tokens; whoever enters it is taken for its owner.
Bind(c, tool, organization) ==
  LET expected == seen[c].project.revision
      r == IF Creates(tool, expected) THEN "owner" ELSE Role(UserOf[c])
      kept == ~Registered /\ ~Multiple(c)
      scopes == IF kept THEN Scopes[c] ELSE BoundScopes(c, r)
  IN
  /\ request[c] = Verified
  /\ c \in Accounts =>
       /\ OrganizationOf[c] = IF Registered THEN project.organization ELSE organization
       /\ tool = "register" => organization = OrganizationOf[c]
  /\ kept \/ r # None
  /\ Passes(scopes, tool)
  /\ request' = [request EXCEPT ![c] = [tool |-> tool, scopes |-> scopes, organization |-> organization]]
  /\ UNCHANGED <<credential, project, role, record, seen>> /\ Silent

\* A call that is refused, or whose client went away.
Drop(c) ==
  /\ request[c] # None
  /\ request' = [request EXCEPT ![c] = None]
  /\ UNCHANGED <<credential, project, role, record, seen>> /\ Silent

Handles(c, tool) ==
  /\ request[c] # None /\ request[c].tool = tool
  /\ request' = [request EXCEPT ![c] = None]

(***************************************************************************)
(* The directory.                                                          *)
(***************************************************************************)

Get(c) ==
  /\ Handles(c, "get")
  /\ Registered /\ Role(UserOf[c]) # None
  /\ seen' = [seen EXCEPT ![c] = [project |-> project, role |-> role]]
  /\ UNCHANGED <<credential, project, role, record>> /\ Silent

\* Existing data is adopted by an administrator of the one project only; the row
\* of a token is data of the project it names.
Adopts(c) ==
  \/ ~Multiple(c) /\ "admin" \in request[c].scopes
  \/ \A t \in Named : credential[t] = "absent"

Register(c, metadata) ==
  LET wanted == [organization |-> request[c].organization, metadata |-> metadata] IN
  /\ Handles(c, "register")
  /\ IF Registered THEN project.owner = UserOf[c] ELSE Adopts(c)
  /\ wanted # [organization |-> project.organization, metadata |-> project.metadata]
  /\ project.revision = seen[c].project.revision
  /\ project' = [revision |-> project.revision + 1,
                 owner |-> IF Registered THEN project.owner ELSE UserOf[c],
                 organization |-> wanted.organization, metadata |-> wanted.metadata]
  /\ UNCHANGED <<credential, role, record, seen>> /\ Silent

\* Mutant: a membership changes under the same revision of the project.
AssignUnnumbered(c, u, r) ==
  /\ Handles(c, "assign")
  /\ Registered /\ project.owner = UserOf[c]
  /\ u # project.owner
  /\ role[u] # r
  /\ project.revision = seen[c].project.revision
  /\ role' = [role EXCEPT ![u] = r]
  /\ UNCHANGED <<credential, project, record, seen>> /\ Silent

Assign(c, u, r) ==
  /\ Handles(c, "assign")
  /\ Registered /\ project.owner = UserOf[c]
  /\ u # project.owner
  /\ role[u] # r
  /\ project.revision = seen[c].project.revision
  /\ role' = [role EXCEPT ![u] = r]
  /\ project' = [project EXCEPT !.revision = @ + 1]
  /\ UNCHANGED <<credential, record, seen>> /\ Silent

(***************************************************************************)
(* Records.                                                                *)
(***************************************************************************)

\* Mutant: the role that the call was bound with.
WritesAsBound(c) == Registered /\ "write" \in request[c].scopes

\* The role that the transaction finds.
Writes(c) == Registered /\ Role(UserOf[c]) \in {"write", "owner"}

\* Mutant: a record that was removed may be sent again.
PutAgain(c, r, body) ==
  /\ Handles(c, "put")
  /\ Writes(c)
  /\ record[r] # None => record[r].removed
  /\ record' = [record EXCEPT ![r] = [by |-> UserOf[c], digest |-> body, body |-> body, removed |-> FALSE]]
  /\ UNCHANGED <<credential, project, role, seen>> /\ Silent

\* The same record once more is answered from its row.
Put(c, r, body) ==
  /\ Handles(c, "put")
  /\ Writes(c)
  /\ \/ /\ record[r] = None
        /\ record' = [record EXCEPT ![r] = [by |-> UserOf[c], digest |-> body, body |-> body, removed |-> FALSE]]
     \/ /\ record[r] # None
        /\ record[r].by = UserOf[c] /\ record[r].digest = body
        /\ UNCHANGED record
  /\ UNCHANGED <<credential, project, role, seen>> /\ Silent

Remove(c, r) ==
  /\ Handles(c, "remove")
  /\ Registered /\ Role(UserOf[c]) # None
  /\ record[r] # None
  /\ record[r].by = UserOf[c] \/ Role(UserOf[c]) = "owner"
  /\ record' = [record EXCEPT ![r].body = None, ![r].removed = TRUE]
  /\ UNCHANGED <<credential, project, role, seen>> /\ Silent

List(c) ==
  /\ Handles(c, "list")
  /\ Registered /\ Role(UserOf[c]) # None
  /\ answer' = [to |-> UserOf[c], records |-> {r \in Records : record[r] # None /\ ~record[r].removed},
                can_share |-> /\ request[c].scopes \cap {"write", "admin"} # {}
                              /\ Role(UserOf[c]) \in {"write", "owner"}]
  /\ UNCHANGED <<credential, project, role, record, seen>>

Administer ==
  \/ \E t \in Tokens : Issue(t)
  \/ \E c \in Credentials : SwitchOff(c)
  \/ \E a \in Accounts : Enable(a)

Handle(c) ==
  \/ Get(c)
  \/ project.revision < MaxRevision /\ \E metadata \in Metadata : Register(c, metadata)
  \/ project.revision < MaxRevision /\ \E u \in Users, r \in Roles : Assign(c, u, r)
  \/ \E r \in Records, body \in Bodies : Put(c, r, body)
  \/ \E r \in Records : Remove(c, r)
  \/ List(c)

Next ==
  \/ Administer
  \/ \E c \in Credentials :
       \/ Authenticate(c)
       \/ \E organization \in Organizations : Bind(c, "register", organization)
       \/ \E tool \in Tools \ {"register"} : Bind(c, tool, None)
       \/ Drop(c)
       \/ Handle(c)

Spec == Init /\ [][Next]_vars

(***************************************************************************)
(* memory_eligible_members, the view from which recipients are chosen.     *)
(***************************************************************************)

ReadsAndWrites(scopes) == "admin" \in scopes \/ {"read", "write"} \subseteq scopes

EligibleThrough(c, u) ==
  /\ UserOf[c] = u /\ credential[c] = "live"
  /\ \/ /\ c \in Named /\ ~Multiple(c) /\ ReadsAndWrites(Scopes[c])
        /\ ~Registered \/ project.owner = u \/ role[u] = "write"
     \/ /\ c \in Tokens /\ Multiple(c) /\ ReadsAndWrites(Scopes[c])
        /\ Registered /\ (project.owner = u \/ role[u] = "write")
     \/ /\ c \in Accounts
        /\ Registered /\ project.organization = OrganizationOf[c]
        /\ project.owner = u \/ role[u] = "write"

Eligible(u) == \E c \in Credentials : EligibleThrough(c, u)

(***************************************************************************)
(* Properties.                                                             *)
(***************************************************************************)

\* The calls that a credential, were it used now, could make.
Within(c) ==
  IF ~Registered
  THEN IF Multiple(c) THEN {} ELSE Scopes[c]
  ELSE IF \/ c \in Accounts /\ OrganizationOf[c] # project.organization
          \/ Role(UserOf[c]) = None
       THEN {} ELSE BoundScopes(c, Role(UserOf[c]))

\* The view that chooses recipients and the code that binds a call agree: a user
\* may be sent work exactly when one credential of theirs can both read and write,
\* whichever way memberships, organizations, tokens and accounts came and went.
EligibleCanWrite ==
  \A u \in Users :
    Eligible(u) <=> \E c \in Credentials :
                      /\ UserOf[c] = u /\ credential[c] = "live"
                      /\ Passes(Within(c), "get") /\ Passes(Within(c), "put")

\* The directory and the view of it.
DirectoryIsSound == TypeOK /\ EligibleCanWrite

\* Records are written, removed and shown by what the caller is at that moment, not
\* by what it was when the call was bound: who lost a role neither adds nor reads.
RightsAreCurrent ==
  [][/\ \A r \in Records :
          /\ record[r] = None /\ record'[r] # None => Role(record'[r].by) \in {"write", "owner"}
          /\ record[r] # None /\ record'[r] # record[r] =>
               \E c \in Credentials :
                 /\ request[c] # None /\ request'[c] = None
                 /\ Role(UserOf[c]) = "owner" \/ (UserOf[c] = record[r].by /\ role[UserOf[c]] # None)
     /\ answer' # None =>
          /\ Role(answer'.to) # None
          /\ answer'.can_share => Role(answer'.to) \in {"write", "owner"}]_vars

\* A record keeps its author and what it said, and once removed it says nothing
\* and never comes back, also when its author sends it again.
RecordsAreKept ==
  [][\A r \in Records : record[r] # None =>
       /\ record'[r] # None
       /\ record'[r].by = record[r].by /\ record'[r].digest = record[r].digest
       /\ record'[r].body \in {record[r].body, None}
       /\ record[r].removed => record'[r].removed]_vars

\* A change of the directory is applied to the very project that its author read:
\* no change of another is overwritten unseen, and none comes back by way of a
\* revision that returned.
ChangedAsSeen ==
  [][<<project, role>> # <<project', role'>> =>
       \E c \in Credentials :
         /\ request[c] # None /\ request'[c] = None
         /\ seen[c] = [project |-> project, role |-> role]]_vars
=============================================================================
