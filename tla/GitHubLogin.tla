----------------------------- MODULE GitHubLogin -----------------------------
(***************************************************************************)
(* GitHubAuth: calls that come with a GitHub token, or that exchange a     *)
(* code (or a refresh token) for one.  The server asks GitHub whose the    *)
(* token is, and that it was issued to this application; it keeps the      *)
(* answer for a while, asks only so often, and only so many at once.  Then *)
(* it looks at its own list, and at its own record of the account.         *)
(*                                                                         *)
(* Calls share one event loop: a call runs until it waits, for GitHub or   *)
(* for the database.  An account is its number; its username may change    *)
(* and may come to somebody else.  What makes a token, a code or an answer *)
(* malformed is not modelled: such a call is refused by its shape alone.   *)
(* The organization of an account is the only one that the settings and    *)
(* the operator's command admit, and is left out.                          *)
(***************************************************************************)
EXTENDS Integers, Sequences, FiniteSets

CONSTANTS GitHubIds,       \* numbers of accounts
          Usernames,       \* usernames that the list may speak of
          AppTokens,       \* tokens, issued by GitHub or not
          Logins,          \* calls that may be under way at once
          MemoryUsers,
          OwnUser,         \* github:<id>, the user an account is by itself
          AllowedUsers,    \* allowed_user_ids: numbers and usernames
          CacheTime, RateWindow, MaxAttempts, MaxActive, MaxCached,
          Nobody,          \* nobody, nothing
          MaxInstant       \* bound on the clock

ASSUME LoginAssumption ==
  /\ OwnUser \in [GitHubIds -> MemoryUsers]
  /\ CacheTime \in Nat \ {0} /\ RateWindow \in Nat
  /\ MaxAttempts \in Nat \ {0} /\ MaxActive \in Nat \ {0} /\ MaxCached \in Nat \ {0}
  /\ MaxInstant \in Nat
  /\ IsFiniteSet(Logins)
  /\ Nobody \notin Nat /\ Nobody \notin GitHubIds \cup Usernames \cup AppTokens

VARIABLES instant,         \* the clock
          username,        \* who is called what at GitHub
          apptoken,        \* whose each token is, and until when it was good
          confirmed,       \* the cache: what GitHub said of tokens
          attempts, active,
          identities,      \* memory_github_identities
          login,           \* what each call waits for
          outcome          \* what the step before said to its caller

loginVars ==
  <<instant, username, apptoken, confirmed, attempts, active, identities, login, outcome>>

\* What GitHub said of a token: whose it is, when it said so, and when that came.
Answers == [owner : GitHubIds, name : Usernames \cup {Nobody}, said : Nat, came : Nat]

AtGitHub == {"exchange", "granted", "asked", "told", "failed"}

LoginCalls == [stage : AtGitHub \cup {"resolve", "read"}, token : AppTokens \cup {Nobody},
               since : Nat, found : Answers \cup {Nobody}]

GitHubRows == [user : MemoryUsers, disabled : BOOLEAN]

ASSUME NobodyAssumption == Nobody \notin LoginCalls /\ Nobody \notin GitHubRows

Outcomes == [says : {"admitted", "refused", "busy"}, call : LoginCalls,
             user : MemoryUsers \cup {Nobody}]

LoginTypeOK ==
  /\ instant \in Nat
  /\ username \in [GitHubIds -> Usernames \cup {Nobody}]
  /\ apptoken \in [AppTokens -> [owner : GitHubIds \cup {Nobody}, until : Nat \cup {Nobody}]]
  /\ confirmed \in [AppTokens -> [deadline : Nat, found : Answers] \cup {Nobody}]
  /\ attempts \in Seq(Nat) /\ active \in Nat
  /\ identities \in [GitHubIds -> GitHubRows \cup {Nobody}]
  /\ login \in [Logins -> LoginCalls \cup {Nobody}]
  /\ outcome \in Outcomes \cup {Nobody}

LoginInit ==
  /\ instant = 0
  /\ username = [u \in GitHubIds |-> Nobody]
  /\ apptoken = [t \in AppTokens |-> [owner |-> Nobody, until |-> Nobody]]
  /\ confirmed = [t \in AppTokens |-> Nobody]
  /\ attempts = <<>> /\ active = 0
  /\ identities = [u \in GitHubIds |-> Nobody]
  /\ login = [c \in Logins |-> Nobody]
  /\ outcome = Nobody

(***************************************************************************)
(* GitHub, the operator and the clock.                                     *)
(***************************************************************************)

\* A username is one account's at a time, and free once it is given up.
Rename(u, n) ==
  /\ username[u] # n /\ (n # Nobody => \A v \in GitHubIds : username[v] # n)
  /\ username' = [username EXCEPT ![u] = n]
  /\ outcome' = Nobody
  /\ UNCHANGED <<instant, apptoken, confirmed, attempts, active, identities, login>>

Good(t) == apptoken[t].owner # Nobody /\ apptoken[t].until = Nobody

RevokeToken(t) ==
  /\ Good(t)
  /\ apptoken' = [apptoken EXCEPT ![t].until = instant]
  /\ outcome' = Nobody
  /\ UNCHANGED <<instant, username, confirmed, attempts, active, identities, login>>

Taken(m) == \E v \in GitHubIds : identities[v] # Nobody /\ identities[v].user = m

\* bind_legacy: an account that never logged in becomes a user that there is.
BindLegacy(u, m) ==
  /\ identities[u] = Nobody /\ ~Taken(m)
  /\ identities' = [identities EXCEPT ![u] = [user |-> m, disabled |-> FALSE]]
  /\ outcome' = Nobody
  /\ UNCHANGED <<instant, username, apptoken, confirmed, attempts, active, login>>

\* github_admin: an account is disabled, or enabled.
SwitchAccount(u, off) ==
  /\ identities[u] # Nobody
  /\ identities' = [identities EXCEPT ![u].disabled = off]
  /\ outcome' = Nobody
  /\ UNCHANGED <<instant, username, apptoken, confirmed, attempts, active, login>>

InstantTick ==
  /\ instant < MaxInstant
  /\ instant' = instant + 1
  /\ outcome' = Nobody
  /\ UNCHANGED <<username, apptoken, confirmed, attempts, active, identities, login>>

(***************************************************************************)
(* What a call does between two waits.                                     *)
(***************************************************************************)

Goes(c, call) == login' = [login EXCEPT ![c] = call] /\ outcome' = Nobody

Ends(c, says, call, user) ==
  /\ login' = [login EXCEPT ![c] = Nobody]
  /\ outcome' = [says |-> says, call |-> call, user |-> user]

\* The attempts that still count: the old ones are dropped from the left.
Aged(i) == attempts[i] < instant - RateWindow

Recent ==
  LET n == CHOOSE n \in 0..Len(attempts) :
             /\ \A i \in 1..n : Aged(i)
             /\ n < Len(attempts) => ~Aged(n + 1)
  IN SubSeq(attempts, n + 1, Len(attempts))

\* remote, up to its wait: n others are at it.
Remote(c, call, n) ==
  IF n >= MaxActive \/ Len(Recent) >= MaxAttempts
  THEN /\ attempts' = Recent /\ active' = n
       /\ Ends(c, "busy", call, Nobody)
  ELSE /\ attempts' = Append(Recent, instant) /\ active' = n + 1
       /\ Goes(c, call)

\* permits: the list knows the number, or the name that GitHub told.
Permitted(found) == found.owner \in AllowedUsers \/ found.name \in AllowedUsers

\* identity, once it is known whose the token is: the list comes before the
\* database, on every call.
Known(c, t, since, found) ==
  LET call == [stage |-> "resolve", token |-> t, since |-> since, found |-> found] IN
  IF Permitted(found) THEN Goes(c, call) ELSE Ends(c, "refused", call, Nobody)

\* identity, up to its first wait.
Identify(c, t, since, n) ==
  /\ IF confirmed[t] # Nobody /\ confirmed[t].deadline > instant
     THEN /\ Known(c, t, since, confirmed[t].found)
          /\ active' = n /\ UNCHANGED attempts
     ELSE Remote(c, [stage |-> "asked", token |-> t, since |-> since, found |-> Nobody], n)
  /\ UNCHANGED confirmed

(***************************************************************************)
(* Calls.                                                                  *)
(***************************************************************************)

\* verify: a call with a token.
VerifyLogin(c, t) ==
  /\ login[c] = Nobody
  /\ Identify(c, t, instant, active)
  /\ UNCHANGED <<instant, username, apptoken, identities>>

\* exchange: a call with a code or a refresh token.
Trade(c) ==
  /\ login[c] = Nobody
  /\ Remote(c, [stage |-> "exchange", token |-> Nobody, since |-> instant, found |-> Nobody], active)
  /\ UNCHANGED <<instant, username, apptoken, confirmed, identities>>

AtStage(c, stage) == login[c] # Nobody /\ login[c].stage = stage

\* GitHub issues a token that was never there.
Grant(c, u, t) ==
  /\ AtStage(c, "exchange")
  /\ apptoken[t].owner = Nobody
  /\ apptoken' = [apptoken EXCEPT ![t].owner = u]
  /\ Goes(c, [login[c] EXCEPT !.stage = "granted", !.token = t])
  /\ UNCHANGED <<instant, username, confirmed, attempts, active, identities>>

\* GitHub says whose a token is.
Tell(c) ==
  LET t == login[c].token IN
  /\ AtStage(c, "asked")
  /\ Good(t)
  /\ Goes(c, [login[c] EXCEPT !.stage = "told",
       !.found = [owner |-> apptoken[t].owner, name |-> username[apptoken[t].owner],
                  said |-> instant, came |-> instant]])
  /\ UNCHANGED <<instant, username, apptoken, confirmed, attempts, active, identities>>

\* GitHub refuses a code or a token, fails, does not answer in time, or answers
\* what is not accepted.
Fail(c) ==
  /\ \E stage \in AtGitHub \ {"failed"} : AtStage(c, stage)
  /\ Goes(c, [login[c] EXCEPT !.stage = "failed"])
  /\ UNCHANGED <<instant, username, apptoken, confirmed, attempts, active, identities>>

\* remote and what follows it, once GitHub answered.
TakeToken(c) ==
  /\ AtStage(c, "granted")
  /\ Identify(c, login[c].token, login[c].since, active - 1)
  /\ UNCHANGED <<instant, username, apptoken, identities>>

\* A full cache is emptied before it takes one more.
Remembered(t, found) ==
  LET full == Cardinality({k \in AppTokens : confirmed[k] # Nobody}) >= MaxCached IN
  [k \in AppTokens |->
     IF k = t THEN [deadline |-> instant + CacheTime, found |-> found]
     ELSE IF full THEN Nobody ELSE confirmed[k]]

TakeIdentity(c) ==
  LET call == login[c]
      found == [call.found EXCEPT !.came = instant]
  IN
  /\ AtStage(c, "told")
  /\ confirmed' = Remembered(call.token, found)
  /\ active' = active - 1
  /\ Known(c, call.token, call.since, found)
  /\ UNCHANGED <<instant, username, apptoken, attempts, identities>>

TakeFailure(c) ==
  /\ AtStage(c, "failed")
  /\ active' = active - 1
  /\ Ends(c, "refused", login[c], Nobody)
  /\ UNCHANGED <<instant, username, apptoken, confirmed, attempts, identities>>

\* resolve, the insert: an account becomes its own user when it comes for the first
\* time, unless the operator gave that user to another account.
RegisterAccount(c) ==
  LET u == login[c].found.owner IN
  /\ AtStage(c, "resolve")
  /\ \/ /\ identities[u] # Nobody
        /\ Goes(c, [login[c] EXCEPT !.stage = "read"])
        /\ UNCHANGED identities
     \/ /\ identities[u] = Nobody /\ ~Taken(OwnUser[u])
        /\ identities' = [identities EXCEPT ![u] = [user |-> OwnUser[u], disabled |-> FALSE]]
        /\ Goes(c, [login[c] EXCEPT !.stage = "read"])
     \/ /\ identities[u] = Nobody /\ Taken(OwnUser[u])
        /\ Ends(c, "refused", login[c], Nobody)
        /\ UNCHANGED identities
  /\ UNCHANGED <<instant, username, apptoken, confirmed, attempts, active>>

\* resolve, the select.
Admit(c) ==
  LET row == identities[login[c].found.owner] IN
  /\ AtStage(c, "read")
  /\ IF row.disabled THEN Ends(c, "refused", login[c], Nobody)
     ELSE Ends(c, "admitted", login[c], row.user)
  /\ UNCHANGED <<instant, username, apptoken, confirmed, attempts, active, identities>>

\* Mutant: the counter of a call that is cut while it waits is not taken back.
Leak(c) ==
  /\ login[c] # Nobody
  /\ Goes(c, Nobody)
  /\ UNCHANGED <<instant, username, apptoken, confirmed, attempts, active, identities>>

\* The call is cut while it waits, for GitHub or for the database.
Cut(c) ==
  /\ login[c] # Nobody
  /\ active' = IF login[c].stage \in AtGitHub THEN active - 1 ELSE active
  /\ Goes(c, Nobody)
  /\ UNCHANGED <<instant, username, apptoken, confirmed, attempts, identities>>

LoginNext ==
  \/ \E u \in GitHubIds, n \in Usernames \cup {Nobody} : Rename(u, n)
  \/ \E t \in AppTokens : RevokeToken(t)
  \/ \E u \in GitHubIds, m \in MemoryUsers : BindLegacy(u, m)
  \/ \E u \in GitHubIds, off \in BOOLEAN : SwitchAccount(u, off)
  \/ InstantTick
  \/ \E c \in Logins, t \in AppTokens : VerifyLogin(c, t)
  \/ \E c \in Logins : Trade(c)
  \/ \E c \in Logins, u \in GitHubIds, t \in AppTokens : Grant(c, u, t)
  \/ \E c \in Logins : Tell(c)
  \/ \E c \in Logins : Fail(c)
  \/ \E c \in Logins : TakeToken(c)
  \/ \E c \in Logins : TakeIdentity(c)
  \/ \E c \in Logins : TakeFailure(c)
  \/ \E c \in Logins : RegisterAccount(c)
  \/ \E c \in Logins : Admit(c)
  \/ \E c \in Logins : Cut(c)

LoginSpec == LoginInit /\ [][LoginNext]_loginVars

(***************************************************************************)
(* Properties.                                                             *)
(***************************************************************************)

\* Who is let in has shown a token that GitHub vouched for, in an answer that came
\* less than the time of the cache before the call began, and that the token was
\* good for when GitHub gave it; the account is on the list by its number or by the
\* name it had then, and it is let in as the user that this account is, whoever had
\* its name before.
AdmittedIsVouched ==
  outcome # Nobody /\ outcome.says = "admitted" =>
    LET call == outcome.call
        found == call.found
        token == apptoken[call.token]
        row == identities[found.owner]
    IN /\ token.owner = found.owner /\ Permitted(found)
       /\ token.until # Nobody => found.said <= token.until
       /\ call.since < found.came + CacheTime
       /\ row # Nobody /\ row.user = outcome.user

\* No two accounts are one user, however they came to be users.
OneAccountPerUser ==
  \A u, v \in GitHubIds :
    identities[u] # Nobody /\ identities[v] # Nobody /\ identities[u].user = identities[v].user
      => u = v

\* A place with GitHub is held by a call that waits there and by nobody else,
\* whether calls end, fail or are cut: the server never stays busy with nothing.
\* It is never busy beyond its measure either.
PlacesAreReturned ==
  /\ active = Cardinality({c \in Logins : login[c] # Nobody /\ login[c].stage \in AtGitHub})
  /\ active <= MaxActive

\* Who is told that the server is busy is told so because of calls that wait, or of
\* as many attempts as may be made within the window.
BusyIsTrue ==
  outcome # Nobody /\ outcome.says = "busy" =>
    \/ active >= MaxActive
    \/ Len(attempts) >= MaxAttempts /\ \A i \in 1..Len(attempts) : ~Aged(i)

\* Logins are let in, and kept out, for a reason.
LoginIsSound ==
  AdmittedIsVouched /\ OneAccountPerUser /\ PlacesAreReturned /\ BusyIsTrue
=============================================================================
