------------------------------- MODULE MCTeam -------------------------------
(***************************************************************************)
(* The directory of one project, the assets that it shares, the keys by    *)
(* which company accounts are verified, and the logins from GitHub.  None  *)
(* reads the state of another, and every property speaks of one of them,   *)
(* so a behaviour needs to move only one; of the assets, the imports move  *)
(* alone too.                                                              *)
(***************************************************************************)
EXTENDS ProjectDirectory, TeamAssets, SigningKeys, GitHubLogin, TLC

CONSTANTS owner, member, company, other,
          ownerToken, memberToken, memberAccount,
          content1, content2, revision1, revision2, import1, import2,
          key1, key2, call1, call2,
          account1, account2, user1, user2, login1, login2, token1, token2

\* The member has a token for many projects and a company account.
MCUserOf == ownerToken :> owner @@ memberToken :> member @@ memberAccount :> member

MCScopes ==
  ownerToken :> {"read", "write", "admin"} @@ memberToken :> {"read", "write", "projects"}
    @@ memberAccount :> {"read", "write", "projects"}

MCOrganizationOf == memberAccount :> company

MCOwnUser == account1 :> user1 @@ account2 :> user2

ASSUME DirectoryAssumption

ASSUME TeamAssumption

DirectoryStarted == \E c \in Credentials : credential[c] # "absent"

AssetsStarted ==
  \/ now > 0 \/ \E d \in DOMAIN events : events[d] # <<>>
  \/ \E a \in DOMAIN reviewed : reviewed[a].version > 1 \/ reviewed[a].level > 1

ImportsStarted == \E i \in Imports : imported[i] # Null

KeysStarted ==
  \/ moment > 0 \/ \E k \in Kids : issuer[k].from # Unset
  \/ \E c \in Verifications : verifying[c] # Unset
  \/ last_attempt >= 0

LoginStarted ==
  \/ instant > 0 \/ attempts # <<>>
  \/ \E c \in Logins : login[c] # Nobody
  \/ \E u \in GitHubIds : username[u] # Nobody \/ identities[u] # Nobody

\* At most two calls are under way, and an account that is not the owner's looks
\* at nothing.
DirectoryNext ==
  /\ ~AssetsStarted /\ ~ImportsStarted /\ ~KeysStarted /\ ~LoginStarted
  /\ Next
  /\ Cardinality({c \in Credentials : request'[c] # None}) <= 2
  /\ \A c \in Accounts : request[c] = Verified /\ request'[c] # None => request'[c].tool # "get"
  /\ UNCHANGED <<teamVars, keysVars, loginVars>>

\* Contents, revisions and imports are not told apart: the first one comes first.
AssetsNext ==
  /\ ~DirectoryStarted /\ ~KeysStarted /\ ~LoginStarted
  /\ TeamNext
  /\ imported' # imported => ~AssetsStarted
  /\ ImportsStarted => imported' # imported
  /\ \A d \in Docs : events[d] = <<>> => doc'[d].content # content2 /\ doc'[d].revision # revision2
  /\ imported'[import2] # Null => imported'[import1] # Null
  /\ UNCHANGED <<vars, keysVars, loginVars>>

\* So it is with keys and calls, where a call is the first one unless that is under
\* way.  Only the first key is withdrawn.
VerificationNext ==
  /\ ~DirectoryStarted /\ ~AssetsStarted /\ ~ImportsStarted /\ ~LoginStarted
  /\ KeysNext
  /\ Valid(key2)' => issuer[key1].from # Unset
  /\ Valid(key2) => Valid(key2)'
  /\ verifying[call1] = Unset /\ verifying[call2] = Unset => verifying'[call2] = Unset
  /\ UNCHANGED <<vars, teamVars, loginVars>>

\* Calls and tokens are taken in their order too: the first token is the first
\* account's, and the only one that is revoked.
AccountsNext ==
  /\ ~DirectoryStarted /\ ~AssetsStarted /\ ~ImportsStarted /\ ~KeysStarted
  /\ LoginNext
  /\ login[login1] = Nobody /\ login[login2] = Nobody => login'[login2] = Nobody
  /\ apptoken'[token1].owner # account2 /\ apptoken'[token2].until = Nobody
  /\ apptoken'[token2].owner # Nobody => apptoken'[token1].owner # Nobody
  /\ UNCHANGED <<vars, teamVars, keysVars>>

MCInit == Init /\ TeamInit /\ KeysInit /\ LoginInit

MCSpec ==
  MCInit /\ [][DirectoryNext \/ AssetsNext \/ VerificationNext \/ AccountsNext]_
                <<vars, teamVars, keysVars, loginVars>>
=============================================================================
