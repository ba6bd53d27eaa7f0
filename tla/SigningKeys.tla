----------------------------- MODULE SigningKeys -----------------------------
(***************************************************************************)
(* EntraVerifier: the cache of the keys that sign the tokens of company    *)
(* accounts.  Many calls verify tokens at once, in one event loop: a call  *)
(* runs until it waits, for the lock of the cache or for the keys that it  *)
(* asked the issuer for.  Whoever asks holds the lock meanwhile, and       *)
(* nobody asks again for a while, whatever came of it.                     *)
(*                                                                         *)
(* The issuer adds keys and withdraws them on its own.  A token stands for *)
(* the key it names; its signature, its claims and its account are checked *)
(* after the key is found and are not modelled here.                       *)
(***************************************************************************)
EXTENDS Integers

CONSTANTS Kids,            \* names of keys, those of the issuer and others
          Verifications,   \* calls that may be verified at once
          Lifetime,        \* for how long loaded keys are good
          RetryGap,        \* how long after an attempt the next one may come
          Unset,           \* no time, no call, no verdict
          MaxMoment        \* bound on the clock

\* The cache outlives the gap (3600 and 30 seconds).
ASSUME KeysAssumption ==
  /\ Lifetime \in Nat \ {0} /\ RetryGap \in Nat /\ MaxMoment \in Nat
  /\ RetryGap <= Lifetime
  /\ Unset \notin Nat

VARIABLES moment,          \* the monotonic clock of the process
          issuer,          \* when the issuer published and withdrew each key
          keys, loaded_at, last_attempt,
          verifying,       \* what each call waits for
          verdict          \* what the step before said of a token

keysVars == <<moment, issuer, keys, loaded_at, last_attempt, verifying, verdict>>

Issued == [from : Nat \cup {Unset}, until : Nat \cup {Unset}]

Waiting == [stage : {"lock", "issuer", "answer"}, kid : Kids, since : Nat, at : Nat, document : SUBSET Kids]

Verdicts == [kid : Kids, says : {"accepted", "unknown", "unavailable"}, since : Nat]

KeysTypeOK ==
  /\ moment \in Nat
  /\ issuer \in [Kids -> Issued]
  /\ keys \in SUBSET Kids
  /\ loaded_at \in Int /\ last_attempt \in Int
  /\ verifying \in [Verifications -> Waiting \cup {Unset}]
  /\ verdict \in Verdicts \cup {Unset}

\* Nothing was loaded yet, and nobody asked: as if both were long ago.
KeysInit ==
  /\ moment = 0
  /\ issuer = [k \in Kids |-> [from |-> Unset, until |-> Unset]]
  /\ keys = {} /\ loaded_at = -Lifetime /\ last_attempt = -RetryGap
  /\ verifying = [c \in Verifications |-> Unset]
  /\ verdict = Unset

(***************************************************************************)
(* The issuer and the clock.                                               *)
(***************************************************************************)

Valid(k) == issuer[k].from # Unset /\ issuer[k].until = Unset

\* A key comes once, and once withdrawn does not come back.
PublishKey(k) ==
  /\ issuer[k].from = Unset
  /\ issuer' = [issuer EXCEPT ![k] = [from |-> moment, until |-> Unset]]
  /\ verdict' = Unset
  /\ UNCHANGED <<moment, keys, loaded_at, last_attempt, verifying>>

WithdrawKey(k) ==
  /\ Valid(k)
  /\ issuer' = [issuer EXCEPT ![k] = [from |-> issuer[k].from, until |-> moment]]
  /\ verdict' = Unset
  /\ UNCHANGED <<moment, keys, loaded_at, last_attempt, verifying>>

KeysTick ==
  /\ moment < MaxMoment
  /\ moment' = moment + 1
  /\ verdict' = Unset
  /\ UNCHANGED <<issuer, keys, loaded_at, last_attempt, verifying>>

(***************************************************************************)
(* Calls.                                                                  *)
(***************************************************************************)

Cached(k) == k \in keys /\ moment - loaded_at < Lifetime

Holds(c) == verifying[c] # Unset /\ verifying[c].stage # "lock"

Early == moment - last_attempt < RetryGap

\* A call that does not go on, with what it says of its token.
Judged(c, k, what, since) ==
  /\ verdict' = [kid |-> k, says |-> what, since |-> since]
  /\ verifying' = [verifying EXCEPT ![c] = Unset]

\* A call that waits.
Waits(c, stage, k, since) ==
  /\ verifying' = [verifying EXCEPT ![c] =
       [stage |-> stage, kid |-> k, since |-> since, at |-> moment, document |-> {}]]
  /\ verdict' = Unset

\* Mutant: who got the lock does not look again.
LookUpOnce(c, k, since) ==
  /\ \/ Early /\ Judged(c, k, "unavailable", since) /\ UNCHANGED last_attempt
     \/ ~Early /\ Waits(c, "issuer", k, since) /\ last_attempt' = moment
  /\ UNCHANGED <<moment, issuer, keys, loaded_at>>

\* key, from where the lock is held: the key is there by now, or somebody asked
\* for the keys just before, or this call asks.
LookUp(c, k, since) ==
  /\ \/ Cached(k) /\ Judged(c, k, "accepted", since) /\ UNCHANGED last_attempt
     \/ ~Cached(k) /\ Early /\ Judged(c, k, "unavailable", since) /\ UNCHANGED last_attempt
     \/ ~Cached(k) /\ ~Early /\ Waits(c, "issuer", k, since) /\ last_attempt' = moment
  /\ UNCHANGED <<moment, issuer, keys, loaded_at>>

\* A token arrives.  A key that is cached needs no lock, and a lock that nobody
\* holds or waits for is taken at once.
Verify(c, k) ==
  /\ verifying[c] = Unset
  /\ Cached(k) \/ \A d \in Verifications : verifying[d] = Unset
  /\ LookUp(c, k, moment)

Queue(c, k) ==
  /\ verifying[c] = Unset
  /\ ~Cached(k) /\ \E d \in Verifications : verifying[d] # Unset
  /\ Waits(c, "lock", k, moment)
  /\ UNCHANGED <<moment, issuer, keys, loaded_at, last_attempt>>

Enter(c) ==
  /\ verifying[c] # Unset /\ verifying[c].stage = "lock"
  /\ \A d \in Verifications : ~Holds(d)
  /\ LookUp(c, verifying[c].kid, verifying[c].since)

\* fetch_keys: the issuer answers with what it publishes at that moment.
Answer(c) ==
  LET v == verifying[c] IN
  /\ v # Unset /\ v.stage = "issuer"
  /\ verifying' = [verifying EXCEPT ![c] =
       [stage |-> "answer", kid |-> v.kid, since |-> v.since, at |-> v.at,
        document |-> {k \in Kids : Valid(k)}]]
  /\ verdict' = Unset
  /\ UNCHANGED <<moment, issuer, keys, loaded_at, last_attempt>>

\* Mutant: the keys count from when they came.
LoadedLate(c) == moment

\* They count from when they were asked for.
LoadedAt(c) == verifying[c].at

Load(c) ==
  LET v == verifying[c] IN
  /\ v # Unset /\ v.stage = "answer"
  /\ keys' = v.document /\ loaded_at' = LoadedAt(c)
  /\ Judged(c, v.kid, IF v.kid \in v.document THEN "accepted" ELSE "unknown", v.since)
  /\ UNCHANGED <<moment, issuer, last_attempt>>

\* The issuer does not answer in time or not as it should, or the caller is gone.
GiveUpKey(c) ==
  /\ verifying[c] # Unset
  /\ verifying' = [verifying EXCEPT ![c] = Unset]
  /\ verdict' = Unset
  /\ UNCHANGED <<moment, issuer, keys, loaded_at, last_attempt>>

KeysNext ==
  \/ \E k \in Kids : PublishKey(k)
  \/ \E k \in Kids : WithdrawKey(k)
  \/ KeysTick
  \/ \E c \in Verifications, k \in Kids : Verify(c, k)
  \/ \E c \in Verifications, k \in Kids : Queue(c, k)
  \/ \E c \in Verifications : Enter(c)
  \/ \E c \in Verifications : Answer(c)
  \/ \E c \in Verifications : Load(c)
  \/ \E c \in Verifications : GiveUpKey(c)

KeysSpec == KeysInit /\ [][KeysNext]_keysVars

(***************************************************************************)
(* Properties.                                                             *)
(***************************************************************************)

\* No call that begins a lifetime after a key was withdrawn is let in by it, and
\* none by a key that the issuer never had.
AcceptedIsFresh ==
  verdict # Unset /\ verdict.says = "accepted" =>
    LET k == issuer[verdict.kid] IN
    k.from # Unset /\ (k.until # Unset => verdict.since < k.until + Lifetime)

\* A key that the issuer has published since before it was last asked with success
\* is refused only when that is a lifetime ago and an attempt failed since:
\* other calls, with keys that nobody knows, do not lock it out, neither while
\* they ask nor in the gap after.
RefusedIsUnknown ==
  verdict # Unset /\ verdict.says # "accepted" /\ Valid(verdict.kid) =>
    \/ issuer[verdict.kid].from >= loaded_at
    \/ loaded_at < last_attempt /\ moment - loaded_at >= Lifetime

\* Whatever calls race for the cache while keys come and go, each is judged by keys
\* that are young enough, and by all of them.
VerdictsAreJustified == AcceptedIsFresh /\ RefusedIsUnknown
=============================================================================
