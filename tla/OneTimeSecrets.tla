--------------------------- MODULE OneTimeSecrets ---------------------------
(***************************************************************************)
(* The secrets a user redeems once: the documents of ConfirmationToken     *)
(* (auth.controller.ts, users-profile.service.ts,                          *)
(* users-security.service.ts) and the codes in Redis (store2FACode and     *)
(* verify2FACode, clerk-auth.controller.ts), of one user.  A redemption is *)
(* one request on its way through its awaits: the secret is found valid,   *)
(* it takes effect, and it is marked as used; a code, and the token of a   *)
(* second factor, are marked first.  Nothing holds the three together, so  *)
(* a secret may take effect again after an accident, which exposures       *)
(* counts: a redemption that finds it while another is at work, one that   *)
(* ends before the mark, and a mark that fails.                            *)
(***************************************************************************)
EXTENDS Naturals, FiniteSets

CONSTANTS
    Redeemers,    \* requests that can be in progress at the same time
    Tokens,       \* documents of ConfirmationToken
    Codes,        \* codes in Redis, all under the key of the user
    Type,         \* Type[t]: what token t is for
    MaxExposures  \* bound: accidents of a secret

Types == {"renewed", "session", "change"}

ASSUME SecretsAssumption ==
    /\ IsFiniteSet(Redeemers)
    /\ Tokens \cap Codes = {}
    /\ Type \in [Tokens -> Types]
    /\ MaxExposures \in Nat

Secrets == Tokens \cup Codes
\* email_verification and password_reset replace what was issued before.
Renewed == {t \in Tokens : Type[t] = "renewed"}
\* two_factor
Sessions == {t \in Tokens : Type[t] = "session"}
\* email_change, phone_change, account_deletion and two_factor_setup
Changes == {t \in Tokens : Type[t] = "change"}

VARIABLES
    secret,    \* secret[s]: unissued, valid, used or gone
    redeemer,  \* redeemer[c]: how far request c is
    effects,   \* effects[s]: how often s has taken effect
    exposures  \* history: accidents per secret

secretVars == <<secret, redeemer, effects, exposures>>

Free == [step |-> "free"]
Turn(c, record) == redeemer' = [redeemer EXCEPT ![c] = record]
With(step, s) == [step |-> step, secret |-> s]

Drop(S) == [s \in Secrets |-> IF s \in S /\ secret[s] = "valid" THEN "gone" ELSE secret[s]]
Issue(s, old) == secret' = [Drop(old) EXCEPT ![s] = "valid"]

Expose(s) ==
    /\ exposures[s] < MaxExposures
    /\ exposures' = [exposures EXCEPT ![s] = @ + 1]

TakesEffect(s) == effects' = [effects EXCEPT ![s] = @ + 1]

\* The requests that have found s and have not yet marked it.
Holding(s) == {c \in Redeemers : redeemer[c] \in {With("found", s), With("marking", s)}}

SecretsInit ==
    /\ secret = [s \in Secrets |-> "unissued"]
    /\ redeemer = [c \in Redeemers |-> Free]
    /\ effects = [s \in Secrets |-> 0]
    /\ exposures = [s \in Secrets |-> 0]

----------------------------------------------------------------------------
(***************************************************************************)
(* Issuing.                                                                *)
(***************************************************************************)

\* forgotPassword and resendVerificationEmail: the old tokens are deleted ...
DeleteOld(c) ==
    /\ redeemer[c] = Free
    /\ secret' = Drop(Renewed)
    /\ Turn(c, [step |-> "renewing"])
    /\ UNCHANGED <<effects, exposures>>

\* ... and a new one created.
CreateNew(c, t) ==
    /\ redeemer[c].step = "renewing"
    /\ t \in Renewed
    /\ secret[t] = "unissued"
    /\ Issue(t, {})
    /\ Turn(c, Free)
    /\ UNCHANGED <<effects, exposures>>

\* updateEmail, updatePhone, requestAccountDeletion and enable2FA only create.
CreateChange(t) ==
    /\ t \in Changes
    /\ secret[t] = "unissued"
    /\ Issue(t, {})
    /\ UNCHANGED <<redeemer, effects, exposures>>

\* login with a second factor stores a code of its own over the one in Redis,
\* unless Redis fails, and then creates its token.
StoreLoginCode(c) ==
    /\ redeemer[c] = Free
    /\ secret' \in {secret, Drop(Codes)}
    /\ Turn(c, [step |-> "entering"])
    /\ UNCHANGED <<effects, exposures>>

CreateSession(c, t) ==
    /\ redeemer[c].step = "entering"
    /\ t \in Sessions
    /\ secret[t] = "unissued"
    /\ Issue(t, {})
    /\ Turn(c, Free)
    /\ UNCHANGED <<effects, exposures>>

\* clerkSync and resendClerkOtp: a code takes the place of the one before.
SendCode(x) ==
    /\ x \in Codes
    /\ secret[x] = "unissued"
    /\ Issue(x, Codes)
    /\ UNCHANGED <<redeemer, effects, exposures>>

\* expiresAt, or the time to live.
RunsOut(s) ==
    /\ secret[s] = "valid"
    /\ secret' = [secret EXCEPT ![s] = "gone"]
    /\ UNCHANGED <<redeemer, effects, exposures>>

----------------------------------------------------------------------------
(***************************************************************************)
(* Redeeming.                                                              *)
(***************************************************************************)

\* A secret that is found whatever has become of it.
FindAny(c, s) ==
    /\ redeemer[c] = Free
    /\ secret[s] # "unissued"
    /\ IF Holding(s) = {} THEN UNCHANGED exposures ELSE Expose(s)
    /\ Turn(c, With("found", s))
    /\ UNCHANGED <<secret, effects>>

\* The token is not used and not expired, or the code in Redis is the one given.
Find(c, s) ==
    /\ redeemer[c] = Free
    /\ secret[s] = "valid"
    /\ IF Holding(s) = {} THEN UNCHANGED exposures ELSE Expose(s)
    /\ Turn(c, With("found", s))
    /\ UNCHANGED <<secret, effects>>

\* verifyEmail, resetPassword, confirmEmailChange, confirmPhoneChange,
\* confirmAccountDeletion and verify2FASetup: the user is updated ...
Use(c, s) ==
    /\ redeemer[c] = With("found", s)
    /\ s \in Renewed \cup Changes
    /\ TakesEffect(s)
    /\ Turn(c, With("marking", s))
    /\ UNCHANGED <<secret, exposures>>

\* ... and then the token, if it is still there.
Mark(c, s) ==
    /\ redeemer[c] = With("marking", s)
    /\ secret' = [secret EXCEPT ![s] = IF @ = "valid" THEN "used" ELSE @]
    /\ Turn(c, Free)
    /\ UNCHANGED <<effects, exposures>>

\* verify2FA marks the token of the session first,
MarkSession(c, s) ==
    /\ redeemer[c] = With("found", s)
    /\ s \in Sessions
    /\ secret' = [secret EXCEPT ![s] = IF @ = "valid" THEN "used" ELSE @]
    /\ Turn(c, With("granting", s))
    /\ UNCHANGED <<effects, exposures>>

\* verify2FACode deletes the key, whichever code it holds by then, or Redis
\* fails and the code stays.
DeleteCode(c, s) ==
    /\ redeemer[c] = With("found", s)
    /\ s \in Codes
    /\ \/ secret' = Drop(Codes) /\ UNCHANGED exposures
       \/ secret' = secret /\ Expose(s)
    /\ Turn(c, With("granting", s))
    /\ UNCHANGED effects

\* and then the user is signed in.
Grant(c, s) ==
    /\ redeemer[c] = With("granting", s)
    /\ TakesEffect(s)
    /\ Turn(c, Free)
    /\ UNCHANGED <<secret, exposures>>

\* A request fails at one of its awaits, or its process dies.
LoseRedeemer(c) ==
    /\ redeemer[c] # Free
    /\ IF redeemer[c].step = "marking" THEN Expose(redeemer[c].secret)
       ELSE UNCHANGED exposures
    /\ Turn(c, Free)
    /\ UNCHANGED <<secret, effects>>

SecretsNext ==
    \/ \E c \in Redeemers :
          \/ DeleteOld(c)
          \/ StoreLoginCode(c)
          \/ \E t \in Tokens : CreateNew(c, t) \/ CreateSession(c, t)
          \/ \E s \in Secrets :
                \/ Find(c, s)
                \/ Use(c, s)
                \/ Mark(c, s)
                \/ MarkSession(c, s)
                \/ DeleteCode(c, s)
                \/ Grant(c, s)
          \/ LoseRedeemer(c)
    \/ \E t \in Tokens : CreateChange(t)
    \/ \E x \in Codes : SendCode(x)
    \/ \E s \in Secrets : RunsOut(s)

SecretsSpec == SecretsInit /\ [][SecretsNext]_secretVars

----------------------------------------------------------------------------
(***************************************************************************)
(* Properties                                                              *)
(***************************************************************************)

\* A secret takes effect once, and once more at most for each accident: the
\* redemptions implement the allowance of OncePerKey.
OneTime == INSTANCE OncePerKey WITH
    Keys <- Secrets,
    executed <- effects,
    allowance <- [s \in Secrets |-> 1 + exposures[s]]
OneTimePromise == OneTime!AllowanceSpec

RedeemerStates ==
    [step : {"free", "renewing", "entering"}]
    \cup [step : {"found", "marking", "granting"}, secret : Secrets]

\* Secrets and requests keep their form.
SecretsTypeOK ==
    /\ secret \in [Secrets -> {"unissued", "valid", "used", "gone"}]
    /\ redeemer \in [Redeemers -> RedeemerStates]
    /\ effects \in [Secrets -> Nat]
    /\ exposures \in [Secrets -> Nat]
=============================================================================
