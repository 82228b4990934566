------------------------------- MODULE SignIn -------------------------------
(***************************************************************************)
(* Signing in with a password: login of modules/auth/auth.controller.ts    *)
(* with the counter of failed attempts in Redis (trackLoginAttempt and     *)
(* isLoginLocked), for one email address.  A login is one request on its   *)
(* way through its awaits: the counter is read, the password compared with *)
(* the user as found, the counter increased, its time to live set when the *)
(* increase began it, and the user document updated.  An error of Redis    *)
(* lets the login go on.  Histories count the wrong passwords compared     *)
(* since the counter began and those of them the counter missed.           *)
(***************************************************************************)
EXTENDS Naturals, FiniteSets

CONSTANTS
    Logins,    \* logins that can be in progress at the same time
    Max,       \* MAX_LOGIN_ATTEMPTS, and the 5 of Redis.service.ts
    MaxUnseen  \* bound: attempts the counter misses

ASSUME SignInAssumption ==
    IsFiniteSet(Logins) /\ Max \in Nat \ {0} /\ MaxUnseen \in Nat

VARIABLES
    login,    \* login[l]: how far login l is
    failed,   \* the counter of the email, 0 when there is no key
    timed,    \* the counter has a time to live
    listed,   \* the length of user.loginAttempts, up to Max
    status,   \* user.status, other values as "active"; "absent": no user
    guesses,  \* history: wrong passwords compared since the counter began
    unseen,   \* history: attempts since then that the counter missed
    orphaned  \* history: the time to live of the counter was not set

signInVars == <<login, failed, timed, listed, status, guesses, unseen, orphaned>>
counterVars == <<failed, timed, guesses, unseen, orphaned>>
userVars == <<listed, status>>

Away == [step |-> "away"]
Proceed(l, record) == login' = [login EXCEPT ![l] = record]
Counted(seen, locked) == [step |-> "counted", seen |-> seen, locked |-> locked]

\* The counter and all that belongs to it go.
NoCounter == failed' = 0 /\ timed' = FALSE /\ guesses' = 0 /\ unseen' = 0 /\ orphaned' = FALSE

SignInInit ==
    /\ login = [l \in Logins |-> Away]
    /\ failed = 0 /\ timed = FALSE
    /\ listed = 0
    /\ status \in {"active", "absent"}
    /\ guesses = 0 /\ unseen = 0 /\ orphaned = FALSE

----------------------------------------------------------------------------
\* A counter that is read only after the password was compared.
AdmitAnyCount(l) ==
    /\ login[l] = Away
    /\ Proceed(l, [step |-> "admitted"])
    /\ UNCHANGED <<counterVars, userVars>>

\* isLoginLocked: the counter is below the limit ...
Admit(l) ==
    /\ login[l] = Away
    /\ failed < Max
    /\ Proceed(l, [step |-> "admitted"])
    /\ UNCHANGED <<counterVars, userVars>>

\* ... or could not be read.
AdmitBlind(l) ==
    /\ login[l] = Away
    /\ failed >= Max
    /\ unseen < MaxUnseen
    /\ unseen' = unseen + 1
    /\ Proceed(l, [step |-> "admitted"])
    /\ UNCHANGED <<failed, timed, guesses, orphaned, userVars>>

\* The user is found, or not, and the password is wrong.
Guess(l) ==
    /\ login[l].step = "admitted"
    /\ guesses' = guesses + 1
    /\ Proceed(l, [step |-> "guessed", seen |-> listed])
    /\ UNCHANGED <<failed, timed, unseen, orphaned, userVars>>

\* The password is right; a suspended or deactivated user is turned away.
Know(l) ==
    /\ login[l].step = "admitted"
    /\ status # "absent"
    /\ Proceed(l, IF status \in {"suspended", "deactivated"}
                  THEN Away ELSE [step |-> "known"])
    /\ UNCHANGED <<counterVars, userVars>>

\* A counter that never gets a time to live.
CountUntimed(l) ==
    /\ login[l].step = "guessed"
    /\ failed' = failed + 1
    /\ Proceed(l, Counted(login[l].seen, failed' >= Max))
    /\ UNCHANGED <<timed, guesses, unseen, orphaned, userVars>>

\* trackLoginAttempt(email, false): INCR ...
Count(l) ==
    /\ login[l].step = "guessed"
    /\ failed' = failed + 1
    /\ Proceed(l, IF failed' = 1 THEN [step |-> "expiring", seen |-> login[l].seen]
                  ELSE Counted(login[l].seen, failed' >= Max))
    /\ UNCHANGED <<timed, guesses, unseen, orphaned, userVars>>

\* ... which may fail, and then reports no attempts.
CountError(l) ==
    /\ login[l].step = "guessed"
    /\ unseen < MaxUnseen
    /\ unseen' = unseen + 1
    /\ Proceed(l, Counted(login[l].seen, FALSE))
    /\ UNCHANGED <<failed, timed, guesses, orphaned, userVars>>

\* EXPIRE, after the increase that began the counter; without a key it does
\* nothing ...
SetExpiry(l) ==
    /\ login[l].step = "expiring"
    /\ timed' = (failed > 0)
    /\ orphaned' = FALSE
    /\ Proceed(l, Counted(login[l].seen, 1 >= Max))
    /\ UNCHANGED <<failed, guesses, unseen, userVars>>

\* ... and if it fails, a counter may stay without a time to live.
ExpiryError(l) ==
    /\ login[l].step = "expiring"
    /\ orphaned' = (failed > 0 /\ ~timed)
    /\ Proceed(l, Counted(login[l].seen, FALSE))
    /\ UNCHANGED <<failed, timed, guesses, unseen, userVars>>

\* The attempt is added to the user, whose status becomes "locked" when the
\* list as read, or the counter, is at the limit.  The time of the lock is no
\* field of the schema and is not stored.
Push(l) ==
    /\ login[l].step = "counted"
    /\ IF status = "absent" THEN UNCHANGED userVars
       ELSE /\ listed' = IF listed < Max THEN listed + 1 ELSE Max
            /\ status' = IF login[l].seen + 1 >= Max \/ login[l].locked
                         THEN "locked" ELSE status
    /\ Proceed(l, Away)
    /\ UNCHANGED counterVars

\* trackLoginAttempt(email, true): DEL, or an error that is ignored.
Clear(l) ==
    /\ login[l].step = "known"
    /\ NoCounter \/ UNCHANGED counterVars
    /\ Proceed(l, [step |-> "cleared"])
    /\ UNCHANGED userVars

\* The list is emptied, unless a second factor is asked for first.
Succeed(l) ==
    /\ login[l].step = "cleared"
    /\ listed' \in {0, listed}
    /\ Proceed(l, Away)
    /\ UNCHANGED <<counterVars, status>>

\* verify2FA and resetPassword empty the list.
Forgive ==
    /\ listed' = 0
    /\ UNCHANGED <<login, counterVars, status>>

\* updateUserStatus of an administrator.
UpdateUserStatus(st) ==
    /\ status # "absent"
    /\ status' = st
    /\ UNCHANGED <<login, counterVars, listed>>

\* The counter runs out.
RunOut ==
    /\ timed
    /\ NoCounter
    /\ UNCHANGED <<login, userVars>>

\* The process of a login dies, or an await fails.
LoseLogin(l) ==
    /\ login[l] # Away
    /\ Proceed(l, Away)
    /\ IF login[l].step = "guessed"
       THEN unseen < MaxUnseen /\ unseen' = unseen + 1
       ELSE UNCHANGED unseen
    /\ orphaned' = (orphaned \/ (login[l].step = "expiring" /\ failed > 0 /\ ~timed))
    /\ UNCHANGED <<failed, timed, guesses, userVars>>

\* What a login in progress does next.
LoginStep(l) ==
    \/ Guess(l) \/ Know(l)
    \/ Count(l) \/ CountError(l)
    \/ SetExpiry(l) \/ ExpiryError(l)
    \/ Push(l)
    \/ Clear(l) \/ Succeed(l)

SignInNext ==
    \/ \E l \in Logins : Admit(l) \/ AdmitBlind(l) \/ LoginStep(l) \/ LoseLogin(l)
    \/ Forgive
    \/ \E st \in {"active", "suspended", "locked", "deactivated"} : UpdateUserStatus(st)
    \/ RunOut

\* Every await ends, and a time to live runs out.
SignInFairness ==
    /\ \A l \in Logins : WF_signInVars(LoginStep(l))
    /\ WF_signInVars(RunOut)

SignInSpec == SignInInit /\ [][SignInNext]_signInVars /\ SignInFairness

----------------------------------------------------------------------------
(***************************************************************************)
(* Properties                                                              *)
(***************************************************************************)

LoginStates ==
    [step : {"away", "admitted", "known", "cleared"}]
    \cup [step : {"guessed", "expiring"}, seen : 0..Max]
    \cup [step : {"counted"}, seen : 0..Max, locked : BOOLEAN]

\* The counter, the user and the logins keep their form; there is no time to
\* live without a counter.
SignInTypeOK ==
    /\ login \in [Logins -> LoginStates]
    /\ failed \in Nat /\ guesses \in Nat /\ unseen \in Nat
    /\ timed \in BOOLEAN /\ orphaned \in BOOLEAN
    /\ listed \in 0..Max
    /\ status \in {"absent", "active", "suspended", "locked", "deactivated"}
    /\ timed => failed > 0

\* The limit holds up to the logins that pass it together: of the passwords
\* tried against one email while its counter lives, at most one less than the
\* limit, one per concurrent login, and those the counter missed are wrong.
GuessesBounded == guesses <= Max - 1 + Cardinality(Logins) + unseen

\* "Account is temporarily locked" (auth.controller.ts:614): a lock ends,
\* unless the time to live of its counter was never set.
LockoutEnds == failed >= Max ~> (failed < Max \/ orphaned)
=============================================================================
