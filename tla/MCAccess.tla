------------------------------ MODULE MCAccess ------------------------------
(* RedisLock, SignIn and OneTimeSecrets for TLC.  They share no state that a *)
(* property reads, so a behaviour moves one of them: the lock, or the        *)
(* password with no secrets, or some secrets.  Secrets of different types do *)
(* not meet, except the codes, which the login of a session replaces.        *)
EXTENDS RedisLock, SignIn, OneTimeSecrets

CONSTANTS c1, c2, c3, l1, l2, q1, q2, t1, t2, t3, t4, x1, x2

MCCalls == {c1, c2, c3}
MCLogins == {l1, l2}
MCRedeemers == {q1, q2}
MCTokens == {t1, t2, t3, t4}
MCCodes == {x1, x2}
MCType == [t \in MCTokens |-> CASE t \in {t1, t2} -> "renewed"
                                [] t = t3 -> "session"
                                [] t = t4 -> "change"]

Families == {{t1, t2}, {t3, x1, x2}, {t4}}

VARIABLES
    locking,  \* the behaviour is one of the lock
    about     \* the secrets the behaviour is about

AccessInit ==
    /\ locking \in BOOLEAN
    /\ about \in IF locking THEN {{}} ELSE Families \cup {{}}
    /\ LockInit
    /\ SignInInit
    /\ SecretsInit

AccessNext ==
    /\ \/ locking /\ LockNext /\ UNCHANGED <<signInVars, secretVars>>
       \/ ~locking /\ about = {} /\ SignInNext /\ UNCHANGED <<lockVars, secretVars>>
       \/ about # {} /\ SecretsNext /\ UNCHANGED <<lockVars, signInVars>>
    /\ \A s \in Secrets \ about : secret'[s] = "unissued"
    /\ UNCHANGED <<locking, about>>

AccessSpec ==
    /\ AccessInit
    /\ [][AccessNext]_<<locking, about, lockVars, signInVars, secretVars>>
    /\ LockFairness
    /\ SignInFairness
=============================================================================
