------------------------------ MODULE RedisLock ------------------------------
(***************************************************************************)
(* The distributed lock of services/Redis.service.ts: withLock, which      *)
(* LedgerEngine.post wraps around every posting, with acquireLock and      *)
(* releaseLock.  One lock name; each element of Calls is one call of       *)
(* withLock, made by any process of the backend.                           *)
(*                                                                         *)
(* Redis runs one command at a time, but acquireLock and releaseLock are   *)
(* two commands each, and between two commands anything can happen: the    *)
(* key runs out, another call sets it, the process dies.  A command can    *)
(* also fail, with or without having been executed.                        *)
(***************************************************************************)
EXTENDS Naturals, FiniteSets

CONSTANTS
    Calls,    \* calls of withLock
    Retries,  \* options.retries: 3 for the ledger
    NotSet    \* the value of the key when it is not set

ASSUME CallsAssumption == IsFiniteSet(Calls)
ASSUME RetriesAssumption == Retries \in Nat \ {0}

\* The key remit:lock:<name>: the lockId, which is new at every attempt, and
\* whether a time to live is set.
Key == [by : Calls, attempt : Nat, ttl : BOOLEAN]
ASSUME NotSetAssumption == NotSet \notin Key

VARIABLES
    lock,      \* the key in Redis
    pc,        \* pc[c]: the command call c issues next, or how it ended
    attempts,  \* attempts[c]: the loop counter of withLock
    overruns   \* history: how many keys ran out while a call relied on them

lockVars == <<lock, pc, attempts, overruns>>

Goto(c, p) == pc' = [pc EXCEPT ![c] = p]

\* The key is the one the present attempt of c has set.
Holds(c) == lock # NotSet /\ lock.by = c /\ lock.attempt = attempts[c]

KeyOf(c) == [by |-> c, attempt |-> attempts[c], ttl |-> FALSE]

LockInit ==
    /\ lock = NotSet
    /\ pc = [c \in Calls |-> "idle"]
    /\ attempts = [c \in Calls |-> 0]
    /\ overruns = 0

Call(c) ==
    /\ pc[c] = "idle"
    /\ Goto(c, "setting")
    /\ UNCHANGED <<lock, attempts, overruns>>

\* An attempt that does not count what it tried.
FailAttemptUncounted(c) ==
    /\ Goto(c, "waiting")
    /\ UNCHANGED attempts

\* acquireLock returns null: withLock counts the attempt and sleeps.
FailAttempt(c) ==
    /\ Goto(c, "waiting")
    /\ attempts' = [attempts EXCEPT ![c] = @ + 1]

\* client.setNX(key, lockId).
SetNX(c) ==
    /\ pc[c] = "setting"
    /\ \/ /\ lock = NotSet
          /\ lock' = KeyOf(c)
          /\ Goto(c, "expiring")
          /\ UNCHANGED attempts
       \/ /\ lock # NotSet
          /\ FailAttempt(c)
          /\ UNCHANGED lock
    /\ UNCHANGED overruns

\* setNX throws, whether or not Redis has set the key: the catch returns null.
SetNXError(c) ==
    /\ pc[c] = "setting"
    /\ lock' \in {lock} \cup (IF lock = NotSet THEN {KeyOf(c)} ELSE {})
    /\ FailAttempt(c)
    /\ UNCHANGED overruns

\* EXPIRE sets the time to live of whatever key is there, if any.
Expiring == IF lock = NotSet THEN NotSet ELSE [lock EXCEPT !.ttl = TRUE]

\* A key that is set without a time to live.
SetKeyExpiryNever(c) ==
    /\ pc[c] = "expiring"
    /\ Goto(c, "working")
    /\ UNCHANGED <<lock, attempts, overruns>>

\* client.expire(key, ttlSeconds); acquireLock returns the lockId.
SetKeyExpiry(c) ==
    /\ pc[c] = "expiring"
    /\ lock' = Expiring
    /\ Goto(c, "working")
    /\ UNCHANGED <<attempts, overruns>>

\* expire throws: the catch returns null, and the key stays.
SetKeyExpiryError(c) ==
    /\ pc[c] = "expiring"
    /\ lock' \in {lock, Expiring}
    /\ FailAttempt(c)
    /\ UNCHANGED overruns

\* A loop that makes one attempt too many.
RetryOnceMore(c) ==
    /\ pc[c] = "waiting"
    /\ Goto(c, IF attempts[c] <= Retries THEN "setting" ELSE "refused")
    /\ UNCHANGED <<lock, attempts, overruns>>

\* After the sleep: the next attempt, or "Failed to acquire lock".
Retry(c) ==
    /\ pc[c] = "waiting"
    /\ Goto(c, IF attempts[c] < Retries THEN "setting" ELSE "refused")
    /\ UNCHANGED <<lock, attempts, overruns>>

\* fn() returns or throws; the finally block follows in both cases.
Work(c) ==
    /\ pc[c] = "working"
    /\ Goto(c, "checking")
    /\ UNCHANGED <<lock, attempts, overruns>>

\* A release that does not compare the lockId.
CheckAny(c) ==
    /\ pc[c] = "checking"
    /\ Goto(c, "deleting")
    /\ UNCHANGED <<lock, attempts, overruns>>

\* client.get(key), and the comparison with lockId.
Check(c) ==
    /\ pc[c] = "checking"
    /\ Goto(c, IF Holds(c) THEN "deleting" ELSE "done")
    /\ UNCHANGED <<lock, attempts, overruns>>

\* get throws: releaseLock returns false.
CheckError(c) ==
    /\ pc[c] = "checking"
    /\ Goto(c, "done")
    /\ UNCHANGED <<lock, attempts, overruns>>

\* client.del(key): deletes the key whoever has set it by now.  The reply does
\* not matter.
Delete(c) ==
    /\ pc[c] = "deleting"
    /\ lock' = NotSet
    /\ Goto(c, "done")
    /\ UNCHANGED <<attempts, overruns>>

\* del throws without having deleted the key.
DeleteError(c) ==
    /\ pc[c] = "deleting"
    /\ Goto(c, "done")
    /\ UNCHANGED <<lock, attempts, overruns>>

Ended == {"done", "refused", "dead"}

\* The process dies.
Crash(c) ==
    /\ pc[c] \notin Ended \cup {"idle"}
    /\ Goto(c, "dead")
    /\ UNCHANGED <<lock, attempts, overruns>>

\* What c does from now on assumes that the key is its own.
Relies(c) == pc[c] \in {"expiring", "working", "deleting"}

\* The time to live is over.  Nothing in withLock renews the key or bounds the
\* time fn takes, so this can come at any moment.
KeyRunsOut ==
    /\ lock # NotSet /\ lock.ttl
    /\ lock' = NotSet
    /\ overruns' = IF \E c \in Calls : Relies(c) /\ Holds(c)
                    THEN overruns + 1 ELSE overruns
    /\ UNCHANGED <<pc, attempts>>

Step(c) ==
    \/ SetNX(c) \/ SetNXError(c)
    \/ SetKeyExpiry(c) \/ SetKeyExpiryError(c)
    \/ Retry(c)
    \/ Work(c)
    \/ Check(c) \/ CheckError(c)
    \/ Delete(c) \/ DeleteError(c)

LockNext ==
    \/ \E c \in Calls : Call(c) \/ Step(c) \/ Crash(c)
    \/ KeyRunsOut

LockSpec == LockInit /\ [][LockNext]_lockVars

\* A process that lives goes on, fn returns, and Redis expires keys.
LockFairness == (\A c \in Calls : WF_lockVars(Step(c))) /\ WF_lockVars(KeyRunsOut)

FairLockSpec == LockSpec /\ LockFairness

----------------------------------------------------------------------------
\* Types: a call makes at most Retries attempts, and an attempt that could
\* still succeed is below the limit.
LockTypeOK ==
    /\ lock \in Key \cup {NotSet}
    /\ pc \in [Calls -> Ended \cup {"idle", "setting", "expiring", "waiting",
                                    "working", "checking", "deleting"}]
    /\ attempts \in [Calls -> 0 .. Retries]
    /\ overruns \in Nat

Inside == {c \in Calls : pc[c] = "working"}

\* withLock lets fn run in one call at a time as long as no key runs out too
\* early, and each key that does lets in one call more at the most: neither the
\* failing commands, nor the crashes, nor the key of another call that a late
\* DEL removes, add to that.
ExclusionUpToOverruns ==
    Cardinality(Inside) <= 1 + overruns

\* A key nobody will release and Redis will not expire: its setter has died or
\* given the attempt up between setNX and expire.
Orphaned == /\ lock # NotSet
            /\ ~lock.ttl
            /\ pc[lock.by] = "dead" \/ attempts[lock.by] > lock.attempt

\* A lock that is taken comes free again, unless its key is orphaned.
LockComesFree == lock # NotSet ~> (lock = NotSet \/ Orphaned)
=============================================================================
