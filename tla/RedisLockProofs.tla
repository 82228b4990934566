--------------------------- MODULE RedisLockProofs ---------------------------
(***************************************************************************)
(* Theorems about RedisLock, for any number of calls and of attempts.      *)
(*                                                                         *)
(* A call is astray when it relies on a key that is not its own any more.  *)
(* The bound is inductive for the calls astray, and of the calls inside at *)
(* most one is not astray.                                                 *)
(***************************************************************************)
EXTENDS RedisLock, FiniteSetTheorems, TLAPS

Astray == {c \in Calls : Relies(c) /\ ~Holds(c)}

\* An attempt that can still fail has not been counted.
AttemptsLeft ==
    \A c \in Calls : pc[c] \in {"idle", "setting", "expiring"} => attempts[c] < Retries

LockIInv ==
    /\ LockTypeOK
    /\ AttemptsLeft
    /\ Cardinality(Astray) <= overruns

----------------------------------------------------------------------------
\* At most one call holds the key.
LEMMA OneHolder ==
    ASSUME NEW c \in Calls, NEW d \in Calls, Holds(c), Holds(d)
    PROVE  c = d
BY DEF Holds

\* Sets of calls are finite.
LEMMA FiniteCalls ==
    ASSUME NEW S \in SUBSET Calls
    PROVE  IsFiniteSet(S) /\ Cardinality(S) \in Nat
BY CallsAssumption, FS_Subset, FS_CardinalityType

\* No step but KeyRunsOut and Delete can lead a call astray.
LEMMA AstrayShrinks ==
    ASSUME LockTypeOK, LockTypeOK', Cardinality(Astray) <= overruns,
           overruns' = overruns, Astray' \subseteq Astray
    PROVE  Cardinality(Astray') <= overruns'
<1>1. Astray \in SUBSET Calls
  BY DEF Astray
<1>2. IsFiniteSet(Astray) /\ Cardinality(Astray) \in Nat
  BY <1>1, FiniteCalls
<1>3. Cardinality(Astray') <= Cardinality(Astray)
  BY <1>2, FS_Subset
<1>4. Cardinality(Astray') \in Nat
  BY <1>1, <1>2, FiniteCalls
<1> QED
  BY <1>2, <1>3, <1>4 DEF LockTypeOK

\* One call more astray, and one astray less.
LEMMA AstraySwapped ==
    ASSUME NEW S \in SUBSET Calls, NEW T \in SUBSET Calls,
           NEW c \in S, NEW h, T \subseteq (S \ {c}) \cup {h}
    PROVE  Cardinality(T) <= Cardinality(S)
<1>1. IsFiniteSet(S) /\ Cardinality(S) \in Nat
  BY FiniteCalls
<1>2. /\ IsFiniteSet(S \ {c})
      /\ Cardinality(S \ {c}) = Cardinality(S) - 1
  BY <1>1, FS_RemoveElement
<1>3. /\ IsFiniteSet((S \ {c}) \cup {h})
      /\ Cardinality((S \ {c}) \cup {h}) <= Cardinality(S)
  BY <1>1, <1>2, FS_AddElement
<1>4. Cardinality(T) <= Cardinality((S \ {c}) \cup {h})
  BY <1>3, FS_Subset
<1>5. Cardinality(T) \in Nat /\ Cardinality((S \ {c}) \cup {h}) \in Nat
  BY <1>3, FiniteCalls, FS_CardinalityType
<1> QED
  BY <1>1, <1>3, <1>4, <1>5

\* One call more astray.
LEMMA AstrayOneMore ==
    ASSUME NEW S \in SUBSET Calls, NEW T \in SUBSET Calls,
           NEW h, T \subseteq S \cup {h}
    PROVE  Cardinality(T) <= Cardinality(S) + 1
<1>1. IsFiniteSet(S) /\ Cardinality(S) \in Nat
  BY FiniteCalls
<1>2. /\ IsFiniteSet(S \cup {h})
      /\ Cardinality(S \cup {h}) <= Cardinality(S) + 1
  BY <1>1, FS_AddElement
<1>3. Cardinality(T) <= Cardinality(S \cup {h})
  BY <1>2, FS_Subset
<1>4. Cardinality(T) \in Nat /\ Cardinality(S \cup {h}) \in Nat
  BY <1>2, FiniteCalls, FS_CardinalityType
<1> QED
  BY <1>1, <1>2, <1>3, <1>4

----------------------------------------------------------------------------
LEMMA InitEstablishes == LockInit => LockIInv
<1> SUFFICES ASSUME LockInit PROVE LockIInv
  OBVIOUS
<1>1. LockTypeOK
  BY RetriesAssumption DEF LockInit, LockTypeOK, Ended
<1>2. AttemptsLeft
  BY RetriesAssumption DEF LockInit, AttemptsLeft
<1>3. Astray = {}
  BY DEF LockInit, Astray, Relies
<1>4. Cardinality(Astray) <= overruns
  BY <1>3, FS_EmptySet DEF LockInit
<1> QED
  BY <1>1, <1>2, <1>4 DEF LockIInv

\* The key c would set is a key that c holds.
LEMMA KeyOfIsKey ==
    ASSUME LockTypeOK, NEW c \in Calls
    PROVE  /\ KeyOf(c) \in Key
           /\ KeyOf(c) # NotSet
           /\ KeyOf(c).by = c
           /\ KeyOf(c).attempt = attempts[c]
<1>1. attempts[c] \in Nat
  BY RetriesAssumption DEF LockTypeOK
<1>2. KeyOf(c) \in Key
  BY <1>1 DEF KeyOf, Key
<1> QED
  BY <1>2, NotSetAssumption DEF KeyOf

\* EXPIRE leaves a key a key, of the same attempt.
LEMMA ExpiringIsKey ==
    ASSUME LockTypeOK
    PROVE  /\ Expiring \in Key \cup {NotSet}
           /\ (Expiring = NotSet) = (lock = NotSet)
           /\ lock # NotSet => Expiring.by = lock.by /\ Expiring.attempt = lock.attempt
<1>1. CASE lock = NotSet
  BY <1>1 DEF Expiring
<1>2. CASE lock # NotSet
  <2>1. lock \in Key
    BY <1>2 DEF LockTypeOK
  <2>2. /\ [lock EXCEPT !.ttl = TRUE] \in Key
        /\ [lock EXCEPT !.ttl = TRUE].by = lock.by
        /\ [lock EXCEPT !.ttl = TRUE].attempt = lock.attempt
    BY <2>1 DEF Key
  <2> QED
    BY <1>2, <2>2, NotSetAssumption DEF Expiring
<1> QED
  BY <1>1, <1>2

\* A counted attempt keeps the types of the program counters and counts.
LEMMA FailAttemptTypes ==
    ASSUME LockTypeOK, AttemptsLeft, NEW c \in Calls,
           pc[c] \in {"setting", "expiring"}, FailAttempt(c),
           lock' \in Key \cup {NotSet}, overruns' = overruns
    PROVE  LockTypeOK' /\ AttemptsLeft'
<1>1. attempts[c] + 1 \in 0 .. Retries
  BY RetriesAssumption DEF LockTypeOK, AttemptsLeft
<1>2. attempts' \in [Calls -> 0 .. Retries]
  BY <1>1 DEF FailAttempt, LockTypeOK
<1>3. pc' = [pc EXCEPT ![c] = "waiting"]
  BY DEF FailAttempt, Goto
<1>4. LockTypeOK'
  BY <1>2, <1>3 DEF LockTypeOK
<1>5. AttemptsLeft'
  BY <1>3 DEF LockTypeOK, AttemptsLeft, FailAttempt
<1> QED
  BY <1>4, <1>5

\* A call that has failed its attempt relies on no key, and neither the key it
\* may have left behind nor its count matter to the others.
LEMMA FailAttemptShrinks ==
    ASSUME LockTypeOK, NEW c \in Calls, FailAttempt(c),
           \A d \in Calls : lock # NotSet /\ lock.by = d /\ lock.attempt = attempts[d]
               => lock' # NotSet /\ lock'.by = d /\ lock'.attempt = attempts[d]
    PROVE  Astray' \subseteq Astray
<1>1. pc' = [pc EXCEPT ![c] = "waiting"]
  BY DEF FailAttempt, Goto
<1>2. ~Relies(c)'
  BY <1>1 DEF Relies, LockTypeOK
<1>3. ASSUME NEW d \in Calls, d # c PROVE pc'[d] = pc[d] /\ attempts'[d] = attempts[d]
  BY <1>1, <1>3 DEF FailAttempt, LockTypeOK
<1>4. ASSUME NEW d \in Calls, d # c, Holds(d) PROVE Holds(d)'
  BY <1>3, <1>4 DEF Holds
<1>5. ASSUME NEW d \in Calls, d # c, Relies(d)' PROVE Relies(d)
  BY <1>3, <1>5 DEF Relies
<1> QED
  BY <1>2, <1>4, <1>5 DEF Astray

\* Types, and the attempts left, are kept by every step.
LEMMA TypeStep ==
    ASSUME LockTypeOK, AttemptsLeft, [LockNext]_lockVars
    PROVE  LockTypeOK' /\ AttemptsLeft'
<1> USE RetriesAssumption
<1> USE DEF LockTypeOK, AttemptsLeft, Ended, Goto
<1>1. ASSUME NEW c \in Calls, Call(c) PROVE LockTypeOK' /\ AttemptsLeft'
  BY <1>1 DEF Call
<1>2. ASSUME NEW c \in Calls, SetNX(c) PROVE LockTypeOK' /\ AttemptsLeft'
  <2>1. CASE lock = NotSet
    <3>1. lock' \in Key
      BY <1>2, <2>1, KeyOfIsKey DEF SetNX
    <3> HIDE DEF AttemptsLeft
    <3>2. LockTypeOK'
      BY <1>2, <2>1, <3>1 DEF SetNX
    <3>3. AttemptsLeft'
      BY <1>2, <2>1 DEF SetNX, AttemptsLeft
    <3> QED
      BY <3>2, <3>3
  <2>2. CASE lock # NotSet
    BY <1>2, <2>2, FailAttemptTypes DEF SetNX
  <2> QED
    BY <2>1, <2>2
<1>3. ASSUME NEW c \in Calls, SetNXError(c) PROVE LockTypeOK' /\ AttemptsLeft'
  <2>1. lock' \in Key \cup {NotSet}
    BY <1>3, KeyOfIsKey DEF SetNXError
  <2> QED
    BY <1>3, <2>1, FailAttemptTypes DEF SetNXError
<1>4. ASSUME NEW c \in Calls, SetKeyExpiry(c) PROVE LockTypeOK' /\ AttemptsLeft'
  BY <1>4, ExpiringIsKey DEF SetKeyExpiry
<1>5. ASSUME NEW c \in Calls, SetKeyExpiryError(c) PROVE LockTypeOK' /\ AttemptsLeft'
  BY <1>5, ExpiringIsKey, FailAttemptTypes DEF SetKeyExpiryError
<1>6. ASSUME NEW c \in Calls, Retry(c) PROVE LockTypeOK' /\ AttemptsLeft'
  BY <1>6 DEF Retry
<1>7. ASSUME NEW c \in Calls, Work(c) PROVE LockTypeOK' /\ AttemptsLeft'
  BY <1>7 DEF Work
<1>8. ASSUME NEW c \in Calls, Check(c) \/ CheckError(c)
      PROVE  LockTypeOK' /\ AttemptsLeft'
  BY <1>8 DEF Check, CheckError
<1>9. ASSUME NEW c \in Calls, Delete(c) \/ DeleteError(c)
      PROVE  LockTypeOK' /\ AttemptsLeft'
  BY <1>9 DEF Delete, DeleteError
<1>10. ASSUME NEW c \in Calls, Crash(c) PROVE LockTypeOK' /\ AttemptsLeft'
  BY <1>10 DEF Crash
<1>11. CASE KeyRunsOut
  BY <1>11 DEF KeyRunsOut
<1>12. CASE UNCHANGED lockVars
  BY <1>12 DEF lockVars
<1> QED
  BY <1>1, <1>2, <1>3, <1>4, <1>5, <1>6, <1>7, <1>8, <1>9, <1>10, <1>11, <1>12
     DEF LockNext, Step

\* The bound on the calls astray is kept by every step.
LEMMA BoundStep ==
    ASSUME LockIInv, LockTypeOK', [LockNext]_lockVars
    PROVE  Cardinality(Astray') <= overruns'
<1> USE DEF LockIInv
<1> DEFINE Shrinks == overruns' = overruns /\ Astray' \subseteq Astray
<1>1. ASSUME Shrinks PROVE Cardinality(Astray') <= overruns'
  BY <1>1, AstrayShrinks
<1>2. ASSUME NEW c \in Calls, Call(c) PROVE Shrinks
  BY <1>2 DEF Call, Goto, Astray, Relies, Holds, LockTypeOK
<1>3. ASSUME NEW c \in Calls, SetNX(c) PROVE Shrinks
  <2>1. CASE lock = NotSet
    <3>1. Holds(c)'
      BY <1>3, <2>1, KeyOfIsKey DEF SetNX, Holds
    <3>2. \A d \in Calls : d # c => pc'[d] = pc[d]
      BY <1>3, <2>1 DEF SetNX, Goto, LockTypeOK
    <3>3. \A d \in Calls : ~Holds(d)
      BY <2>1 DEF Holds
    <3>4. overruns' = overruns
      BY <1>3 DEF SetNX
    <3> QED
      BY <3>1, <3>2, <3>3, <3>4 DEF Astray, Relies
  <2>2. CASE lock # NotSet
    BY <1>3, <2>2, FailAttemptShrinks DEF SetNX
  <2> QED
    BY <2>1, <2>2
<1>4. ASSUME NEW c \in Calls, SetNXError(c) PROVE Shrinks
  <2>1. lock # NotSet => lock' = lock
    BY <1>4 DEF SetNXError
  <2> QED
    BY <1>4, <2>1, FailAttemptShrinks DEF SetNXError
<1>5. ASSUME NEW c \in Calls, SetKeyExpiry(c) PROVE Shrinks
  BY <1>5, ExpiringIsKey DEF SetKeyExpiry, Goto, Astray, Relies, Holds, LockTypeOK
<1>6. ASSUME NEW c \in Calls, SetKeyExpiryError(c) PROVE Shrinks
  BY <1>6, ExpiringIsKey, FailAttemptShrinks DEF SetKeyExpiryError
<1>7. ASSUME NEW c \in Calls, Retry(c) \/ Work(c) PROVE Shrinks
  BY <1>7 DEF Retry, Work, Goto, Astray, Relies, Holds, LockTypeOK
<1>8. ASSUME NEW c \in Calls, Check(c) \/ CheckError(c) PROVE Shrinks
  BY <1>8 DEF Check, CheckError, Goto, Astray, Relies, Holds, LockTypeOK
<1>9. ASSUME NEW c \in Calls, DeleteError(c) \/ Crash(c) PROVE Shrinks
  BY <1>9 DEF DeleteError, Crash, Goto, Astray, Relies, Holds, LockTypeOK
<1>10. ASSUME NEW c \in Calls, Delete(c) PROVE Cardinality(Astray') <= overruns'
  <2>1. overruns' = overruns
    BY <1>10 DEF Delete
  <2>2. CASE Holds(c)
    <3>1. \A d \in Calls : d # c => ~Holds(d)
      BY <2>2, OneHolder
    <3>2. Shrinks
      BY <1>10, <2>1, <3>1 DEF Delete, Goto, Astray, Relies, LockTypeOK
    <3> QED
      BY <1>1, <3>2
  <2>3. CASE ~Holds(c)
    <3>1. c \in Astray
      BY <1>10, <2>3 DEF Delete, Astray, Relies
    <3>2. c \notin Astray'
      BY <1>10 DEF Delete, Goto, Astray, Relies, LockTypeOK
    <3>3. \A d \in Astray' : d \in Astray \/ Holds(d)
      BY <1>10 DEF Delete, Goto, Astray, Relies, LockTypeOK
    <3>4. \A d \in Astray' : d \in Astray \/ d = lock.by
      BY <3>3 DEF Holds
    <3>5. Astray' \subseteq (Astray \ {c}) \cup {lock.by}
      BY <3>2, <3>4
    <3>6. Astray \in SUBSET Calls /\ Astray' \in SUBSET Calls
      BY DEF Astray
    <3>7. Cardinality(Astray') <= Cardinality(Astray)
      BY <3>1, <3>5, <3>6, AstraySwapped
    <3> QED
      BY <2>1, <3>6, <3>7, FiniteCalls DEF LockTypeOK
  <2> QED
    BY <2>2, <2>3
<1>11. CASE KeyRunsOut
  <2>1. \A d \in Astray' : d \in Astray \/ (Relies(d) /\ Holds(d))
    BY <1>11 DEF KeyRunsOut, Astray, Relies
  <2>2. CASE \E c \in Calls : Relies(c) /\ Holds(c)
    <3>1. overruns' = overruns + 1
      BY <1>11, <2>2 DEF KeyRunsOut
    <3>2. Astray' \subseteq Astray \cup {lock.by}
      BY <2>1 DEF Holds
    <3>3. Astray \in SUBSET Calls /\ Astray' \in SUBSET Calls
      BY DEF Astray
    <3>4. Cardinality(Astray') <= Cardinality(Astray) + 1
      BY <3>2, <3>3, AstrayOneMore
    <3> QED
      BY <3>1, <3>3, <3>4, FiniteCalls DEF LockTypeOK
  <2>3. CASE ~ \E c \in Calls : Relies(c) /\ Holds(c)
    <3>1. overruns' = overruns
      BY <1>11, <2>3 DEF KeyRunsOut
    <3>2. Astray' \subseteq Astray
      BY <2>1, <2>3 DEF Astray
    <3> QED
      BY <1>1, <3>1, <3>2
  <2> QED
    BY <2>2, <2>3
<1>12. CASE UNCHANGED lockVars
  <2>1. Shrinks
    BY <1>12 DEF lockVars, Astray, Relies, Holds
  <2> QED
    BY <1>1, <2>1
<1> QED
  BY <1>1, <1>2, <1>3, <1>4, <1>5, <1>6, <1>7, <1>8, <1>9, <1>10, <1>11, <1>12
     DEF LockNext, Step

LEMMA LockInvariant == LockSpec => []LockIInv
<1>1. LockIInv /\ [LockNext]_lockVars => LockIInv'
  BY TypeStep, BoundStep DEF LockIInv
<1> QED
  BY <1>1, InitEstablishes, PTL DEF LockSpec

----------------------------------------------------------------------------
\* The key, the program counters and the counts of attempts of withLock keep
\* their types, and no call makes more than Retries attempts.
THEOREM LockTypeCorrect == LockSpec => []LockTypeOK
<1>1. LockIInv => LockTypeOK
  BY DEF LockIInv
<1> QED
  BY <1>1, LockInvariant, PTL

\* Of the calls inside, all but the holder of the key are astray.
LEMMA InsideBound ==
    ASSUME LockIInv
    PROVE  ExclusionUpToOverruns
<1>1. Inside \in SUBSET Calls /\ Astray \in SUBSET Calls
  BY DEF Inside, Astray
<1>2. \A c \in Inside : c \in Astray \/ Holds(c)
  BY DEF Inside, Astray, Relies
<1>3. Inside \subseteq Astray \cup {lock.by}
  BY <1>2 DEF Holds
<1>4. Cardinality(Inside) <= Cardinality(Astray) + 1
  BY <1>1, <1>3, AstrayOneMore
<1>5. Cardinality(Inside) \in Nat /\ Cardinality(Astray) \in Nat
  BY <1>1, FiniteCalls
<1> QED
  BY <1>4, <1>5 DEF LockIInv, LockTypeOK, ExclusionUpToOverruns

\* withLock lets in one call at a time, and one more for each key that runs out
\* while its call relies on it, whatever commands fail and processes die.
THEOREM ExclusionProved == LockSpec => []ExclusionUpToOverruns
BY InsideBound, LockInvariant, PTL
=============================================================================
