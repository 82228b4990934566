---------------------------- MODULE RedisProofs ----------------------------
(***************************************************************************)
(* Theorems about what relies on single commands of Redis: SignIn,         *)
(* OneTimeSecrets and QueryCache, for any limits, calls, secrets and       *)
(* bounds.                                                                 *)
(***************************************************************************)
EXTENDS SignIn, OneTimeSecrets, QueryCache, FiniteSetTheorems, TLAPS

(***************************************************************************)
(* SignIn: the bound on wrong passwords, for every limit and every number  *)
(* of concurrent logins.  An attempt the counter missed was either let in  *)
(* without reading it or not counted afterwards; the invariant splits      *)
(* unseen in the two.  The first kind lets the counter, with the logins    *)
(* still to be counted, pass its limit; the second separates the passwords *)
(* tried from those counted.                                               *)
(***************************************************************************)
In(steps) == {l \in Logins : login[l].step \in steps}

\* Let in, the password compared or not, and not counted yet.
Entered == In({"admitted", "guessed"})
Guessed == In({"guessed"})

Room(blind) == failed + Cardinality(Entered) <= Max - 1 + Cardinality(Logins) + blind
Seen(missed) == guesses <= failed + Cardinality(Guessed) + missed

SignInIInv ==
    /\ SignInTypeOK
    /\ \E b \in 0..unseen : Room(b) /\ Seen(unseen - b)

LEMMA FiniteIn ==
    \A S : /\ IsFiniteSet(In(S)) /\ Cardinality(In(S)) \in Nat
           /\ IsFiniteSet(In(S)') /\ Cardinality(In(S)') \in Nat
           /\ Cardinality(In(S)) <= Cardinality(Logins)
           /\ Cardinality(In(S)') <= Cardinality(Logins)
           /\ Cardinality(Logins) \in Nat
<1> TAKE S
<1>1. In(S) \subseteq Logins /\ In(S)' \subseteq Logins
  BY DEF In
<1> QED
  BY <1>1, SignInAssumption, FS_Subset, FS_CardinalityType

\* How a step of login l moves the two counts.
LEMMA Leaves ==
    ASSUME SignInTypeOK, NEW l \in Logins, NEW record, Proceed(l, record), NEW S,
           record.step \notin S
    PROVE  /\ login[l].step \in S => Cardinality(In(S)') = Cardinality(In(S)) - 1
           /\ login[l].step \notin S => Cardinality(In(S)') = Cardinality(In(S))
           /\ Cardinality(In(S)') <= Cardinality(In(S))
<1>1. In(S)' = In(S) \ {l}
  BY DEF SignInTypeOK, Proceed, In
<1>2. l \in In(S) <=> login[l].step \in S
  BY DEF In
<1>3. CASE l \in In(S)
  <2>1. Cardinality(In(S)') = Cardinality(In(S)) - 1
    BY <1>1, <1>3, FiniteIn, FS_RemoveElement
  <2> QED
    BY <1>2, <1>3, <2>1, FiniteIn
<1>4. CASE l \notin In(S)
  <2>1. In(S)' = In(S)
    BY <1>1, <1>4
  <2> QED
    BY <1>2, <1>4, <2>1, FiniteIn
<1> QED
  BY <1>3, <1>4

LEMMA Enters ==
    ASSUME SignInTypeOK, NEW l \in Logins, NEW record, Proceed(l, record), NEW S,
           record.step \in S
    PROVE  /\ login[l].step \notin S => Cardinality(In(S)') = Cardinality(In(S)) + 1
           /\ login[l].step \in S => Cardinality(In(S)') = Cardinality(In(S))
<1>1. In(S)' = In(S) \cup {l}
  BY DEF SignInTypeOK, Proceed, In
<1>2. l \in In(S) <=> login[l].step \in S
  BY DEF In
<1>3. CASE l \notin In(S)
  BY <1>1, <1>2, <1>3, FiniteIn, FS_AddElement
<1>4. CASE l \in In(S)
  <2>1. In(S)' = In(S)
    BY <1>1, <1>4
  <2> QED
    BY <1>2, <1>4, <2>1, FiniteIn
<1> QED
  BY <1>3, <1>4

LEMMA CounterGone ==
    ASSUME NoCounter
    PROVE  /\ failed' \in Nat /\ guesses' \in Nat /\ unseen' \in Nat
           /\ timed' \in BOOLEAN /\ orphaned' \in BOOLEAN
           /\ ~timed'
<1>1. failed' \in Nat /\ guesses' \in Nat /\ unseen' \in Nat
  BY DEF NoCounter
<1>2. timed' \in BOOLEAN /\ orphaned' \in BOOLEAN /\ ~timed'
  BY Zenon DEF NoCounter
<1> QED
  BY <1>1, <1>2

LEMMA CountedType ==
    ASSUME NEW seen \in 0..Max, NEW locked \in BOOLEAN
    PROVE  Counted(seen, locked) \in LoginStates
BY Zenon DEF Counted, LoginStates

LEMMA SignInTypeStep ==
    ASSUME SignInTypeOK, [SignInNext]_signInVars
    PROVE  SignInTypeOK'
<1> USE SignInAssumption
    DEF SignInTypeOK, counterVars, userVars, Proceed, LoginStates, Away, Counted
<1>1. ASSUME NEW l \in Logins, Admit(l) \/ AdmitBlind(l)
      PROVE  SignInTypeOK'
  BY <1>1 DEF Admit, AdmitBlind
<1>2. ASSUME NEW l \in Logins, Guess(l) PROVE SignInTypeOK'
  BY <1>2 DEF Guess
<1>3. ASSUME NEW l \in Logins, Know(l) PROVE SignInTypeOK'
  BY <1>3 DEF Know
<1>4. ASSUME NEW l \in Logins, Count(l) \/ CountError(l) PROVE SignInTypeOK'
  <2>1. login[l].seen \in 0..Max
    BY <1>4 DEF Count, CountError
  <2>2. (failed' >= Max) \in BOOLEAN
    OBVIOUS
  <2>3. [step |-> "expiring", seen |-> login[l].seen] \in LoginStates
    BY <2>1
  <2> HIDE DEF Counted, LoginStates
  <2>4. login' \in [Logins -> LoginStates]
    BY <1>4, <2>1, <2>2, <2>3, CountedType DEF Count, CountError
  <2>5. /\ failed' \in {failed, failed + 1}
        /\ guesses' = guesses
        /\ unseen' \in {unseen, unseen + 1}
    BY <1>4, Zenon DEF Count, CountError
  <2>6. timed' = timed /\ orphaned' = orphaned /\ listed' = listed /\ status' = status
    BY <1>4, Zenon DEF Count, CountError
  <2> QED
    BY <2>4, <2>5, <2>6
<1>5. ASSUME NEW l \in Logins, SetExpiry(l) \/ ExpiryError(l) PROVE SignInTypeOK'
  <2>1. login[l].seen \in 0..Max
    BY <1>5 DEF SetExpiry, ExpiryError
  <2>2. (1 >= Max) \in BOOLEAN
    OBVIOUS
  <2> HIDE DEF Counted, LoginStates
  <2>3. login' \in [Logins -> LoginStates]
    BY <1>5, <2>1, <2>2, CountedType DEF SetExpiry, ExpiryError
  <2>0. (failed > 0) \in BOOLEAN /\ (failed > 0 /\ ~timed) \in BOOLEAN
    OBVIOUS
  <2>4. timed' \in BOOLEAN /\ orphaned' \in BOOLEAN
    BY <1>5, <2>0, Zenon DEF SetExpiry, ExpiryError
  <2>5. timed' => failed' > 0
    BY <1>5 DEF SetExpiry, ExpiryError
  <2> QED
    BY <1>5, <2>3, <2>4, <2>5 DEF SetExpiry, ExpiryError
<1>6. ASSUME NEW l \in Logins, Push(l) PROVE SignInTypeOK'
  BY <1>6 DEF Push
<1>7. ASSUME NEW l \in Logins, Clear(l) \/ Succeed(l) PROVE SignInTypeOK'
  BY <1>7, CounterGone DEF Clear, Succeed
<1>8. ASSUME NEW l \in Logins, LoseLogin(l) PROVE SignInTypeOK'
  BY <1>8 DEF LoseLogin
<1>9. CASE Forgive \/ RunOut
  BY <1>9, CounterGone DEF Forgive, RunOut
<1>10. ASSUME NEW st \in {"active", "suspended", "locked", "deactivated"},
              UpdateUserStatus(st)
       PROVE  SignInTypeOK'
  BY <1>10 DEF UpdateUserStatus
<1>11. CASE UNCHANGED signInVars
  BY <1>11 DEF signInVars
<1> QED
  BY <1>1, <1>2, <1>3, <1>4, <1>5, <1>6, <1>7, <1>8, <1>9, <1>10, <1>11
     DEF SignInNext, LoginStep

\* Nothing is counted after the counter has gone.
LEMMA NoCounterKeeps ==
    ASSUME SignInTypeOK', NoCounter
    PROVE  \E b \in 0..unseen' : Room(b)' /\ Seen(unseen - b)'
<1>1. Room(0)' /\ Seen(0)'
  BY FiniteIn, SignInAssumption DEF Room, Seen, NoCounter, Entered, Guessed
<1> QED
  BY <1>1 DEF NoCounter

\* Steps that leave the counter alone, let no login in and compare no password.
LEMMA NothingCounted ==
    ASSUME SignInIInv, SignInTypeOK', UNCHANGED <<failed, guesses, unseen>>,
           Cardinality(Entered') <= Cardinality(Entered),
           Cardinality(Guessed') = Cardinality(Guessed)
    PROVE  \E b \in 0..unseen' : Room(b)' /\ Seen(unseen - b)'
<1>1. PICK b \in 0..unseen : Room(b) /\ Seen(unseen - b)
  BY DEF SignInIInv
<1>2. Room(b)' /\ Seen(unseen - b)'
  BY <1>1, FiniteIn, SignInAssumption
     DEF Room, Seen, Entered, Guessed, SignInIInv, SignInTypeOK
<1> QED
  BY <1>2
\* A login that is let in, by the counter or past it.
LEMMA AdmitKeeps ==
    ASSUME SignInIInv, SignInTypeOK', NEW l \in Logins, Admit(l) \/ AdmitBlind(l)
    PROVE  \E b \in 0..unseen' : Room(b)' /\ Seen(unseen - b)'
<1> USE DEF SignInIInv, SignInTypeOK
<1>1. /\ Proceed(l, [step |-> "admitted"]) /\ login[l].step = "away"
      /\ failed' = failed /\ guesses' = guesses
  BY DEF Admit, AdmitBlind, counterVars, Away
<1>2. Cardinality(Entered') = Cardinality(Entered) + 1
  BY <1>1, Enters DEF Entered
<1>3. Cardinality(Guessed') = Cardinality(Guessed)
  BY <1>1, Leaves DEF Guessed
<1>4. PICK b \in 0..unseen : Room(b) /\ Seen(unseen - b)
  OBVIOUS
<1>5. CASE Admit(l)
  <2>1. failed < Max /\ unseen' = unseen
    BY <1>5 DEF Admit, counterVars
  <2>2. Room(b)'
    BY <1>1, <2>1, FiniteIn, SignInAssumption DEF Room, Entered
  <2>3. Seen(unseen - b)'
    BY <1>1, <1>3, <1>4, <2>1, FiniteIn DEF Seen, Guessed
  <2> QED
    BY <2>1, <2>2, <2>3
<1>6. CASE AdmitBlind(l)
  <2>1. unseen' = unseen + 1
    BY <1>6 DEF AdmitBlind
  <2>2. Room(b + 1)'
    BY <1>1, <1>2, <1>4, FiniteIn, SignInAssumption DEF Room, Entered
  <2>3. Seen(unseen - (b + 1))'
    BY <1>1, <1>3, <1>4, <2>1, FiniteIn DEF Seen, Guessed
  <2> QED
    BY <2>1, <2>2, <2>3
<1> QED
  BY <1>5, <1>6

\* A password compared is one more tried, and one more to be counted.
LEMMA GuessKeeps ==
    ASSUME SignInIInv, SignInTypeOK', NEW l \in Logins, Guess(l)
    PROVE  \E b \in 0..unseen' : Room(b)' /\ Seen(unseen - b)'
<1> USE DEF SignInIInv, SignInTypeOK, Guess
<1>1. Cardinality(Entered') = Cardinality(Entered)
  BY Enters DEF Entered
<1>2. Cardinality(Guessed') = Cardinality(Guessed) + 1
  BY Enters DEF Guessed
<1>3. PICK b \in 0..unseen : Room(b) /\ Seen(unseen - b)
  OBVIOUS
<1>4. Room(b)'
  BY <1>1, <1>3, FiniteIn, SignInAssumption DEF Room, Entered
<1>5. Seen(unseen - b)'
  BY <1>2, <1>3, FiniteIn DEF Seen, Guessed
<1> QED
  BY <1>4, <1>5

\* A login that was to be counted is counted, or missed.
LEMMA CountKeeps ==
    ASSUME SignInIInv, SignInTypeOK', NEW l \in Logins, NEW record,
           login[l].step = "guessed", Proceed(l, record),
           record.step \notin {"admitted", "guessed"},
           guesses' = guesses,
           \/ failed' = failed + 1 /\ unseen' = unseen
           \/ failed' = failed /\ unseen' = unseen + 1
    PROVE  \E b \in 0..unseen' : Room(b)' /\ Seen(unseen - b)'
<1> USE DEF SignInIInv, SignInTypeOK
<1>1. Cardinality(Entered') = Cardinality(Entered) - 1
  BY Leaves DEF Entered
<1>2. Cardinality(Guessed') = Cardinality(Guessed) - 1
  BY Leaves DEF Guessed
<1>3. PICK b \in 0..unseen : Room(b) /\ Seen(unseen - b)
  OBVIOUS
<1>4. Room(b)'
  BY <1>1, <1>3, FiniteIn, SignInAssumption DEF Room, Entered
<1>5. Seen(unseen - b)'
  BY <1>2, <1>3, FiniteIn DEF Seen, Guessed
<1> QED
  BY <1>4, <1>5

\* A login goes on, or ends, with nothing to be counted.
LEMMA MoveKeeps ==
    ASSUME SignInIInv, SignInTypeOK', NEW l \in Logins, NEW record,
           login[l].step # "guessed", Proceed(l, record),
           record.step \notin {"admitted", "guessed"},
           UNCHANGED <<failed, guesses, unseen>>
    PROVE  \E b \in 0..unseen' : Room(b)' /\ Seen(unseen - b)'
<1>1. Cardinality(Entered') <= Cardinality(Entered)
  BY Leaves DEF Entered, SignInIInv
<1>2. Cardinality(Guessed') = Cardinality(Guessed)
  BY Leaves DEF Guessed, SignInIInv
<1> QED
  BY <1>1, <1>2, NothingCounted

LEMMA SignInStep ==
    ASSUME SignInIInv, [SignInNext]_signInVars
    PROVE  SignInIInv'
<1>0. SignInTypeOK'
  BY SignInTypeStep DEF SignInIInv
<1> DEFINE Bounded == \E b \in 0..unseen : Room(b) /\ Seen(unseen - b)
<1> SUFFICES Bounded'
  BY <1>0 DEF SignInIInv
<1>1. ASSUME NEW l \in Logins, Admit(l) \/ AdmitBlind(l) PROVE Bounded'
  BY <1>0, <1>1, AdmitKeeps
<1>2. ASSUME NEW l \in Logins, Guess(l) PROVE Bounded'
  BY <1>0, <1>2, GuessKeeps
<1>3. ASSUME NEW l \in Logins, Count(l) PROVE Bounded'
  <2>1. PICK record : Proceed(l, record) /\ record.step \in {"expiring", "counted"}
    BY <1>3 DEF Count, Counted
  <2>2. guesses' = guesses /\ unseen' = unseen /\ failed' = failed + 1
    BY <1>3, Zenon DEF Count
  <2> QED
    BY <1>0, <1>3, <2>1, <2>2, CountKeeps DEF Count
<1>4. ASSUME NEW l \in Logins, CountError(l) PROVE Bounded'
  <2>1. Counted(login[l].seen, FALSE).step = "counted"
    BY DEF Counted
  <2> QED
    BY <1>0, <1>4, <2>1, CountKeeps DEF CountError
<1>5. ASSUME NEW l \in Logins, SetExpiry(l) \/ ExpiryError(l) PROVE Bounded'
  <2>1. PICK record : Proceed(l, record) /\ record.step = "counted"
    BY <1>5 DEF SetExpiry, ExpiryError, Counted
  <2>2. UNCHANGED <<failed, guesses, unseen>>
    BY <1>5 DEF SetExpiry, ExpiryError
  <2>3. login[l].step # "guessed"
    BY <1>5 DEF SetExpiry, ExpiryError
  <2> QED
    BY <1>0, <2>1, <2>2, <2>3, MoveKeeps
<1>6. ASSUME NEW l \in Logins, Know(l) \/ Push(l) \/ Succeed(l) PROVE Bounded'
  <2>1. PICK record : Proceed(l, record) /\ record.step \in {"away", "known"}
    BY <1>6 DEF Know, Push, Succeed, Away
  <2>2. UNCHANGED <<failed, guesses, unseen>> /\ login[l].step # "guessed"
    BY <1>6 DEF Know, Push, Succeed, counterVars
  <2> QED
    BY <1>0, <2>1, <2>2, MoveKeeps
<1>7. ASSUME NEW l \in Logins, Clear(l) PROVE Bounded'
  <2>1. CASE NoCounter
    BY <1>0, <2>1, NoCounterKeeps
  <2>2. CASE UNCHANGED counterVars
    BY <1>0, <1>7, <2>2, MoveKeeps DEF Clear, counterVars
  <2> QED
    BY <1>7, <2>1, <2>2 DEF Clear
<1>8. ASSUME NEW l \in Logins, LoseLogin(l) PROVE Bounded'
  <2>1. Proceed(l, Away) /\ Away.step = "away" /\ UNCHANGED <<failed, guesses>>
    BY <1>8 DEF LoseLogin, Away
  <2>2. CASE login[l].step = "guessed"
    BY <1>0, <1>8, <2>1, <2>2, CountKeeps DEF LoseLogin
  <2>3. CASE login[l].step # "guessed"
    BY <1>0, <1>8, <2>1, <2>3, MoveKeeps DEF LoseLogin
  <2> QED
    BY <2>2, <2>3
<1>9. CASE RunOut
  BY <1>0, <1>9, NoCounterKeeps DEF RunOut
<1>10. CASE UNCHANGED <<login, counterVars>>
  <2>1. \A S : In(S)' = In(S)
    BY <1>10 DEF In
  <2>2. Entered' = Entered /\ Guessed' = Guessed
    BY <2>1 DEF Entered, Guessed
  <2> QED
    BY <1>0, <1>10, <2>2, FiniteIn, NothingCounted DEF counterVars, Entered, Guessed
<1>11. ASSUME Forgive \/ (\E st \in {"active", "suspended", "locked", "deactivated"} :
                            UpdateUserStatus(st)) \/ UNCHANGED signInVars
       PROVE  UNCHANGED <<login, counterVars>>
  BY <1>11 DEF Forgive, UpdateUserStatus, signInVars, counterVars
<1> QED
  BY <1>1, <1>2, <1>3, <1>4, <1>5, <1>6, <1>7, <1>8, <1>9, <1>10, <1>11
     DEF SignInNext, LoginStep

LEMMA SignInStart == SignInInit => SignInIInv
<1> SUFFICES ASSUME SignInInit PROVE SignInIInv
  OBVIOUS
<1>1. SignInTypeOK
  <2>1. timed \in BOOLEAN /\ orphaned \in BOOLEAN /\ ~timed
    BY Zenon DEF SignInInit
  <2>2. login \in [Logins -> LoginStates] /\ listed \in 0..Max
    BY SignInAssumption DEF SignInInit, LoginStates, Away
  <2>3. failed \in Nat /\ guesses \in Nat /\ unseen \in Nat
    BY DEF SignInInit
  <2> QED
    BY <2>1, <2>2, <2>3 DEF SignInInit, SignInTypeOK
<1>2. Room(0) /\ Seen(0)
  BY FiniteIn, SignInAssumption DEF SignInInit, Room, Seen, Entered, Guessed
<1> QED
  BY <1>1, <1>2 DEF SignInIInv, SignInInit

LEMMA SignInInvariant == SignInSpec => []SignInIInv
BY SignInStart, SignInStep, PTL DEF SignInSpec

\* The counter, the user and the logins keep their form (login).
THEOREM SignInTypeCorrect == SignInSpec => []SignInTypeOK
<1>1. SignInIInv => SignInTypeOK
  BY DEF SignInIInv
<1> QED
  BY <1>1, SignInInvariant, PTL

\* trackLoginAttempt and isLoginLocked: at most the limit less one, one for
\* each concurrent login, and the attempts the counter missed.
THEOREM GuessesBoundProved == SignInSpec => []GuessesBounded
<1>1. SignInIInv => GuessesBounded
  <2> SUFFICES ASSUME SignInIInv PROVE GuessesBounded
    OBVIOUS
  <2>1. PICK b \in 0..unseen : Room(b) /\ Seen(unseen - b)
    BY DEF SignInIInv
  <2>2. Guessed \subseteq Entered
    BY DEF Guessed, Entered, In
  <2>3. Cardinality(Guessed) <= Cardinality(Entered)
    BY <2>2, FiniteIn, FS_Subset DEF Guessed, Entered
  <2> QED
    BY <2>1, <2>3, FiniteIn, SignInAssumption
       DEF GuessesBounded, Room, Seen, SignInIInv, SignInTypeOK, Guessed, Entered
<1> QED
  BY <1>1, SignInInvariant, PTL

----------------------------------------------------------------------------
(***************************************************************************)
(* OneTimeSecrets: a secret takes effect within its allowance, for all     *)
(* sets of secrets and of requests.  The invariant counts, beside the      *)
(* effects a secret has had, the requests that are bound to give it        *)
(* another one, and the one more that a valid secret nobody holds can      *)
(* still have.                                                             *)
(***************************************************************************)
\* The requests that have found s and have not yet made it take effect.
Owing(s) == {c \in Redeemers : redeemer[c] \in {With("found", s), With("granting", s)}}

\* A valid secret without a holder can be found at no cost.
Findable(s) == IF secret[s] = "valid" /\ Holding(s) = {} THEN 1 ELSE 0

Allowed(s) == effects[s] + Cardinality(Owing(s)) + Findable(s) <= 1 + exposures[s]

Untouched(s) == secret[s] = "unissued" =>
    effects[s] = 0 /\ Owing(s) = {} /\ Holding(s) = {}

SecretsIInv ==
    /\ SecretsTypeOK
    /\ \A s \in Secrets : Allowed(s) /\ Untouched(s)

LEMMA FiniteOwing ==
    \A s : /\ IsFiniteSet(Owing(s)) /\ Cardinality(Owing(s)) \in Nat
           /\ IsFiniteSet(Owing(s)') /\ Cardinality(Owing(s)') \in Nat
<1> TAKE s
<1>1. Owing(s) \subseteq Redeemers /\ Owing(s)' \subseteq Redeemers
  BY DEF Owing
<1> QED
  BY <1>1, SecretsAssumption, FS_Subset, FS_CardinalityType

\* Nothing that was allowed is forbidden when no request begins to owe s, and
\* its state, its effects and its accidents stay, or it is no longer valid.
LEMMA StillAllowed ==
    ASSUME SecretsIInv, SecretsTypeOK', NEW s \in Secrets,
           Owing(s)' \subseteq Owing(s),
           effects'[s] = effects[s], exposures'[s] >= exposures[s],
           Findable(s)' <= Findable(s) \/ exposures'[s] > exposures[s]
    PROVE  Allowed(s)'
<1>1. Cardinality(Owing(s)') <= Cardinality(Owing(s))
  BY FiniteOwing, FS_Subset
<1>2. Findable(s) \in 0..1 /\ Findable(s)' \in 0..1
  BY DEF Findable
<1>3. /\ effects[s] \in Nat /\ effects'[s] \in Nat
      /\ exposures[s] \in Nat /\ exposures'[s] \in Nat
  BY DEF SecretsIInv, SecretsTypeOK
<1> QED
  BY <1>1, <1>2, <1>3, FiniteOwing DEF SecretsIInv, Allowed

LEMMA SecretsTypeStep ==
    ASSUME SecretsTypeOK, [SecretsNext]_secretVars
    PROVE  SecretsTypeOK'
<1> USE DEF SecretsTypeOK, Turn, With, Free, RedeemerStates
<1>0. \A S : Drop(S) \in [Secrets -> {"unissued", "valid", "used", "gone"}]
  BY DEF Drop
<1>1. ASSUME NEW s \in Secrets, NEW S, Issue(s, S)
      PROVE  secret' \in [Secrets -> {"unissued", "valid", "used", "gone"}]
  BY <1>0, <1>1 DEF Issue
<1>2. ASSUME NEW s \in Secrets, Expose(s)
      PROVE  exposures' \in [Secrets -> Nat]
  BY <1>2 DEF Expose
<1>3. ASSUME NEW c \in Redeemers, DeleteOld(c) \/ StoreLoginCode(c)
      PROVE  SecretsTypeOK'
  BY <1>0, <1>3 DEF DeleteOld, StoreLoginCode
<1>4. ASSUME NEW c \in Redeemers, NEW t \in Tokens, CreateNew(c, t) \/ CreateSession(c, t)
      PROVE  SecretsTypeOK'
  BY <1>1, <1>4 DEF CreateNew, CreateSession, Secrets
<1>5. ASSUME NEW c \in Redeemers, NEW s \in Secrets, Find(c, s)
      PROVE  SecretsTypeOK'
  BY <1>2, <1>5 DEF Find
<1>6. ASSUME NEW c \in Redeemers, NEW s \in Secrets,
             Use(c, s) \/ Mark(c, s) \/ MarkSession(c, s) \/ Grant(c, s)
      PROVE  SecretsTypeOK'
  BY <1>6 DEF Use, Mark, MarkSession, Grant, TakesEffect
<1>7. ASSUME NEW c \in Redeemers, NEW s \in Secrets, DeleteCode(c, s)
      PROVE  SecretsTypeOK'
  BY <1>0, <1>2, <1>7 DEF DeleteCode
<1>8. ASSUME NEW c \in Redeemers, LoseRedeemer(c)
      PROVE  SecretsTypeOK'
  <2>1. redeemer[c].step = "marking" => redeemer[c].secret \in Secrets
    OBVIOUS
  <2> QED
    BY <1>2, <1>8, <2>1 DEF LoseRedeemer
<1>9. ASSUME NEW t \in Secrets, CreateChange(t) \/ SendCode(t) \/ RunsOut(t)
      PROVE  SecretsTypeOK'
  BY <1>1, <1>9 DEF CreateChange, SendCode, RunsOut
<1>10. CASE UNCHANGED secretVars
  BY <1>10 DEF secretVars
<1> QED
  BY <1>3, <1>4, <1>5, <1>6, <1>7, <1>8, <1>9, <1>10 DEF SecretsNext, Secrets

\* Request c, turned away from every secret but those of S, owes and holds
\* nothing of the others, and the others' requests stay as they are.
LEMMA ElsewhereSame ==
    ASSUME SecretsTypeOK, NEW c \in Redeemers, NEW record, NEW s \in Secrets,
           Turn(c, record),
           redeemer[c] \notin {With("found", s), With("marking", s), With("granting", s)},
           record \notin {With("found", s), With("marking", s), With("granting", s)}
    PROVE  Owing(s)' = Owing(s) /\ Holding(s)' = Holding(s)
BY DEF SecretsTypeOK, Turn, Owing, Holding

\* What is issued was unissued.
LEMMA IssueAllowed ==
    ASSUME SecretsIInv, SecretsTypeOK', NEW t \in Secrets, NEW S, Issue(t, S),
           secret[t] = "unissued", UNCHANGED <<effects, exposures>>,
           NEW s \in Secrets, Owing(s)' = Owing(s), Holding(s)' = Holding(s)
    PROVE  Allowed(s)' /\ Untouched(s)'
<1> USE DEF SecretsIInv, SecretsTypeOK
<1>1. CASE s = t
  <2>1. effects'[s] = 0 /\ Owing(s)' = {} /\ exposures'[s] \in Nat
    BY <1>1 DEF Untouched
  <2>2. Cardinality(Owing(s)') = 0 /\ Findable(s)' \in 0..1
    BY <2>1, FS_EmptySet DEF Findable
  <2>3. secret'[s] = "valid"
    BY <1>1 DEF Issue, Drop
  <2> QED
    BY <2>1, <2>2, <2>3 DEF Allowed, Untouched
<1>2. CASE s # t
  <2>1. /\ secret'[s] = secret[s] \/ secret'[s] = "gone"
        /\ secret'[s] = "unissued" => secret[s] = "unissued"
    BY <1>2 DEF Issue, Drop
  <2>2. Findable(s)' <= Findable(s)
    BY <2>1 DEF Findable
  <2> QED
    BY <2>1, <2>2, StillAllowed DEF Untouched
<1> QED
  BY <1>1, <1>2

LEMMA FindAllowed ==
    ASSUME SecretsIInv, SecretsTypeOK', NEW c \in Redeemers, NEW t \in Secrets,
           Find(c, t), NEW s \in Secrets
    PROVE  Allowed(s)' /\ Untouched(s)'
<1> USE DEF SecretsIInv, SecretsTypeOK, Find
<1>1. CASE s = t
  <2>1. c \notin Owing(s) /\ Owing(s)' = Owing(s) \cup {c} /\ c \in Holding(s)'
    BY <1>1 DEF Owing, Holding, Turn, With, Free
  <2>2. Cardinality(Owing(s)') = Cardinality(Owing(s)) + 1
    BY <2>1, FiniteOwing, FS_AddElement
  <2>3. Findable(s)' = 0
    BY <2>1 DEF Findable
  <2>4. CASE Holding(s) = {}
    <3>1. Findable(s) = 1 /\ exposures'[s] = exposures[s] /\ effects'[s] = effects[s]
      BY <1>1, <2>4 DEF Findable
    <3> QED
      BY <1>1, <2>2, <2>3, <3>1, FiniteOwing DEF Allowed, Untouched
  <2>5. CASE Holding(s) # {}
    <3>1. Findable(s) = 0 /\ exposures'[s] = exposures[s] + 1 /\ effects'[s] = effects[s]
      BY <1>1, <2>5 DEF Findable, Expose
    <3> QED
      BY <1>1, <2>2, <2>3, <3>1, FiniteOwing DEF Allowed, Untouched
  <2> QED
    BY <2>4, <2>5
<1>2. CASE s # t
  <2>1. Owing(s)' = Owing(s) /\ Holding(s)' = Holding(s)
    BY <1>2, ElsewhereSame DEF With, Free
  <2>2. exposures'[s] = exposures[s]
    BY <1>2 DEF Expose
  <2>3. Findable(s)' = Findable(s)
    BY <2>1 DEF Findable
  <2>4. Findable(s) \in 0..1
    BY DEF Findable
  <2> QED
    BY <2>1, <2>2, <2>3, <2>4, StillAllowed DEF Untouched
<1> QED
  BY <1>1, <1>2

\* A request that makes its secret take effect owes it no longer.
LEMMA EffectAllowed ==
    ASSUME SecretsIInv, SecretsTypeOK', NEW c \in Redeemers, NEW t \in Secrets,
           Use(c, t) \/ Grant(c, t), NEW s \in Secrets
    PROVE  Allowed(s)' /\ Untouched(s)'
<1> USE DEF SecretsIInv, SecretsTypeOK
<1>0. UNCHANGED <<secret, exposures>> /\ TakesEffect(t)
  BY DEF Use, Grant
<1>1. CASE s = t
  <2>1. c \in Owing(s) /\ Owing(s)' = Owing(s) \ {c}
    BY <1>1 DEF Owing, Use, Grant, Turn, With, Free
  <2>2. Cardinality(Owing(s)') = Cardinality(Owing(s)) - 1
    BY <2>1, FiniteOwing, FS_RemoveElement
  <2>3. Findable(s)' <= Findable(s)
    <3>1. CASE Use(c, t)
      <4>1. c \in Holding(s)'
        BY <1>1, <3>1 DEF Use, Holding, Turn
      <4> QED
        BY <4>1 DEF Findable
    <3>2. CASE Grant(c, t)
      <4>1. Holding(s)' = Holding(s)
        BY <1>1, <3>2 DEF Grant, Holding, Turn, With, Free
      <4> QED
        BY <1>0, <4>1 DEF Findable
    <3> QED
      BY <3>1, <3>2
  <2>4. effects'[s] = effects[s] + 1
    BY <1>0, <1>1 DEF TakesEffect
  <2>5. Findable(s) \in 0..1 /\ Findable(s)' \in 0..1
    BY DEF Findable
  <2>6. secret'[s] # "unissued"
    BY <1>0, <2>1 DEF Untouched
  <2> QED
    BY <1>0, <2>2, <2>3, <2>4, <2>5, <2>6, FiniteOwing DEF Allowed, Untouched
<1>2. CASE s # t
  <2>1. Owing(s)' = Owing(s) /\ Holding(s)' = Holding(s)
    BY <1>2, ElsewhereSame DEF Use, Grant, With, Free
  <2>2. effects'[s] = effects[s]
    BY <1>0, <1>2 DEF TakesEffect
  <2>3. Findable(s)' = Findable(s)
    BY <1>0, <2>1 DEF Findable
  <2>4. Findable(s) \in 0..1
    BY DEF Findable
  <2> QED
    BY <1>0, <2>1, <2>2, <2>3, <2>4, StillAllowed DEF Untouched
<1> QED
  BY <1>1, <1>2

\* A mark leaves nothing to find, or is an accident.
LEMMA MarkAllowed ==
    ASSUME SecretsIInv, SecretsTypeOK', NEW c \in Redeemers, NEW t \in Secrets,
           Mark(c, t) \/ MarkSession(c, t) \/ DeleteCode(c, t), NEW s \in Secrets
    PROVE  Allowed(s)' /\ Untouched(s)'
<1> USE DEF SecretsIInv, SecretsTypeOK
<1>1. Owing(s)' = Owing(s)
  BY DEF Owing, Mark, MarkSession, DeleteCode, Turn, With, Free
<1>2. s # t => Holding(s)' = Holding(s)
  BY DEF Holding, Mark, MarkSession, DeleteCode, Turn, With, Free
<1>3. effects' = effects /\ exposures'[s] >= exposures[s]
  BY DEF Mark, MarkSession, DeleteCode, Expose
<1>4. /\ secret'[s] = secret[s] \/ secret'[s] # "valid"
      /\ (secret'[s] = "unissued" <=> secret[s] = "unissued")
  BY DEF Mark, MarkSession, DeleteCode, Drop
<1>5. s = t => secret'[s] # "valid" \/ exposures'[s] > exposures[s]
  BY DEF Mark, MarkSession, DeleteCode, Drop, Expose
<1>6. Findable(s)' <= Findable(s) \/ exposures'[s] > exposures[s]
  BY <1>2, <1>4, <1>5 DEF Findable
<1>7. Holding(s)' \subseteq Holding(s)
  BY DEF Holding, Mark, MarkSession, DeleteCode, Turn, With, Free
<1> QED
  BY <1>1, <1>3, <1>4, <1>6, <1>7, StillAllowed DEF Untouched
\* A request that ends early owes nothing; after the effect it is an accident.
LEMMA LoseAllowed ==
    ASSUME SecretsIInv, SecretsTypeOK', NEW c \in Redeemers, LoseRedeemer(c),
           NEW s \in Secrets
    PROVE  Allowed(s)' /\ Untouched(s)'
<1> USE DEF SecretsIInv, SecretsTypeOK, LoseRedeemer
<1>1. Owing(s)' = Owing(s) \ {c} /\ Holding(s)' = Holding(s) \ {c}
  BY DEF Owing, Holding, Turn, With, Free
<1>2. CASE redeemer[c] = With("found", s)
  <2>1. c \in Owing(s) /\ exposures' = exposures /\ effects' = effects
    BY <1>2 DEF Owing, With
  <2>2. Cardinality(Owing(s)') = Cardinality(Owing(s)) - 1
    BY <1>1, <2>1, FiniteOwing, FS_RemoveElement
  <2>3. Findable(s) \in 0..1 /\ Findable(s)' \in 0..1
    BY DEF Findable
  <2>4. Findable(s) = 0
    BY <1>2 DEF Findable, Holding
  <2> QED
    BY <1>1, <2>1, <2>2, <2>3, <2>4, FiniteOwing DEF Allowed, Untouched
<1>3. CASE redeemer[c] = With("marking", s)
  <2>1. exposures'[s] = exposures[s] + 1 /\ effects' = effects
    BY <1>3 DEF With, Expose
  <2> QED
    BY <1>1, <2>1, StillAllowed DEF Untouched
<1>4. CASE redeemer[c] \notin {With("found", s), With("marking", s)}
  <2>1. Holding(s)' = Holding(s)
    BY <1>1, <1>4 DEF Holding
  <2>2. exposures'[s] >= exposures[s] /\ effects' = effects
    BY DEF Expose
  <2>3. Findable(s)' = Findable(s) /\ Findable(s) \in 0..1
    BY <2>1 DEF Findable
  <2> QED
    BY <1>1, <2>1, <2>2, <2>3, StillAllowed DEF Untouched
<1> QED
  BY <1>2, <1>3, <1>4

\* Old secrets that are dropped, or run out.
LEMMA DropAllowed ==
    ASSUME SecretsIInv, SecretsTypeOK',
           UNCHANGED <<effects, exposures>>,
           NEW s \in Secrets, Owing(s)' = Owing(s), Holding(s)' = Holding(s),
           secret'[s] = secret[s] \/ (secret[s] = "valid" /\ secret'[s] = "gone")
    PROVE  Allowed(s)' /\ Untouched(s)'
<1>1. Findable(s)' <= Findable(s)
  BY DEF Findable
<1>2. exposures'[s] >= exposures[s]
  BY DEF SecretsIInv, SecretsTypeOK
<1> QED
  BY <1>1, <1>2, StillAllowed DEF SecretsIInv, Untouched

LEMMA SecretsStep ==
    ASSUME SecretsIInv, [SecretsNext]_secretVars
    PROVE  SecretsIInv'
<1>0. SecretsTypeOK'
  BY SecretsTypeStep DEF SecretsIInv
<1> SUFFICES ASSUME NEW s \in Secrets PROVE Allowed(s)' /\ Untouched(s)'
  BY <1>0 DEF SecretsIInv
<1>1. ASSUME NEW c \in Redeemers, DeleteOld(c) \/ StoreLoginCode(c)
      PROVE  Allowed(s)' /\ Untouched(s)'
  <2>1. Owing(s)' = Owing(s) /\ Holding(s)' = Holding(s)
    BY <1>1, ElsewhereSame DEF SecretsIInv, DeleteOld, StoreLoginCode, With, Free
  <2> QED
    BY <1>0, <1>1, <2>1, DropAllowed DEF DeleteOld, StoreLoginCode, Drop
<1>2. ASSUME NEW c \in Redeemers, NEW t \in Tokens, CreateNew(c, t) \/ CreateSession(c, t)
      PROVE  Allowed(s)' /\ Untouched(s)'
  <2>1. Owing(s)' = Owing(s) /\ Holding(s)' = Holding(s)
    BY <1>2, ElsewhereSame DEF SecretsIInv, CreateNew, CreateSession, With, Free
  <2> QED
    BY <1>0, <1>2, <2>1, IssueAllowed DEF CreateNew, CreateSession, Secrets
<1>3. ASSUME NEW t \in Secrets, CreateChange(t) \/ SendCode(t)
      PROVE  Allowed(s)' /\ Untouched(s)'
  <2>1. Owing(s)' = Owing(s) /\ Holding(s)' = Holding(s)
    BY <1>3 DEF CreateChange, SendCode, Owing, Holding
  <2> QED
    BY <1>0, <1>3, <2>1, IssueAllowed DEF CreateChange, SendCode
<1>4. ASSUME NEW t \in Secrets, RunsOut(t)
      PROVE  Allowed(s)' /\ Untouched(s)'
  <2>1. Owing(s)' = Owing(s) /\ Holding(s)' = Holding(s)
    BY <1>4 DEF RunsOut, Owing, Holding
  <2>2. secret'[s] = secret[s] \/ (secret[s] = "valid" /\ secret'[s] = "gone")
    BY <1>4 DEF RunsOut, SecretsIInv, SecretsTypeOK
  <2> QED
    BY <1>0, <1>4, <2>1, <2>2, DropAllowed DEF RunsOut
<1>5. ASSUME NEW c \in Redeemers, NEW t \in Secrets,
             \/ Find(c, t) \/ Use(c, t) \/ Grant(c, t)
             \/ Mark(c, t) \/ MarkSession(c, t) \/ DeleteCode(c, t)
      PROVE  Allowed(s)' /\ Untouched(s)'
  BY <1>0, <1>5, FindAllowed, EffectAllowed, MarkAllowed
<1>6. ASSUME NEW c \in Redeemers, LoseRedeemer(c)
      PROVE  Allowed(s)' /\ Untouched(s)'
  BY <1>0, <1>6, LoseAllowed
<1>7. CASE UNCHANGED secretVars
  <2>1. Owing(s)' = Owing(s) /\ Holding(s)' = Holding(s)
    BY <1>7 DEF secretVars, Owing, Holding
  <2> QED
    BY <1>0, <1>7, <2>1, DropAllowed DEF secretVars
<1> QED
  BY <1>1, <1>2, <1>3, <1>4, <1>5, <1>6, <1>7 DEF SecretsNext, Secrets

LEMMA SecretsStart == SecretsInit => SecretsIInv
<1> SUFFICES ASSUME SecretsInit PROVE SecretsIInv
  OBVIOUS
<1>1. SecretsTypeOK
  BY DEF SecretsInit, SecretsTypeOK, RedeemerStates, Free
<1>2. ASSUME NEW s \in Secrets PROVE Allowed(s) /\ Untouched(s)
  <2>1. Owing(s) = {} /\ Holding(s) = {}
    BY DEF SecretsInit, Owing, Holding, With, Free
  <2>2. Cardinality(Owing(s)) = 0
    BY <2>1, FS_EmptySet
  <2> QED
    BY <2>1, <2>2 DEF SecretsInit, Allowed, Untouched, Findable
<1> QED
  BY <1>1, <1>2 DEF SecretsIInv

LEMMA SecretsInvariant == SecretsSpec => []SecretsIInv
BY SecretsStart, SecretsStep, PTL DEF SecretsSpec

\* Secrets and requests keep their form (ConfirmationToken, store2FACode).
THEOREM SecretsTypeCorrect == SecretsSpec => []SecretsTypeOK
<1>1. SecretsIInv => SecretsTypeOK
  BY DEF SecretsIInv
<1> QED
  BY <1>1, SecretsInvariant, PTL

----------------------------------------------------------------------------
\* What is owed is within the allowance.
LEMMA EffectExecutes ==
    ASSUME SecretsIInv, NEW c \in Redeemers, NEW s \in Secrets,
           Use(c, s) \/ Grant(c, s)
    PROVE  OneTime!Execute(s)
<1> USE DEF SecretsIInv, SecretsTypeOK
<1>1. c \in Owing(s)
  BY DEF Owing, Use, Grant
<1>2. Cardinality(Owing(s)) >= 1
  <2>1. Cardinality(Owing(s) \ {c}) = Cardinality(Owing(s)) - 1
    BY <1>1, FiniteOwing, FS_RemoveElement
  <2>2. IsFiniteSet(Owing(s) \ {c})
    BY FiniteOwing, FS_Subset
  <2> QED
    BY <2>1, <2>2, FiniteOwing, FS_CardinalityType
<1>3. Findable(s) \in 0..1
  BY DEF Findable
<1>4. effects[s] < 1 + exposures[s]
  BY <1>2, <1>3, FiniteOwing DEF Allowed
<1>5. exposures' = exposures /\ TakesEffect(s)
  BY DEF Use, Grant
<1> QED
  BY <1>4, <1>5 DEF OneTime!Execute, TakesEffect

LEMMA ExposeRaises ==
    ASSUME SecretsTypeOK, NEW s \in Secrets, Expose(s), UNCHANGED effects
    PROVE  OneTime!AllowanceNext
<1>1. OneTime!Expose({s})
  BY DEF Expose, SecretsTypeOK, OneTime!Expose
<1> QED
  BY <1>1 DEF OneTime!AllowanceNext

LEMMA SecretsImplement ==
    ASSUME SecretsIInv, [SecretsNext]_secretVars
    PROVE  [OneTime!AllowanceNext]_OneTime!allowanceVars
<1>0. ASSUME UNCHANGED <<effects, exposures>> PROVE UNCHANGED OneTime!allowanceVars
  BY <1>0 DEF OneTime!allowanceVars
<1>1. ASSUME NEW c \in Redeemers, NEW s \in Secrets, Use(c, s) \/ Grant(c, s)
      PROVE  OneTime!AllowanceNext
  BY <1>1, EffectExecutes DEF OneTime!AllowanceNext
<1>2. ASSUME NEW c \in Redeemers, NEW s \in Secrets, Find(c, s) \/ DeleteCode(c, s)
      PROVE  [OneTime!AllowanceNext]_OneTime!allowanceVars
  BY <1>0, <1>2, ExposeRaises DEF Find, DeleteCode, SecretsIInv
<1>3. ASSUME NEW c \in Redeemers, LoseRedeemer(c)
      PROVE  [OneTime!AllowanceNext]_OneTime!allowanceVars
  <2>1. redeemer[c].step = "marking" => redeemer[c].secret \in Secrets
    BY DEF SecretsIInv, SecretsTypeOK, RedeemerStates
  <2> QED
    BY <1>0, <1>3, <2>1, ExposeRaises DEF LoseRedeemer, SecretsIInv
<1>4. ASSUME NEW c \in Redeemers, NEW s \in Secrets,
             \/ CreateNew(c, s) \/ CreateSession(c, s)
             \/ Mark(c, s) \/ MarkSession(c, s)
      PROVE  UNCHANGED <<effects, exposures>>
  BY <1>4 DEF CreateNew, CreateSession, Mark, MarkSession
<1>5. ASSUME NEW c \in Redeemers, DeleteOld(c) \/ StoreLoginCode(c)
      PROVE  UNCHANGED <<effects, exposures>>
  BY <1>5 DEF DeleteOld, StoreLoginCode
<1>6. ASSUME NEW s \in Secrets, CreateChange(s) \/ SendCode(s) \/ RunsOut(s)
      PROVE  UNCHANGED <<effects, exposures>>
  BY <1>6 DEF CreateChange, SendCode, RunsOut
<1>7. CASE UNCHANGED secretVars
  BY <1>0, <1>7 DEF secretVars
<1> QED
  BY <1>0, <1>1, <1>2, <1>3, <1>4, <1>5, <1>6, <1>7 DEF SecretsNext, Secrets

\* The tokens and codes of auth.controller.ts, users-profile.service.ts and
\* Redis.service.ts take effect once, and once more for each accident.
THEOREM SecretsKeepPromise == SecretsSpec => OneTimePromise
<1>1. SecretsInit => OneTime!AllowanceInit
  BY DEF SecretsInit, OneTime!AllowanceInit
<1>2. SecretsIInv /\ [SecretsNext]_secretVars => [OneTime!AllowanceNext]_OneTime!allowanceVars
  BY SecretsImplement
<1> QED
  BY <1>1, <1>2, SecretsInvariant, PTL
     DEF SecretsSpec, OneTimePromise, OneTime!AllowanceSpec

----------------------------------------------------------------------------
(***************************************************************************)
(* QueryCache: the bound on the queries that run.  A query is an orphan    *)
(* when its entry of the map is gone.  The bound is inductive for the      *)
(* orphans, and of the leading queries at most one is no orphan.  While    *)
(* nothing has gone wrong since the last rest there is no orphan, and no   *)
(* call queries beside the map: at rest there is nothing left to go on.    *)
(***************************************************************************)
Orphans == {c \in Leading : inFlight # c}

OrphansBounded == Cardinality(Orphans) <= strays

Calm == ~trouble =>
    /\ Orphans = {}
    /\ \A c \in Calls : pc[c] \notin {"direct", "fallback", "retrying"}

IInv == QueryTypeOK /\ OrphansBounded /\ Calm

\* Sets of calls are finite.
LEMMA FiniteCalls ==
    ASSUME NEW S \in SUBSET Calls
    PROVE  IsFiniteSet(S) /\ Cardinality(S) \in Nat
BY CallsAssumption, FS_Subset, FS_CardinalityType

\* A set of calls with one call more, and with one call exchanged.
LEMMA OneMore ==
    ASSUME NEW S \in SUBSET Calls, NEW T \in SUBSET Calls,
           NEW h, T \subseteq S \cup {h}
    PROVE  Cardinality(T) <= Cardinality(S) + 1
<1>1. IsFiniteSet(S) /\ Cardinality(S) \in Nat
  BY FiniteCalls
<1>2. /\ IsFiniteSet(S \cup {h})
      /\ Cardinality(S \cup {h}) <= Cardinality(S) + 1
  BY <1>1, FS_AddElement
<1>3. Cardinality(T) <= Cardinality(S \cup {h})
  BY <1>2, FS_Subset
<1>4. Cardinality(T) \in Nat /\ Cardinality(S \cup {h}) \in Nat
  BY <1>2, FiniteCalls, FS_CardinalityType
<1> QED
  BY <1>1, <1>2, <1>3, <1>4

LEMMA OneExchanged ==
    ASSUME NEW S \in SUBSET Calls, NEW T \in SUBSET Calls,
           NEW c \in S, NEW h, T \subseteq (S \ {c}) \cup {h}
    PROVE  Cardinality(T) <= Cardinality(S)
<1>1. Cardinality(S \ {c}) = Cardinality(S) - 1
  BY FiniteCalls, FS_RemoveElement
<1>2. S \ {c} \in SUBSET Calls
  OBVIOUS
<1>3. Cardinality(T) <= Cardinality(S \ {c}) + 1
  BY <1>2, OneMore
<1> QED
  BY <1>1, <1>3, FiniteCalls

----------------------------------------------------------------------------
LEMMA InitEstablishes == QueryInit => IInv
<1> SUFFICES ASSUME QueryInit PROVE IInv
  OBVIOUS
<1>1. QueryTypeOK
  <2>1. trouble \in BOOLEAN
    BY DEF QueryInit
  <2> QED
    BY <2>1, NoneAssumption DEF QueryInit, QueryTypeOK
<1>2. Orphans = {}
  BY DEF QueryInit, Orphans, Leading
<1> QED
  BY <1>1, <1>2, FS_EmptySet DEF QueryInit, IInv, OrphansBounded, Calm

\* A call that only moves on by itself, neither from nor to leading or
\* following, keeps the types.
LEMMA MoveKeepsType ==
    ASSUME QueryTypeOK, NEW c \in Calls, NEW p \in {"idle", "asking", "direct", "fallback"},
           pc[c] \notin {"leading", "following"}, Goto({c}, p),
           inFlight' \in {inFlight, None}, strays' \in Nat, trouble' \in BOOLEAN,
           UNCHANGED <<leader, read, cached, storing, version, dels>>
    PROVE  QueryTypeOK'
<1>1. ASSUME NEW d \in Calls
      PROVE  /\ pc'[d] \in {"idle", "asking", "direct", "leading", "following",
                            "fallback", "retrying"}
             /\ (pc'[d] = "leading") = (pc[d] = "leading")
             /\ (pc'[d] = "following") = (pc[d] = "following")
  BY DEF Goto, QueryTypeOK
<1>2. pc' \in [Calls -> {"idle", "asking", "direct", "leading", "following",
                        "fallback", "retrying"}]
  BY <1>1 DEF Goto
<1>3. inFlight' # None => pc'[inFlight'] = "leading"
  BY <1>1 DEF QueryTypeOK
<1>4. ASSUME NEW d \in Calls
      PROVE  /\ (leader'[d] # None) = (pc'[d] = "following")
             /\ leader'[d] # None => pc'[leader'[d]] = "leading"
             /\ read'[d] # None => pc'[d] = "leading"
  BY <1>1 DEF QueryTypeOK
<1> QED
  BY <1>2, <1>3, <1>4 DEF QueryTypeOK

\* The end of a query leaves nobody behind who waits for it.
LEMMA SettleKeepsType ==
    ASSUME QueryTypeOK, NEW c \in Calls, NEW p \in {"idle", "retrying"},
           pc[c] = "leading", Settle({c} \cup Followers(c), p),
           inFlight' = None, storing' \in Seq(Nat), trouble' \in BOOLEAN,
           UNCHANGED <<cached, version, dels, strays>>
    PROVE  QueryTypeOK'
<1> DEFINE C == {c} \cup Followers(c)
<1>1. ASSUME NEW d \in Calls
      PROVE  /\ pc'[d] = IF d \in C THEN p ELSE pc[d]
             /\ leader'[d] = IF d \in C THEN None ELSE leader[d]
             /\ read'[d] = IF d \in C THEN None ELSE read[d]
  BY DEF Settle, Goto
<1>2. \A d \in Calls : leader[d] = c => d \in C
  BY DEF Followers
<1>3. \A d \in C : d = c \/ pc[d] = "following"
  BY NoneAssumption DEF Followers, QueryTypeOK
<1> HIDE DEF C
<1>4. pc' \in [Calls -> {"idle", "asking", "direct", "leading", "following",
                        "fallback", "retrying"}]
  <2>1. \A d \in Calls : pc'[d] \in {"idle", "asking", "direct", "leading", "following",
                                     "fallback", "retrying"}
    BY <1>1 DEF QueryTypeOK
  <2> QED
    BY <2>1 DEF Settle, Goto
<1>5. leader' \in [Calls -> Calls \cup {None}] /\ read' \in [Calls -> Nat \cup {None}]
  <2>1. \A d \in Calls : leader'[d] \in Calls \cup {None} /\ read'[d] \in Nat \cup {None}
    BY <1>1 DEF QueryTypeOK
  <2> QED
    BY <2>1 DEF Settle
<1>6. ASSUME NEW d \in Calls
      PROVE  /\ (leader'[d] # None) = (pc'[d] = "following")
             /\ leader'[d] # None => pc'[leader'[d]] = "leading"
             /\ read'[d] # None => pc'[d] = "leading"
  <2>1. CASE d \in C
    BY <1>1, <2>1
  <2>2. CASE d \notin C
    <3>1. pc'[d] = pc[d] /\ leader'[d] = leader[d] /\ read'[d] = read[d]
      BY <1>1, <2>2
    <3>2. leader[d] # None => leader[d] \in Calls /\ leader[d] # c /\ pc[leader[d]] = "leading"
      BY <1>2, <2>2 DEF QueryTypeOK
    <3>3. leader[d] # None => leader[d] \notin C
      BY <1>3, <3>2
    <3>4. leader[d] # None => pc'[leader[d]] = "leading"
      BY <1>1, <3>2, <3>3
    <3> QED
      BY <3>1, <3>4 DEF QueryTypeOK
  <2> QED
    BY <2>1, <2>2
<1> QED
  BY <1>4, <1>5, <1>6 DEF QueryTypeOK

\* The types are kept by every step.
LEMMA TypeStep ==
    ASSUME QueryTypeOK, [QueryNext]_queryVars
    PROVE  QueryTypeOK'
<1>1. ASSUME NEW c \in Calls, Ask(c) \/ NoClient(c) \/ Hit(c) \/ EndDirect(c)
      PROVE  QueryTypeOK'
  <2>1. strays' \in Nat /\ inFlight' = inFlight /\ trouble' \in BOOLEAN
    BY <1>1 DEF QueryTypeOK, Ask, NoClient, Hit, EndDirect
  <2> QED
    BY <1>1, <2>1, MoveKeepsType DEF Ask, NoClient, Hit, EndDirect
<1>2. ASSUME NEW c \in Calls, GetError(c) \/ DirectError(c)
      PROVE  QueryTypeOK'
  <2>1. strays' \in Nat /\ inFlight' = None
    BY <1>2 DEF QueryTypeOK, GetError, DirectError, Degrade
  <2>2. trouble' \in BOOLEAN
    BY <1>2 DEF GetError, DirectError, Degrade
  <2> QED
    BY <1>2, <2>1, <2>2, MoveKeepsType DEF GetError, DirectError, Degrade
<1>3. ASSUME NEW c \in Calls, Miss(c) PROVE QueryTypeOK'
  <2>1. CASE inFlight # None
    <3>1. /\ pc' = [d \in Calls |-> IF d = c THEN "following" ELSE pc[d]]
          /\ leader' = [leader EXCEPT ![c] = inFlight]
          /\ UNCHANGED <<inFlight, read, cached, storing, version, dels, strays, trouble>>
      BY <1>3, <2>1 DEF Miss, Goto
    <3>2. pc[c] = "asking" /\ read[c] = None
      BY <1>3 DEF Miss, QueryTypeOK
    <3> QED
      BY <2>1, <3>1, <3>2 DEF QueryTypeOK
  <2>2. CASE inFlight = None
    <3>1. /\ pc' = [d \in Calls |-> IF d = c THEN "leading" ELSE pc[d]]
          /\ inFlight' = c
          /\ UNCHANGED <<leader, read, cached, storing, version, dels, strays, trouble>>
      BY <1>3, <2>2 DEF Miss, Goto
    <3>2. pc[c] = "asking" /\ leader[c] = None
      BY <1>3 DEF Miss, QueryTypeOK
    <3> QED
      BY <3>1, <3>2 DEF QueryTypeOK
  <2> QED
    BY <2>1, <2>2
<1>4. ASSUME NEW c \in Calls, Read(c) PROVE QueryTypeOK'
  BY <1>4 DEF Read, QueryTypeOK
<1>5. ASSUME NEW c \in Calls, EndQuery(c) PROVE QueryTypeOK'
  <2>1. storing' \in Seq(Nat) /\ trouble' \in BOOLEAN
    BY <1>5 DEF EndQuery, QueryTypeOK
  <2> QED
    BY <1>5, <2>1, SettleKeepsType DEF EndQuery
<1>6. ASSUME NEW c \in Calls, FailQuery(c) PROVE QueryTypeOK'
  <2>1. storing' \in Seq(Nat) /\ trouble' \in BOOLEAN
    BY <1>6 DEF FailQuery, QueryTypeOK
  <2> QED
    BY <1>6, <2>1, SettleKeepsType DEF FailQuery
<1>7. CASE Store
  <2>1. Head(storing) \in Nat /\ Tail(storing) \in Seq(Nat)
    BY <1>7 DEF Store, QueryTypeOK
  <2> QED
    BY <1>7, <2>1 DEF Store, QueryTypeOK
<1>8. CASE Expire \/ Write \/ Invalidate
  BY <1>8 DEF Expire, Write, Invalidate, QueryTypeOK
<1>9. CASE UNCHANGED queryVars
  BY <1>9 DEF queryVars, QueryTypeOK
<1> QED
  BY <1>1, <1>2, <1>3, <1>4, <1>5, <1>6, <1>7, <1>8, <1>9 DEF QueryNext, Step

----------------------------------------------------------------------------
\* A query that ends leaves the map without an entry: the query whose entry it
\* was becomes an orphan, in place of the one that ends.
LEMMA SettleKeepsBound ==
    ASSUME QueryTypeOK, OrphansBounded, NEW c \in Calls, NEW p \in {"idle", "retrying"},
           pc[c] = "leading", Settle({c} \cup Followers(c), p),
           inFlight' = None, strays' = strays
    PROVE  OrphansBounded' /\ (Orphans = {} => Orphans' = {})
<1>1. Orphans \in SUBSET Calls /\ Orphans' \in SUBSET Calls
  BY DEF Orphans, Leading
<1>2. c \notin Orphans'
  BY DEF Orphans, Leading, Settle, Goto
<1>3. \A d \in Orphans' : pc[d] = "leading"
  BY DEF Orphans, Leading, Settle, Goto
<1>4. Orphans' \subseteq (Orphans \ {c}) \cup {inFlight}
  BY <1>1, <1>2, <1>3 DEF Orphans, Leading
<1>5. Cardinality(Orphans') <= Cardinality(Orphans)
  <2>1. CASE inFlight = c
    <3>1. Orphans' \subseteq Orphans
      BY <1>2, <1>4, <2>1
    <3> QED
      BY <1>1, <3>1, FiniteCalls, FS_Subset
  <2>2. CASE inFlight # c
    <3>1. c \in Orphans
      BY <2>2 DEF Orphans, Leading
    <3> QED
      BY <1>1, <1>4, <3>1, OneExchanged
  <2> QED
    BY <2>1, <2>2
<1>6. Orphans = {} => Orphans' = {}
  <2>1. Orphans = {} => inFlight = c
    BY DEF Orphans, Leading
  <2> QED
    BY <1>2, <1>4, <2>1
<1> QED
  BY <1>1, <1>5, <1>6, FiniteCalls DEF OrphansBounded, QueryTypeOK

\* The bound on the orphans is kept by every step.
LEMMA BoundStep ==
    ASSUME IInv, QueryTypeOK', [QueryNext]_queryVars
    PROVE  OrphansBounded'
<1> USE DEF IInv
<1>0. Orphans \in SUBSET Calls /\ Orphans' \in SUBSET Calls
  BY DEF Orphans, Leading
<1>1. ASSUME Orphans' = Orphans, strays' = strays PROVE OrphansBounded'
  BY <1>1 DEF OrphansBounded
<1>2. ASSUME NEW c \in Calls, Ask(c) \/ NoClient(c) \/ Hit(c) \/ EndDirect(c)
      PROVE  OrphansBounded'
  <2>1. Orphans' = Orphans /\ strays' = strays
    BY <1>2 DEF Ask, NoClient, Hit, EndDirect, Goto, Orphans, Leading, QueryTypeOK
  <2> QED
    BY <1>1, <2>1
<1>3. ASSUME NEW c \in Calls, GetError(c) \/ DirectError(c)
      PROVE  OrphansBounded'
  <2>1. Orphans' \subseteq Orphans \cup {inFlight}
    BY <1>3 DEF GetError, DirectError, Degrade, Goto, Orphans, Leading
  <2>2. CASE inFlight = None
    <3>1. strays' = strays
      BY <1>3, <2>2 DEF GetError, DirectError, Degrade
    <3>2. Orphans' \subseteq Orphans
      BY <1>0, <2>1, <2>2, NoneAssumption
    <3>3. Cardinality(Orphans') <= Cardinality(Orphans)
      BY <1>0, <3>2, FiniteCalls, FS_Subset
    <3>4. Cardinality(Orphans') \in Nat /\ Cardinality(Orphans) \in Nat
      BY <1>0, FiniteCalls
    <3> QED
      BY <3>1, <3>3, <3>4 DEF OrphansBounded, QueryTypeOK
  <2>3. CASE inFlight # None
    <3>1. strays' = strays + 1
      BY <1>3, <2>3 DEF GetError, DirectError, Degrade
    <3>2. Cardinality(Orphans') <= Cardinality(Orphans) + 1
      BY <1>0, <2>1, OneMore
    <3> QED
      BY <1>0, <3>1, <3>2, FiniteCalls DEF OrphansBounded, QueryTypeOK
  <2> QED
    BY <2>2, <2>3
<1>4. ASSUME NEW c \in Calls, Miss(c) PROVE OrphansBounded'
  <2>1. Orphans' = Orphans /\ strays' = strays
    BY <1>4, NoneAssumption DEF Miss, Goto, Orphans, Leading, QueryTypeOK
  <2> QED
    BY <1>1, <2>1
<1>5. ASSUME NEW c \in Calls, Read(c) PROVE OrphansBounded'
  <2>1. Orphans' = Orphans /\ strays' = strays
    BY <1>5 DEF Read, Orphans, Leading
  <2> QED
    BY <1>1, <2>1
<1>6. ASSUME NEW c \in Calls, EndQuery(c) PROVE OrphansBounded'
  BY <1>6, SettleKeepsBound DEF EndQuery
<1>7. ASSUME NEW c \in Calls, FailQuery(c) PROVE OrphansBounded'
  BY <1>7, SettleKeepsBound DEF FailQuery
<1>8. CASE Store \/ Expire \/ Write \/ Invalidate \/ UNCHANGED queryVars
  <2>1. Orphans' = Orphans /\ strays' = strays
    BY <1>8 DEF Store, Expire, Write, Invalidate, queryVars, Orphans, Leading
  <2> QED
    BY <1>1, <2>1
<1> QED
  BY <1>2, <1>3, <1>4, <1>5, <1>6, <1>7, <1>8 DEF QueryNext, Step

\* What holds while nothing has gone wrong is kept by every step: an error ends
\* the calm, the first call after a rest begins it.
LEMMA CalmStep ==
    ASSUME IInv, QueryTypeOK', [QueryNext]_queryVars
    PROVE  Calm'
<1> USE DEF IInv
<1>1. ASSUME Orphans' = Orphans, trouble' = trouble,
             \A d \in Calls : pc'[d] \in {"direct", "fallback", "retrying"} => pc'[d] = pc[d]
      PROVE  Calm'
  BY <1>1 DEF Calm
<1>2. ASSUME NEW c \in Calls, Ask(c) PROVE Calm'
  <2>1. /\ Orphans' = Orphans
        /\ \A d \in Calls : pc'[d] \in {"direct", "fallback", "retrying"} => pc'[d] = pc[d]
    BY <1>2 DEF Ask, Goto, Orphans, Leading, QueryTypeOK
  <2>2. CASE \A d \in Calls : pc[d] = "idle"
    <3>1. Orphans = {}
      BY <2>2 DEF Orphans, Leading
    <3> QED
      BY <2>1, <2>2, <3>1 DEF Calm
  <2>3. CASE \E d \in Calls : pc[d] # "idle"
    <3>1. trouble' = trouble
      BY <1>2, <2>3 DEF Ask, QueryTypeOK
    <3> QED
      BY <1>1, <2>1, <3>1
  <2> QED
    BY <2>2, <2>3
<1>3. ASSUME NEW c \in Calls,
             NoClient(c) \/ GetError(c) \/ DirectError(c) \/ FailQuery(c)
      PROVE  Calm'
  BY <1>3 DEF NoClient, GetError, DirectError, Degrade, FailQuery, Calm
<1>4. ASSUME NEW c \in Calls, Hit(c) \/ EndDirect(c) PROVE Calm'
  <2>1. /\ Orphans' = Orphans /\ trouble' = trouble
        /\ \A d \in Calls : pc'[d] \in {"direct", "fallback", "retrying"} => pc'[d] = pc[d]
    BY <1>4 DEF Hit, EndDirect, Goto, Orphans, Leading, QueryTypeOK
  <2> QED
    BY <1>1, <2>1
<1>5. ASSUME NEW c \in Calls, Miss(c) PROVE Calm'
  <2>1. /\ Orphans' = Orphans /\ trouble' = trouble
        /\ \A d \in Calls : pc'[d] \in {"direct", "fallback", "retrying"} => pc'[d] = pc[d]
    BY <1>5, NoneAssumption DEF Miss, Goto, Orphans, Leading, QueryTypeOK
  <2> QED
    BY <1>1, <2>1
<1>6. ASSUME NEW c \in Calls, Read(c) PROVE Calm'
  BY <1>6 DEF Read, Calm, Orphans, Leading
<1>7. ASSUME NEW c \in Calls, EndQuery(c) PROVE Calm'
  <2>1. Orphans = {} => Orphans' = {}
    BY <1>7, SettleKeepsBound DEF EndQuery
  <2>2. /\ trouble' = trouble
        /\ \A d \in Calls : pc'[d] \in {"direct", "fallback", "retrying"} => pc'[d] = pc[d]
    BY <1>7 DEF EndQuery, Settle, Goto, QueryTypeOK
  <2> QED
    BY <2>1, <2>2 DEF Calm
<1>8. CASE Store \/ Expire \/ Write \/ Invalidate \/ UNCHANGED queryVars
  BY <1>8 DEF Store, Expire, Write, Invalidate, queryVars, Calm, Orphans, Leading
<1> QED
  BY <1>2, <1>3, <1>4, <1>5, <1>6, <1>7, <1>8 DEF QueryNext, Step

LEMMA Invariant == QuerySpec => []IInv
<1>1. IInv /\ [QueryNext]_queryVars => IInv'
  BY TypeStep, BoundStep, CalmStep DEF IInv
<1> QED
  BY <1>1, InitEstablishes, PTL DEF QuerySpec

----------------------------------------------------------------------------
\* No call shares a query that has ended, and the query in the map runs.
THEOREM QueryTypeCorrect == QuerySpec => []QueryTypeOK
<1>1. IInv => QueryTypeOK
  BY DEF IInv
<1> QED
  BY <1>1, Invariant, PTL

\* Of the leading queries, all but the one in the map are orphans; in a calm there
\* are no orphans, and no other queries.
LEMMA RunningBound ==
    ASSUME IInv
    PROVE  QueriesBounded
<1>1. Leading \in SUBSET Calls /\ Orphans \in SUBSET Calls
  BY DEF Leading, Orphans
<1>2. Leading \subseteq Orphans \cup {inFlight}
  BY DEF Orphans
<1>3. Cardinality(Leading) <= 1 + strays
  <2>1. Cardinality(Leading) <= Cardinality(Orphans) + 1
    BY <1>1, <1>2, OneMore
  <2> QED
    BY <1>1, <2>1, FiniteCalls DEF IInv, OrphansBounded, QueryTypeOK
<1>4. ASSUME ~trouble PROVE Cardinality(Running) <= 1
  <2>1. Orphans = {} /\ Running = Leading
    BY <1>4 DEF IInv, Calm, Running, Leading
  <2>2. Cardinality(Leading) <= Cardinality({}) + 1
    BY <1>1, <1>2, <2>1, OneMore
  <2> QED
    BY <2>1, <2>2, FS_EmptySet
<1> QED
  BY <1>3, <1>4 DEF QueriesBounded

\* Any number of calls: those that miss the cache lead one query that they share,
\* and one more for each entry an error has deleted from under its query; and
\* while no call has met an error since the process was last at rest, one query
\* runs of any kind.  Nothing is said of the calls that query beside the map
\* after an error, which the code does not bound.
THEOREM QueriesBoundProved == QuerySpec => []QueriesBounded
BY RunningBound, Invariant, PTL
=============================================================================
