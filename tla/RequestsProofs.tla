--------------------------- MODULE RequestsProofs ---------------------------
(***************************************************************************)
(* Theorems about Requests, for any number of requests, keys and processes *)
(* of the backend.                                                         *)
(*                                                                         *)
(* The bound on what a key moves is not inductive: a request that runs may *)
(* still move.  Spent(k) counts it as if it had; the key owes its first    *)
(* execution to being live, and every other one to an accident.            *)
(***************************************************************************)
EXTENDS Requests, FiniteSetTheorems, TLAPS

Spent(k) == Of(moved \cup At("running"), k)

\* What is kept, and what is about to be kept, is the answer of a success.
KeptIsBacked ==
    /\ \A p \in Processes, k \in Keys : stored[p][k] # NoAnswer =>
           stored[p][k] \in Of(moved, k)
    /\ At("committed") \subseteq moved
    /\ \A r \in moved : stage[r] \notin {"unsent", "running"}

Covered(k) == Cardinality(Spent(k)) <= exposures[k] + (IF Live(k) THEN 1 ELSE 0)

RequestsIInv ==
    /\ RequestsTypeOK
    /\ SuccessIsBacked
    /\ KeptIsBacked
    /\ \A k \in Keys : Covered(k)

-----------------------------------------------------------------------------
\* Sets of requests are finite.
LEMMA FiniteRequests ==
    ASSUME NEW S \in SUBSET Requests
    PROVE  IsFiniteSet(S) /\ Cardinality(S) \in Nat
BY RequestsAssumption, FS_Subset, FS_CardinalityType

LEMMA Smaller ==
    ASSUME NEW T \in SUBSET Requests, NEW S \in SUBSET T
    PROVE  Cardinality(S) <= Cardinality(T)
BY FiniteRequests, FS_Subset

LEMMA SmallerByOne ==
    ASSUME NEW T \in SUBSET Requests, NEW r \in T, NEW S \in SUBSET (T \ {r})
    PROVE  Cardinality(S) + 1 <= Cardinality(T)
<1>1. IsFiniteSet(T) /\ Cardinality(T) \in Nat
  BY FiniteRequests
<1>2. Cardinality(T \ {r}) = Cardinality(T) - 1
  BY <1>1, FS_RemoveElement
<1>3. Cardinality(S) <= Cardinality(T \ {r})
  BY Smaller
<1>4. Cardinality(S) \in Nat
  BY FiniteRequests
<1> QED
  BY <1>1, <1>2, <1>3, <1>4

LEMMA LargerByOne ==
    ASSUME NEW S \in SUBSET Requests, NEW r \in Requests,
           NEW T \in SUBSET (S \cup {r})
    PROVE  Cardinality(T) <= Cardinality(S) + 1
<1>1. IsFiniteSet(S) /\ Cardinality(S) \in Nat
  BY FiniteRequests
<1>2. /\ IsFiniteSet(S \cup {r})
      /\ \/ Cardinality(S \cup {r}) = Cardinality(S)
         \/ Cardinality(S \cup {r}) = Cardinality(S) + 1
  BY <1>1, FS_AddElement
<1>3. Cardinality(T) <= Cardinality(S \cup {r})
  BY Smaller
<1>4. Cardinality(T) \in Nat /\ Cardinality(S \cup {r}) \in Nat
  BY FiniteRequests
<1> QED
  BY <1>1, <1>2, <1>3, <1>4

LEMMA SpentType ==
    ASSUME RequestsTypeOK, NEW k \in Keys
    PROVE  Spent(k) \in SUBSET Requests
BY DEF RequestsTypeOK, Spent, Of, At

-----------------------------------------------------------------------------
\* A key stays covered when nothing more is spent, unless it is live no more:
\* then an accident, or a request that ran in vain, makes up for it.
LEMMA StaysCovered ==
    ASSUME RequestsTypeOK, RequestsTypeOK', NEW k \in Keys, Covered(k),
           Spent(k)' \subseteq Spent(k),
           exposures'[k] >= exposures[k],
           \/ Live(k) => Live(k)'
           \/ exposures'[k] >= exposures[k] + 1
           \/ \E r \in Spent(k) : r \notin Spent(k)'
    PROVE  Covered(k)'
<1>1. /\ Spent(k) \in SUBSET Requests
      /\ Spent(k)' \in SUBSET Requests
  BY SpentType
<1>2. /\ Cardinality(Spent(k)) \in Nat
      /\ Cardinality(Spent(k)') \in Nat
      /\ Cardinality(Spent(k)') <= Cardinality(Spent(k))
  BY <1>1, FiniteRequests, Smaller
<1>3. exposures[k] \in Nat /\ exposures'[k] \in Nat
  BY DEF RequestsTypeOK
<1>4. CASE Live(k) => Live(k)'
  BY <1>2, <1>3, <1>4 DEF Covered
<1>5. CASE exposures'[k] >= exposures[k] + 1
  BY <1>2, <1>3, <1>5 DEF Covered
<1>6. CASE \E r \in Spent(k) : r \notin Spent(k)'
  <2>1. Cardinality(Spent(k)') + 1 <= Cardinality(Spent(k))
    BY <1>1, <1>6, SmallerByOne
  <2> QED
    BY <2>1, <1>2, <1>3 DEF Covered
<1> QED
  BY <1>4, <1>5, <1>6

\* A key stays covered when a request starts to run, if it was not live before
\* or the start is counted as an accident.
LEMMA StartCovered ==
    ASSUME RequestsTypeOK, RequestsTypeOK', NEW k \in Keys, Covered(k),
           NEW r \in Requests, Spent(k)' \subseteq Spent(k) \cup {r},
           exposures'[k] = exposures[k] + (IF Live(k) THEN 1 ELSE 0),
           Live(k)'
    PROVE  Covered(k)'
<1>1. /\ Spent(k) \in SUBSET Requests
      /\ Spent(k)' \in SUBSET Requests
  BY SpentType
<1>2. /\ Cardinality(Spent(k)) \in Nat
      /\ Cardinality(Spent(k)') \in Nat
      /\ Cardinality(Spent(k)') <= Cardinality(Spent(k)) + 1
  BY <1>1, FiniteRequests, LargerByOne
<1>3. exposures[k] \in Nat /\ exposures'[k] \in Nat
  BY DEF RequestsTypeOK
<1> QED
  BY <1>2, <1>3 DEF Covered

-----------------------------------------------------------------------------
LEMMA InitEstablishes == RequestsInit => RequestsIInv
<1> SUFFICES ASSUME RequestsInit PROVE RequestsIInv
  OBVIOUS
<1>1. RequestsTypeOK
  BY DEF RequestsInit, RequestsTypeOK
<1>2. SuccessIsBacked
  BY AnswersAssumption DEF RequestsInit, SuccessIsBacked
<1>3. KeptIsBacked
  BY DEF RequestsInit, KeptIsBacked, At
<1>4. ASSUME NEW k \in Keys PROVE Covered(k)
  <2>1. Spent(k) = {}
    BY DEF RequestsInit, Spent, Of, At
  <2> QED
    BY <2>1, FS_EmptySet DEF RequestsInit, Covered
<1> QED
  BY <1>1, <1>2, <1>3, <1>4 DEF RequestsIInv

LEMMA ExposedType ==
    ASSUME RequestsTypeOK, NEW S
    PROVE  /\ Exposed(S) \in [Keys -> Nat]
           /\ \A k \in Keys : Exposed(S)[k] = exposures[k] + (IF k \in S THEN 1 ELSE 0)
BY DEF RequestsTypeOK, Exposed

LEMMA TypeStep ==
    ASSUME RequestsTypeOK, [RequestsNext]_requestVars
    PROVE  RequestsTypeOK'
<1> USE DEF RequestsTypeOK, End, Exposed
<1>1. ASSUME NEW r \in Requests, Replay(r) PROVE RequestsTypeOK'
  <2>1. stored[at[r]][Key[r]] \in Requests \cup {NoAnswer}
    BY <1>1 DEF Replay
  <2> QED
    BY <1>1, <2>1 DEF Replay
<1>2. ASSUME NEW r \in Requests, Admit(r) PROVE RequestsTypeOK'
  BY <1>2 DEF Admit
<1>3. ASSUME NEW r \in Requests, Refuse(r) PROVE RequestsTypeOK'
  BY <1>3 DEF Refuse
<1>4. ASSUME NEW r \in Requests, Commit(r) PROVE RequestsTypeOK'
  BY <1>4 DEF Commit
<1>5. ASSUME NEW r \in Requests, Answer(r) PROVE RequestsTypeOK'
  BY <1>5 DEF Answer
<1>6. ASSUME NEW r \in Requests, FailAfterCommit(r) PROVE RequestsTypeOK'
  BY <1>6 DEF FailAfterCommit
<1>7. ASSUME NEW p \in Processes, Restart(p) PROVE RequestsTypeOK'
  <2>1. stage' \in [Requests -> {"unsent", "running", "committed", "ended"}]
    BY <1>7 DEF Restart
  <2>2. stored' \in [Processes -> [Keys -> Requests \cup {NoAnswer}]]
    BY <1>7 DEF Restart
  <2>3. exposures' \in [Keys -> Nat]
    BY <1>7, ExposedType DEF Restart
  <2> QED
    BY <1>7, <2>1, <2>2, <2>3 DEF Restart
<1>8. ASSUME NEW p \in Processes, NEW k \in Keys, Cleanup(p, k) PROVE RequestsTypeOK'
  BY <1>8 DEF Cleanup
<1>9. CASE UNCHANGED requestVars
  BY <1>9 DEF requestVars
<1> QED
  BY <1>1, <1>2, <1>3, <1>4, <1>5, <1>6, <1>7, <1>8, <1>9 DEF RequestsNext, RequestStep

\* What is kept and what is heard stays the answer of a success of its key.
LEMMA BackedStep ==
    ASSUME RequestsTypeOK, KeptIsBacked, SuccessIsBacked, [RequestsNext]_requestVars
    PROVE  KeptIsBacked' /\ SuccessIsBacked'
<1> USE AnswersAssumption DEF RequestsTypeOK, KeptIsBacked, SuccessIsBacked, End, Of, At
<1>1. ASSUME NEW r \in Requests, Replay(r) PROVE KeptIsBacked' /\ SuccessIsBacked'
  <2>1. stored[at[r]][Key[r]] \in Of(moved, Key[r])
    BY <1>1 DEF Replay
  <2>2. KeptIsBacked'
    BY <1>1 DEF Replay
  <2>3. SuccessIsBacked'
    BY <1>1, <2>1 DEF Replay
  <2> QED
    BY <2>2, <2>3
<1>2. ASSUME NEW r \in Requests, Admit(r) PROVE KeptIsBacked' /\ SuccessIsBacked'
  BY <1>2 DEF Admit
<1>3. ASSUME NEW r \in Requests, Refuse(r) PROVE KeptIsBacked' /\ SuccessIsBacked'
  <2>1. KeptIsBacked'
    BY <1>3 DEF Refuse
  <2>2. heard' = heard \/ heard' = [heard EXCEPT ![r] = Failure]
    BY <1>3 DEF Refuse
  <2>3. SuccessIsBacked'
    BY <1>3, <2>2 DEF Refuse
  <2> QED
    BY <2>1, <2>3
<1>4. ASSUME NEW r \in Requests, Commit(r) PROVE KeptIsBacked' /\ SuccessIsBacked'
  BY <1>4 DEF Commit
<1>5. ASSUME NEW r \in Requests, Answer(r) PROVE KeptIsBacked' /\ SuccessIsBacked'
  <2>1. KeptIsBacked'
    BY <1>5 DEF Answer
  <2>2. SuccessIsBacked'
    <3>1. r \in moved /\ moved' = moved
      BY <1>5 DEF Answer
    <3>2. heard' = heard \/ heard' = [heard EXCEPT ![r] = r]
      BY <1>5 DEF Answer
    <3>3. ASSUME NEW q \in Requests
          PROVE  heard'[q] = heard[q] \/ (q = r /\ heard'[q] = r)
      BY <3>2
    <3> QED
      BY <3>1, <3>3
  <2> QED
    BY <2>1, <2>2
<1>6. ASSUME NEW r \in Requests, FailAfterCommit(r) PROVE KeptIsBacked' /\ SuccessIsBacked'
  <2>1. KeptIsBacked'
    BY <1>6 DEF FailAfterCommit
  <2>2. heard' = heard \/ heard' = [heard EXCEPT ![r] = Failure]
    BY <1>6 DEF FailAfterCommit
  <2>3. SuccessIsBacked'
    BY <1>6, <2>2 DEF FailAfterCommit
  <2> QED
    BY <2>1, <2>3
<1>7. ASSUME NEW p \in Processes, Restart(p) PROVE KeptIsBacked' /\ SuccessIsBacked'
  BY <1>7 DEF Restart
<1>8. ASSUME NEW p \in Processes, NEW k \in Keys, Cleanup(p, k)
      PROVE  KeptIsBacked' /\ SuccessIsBacked'
  BY <1>8 DEF Cleanup
<1>9. CASE UNCHANGED requestVars
  BY <1>9 DEF requestVars
<1> QED
  BY <1>1, <1>2, <1>3, <1>4, <1>5, <1>6, <1>7, <1>8, <1>9 DEF RequestsNext, RequestStep

\* Every step keeps every key covered.
LEMMA CoveredStep ==
    ASSUME RequestsIInv, RequestsTypeOK', [RequestsNext]_requestVars, NEW k \in Keys
    PROVE  Covered(k)'
<1> USE DEF RequestsIInv
<1>0. Covered(k) /\ exposures[k] \in Nat
  BY DEF RequestsTypeOK
<1>1. ASSUME NEW r \in Requests, Replay(r) PROVE Covered(k)'
  <2>1. Spent(k)' \subseteq Spent(k) /\ exposures'[k] >= exposures[k]
    BY <1>0, <1>1 DEF Replay, End, Spent, Of, At, RequestsTypeOK
  <2>2. Live(k) => Live(k)'
    BY <1>1 DEF Replay, End, Live, InHand, Of, At, RequestsTypeOK
  <2> QED
    BY <1>0, <2>1, <2>2, StaysCovered
<1>2. ASSUME NEW r \in Requests, Admit(r) PROVE Covered(k)'
  <2>1. CASE Key[r] = k
    <3>1. Spent(k)' \subseteq Spent(k) \cup {r}
      BY <1>2 DEF Admit, Spent, Of, At, RequestsTypeOK
    <3>2. exposures'[k] = exposures[k] + (IF Live(k) THEN 1 ELSE 0)
      BY <1>2, <2>1, ExposedType DEF Admit
    <3>3. r \in Of(InHand, k)'
      BY <1>2, <2>1 DEF Admit, InHand, Of, At, RequestsTypeOK
    <3> QED
      BY <1>0, <3>1, <3>2, <3>3, StartCovered DEF Live
  <2>2. CASE Key[r] # k
    <3>1. Spent(k)' \subseteq Spent(k)
      BY <1>2, <2>2 DEF Admit, Spent, Of, At, RequestsTypeOK
    <3>2. exposures'[k] >= exposures[k]
      BY <1>0, <1>2, <2>2, ExposedType DEF Admit
    <3>3. Live(k) => Live(k)'
      BY <1>2, <2>2 DEF Admit, Live, InHand, Of, At, RequestsTypeOK
    <3> QED
      BY <1>0, <3>1, <3>2, <3>3, StaysCovered
  <2> QED
    BY <2>1, <2>2
<1>3. ASSUME NEW r \in Requests, Refuse(r) PROVE Covered(k)'
  <2>1. Spent(k)' \subseteq Spent(k) /\ exposures'[k] >= exposures[k]
    BY <1>0, <1>3 DEF Refuse, End, Spent, Of, At, RequestsTypeOK
  <2>2. CASE Key[r] = k
    <3>1. r \in Spent(k)
      BY <1>3, <2>2 DEF Refuse, Spent, Of, At
    <3>2. r \notin Spent(k)'
      BY <1>3, <2>2 DEF Refuse, End, Spent, Of, At, RequestsTypeOK, KeptIsBacked
    <3> QED
      BY <1>0, <2>1, <3>1, <3>2, StaysCovered
  <2>3. CASE Key[r] # k
    <3>1. Live(k) => Live(k)'
      BY <1>3, <2>3 DEF Refuse, End, Live, InHand, Of, At, RequestsTypeOK
    <3> QED
      BY <1>0, <2>1, <3>1, StaysCovered
  <2> QED
    BY <2>2, <2>3
<1>4. ASSUME NEW r \in Requests, Commit(r) PROVE Covered(k)'
  <2>1. Spent(k)' \subseteq Spent(k) /\ exposures'[k] >= exposures[k]
    BY <1>0, <1>4 DEF Commit, Spent, Of, At, RequestsTypeOK
  <2>2. Live(k) => Live(k)'
    BY <1>4 DEF Commit, Live, InHand, Of, At, RequestsTypeOK
  <2> QED
    BY <1>0, <2>1, <2>2, StaysCovered
<1>5. ASSUME NEW r \in Requests, Answer(r) PROVE Covered(k)'
  <2>1. Spent(k)' \subseteq Spent(k) /\ exposures'[k] >= exposures[k]
    BY <1>0, <1>5 DEF Answer, End, Spent, Of, At, RequestsTypeOK
  <2>2. CASE Key[r] = k
    <3>1. stored'[at[r]][k] = r /\ r # NoAnswer
      BY <1>5, <2>2, AnswersAssumption DEF Answer, RequestsTypeOK
    <3>2. at[r] \in Processes
      BY DEF RequestsTypeOK
    <3> QED
      BY <1>0, <2>1, <3>1, <3>2, StaysCovered DEF Live
  <2>3. CASE Key[r] # k
    <3>1. \A p \in Processes : stored'[p][k] = stored[p][k]
      BY <1>5, <2>3 DEF Answer, RequestsTypeOK
    <3>2. Of(InHand, k)' = Of(InHand, k)
      BY <1>5, <2>3 DEF Answer, End, InHand, Of, At, RequestsTypeOK
    <3> QED
      BY <1>0, <2>1, <3>1, <3>2, StaysCovered DEF Live
  <2> QED
    BY <2>2, <2>3
<1>6. ASSUME NEW r \in Requests, FailAfterCommit(r) PROVE Covered(k)'
  <2>1. Spent(k)' \subseteq Spent(k)
    BY <1>6 DEF FailAfterCommit, End, Spent, Of, At, RequestsTypeOK
  <2>2. CASE Key[r] = k
    <3>1. exposures'[k] = exposures[k] + 1
      BY <1>6, <2>2, ExposedType DEF FailAfterCommit
    <3> QED
      BY <1>0, <2>1, <3>1, StaysCovered
  <2>3. CASE Key[r] # k
    <3>1. exposures'[k] = exposures[k]
      BY <1>0, <1>6, <2>3, ExposedType DEF FailAfterCommit
    <3>2. Live(k) => Live(k)'
      BY <1>6, <2>3 DEF FailAfterCommit, End, Live, InHand, Of, At, RequestsTypeOK
    <3> QED
      BY <1>0, <2>1, <3>1, <3>2, StaysCovered
  <2> QED
    BY <2>2, <2>3
<1>7. ASSUME NEW p \in Processes, Restart(p) PROVE Covered(k)'
  <2> DEFINE lost == {r \in InHand : at[r] = p}
             accident == \/ stored[p][k] # NoAnswer
                         \/ Of(At("committed") \cap lost, k) # {}
  <2>1. Spent(k)' \subseteq Spent(k)
    BY <1>7 DEF Restart, Spent, Of, At, RequestsTypeOK
  <2>2. exposures'[k] = exposures[k] + (IF accident THEN 1 ELSE 0)
    <3> DEFINE S == {j \in Keys : \/ stored[p][j] # NoAnswer
                                 \/ Of(At("committed") \cap lost, j) # {}}
    <3>1. exposures' = Exposed(S)
      BY <1>7 DEF Restart
    <3>2. k \in S <=> accident
      OBVIOUS
    <3> HIDE DEF S
    <3> QED
      BY <3>1, <3>2, ExposedType
  <2>3. CASE accident
    BY <1>0, <2>1, <2>2, <2>3, StaysCovered
  <2>4. CASE ~accident /\ \E r \in lost : Key[r] = k
    <3>1. PICK r \in lost : Key[r] = k
      BY <2>4
    <3>2. r \in Requests /\ stage[r] = "running"
      BY <2>4, <3>1 DEF InHand, Of, At
    <3>3. r \in Spent(k) /\ r \notin Spent(k)'
      BY <1>7, <3>1, <3>2 DEF Restart, Spent, Of, At, InHand, RequestsTypeOK, KeptIsBacked
    <3> QED
      BY <1>0, <2>1, <2>2, <3>3, StaysCovered
  <2>5. CASE ~accident /\ \A r \in lost : Key[r] # k
    <3>1. Of(InHand, k)' = Of(InHand, k)
      BY <1>7, <2>5 DEF Restart, InHand, Of, At, RequestsTypeOK
    <3>2. \A q \in Processes : stored'[q][k] = stored[q][k]
      BY <1>7, <2>5 DEF Restart, RequestsTypeOK
    <3> QED
      BY <1>0, <2>1, <2>2, <3>1, <3>2, StaysCovered DEF Live
  <2> QED
    BY <2>3, <2>4, <2>5
<1>8. ASSUME NEW p \in Processes, NEW j \in Keys, Cleanup(p, j) PROVE Covered(k)'
  <2>1. Spent(k)' \subseteq Spent(k)
    BY <1>8 DEF Cleanup, Spent, Of, At
  <2>2. exposures'[k] = exposures[k] + (IF j = k THEN 1 ELSE 0)
    BY <1>8, ExposedType DEF Cleanup
  <2>3. j # k => (Live(k) => Live(k)')
    BY <1>8 DEF Cleanup, Live, InHand, Of, At, RequestsTypeOK
  <2> QED
    BY <1>0, <2>1, <2>2, <2>3, StaysCovered
<1>9. CASE UNCHANGED requestVars
  <2>1. Spent(k)' = Spent(k) /\ Live(k)' = Live(k) /\ exposures' = exposures
    BY <1>9 DEF requestVars, Spent, Live, InHand, Of, At
  <2> QED
    BY <1>0, <2>1, StaysCovered
<1> QED
  BY <1>1, <1>2, <1>3, <1>4, <1>5, <1>6, <1>7, <1>8, <1>9 DEF RequestsNext, RequestStep

LEMMA RequestsInvariant == RequestsSpec => []RequestsIInv
<1>1. RequestsIInv /\ [RequestsNext]_requestVars => RequestsIInv'
  <2> SUFFICES ASSUME RequestsIInv, [RequestsNext]_requestVars PROVE RequestsIInv'
    OBVIOUS
  <2>1. RequestsTypeOK'
    BY TypeStep DEF RequestsIInv
  <2>2. KeptIsBacked' /\ SuccessIsBacked'
    BY BackedStep DEF RequestsIInv
  <2>3. \A k \in Keys : Covered(k)'
    BY <2>1, CoveredStep
  <2> QED
    BY <2>1, <2>2, <2>3 DEF RequestsIInv
<1> QED
  BY <1>1, InitEstablishes, PTL DEF RequestsSpec

-----------------------------------------------------------------------------
\* Requests, answers kept and answers heard keep their types.
THEOREM RequestsTypeCorrect == RequestsSpec => []RequestsTypeOK
<1>1. RequestsIInv => RequestsTypeOK
  BY DEF RequestsIInv
<1> QED
  BY <1>1, RequestsInvariant, PTL

\* A success that a client of idempotencyMiddleware hears is that of a request
\* with its key that has moved money.
THEOREM SuccessBacked == RequestsSpec => []SuccessIsBacked
<1>1. RequestsIInv => SuccessIsBacked
  BY DEF RequestsIInv
<1> QED
  BY <1>1, RequestsInvariant, PTL

LEMMA BoundFollows == RequestsIInv => OncePerExposure
<1> SUFFICES ASSUME RequestsIInv, NEW k \in Keys
             PROVE  Cardinality(Of(moved, k)) <= 1 + exposures[k]
  BY DEF OncePerExposure
<1>1. Spent(k) \in SUBSET Requests /\ Of(moved, k) \in SUBSET Spent(k)
  BY SpentType DEF RequestsIInv, Spent, Of
<1>2. Cardinality(Of(moved, k)) <= Cardinality(Spent(k))
  BY <1>1, Smaller
<1>3. Cardinality(Of(moved, k)) \in Nat /\ Cardinality(Spent(k)) \in Nat
  BY <1>1, FiniteRequests
<1> QED
  BY <1>2, <1>3 DEF RequestsIInv, RequestsTypeOK, Covered

\* With the header x-idempotency-key, money moves at most once more than the
\* accidents that took the protection of the key away.
THEOREM OnceProved == RequestsSpec => []OncePerExposure
BY BoundFollows, RequestsInvariant, PTL

\* A request that runs has room below the allowance of its key.
LEMMA RoomToMove ==
    ASSUME RequestsIInv, NEW r \in Requests, stage[r] = "running", Key[r] \in Keys
    PROVE  Cardinality(Of(moved, Key[r])) < 1 + exposures[Key[r]]
<1> DEFINE k == Key[r]
<1>1. /\ Spent(k) \in SUBSET Requests
      /\ r \in Spent(k)
      /\ Of(moved, k) \in SUBSET (Spent(k) \ {r})
  BY SpentType DEF RequestsIInv, KeptIsBacked, Spent, Of, At
<1>2. Cardinality(Of(moved, k)) + 1 <= Cardinality(Spent(k))
  BY <1>1, SmallerByOne
<1>3. Cardinality(Of(moved, k)) \in Nat /\ Cardinality(Spent(k)) \in Nat
  BY <1>1, FiniteRequests
<1>4. exposures[k] \in Nat /\ Covered(k)
  BY DEF RequestsIInv, RequestsTypeOK
<1> QED
  BY <1>2, <1>3, <1>4 DEF Covered

\* An accident of some keys raises their allowance.
LEMMA AccidentRaises ==
    ASSUME RequestsTypeOK, NEW S \in SUBSET Keys,
           exposures' = Exposed(S), moved' = moved
    PROVE  Promise!AllowanceNext
<1>1. Promise!Expose(S)
  BY DEF RequestsTypeOK, Exposed, Promise!Expose, Of
<1> QED
  BY <1>1 DEF Promise!AllowanceNext

\* A commit is one execution of its key.
LEMMA CommitExecutes ==
    ASSUME RequestsIInv, NEW r \in Requests, Commit(r), Key[r] \in Keys
    PROVE  Promise!Execute(Key[r])
<1>1. /\ Of(moved, Key[r]) \in SUBSET Requests
      /\ r \notin Of(moved, Key[r])
      /\ Of(moved, Key[r])' = Of(moved, Key[r]) \cup {r}
  BY DEF RequestsIInv, RequestsTypeOK, KeptIsBacked, Commit, Of
<1>2. Cardinality(Of(moved, Key[r])') = Cardinality(Of(moved, Key[r])) + 1
  BY <1>1, FiniteRequests, FS_AddElement
<1>3. ASSUME NEW k \in Keys, k # Key[r]
      PROVE  Of(moved, k)' = Of(moved, k)
  BY <1>3 DEF Commit, Of
<1>4. [k \in Keys |-> Cardinality(Of(moved, k)')]
        = [[k \in Keys |-> Cardinality(Of(moved, k))]
             EXCEPT ![Key[r]] = Cardinality(Of(moved, Key[r])) + 1]
  BY <1>2, <1>3
<1>5. exposures' = exposures
  BY DEF Commit
<1>6. Cardinality(Of(moved, Key[r])) < 1 + exposures[Key[r]]
  BY RoomToMove DEF Commit
<1> QED
  BY <1>4, <1>5, <1>6 DEF Promise!Execute

\* A commit without a key is no execution of any.
LEMMA CommitWithoutKey ==
    ASSUME RequestsTypeOK, NEW r \in Requests, Commit(r), Key[r] \notin Keys
    PROVE  UNCHANGED Promise!allowanceVars
<1>1. \A k \in Keys : Of(moved, k)' = Of(moved, k)
  BY DEF Commit, Of
<1>2. exposures' = exposures
  BY DEF Commit
<1> QED
  BY <1>1, <1>2 DEF Promise!allowanceVars

LEMMA StepImplements ==
    ASSUME RequestsIInv, [RequestsNext]_requestVars
    PROVE  [Promise!AllowanceNext]_Promise!allowanceVars
<1> USE DEF RequestsIInv
<1>1. ASSUME NEW r \in Requests, Commit(r)
      PROVE  [Promise!AllowanceNext]_Promise!allowanceVars
  BY <1>1, CommitExecutes, CommitWithoutKey DEF Promise!AllowanceNext
<1>2. ASSUME NEW r \in Requests, Admit(r) PROVE Promise!AllowanceNext
  BY <1>2, AccidentRaises DEF Admit
<1>3. ASSUME NEW r \in Requests, FailAfterCommit(r) PROVE Promise!AllowanceNext
  <2>1. exposures' = Exposed({Key[r]} \cap Keys)
    BY <1>3 DEF FailAfterCommit, Exposed
  <2> QED
    BY <1>3, <2>1, AccidentRaises DEF FailAfterCommit
<1>4. ASSUME NEW p \in Processes, Restart(p) PROVE Promise!AllowanceNext
  BY <1>4, AccidentRaises DEF Restart
<1>5. ASSUME NEW p \in Processes, NEW k \in Keys, Cleanup(p, k)
      PROVE  Promise!AllowanceNext
  BY <1>5, AccidentRaises DEF Cleanup
<1>6. ASSUME UNCHANGED <<moved, exposures>> PROVE UNCHANGED Promise!allowanceVars
  BY <1>6 DEF Promise!allowanceVars, Of
<1>7. ASSUME NEW r \in Requests, Replay(r) \/ Refuse(r) \/ Answer(r)
      PROVE  UNCHANGED <<moved, exposures>>
  BY <1>7 DEF Replay, Refuse, Answer
<1>8. CASE UNCHANGED requestVars
  BY <1>6, <1>8 DEF requestVars
<1> QED
  BY <1>1, <1>2, <1>3, <1>4, <1>5, <1>6, <1>7, <1>8 DEF RequestsNext, RequestStep

LEMMA InitImplements == RequestsInit => Promise!AllowanceInit
<1> SUFFICES ASSUME RequestsInit PROVE Promise!AllowanceInit
  OBVIOUS
<1>1. \A k \in Keys : Of(moved, k) = {}
  BY DEF RequestsInit, Of
<1>2. \A k \in Keys : Cardinality(Of(moved, k)) = 0
  BY <1>1, FS_EmptySet
<1>3. [k \in Keys |-> 1 + exposures[k]] = [k \in Keys |-> 1]
  BY DEF RequestsInit
<1> QED
  BY <1>2, <1>3 DEF Promise!AllowanceInit

\* Requests, with their retries, failures and restarts, implement OncePerKey.
THEOREM RequestsKeepPromise == RequestsSpec => PromiseSpec
<1>1. RequestsIInv /\ [RequestsNext]_requestVars => [Promise!AllowanceNext]_Promise!allowanceVars
  BY StepImplements
<1> QED
  BY <1>1, InitImplements, RequestsInvariant, PTL
     DEF RequestsSpec, PromiseSpec, Promise!AllowanceSpec
=============================================================================
