------------------------------ MODULE Requests ------------------------------
(***************************************************************************)
(* A request that moves money, from the router to its answer: the          *)
(* idempotency keys of middleware/Transaction.middleware.ts around the     *)
(* handlers of transactions-transfer.service.ts, in several processes of   *)
(* the backend.  The transaction of the handler is one step here, its      *)
(* commit; BankSessions models what it does.  Each element of Requests is  *)
(* one HTTP request; a retry is another request with the same key.         *)
(*                                                                         *)
(* The store of answers is a Map in the memory of a process and is written *)
(* when the answer is sent.  exposures[k] counts the accidents that take   *)
(* the protection of key k away: a duplicate that arrives while k is in    *)
(* use, a failure after the commit, a restart, and the cleanup.            *)
(***************************************************************************)
EXTENDS Naturals, FiniteSets

CONSTANTS
    Requests,   \* HTTP requests
    Keys,       \* `${userId}:${idempotencyKey}`
    NoKey,      \* a request without the header
    Key,        \* Key[r]: the key of request r
    Processes,  \* processes of the backend
    NoAnswer,   \* nothing is stored, nothing is heard
    Failure     \* an answer that is not 2xx

ASSUME RequestsAssumption == IsFiniteSet(Requests)
ASSUME KeyAssumption == NoKey \notin Keys /\ Key \in [Requests -> Keys \cup {NoKey}]
ASSUME AnswersAssumption == {NoAnswer, Failure} \cap Requests = {}

VARIABLES
    stage,     \* stage[r]: how far request r is
    at,        \* at[r]: the process that serves r
    stored,    \* stored[p][k]: the request whose answer p has kept for k
    moved,     \* the requests whose transaction is committed
    heard,     \* heard[r]: the answer the client got, named by the request it is of
    exposures  \* history: accidents per key

requestVars == <<stage, at, stored, moved, heard, exposures>>

Of(S, k) == {r \in S : Key[r] = k}
At(step) == {r \in Requests : stage[r] = step}
InHand == At("running") \cup At("committed")

\* Key k is in use: one of its requests is being served or has its answer kept.
Live(k) == Of(InHand, k) # {} \/ \E p \in Processes : stored[p][k] # NoAnswer

Exposed(S) == [k \in Keys |-> IF k \in S THEN exposures[k] + 1 ELSE exposures[k]]

\* Request r ends, and the client hears answer a, or nothing: the connection broke.
End(r, a) ==
    /\ stage' = [stage EXCEPT ![r] = "ended"]
    /\ heard' \in {heard, [heard EXCEPT ![r] = a]}

RequestsInit ==
    /\ stage = [r \in Requests |-> "unsent"]
    /\ at \in [Requests -> Processes]
    /\ stored = [p \in Processes |-> [k \in Keys |-> NoAnswer]]
    /\ moved = {}
    /\ heard = [r \in Requests |-> NoAnswer]
    /\ exposures = [k \in Keys |-> 0]

\* idempotencyMiddleware finds an answer and sends it again with status 200.
Replay(r) ==
    /\ stage[r] = "unsent"
    /\ Key[r] \in Keys
    /\ stored[at[r]][Key[r]] # NoAnswer
    /\ End(r, stored[at[r]][Key[r]])
    /\ UNCHANGED <<at, stored, moved, exposures>>

\* The middleware without its look into the store.
AdmitUnchecked(r) ==
    /\ stage[r] = "unsent"
    /\ stage' = [stage EXCEPT ![r] = "running"]
    /\ exposures' = Exposed({k \in {Key[r]} : k \in Keys /\ Of(InHand, k) # {}})
    /\ UNCHANGED <<at, stored, moved, heard>>

\* idempotencyMiddleware finds none, or no key is given, and calls next().
Admit(r) ==
    /\ stage[r] = "unsent"
    /\ Key[r] \in Keys => stored[at[r]][Key[r]] = NoAnswer
    /\ stage' = [stage EXCEPT ![r] = "running"]
    /\ exposures' = Exposed({k \in {Key[r]} : k \in Keys /\ Live(k)})
    /\ UNCHANGED <<at, stored, moved, heard>>

\* The override of res.json without its test of the status code.
RefuseKept(r) ==
    /\ stage[r] = "running"
    /\ End(r, Failure)
    /\ stored' = IF Key[r] \in Keys THEN [stored EXCEPT ![at[r]][Key[r]] = r] ELSE stored
    /\ UNCHANGED <<at, moved, exposures>>

\* A later middleware or the handler refuses, or the transaction aborts: the
\* answer is an error, which is not kept.
Refuse(r) ==
    /\ stage[r] = "running"
    /\ End(r, Failure)
    /\ UNCHANGED <<at, stored, moved, exposures>>

\* await session.commitTransaction().
Commit(r) ==
    /\ stage[r] = "running"
    /\ stage' = [stage EXCEPT ![r] = "committed"]
    /\ moved' = moved \cup {r}
    /\ UNCHANGED <<at, stored, heard, exposures>>

\* The override of res.json that keeps the answer for status 200 only.
AnswerNotKept(r) ==
    /\ stage[r] = "committed"
    /\ End(r, r)
    /\ UNCHANGED <<at, stored, moved, exposures>>

\* A handler that returns without an answer.
AnswerForgotten(r) ==
    /\ stage[r] = "committed"
    /\ stage' = [stage EXCEPT ![r] = "forgotten"]
    /\ UNCHANGED <<at, stored, moved, heard, exposures>>

\* sendCreated: res.json keeps the answer and sends it.
Answer(r) ==
    /\ stage[r] = "committed"
    /\ End(r, r)
    /\ stored' = IF Key[r] \in Keys THEN [stored EXCEPT ![at[r]][Key[r]] = r] ELSE stored
    /\ UNCHANGED <<at, moved, exposures>>

\* After the commit the confirmation of the commit is lost, or
\* kafkaService.publish throws: the catch block ends in next(error).
FailAfterCommit(r) ==
    /\ stage[r] = "committed"
    /\ End(r, Failure)
    /\ exposures' = Exposed({Key[r]})
    /\ UNCHANGED <<at, stored, moved>>

\* Process p dies and starts again with an empty Map.
Restart(p) ==
    LET lost == {r \in InHand : at[r] = p} IN
    /\ stage' = [r \in Requests |-> IF r \in lost THEN "ended" ELSE stage[r]]
    /\ stored' = [stored EXCEPT ![p] = [k \in Keys |-> NoAnswer]]
    /\ exposures' = Exposed({k \in Keys : \/ stored[p][k] # NoAnswer
                                          \/ Of(At("committed") \cap lost, k) # {}})
    /\ UNCHANGED <<at, moved, heard>>

\* The interval that deletes the entries older than 24 hours.
Cleanup(p, k) ==
    /\ stored[p][k] # NoAnswer
    /\ stored' = [stored EXCEPT ![p][k] = NoAnswer]
    /\ exposures' = Exposed({k})
    /\ UNCHANGED <<stage, at, moved, heard>>

RequestStep(r) == Refuse(r) \/ Commit(r) \/ Answer(r) \/ FailAfterCommit(r)

RequestsNext ==
    \/ \E r \in Requests : Replay(r) \/ Admit(r) \/ RequestStep(r)
    \/ \E p \in Processes : Restart(p)
    \/ \E p \in Processes, k \in Keys : Cleanup(p, k)

RequestsSpec == RequestsInit /\ [][RequestsNext]_requestVars

-----------------------------------------------------------------------------
RequestsTypeOK ==
    /\ stage \in [Requests -> {"unsent", "running", "committed", "ended"}]
    /\ at \in [Requests -> Processes]
    /\ stored \in [Processes -> [Keys -> Requests \cup {NoAnswer}]]
    /\ moved \subseteq Requests
    /\ heard \in [Requests -> Requests \cup {NoAnswer, Failure}]
    /\ exposures \in [Keys -> Nat]

\* A success that a client hears, first or replayed, is that of a request with
\* its own key that did move money: idempotencyMiddleware never keeps the
\* answer of a refusal and never mixes the keys of two users.
SuccessIsBacked ==
    \A r \in Requests : heard[r] \in Requests =>
        /\ heard[r] \in moved
        /\ Key[heard[r]] = Key[r]

\* A key moves money once, and once more at most for each accident that took
\* its protection away (the requests behind idempotencyMiddleware).
OncePerExposure == \A k \in Keys : Cardinality(Of(moved, k)) <= 1 + exposures[k]

\* What the middleware promises, with its accidents, as a specification: the
\* detailed requests implement the allowance of OncePerKey.
Promise == INSTANCE OncePerKey WITH
    executed <- [k \in Keys |-> Cardinality(Of(moved, k))],
    allowance <- [k \in Keys |-> 1 + exposures[k]]
PromiseSpec == Promise!AllowanceSpec
=============================================================================
