-------------------------- MODULE SecureTransfers ---------------------------
(***************************************************************************)
(* Secure transfers (src/Backend-Nordi-remittance/modules/                 *)
(* transfer-verification): a transfer that moves the money only after the  *)
(* sender has entered three mailed codes, ISIN, IMF BOP and LEI.           *)
(*                                                                         *)
(* Initiating, verifying and cancelling run in database transactions, as   *)
(* the operations of Bank do.  Requesting a code does not: it reads the    *)
(* verification, and some time later saves the new code and status over    *)
(* whatever the document holds by then.                                    *)
(*                                                                         *)
(* Three clocks are abstracted to facts that become true at any time: a    *)
(* verification is 24 hours old (late), a code is 30 minutes old (stale).  *)
(***************************************************************************)
EXTENDS BankSessions

CONSTANTS
    Callers,      \* handlers of request-code that run at the same time
    MaxAttempts   \* MAX_VERIFICATION_ATTEMPTS

VARIABLES
    asking,   \* asking[c]: what caller c has read and will save, or Absent
    late,     \* verifications past their expiresAt
    stale,    \* verifications whose code in force is past its expiresAt
    known,    \* verifications whose code in force was mailed to the sender
    gone      \* users an administrator has deleted

secureVars == <<asking, late, stale, known, gone>>
allVars == <<db, ledger, op, doomed, asking, late, stale, known, gone>>

Verifs == OtherDocs
Steps == 1..3
Pending == <<"pending_isin", "pending_imf_bop", "pending_lei">>
Sent == <<"isin_sent", "imf_bop_sent", "lei_sent">>
VerifStatus == {Pending[i] : i \in Steps} \cup {Sent[i] : i \in Steps}
                   \cup {"fully_verified", "failed", "expired", "cancelled"}

\* A TransferVerifications document.  The status is Sent[i] only after a save of
\* the code of step i, which is the code in force; "attempts" counts the wrong
\* codes entered since, and "verified" has the steps whose code object says
\* isVerified.  The row includes the status of the TransactionTaxes document,
\* which every session writes together with it.
Verification == [tx : Txs, status : VerifStatus, attempts : 0..MaxAttempts,
                 verified : SUBSET Steps, tax : {"pending", "collected", "refunded"}]

ASSUME VerificationRows == OtherRows = Verification /\ Absent \notin Verification
ASSUME MaxAttemptsAssumption == MaxAttempts \in Nat \ {0}

Sender(v) == Owner[db[db[v].tx].wallet]
Recipient(v) == Owner[db[db[v].tx].to]

\* Changes of rows of two documents and nothing in the ledgers.
Rewrite(d1, r1, d2, r2) ==
    [writes |-> [d \in {d1, d2} |-> IF d = d1 THEN r1 ELSE r2], posts |-> <<>>]

----------------------------------------------------------------------------
(***************************************************************************)
(* The database transactions.                                              *)
(***************************************************************************)

\* initiateSecureTransfer.  The balance is checked and not reserved.
InitiateOp(w, x, a, t, v) ==
    [writes |-> [d \in {t, v} \cup (IF db[x] = Absent THEN {x} ELSE {}) |->
                    IF d = t THEN [type |-> "transfer", status |-> "pending", wallet |-> w,
                                   to |-> x, amount |-> a, fee |-> Tax(a)]
                    ELSE IF d = v THEN [tx |-> t, status |-> "pending_isin",
                                        attempts |-> 0,
                                        verified |-> {}, tax |-> "pending"]
                    ELSE Moved(x, 0)],
     posts |-> <<>>]

BeginInitiate(s, u, x, a) ==
    \E w \in ActiveWallets(u), t \in Txs, v \in Verifs :
        /\ u # Owner[x]
        /\ x \in ReceivingWallets(Owner[x])
        /\ {u, Owner[x]} \cap gone = {}
        /\ Fresh(t) /\ Fresh(v)
        /\ Bal(w) >= a + Tax(a)
        /\ Begin(s, InitiateOp(w, x, a, t, v))

\* The failure of the verification alone.
FailVerificationOnlyOp(v) ==
    [writes |-> [d \in {v} |-> [db[v] EXCEPT !.status = "failed"]], posts |-> <<>>]

\* Too many wrong codes: both documents fail, and the failure is committed.
FailOp(v) ==
    Rewrite(v, [db[v] EXCEPT !.status = "failed"],
            db[v].tx, [db[db[v].tx] EXCEPT !.status = "failed"])

VerifyTooOften(s, v) ==
    /\ db[v].attempts >= MaxAttempts
    /\ Begin(s, FailOp(v))

WrongCodeOp(v) ==
    [writes |-> [d \in {v} |-> [db[v] EXCEPT !.attempts = @ + 1]], posts |-> <<>>]

\* A wrong code that is counted and never limited.
VerifyWrongUnlimited(s, v) == Begin(s, WrongCodeOp(v))

VerifyWrong(s, v) ==
    /\ db[v].attempts < MaxAttempts
    /\ Begin(s, WrongCodeOp(v))

\* The right code is known from the mail only.
RightCode(v) == db[v].attempts < MaxAttempts /\ v \in known

RightCodeOp(v, i) ==
    [writes |-> [d \in {v} |-> [db[v] EXCEPT !.status = Pending[i + 1],
                                            !.verified = @ \cup {i}]],
     posts |-> <<>>]

VerifyRight(s, v, i) ==
    /\ i < 3
    /\ RightCode(v)
    /\ Begin(s, RightCodeOp(v, i))

\* completeVerifiedTransaction: it looks at no balance and at no status, of the
\* wallets or of the transaction.
CompleteOp(v) ==
    LET t == db[v].tx
        w == db[t].wallet
        x == db[t].to
        gross == db[t].amount + db[t].fee
    IN  [writes |-> [d \in {v, t, w, x} |->
                        IF d = v THEN [db[v] EXCEPT !.status = "fully_verified",
                                                    !.verified = @ \cup {3},
                                                    !.tax = "collected"]
                        ELSE IF d = t THEN [db[t] EXCEPT !.status = "completed"]
                        ELSE IF d = w THEN Moved(w, -gross)
                        ELSE Moved(x, db[t].amount)],
         posts |-> [y \in {w, x} |-> IF y = w THEN Posting(w, t, "debit", gross)
                                     ELSE Posting(x, t, "credit", db[t].amount)]]

\* The notification for a user who exists is created with the field "userId"
\* where the schema requires "user": the validation error aborts the session.
NotificationsAccepted(v) == {Sender(v), Recipient(v)} \subseteq gone

\* The session writes everything before the notifications, and can only abort
\* when one of them is refused.
VerifyLast(s, v) ==
    /\ RightCode(v)
    /\ op[s] = Absent
    /\ op' = [op EXCEPT ![s] = CompleteOp(v)]
    /\ doomed' = IF NotificationsAccepted(v) THEN doomed ELSE doomed \cup {s}
    /\ UNCHANGED <<db, ledger>>

\* verifySecurityCode.  A code past its time is refused, and nothing changes.
BeginVerify(s, v) ==
    \E i \in Steps :
        /\ db[v] # Absent
        /\ db[v].status = Sent[i]
        /\ v \notin stale
        /\ \/ VerifyTooOften(s, v)
           \/ VerifyWrong(s, v)
           \/ VerifyRight(s, v, i)
           \/ i = 3 /\ VerifyLast(s, v)

\* cancelVerification.
CancelVerificationOp(v) ==
    Rewrite(v, [db[v] EXCEPT !.status = "cancelled", !.tax = "refunded"],
            db[v].tx, [db[db[v].tx] EXCEPT !.status = "cancelled"])

BeginCancelVerification(s, v) ==
    /\ db[v] # Absent
    /\ db[v].status \notin {"fully_verified", "cancelled"}
    /\ Begin(s, CancelVerificationOp(v))

----------------------------------------------------------------------------
(***************************************************************************)
(* Requesting a code, outside any transaction.                             *)
(***************************************************************************)
Expiring == 0   \* a caller that will save the status "expired"

ReadRequest(c, v) ==
    /\ asking[c] = Absent
    /\ db[v] # Absent
    /\ \/ /\ v \in late
          /\ asking' = [asking EXCEPT ![c] = [verif |-> v, step |-> Expiring]]
       \/ \E i \in Steps :
             /\ v \notin late
             /\ db[v].status = Pending[i]
             /\ asking' = [asking EXCEPT ![c] = [verif |-> v, step |-> i]]
    /\ UNCHANGED <<db, ledger, op, doomed, late, stale, known, gone>>

SaveExpired(c) ==
    LET v == asking[c].verif
    IN  /\ asking[c] # Absent
        /\ asking[c].step = Expiring
        /\ db' = [db EXCEPT ![v].status = "expired"]
        /\ doomed' = doomed \cup Writers({v})
        /\ asking' = [asking EXCEPT ![c] = Absent]
        /\ UNCHANGED <<ledger, op, late, stale, known, gone>>

\* The code is mailed after the save, unless the user has been deleted.
SaveCode(c) ==
    LET v == asking[c].verif
        i == asking[c].step
    IN  /\ asking[c] # Absent
        /\ i # Expiring
        /\ db' = [db EXCEPT ![v].status = Sent[i], ![v].attempts = 0,
                            ![v].verified = @ \ {i}]
        /\ doomed' = doomed \cup Writers({v})
        /\ stale' = stale \ {v}
        /\ known' = IF Sender(v) \in gone THEN known \ {v} ELSE known \cup {v}
        /\ asking' = [asking EXCEPT ![c] = Absent]
        /\ UNCHANGED <<ledger, op, late, gone>>

\* The handler dies with its process between the read and the save.
RequestLost(c) ==
    /\ asking[c] # Absent
    /\ asking' = [asking EXCEPT ![c] = Absent]
    /\ UNCHANGED <<db, ledger, op, doomed, late, stale, known, gone>>

----------------------------------------------------------------------------
VerificationAges(v) ==
    /\ db[v] # Absent
    /\ late' = late \cup {v}
    /\ UNCHANGED <<db, ledger, op, doomed, asking, stale, known, gone>>

CodeAges(v) ==
    /\ db[v] # Absent
    /\ \E i \in Steps : db[v].status = Sent[i]
    /\ stale' = stale \cup {v}
    /\ UNCHANGED <<db, ledger, op, doomed, asking, late, known, gone>>

\* deleteUser: the wallets and the pending work of the user stay.
DeleteUser(u) ==
    /\ gone' = gone \cup {u}
    /\ UNCHANGED <<db, ledger, op, doomed, asking, late, stale, known>>

SecureInit ==
    /\ Init
    /\ asking = [c \in Callers |-> Absent]
    /\ late = {} /\ stale = {} /\ known = {} /\ gone = {}

\* The users of the transactions that o inserts.
NewTxUsers(o) ==
    UNION {{Owner[w] : w \in {o.writes[t].wallet, o.writes[t].to} \ {Absent}} :
              t \in {x \in Txs \cap DOMAIN o.writes : db[x] = Absent}}

\* The operations of BankSessions.  A transfer, deposit or withdrawal looks its
\* users up first, a cancellation does not.
BankStepHere ==
    /\ Next
    /\ \A s \in Sessions : (op[s] = Absent /\ op'[s] # Absent) =>
                               NewTxUsers(op'[s]) \cap gone = {}
    /\ UNCHANGED secureVars

SecureNext ==
    \/ BankStepHere
    \/ /\ \E s \in Sessions :
             \/ \E u \in Users, x \in Wallets, a \in Amounts : BeginInitiate(s, u, x, a)
             \/ \E v \in Verifs : BeginVerify(s, v) \/ BeginCancelVerification(s, v)
       /\ UNCHANGED secureVars
    \/ \E c \in Callers :
          \/ \E v \in Verifs : ReadRequest(c, v)
          \/ SaveExpired(c)
          \/ SaveCode(c)
          \/ RequestLost(c)
    \/ \E v \in Verifs : VerificationAges(v) \/ CodeAges(v)
    \/ \E u \in Users : DeleteUser(u)

SecureSpec == SecureInit /\ [][SecureNext]_allVars
----------------------------------------------------------------------------
SecureTypeOK ==
    /\ TypeOK
    /\ asking \in [Callers -> [verif : Verifs, step : Steps \cup {Expiring}] \cup {Absent}]
    /\ late \cup stale \cup known \subseteq Verifs
    /\ gone \subseteq Users

SecureTxs == {db[v].tx : v \in {y \in Verifs : db[y] # Absent}}

\* A verification that says cancelled, failed or fully verified has a
\* transaction that says cancelled, failed or completed, although a late save of
\* a code request, a cancellation of the transaction and a code entered at the
\* same moment write one without the other.
StatusesAgree ==
    \A v \in Verifs :
        db[v] # Absent =>
            LET t == db[db[v].tx]
            IN  /\ db[v].status = "cancelled" => t.status = "cancelled"
                /\ db[v].status = "failed" => t.status = "failed"
                /\ db[v].status = "fully_verified" => t.status = "completed"

\* The money of a secure transfer leaves once, arrives once and is refunded
\* once at the most, however often the last code is entered and the transfer
\* is cancelled, also after the status of the verification was set back by the
\* late save of a code request.
PaidOnce ==
    \A t \in SecureTxs, w \in Wallets :
        /\ Cardinality(Entries(w, t, "debit")) <= 1
        /\ Cardinality(Entries(w, t, "credit")) <= 1

\* transfer-verification.service.ts:651, "All verification steps completed! Your
\* transfer has been processed.": the session of a last code that is right can
\* commit when it has written everything.
LastCodeProcessed ==
    [][\A s \in Sessions, v \in Verifs :
          (op[s] = Absent /\ op'[s] # Absent /\ db[v] # Absent /\ op'[s] = CompleteOp(v))
              => s \notin doomed']_allVars

\* Nordi-System-Design/01-system-overview.md:14, "Every balance mutation is
\* expressed as a double-entry ledger posting": a refund gives back a debit of
\* the same transaction.
RefundsAreBacked ==
    \A t \in Txs :
        (db[t] # Absent /\ db[t].status = "cancelled") =>
            Cardinality(Entries(db[t].wallet, t, "credit"))
                <= Cardinality(Entries(db[t].wallet, t, "debit"))
=============================================================================
