------------------------------ MODULE AdminOps ------------------------------
(***************************************************************************)
(* What administrators do to transactions and wallets                      *)
(* (src/Backend-Nordi-remittance/modules/admin, and updateTransactionStatus *)
(* of modules/transactions), beside the users of BankSessions.             *)
(*                                                                         *)
(* These operations run in database transactions too, but the record of    *)
(* the action is inserted outside of them, before the commit.  Rejecting a *)
(* transaction uses no database transaction at all.  Few of the operations *)
(* post to the ledger.                                                     *)
(***************************************************************************)
EXTENDS BankSessions

CONSTANTS
    Callers,    \* handlers of reject that run at the same time
    NewStatus,  \* statuses that updateTransactionStatus is asked for
    MaxBalance  \* bound: no status update refunds beyond it

\* The AdminActionLogs actions of the handlers that run in a session, what such
\* a session has to record, and a rejection under way.
ActionNames == {"APPROVE_TRANSACTION", "REVERSE_TRANSACTION", "CREDIT_USER_WALLET",
                "DEBIT_USER_WALLET", "ADMIN_TRANSFER"}
Action == [name : ActionNames, doc : Docs, logged : BOOLEAN]
Rejection == [tx : Txs, saved : BOOLEAN]

ASSUME NewStatusAssumption == NewStatus \subseteq TxStatus
ASSUME IdleAssumption == Absent \notin Action \cup Rejection

VARIABLES
    action,     \* action[s]: the admin action session s performs, or Absent
    audit,      \* the AdminActionLogs documents about a Transactions document,
                \* as <<action, document>>
    rejecting   \* rejecting[c]: the rejection caller c performs, or Absent

adminVars == <<action, audit, rejecting>>
allVars == <<db, ledger, op, doomed, action, audit, rejecting>>

NoPosts == <<>>

TxRow(type, status, w, to, a, fee) ==
    [type |-> type, status |-> status, wallet |-> w, to |-> to, amount |-> a, fee |-> fee]

WithStatus(t, st) == [db[t] EXCEPT !.status = st]

----------------------------------------------------------------------------
(***************************************************************************)
(* The operations, as what they write (see Bank).                          *)
(***************************************************************************)

\* approveTransaction.  A withdrawal is debited, although it was debited when
\* it was made, a deposit credited; wallet.save() of a wallet that was not
\* changed writes nothing.
CanApprove(t) ==
    /\ db[t] # Absent
    /\ db[t].status = "pending"
    /\ db[t].type = "withdrawal" => Bal(db[t].wallet) >= db[t].amount

ApproveOp(t) ==
    LET w == db[t].wallet
        n == CASE db[t].type = "withdrawal" -> -db[t].amount
               [] db[t].type = "deposit" -> db[t].amount
               [] OTHER -> 0
    IN  [writes |-> [d \in {t} \cup (IF n = 0 THEN {} ELSE {w}) |->
                        IF d = t THEN WithStatus(t, "completed") ELSE Moved(w, n)],
         posts |-> NoPosts]

\* reverseTransaction.  The amount is that of the transaction, or any the
\* administrator names; only the wallet of the transaction is touched.
ReverseAmounts(t) == Amounts \cup {db[t].amount}

CanReverse(t, r, n) ==
    /\ db[t].status = "completed"
    /\ db[t].type = "deposit" => Bal(db[t].wallet) >= n
    /\ db[r] = Absent

ReverseOp(t, r, n) ==
    LET w == db[t].wallet
        m == CASE db[t].type \in {"withdrawal", "transfer"} -> n
               [] db[t].type = "deposit" -> -n
               [] OTHER -> 0
    IN  [writes |-> [d \in {t, r} \cup (IF m = 0 THEN {} ELSE {w}) |->
                        IF d = t THEN WithStatus(t, "reversed")
                        ELSE IF d = r THEN TxRow("reversal", "completed", w, t, n, 0)
                        ELSE Moved(w, m)],
         posts |-> NoPosts]

\* updateTransactionStatus.  Any status may follow any other; "failed" and
\* "reversed" refund amount and fee each time they are set.
UpdateStatusOp(t, st) ==
    LET w == db[t].wallet
        refund == st \in {"failed", "reversed"}
    IN  [writes |-> [d \in {t} \cup (IF refund THEN {w} ELSE {}) |->
                        IF d = t THEN WithStatus(t, st)
                        ELSE Moved(w, db[t].amount + db[t].fee)],
         posts |-> NoPosts]

\* creditUserWallet, with the default transactionType "deposit": the tax is
\* taken off the amount.
CreditOp(w, a, t) ==
    LET net == a - Tax(a)
    IN  [writes |-> [d \in {w, t} |->
                        IF d = w THEN Moved(w, net)
                        ELSE TxRow("deposit", "completed", w, Absent, net, Tax(a))],
         posts |-> [y \in {w} |-> Posting(w, t, "credit", net)]]

\* debitUserWallet, with the default transactionType "withdrawal"; a super
\* admin may force it without the balance.
DebitOp(w, a, t) ==
    [writes |-> [d \in {w, t} |->
                    IF d = w THEN Moved(w, -a)
                    ELSE TxRow("withdrawal", "completed", w, Absent, a, 0)],
     posts |-> [y \in {w} |-> Posting(w, t, "debit", a)]]

\* adminTransfer: a transaction for each side, no ledger entry for either.
AdminTransferOp(w, x, a, t, r) ==
    [writes |-> [d \in {w, x, t, r} |->
                    IF d = w THEN Moved(w, -a)
                    ELSE IF d = x THEN Moved(x, a)
                    ELSE IF d = t THEN TxRow("transfer", "completed", w, x, a, 0)
                    ELSE TxRow("deposit", "completed", x, Absent, a, 0)],
     posts |-> NoPosts]

\* One item of bulkCredit.
BulkCreditOp(w, a, t) ==
    [writes |-> [d \in {w, t} |->
                    IF d = w THEN Moved(w, a)
                    ELSE TxRow("deposit", "completed", w, Absent, a, 0)],
     posts |-> NoPosts]

\* o is one of the operations of an administrator, and could happen now.
AdminPossible(o) ==
    \/ \E t \in Txs : CanApprove(t) /\ o = ApproveOp(t)
    \/ \E t, r \in Txs :
          /\ db[t] # Absent
          /\ \E n \in ReverseAmounts(t) : CanReverse(t, r, n) /\ o = ReverseOp(t, r, n)
    \/ \E t \in Txs, st \in NewStatus : db[t] # Absent /\ o = UpdateStatusOp(t, st)
    \/ \E w \in Wallets, a \in Amounts, t \in Txs :
          /\ db[t] = Absent
          /\ \/ CanDeposit(w, t) /\ o \in {CreditOp(w, a, t), BulkCreditOp(w, a, t)}
             \/ Active(w) /\ o = DebitOp(w, a, t)
    \/ \E w, x \in Wallets, a \in Amounts, t, r \in Txs :
          /\ Active(w) /\ Active(x) /\ Bal(w) >= a
          /\ {db[t], db[r]} = {Absent}
          /\ o = AdminTransferOp(w, x, a, t, r)

----------------------------------------------------------------------------
(***************************************************************************)
(* The handlers.                                                           *)
(***************************************************************************)
AdminBegin(s, o, name, d) ==
    /\ Begin(s, o)
    /\ action' = [action EXCEPT ![s] = [name |-> name, doc |-> d, logged |-> FALSE]]
    /\ UNCHANGED <<audit, rejecting>>

BeginApprove(s) ==
    \E t \in Txs : CanApprove(t) /\ AdminBegin(s, ApproveOp(t), "APPROVE_TRANSACTION", t)

BeginReverse(s) ==
    \E t, r \in Txs :
        /\ db[t] # Absent
        /\ Fresh(r)
        /\ \E n \in ReverseAmounts(t) :
              /\ CanReverse(t, r, n)
              /\ AdminBegin(s, ReverseOp(t, r, n), "REVERSE_TRANSACTION", t)

BeginCredit(s) ==
    \E u \in Users, a \in Amounts, t \in Txs : \E w \in ReceivingWallets(u) :
        /\ Fresh(t)
        /\ AdminBegin(s, CreditOp(w, a, t), "CREDIT_USER_WALLET", w)

BeginDebit(s) ==
    \E u \in Users, a \in Amounts, t \in Txs, force \in BOOLEAN :
        \E w \in ActiveWallets(u) :
            /\ Fresh(t)
            /\ force \/ Bal(w) >= a
            /\ AdminBegin(s, DebitOp(w, a, t), "DEBIT_USER_WALLET", w)

BeginAdminTransfer(s) ==
    \E u, v \in Users, a \in Amounts, t, r \in Txs :
        \E w \in ActiveWallets(u), x \in ActiveWallets(v) :
            /\ u # v /\ t # r
            /\ Fresh(t) /\ Fresh(r)
            /\ Bal(w) >= a
            /\ AdminBegin(s, AdminTransferOp(w, x, a, t, r), "ADMIN_TRANSFER", w)

\* The two handlers that leave no record before they commit: status updates
\* leave none at all, a bulk credit one for the whole batch at its end.
BeginUnlogged(s) ==
    /\ \/ \E t \in Txs, st \in NewStatus :
             /\ db[t] # Absent
             /\ Bal(db[t].wallet) + db[t].amount + db[t].fee <= MaxBalance
             /\ Begin(s, UpdateStatusOp(t, st))
       \/ \E u \in Users, a \in Amounts, t \in Txs : \E w \in ReceivingWallets(u) :
             Fresh(t) /\ Begin(s, BulkCreditOp(w, a, t))
    /\ UNCHANGED adminVars

\* logAdminAction(..., 'success'): an insert outside the transaction.
LogAction(s) ==
    /\ action[s] # Absent
    /\ ~action[s].logged
    /\ action' = [action EXCEPT ![s].logged = TRUE]
    /\ audit' = audit \cup {<<action[s].name, d>> : d \in {action[s].doc} \cap Txs}
    /\ UNCHANGED <<db, ledger, op, doomed, rejecting>>

\* A commit that does not wait for the record.
FinishUnlogged(s) ==
    /\ Commit(s)
    /\ action' = [action EXCEPT ![s] = Absent]
    /\ UNCHANGED <<audit, rejecting>>

\* The commit of any session; an administrator's comes after the record.
Finish(s) ==
    /\ Commit(s)
    /\ action[s] # Absent => action[s].logged
    /\ action' = [action EXCEPT ![s] = Absent]
    /\ UNCHANGED <<audit, rejecting>>

\* An abort after which the session still carries its action.
GiveUpForgetful(s) ==
    /\ Abort(s)
    /\ UNCHANGED adminVars

\* Conflicts, failed checks, and a record the AdminActionLogs schema refuses.
GiveUp(s) ==
    /\ Abort(s)
    /\ action' = [action EXCEPT ![s] = Absent]
    /\ UNCHANGED <<audit, rejecting>>

\* rejectTransaction: read, save, record, each on its own.
RejectRead(c, t) ==
    /\ rejecting[c] = Absent
    /\ db[t] # Absent
    /\ db[t].status = "pending"
    /\ rejecting' = [rejecting EXCEPT ![c] = [tx |-> t, saved |-> FALSE]]
    /\ UNCHANGED <<db, ledger, op, doomed, action, audit>>

\* A save that open transactions do not notice.
RejectSaveUnseen(c) ==
    LET t == rejecting[c].tx
    IN  /\ rejecting[c] # Absent
        /\ ~rejecting[c].saved
        /\ db' = [db EXCEPT ![t].status = "failed"]
        /\ rejecting' = [rejecting EXCEPT ![c].saved = TRUE]
        /\ UNCHANGED <<ledger, op, doomed, action, audit>>

RejectSave(c) ==
    LET t == rejecting[c].tx
    IN  /\ rejecting[c] # Absent
        /\ ~rejecting[c].saved
        /\ db' = [db EXCEPT ![t].status = "failed"]
        /\ doomed' = doomed \cup Writers({t})
        /\ rejecting' = [rejecting EXCEPT ![c].saved = TRUE]
        /\ UNCHANGED <<ledger, op, action, audit>>

RejectLog(c) ==
    /\ rejecting[c] # Absent
    /\ rejecting[c].saved
    /\ audit' = audit \cup {<<"REJECT_TRANSACTION", rejecting[c].tx>>}
    /\ rejecting' = [rejecting EXCEPT ![c] = Absent]
    /\ UNCHANGED <<db, ledger, op, doomed, action>>

\* The handler fails or dies between two of its steps.
RejectLost(c) ==
    /\ rejecting[c] # Absent
    /\ rejecting' = [rejecting EXCEPT ![c] = Absent]
    /\ UNCHANGED <<db, ledger, op, doomed, action, audit>>

AdminInit ==
    /\ Init
    /\ action = [s \in Sessions |-> Absent]
    /\ audit = {}
    /\ rejecting = [c \in Callers |-> Absent]

AdminNext ==
    \/ \E s \in Sessions :
          \/ UserBegin(s) /\ UNCHANGED adminVars
          \/ BeginApprove(s)
          \/ BeginReverse(s)
          \/ BeginCredit(s)
          \/ BeginDebit(s)
          \/ BeginAdminTransfer(s)
          \/ BeginUnlogged(s)
          \/ LogAction(s)
          \/ Finish(s)
          \/ GiveUp(s)
    \/ \E w \in Wallets, st \in StatusUpdates :
          UpdateWalletStatus(w, st) /\ UNCHANGED adminVars
    \/ \E c \in Callers :
          \/ \E t \in Txs : RejectRead(c, t)
          \/ RejectSave(c)
          \/ RejectLog(c)
          \/ RejectLost(c)

AdminSpec == AdminInit /\ [][AdminNext]_allVars

----------------------------------------------------------------------------
AdminTypeOK ==
    /\ TypeOK
    /\ action \in [Sessions -> Action \cup {Absent}]
    /\ \A s \in Sessions : action[s] # Absent => s \in Open
    /\ audit \subseteq (ActionNames \cup {"REJECT_TRANSACTION"}) \X Txs
    /\ rejecting \in [Callers -> Rejection \cup {Absent}]

\* A session that can still commit holds an operation that is possible now:
\* no approval of a transaction that was cancelled meanwhile, no reversal of
\* one that was reversed, no balance from a stale read, whichever user,
\* administrator or late rejection got in between.
AdminOpsStillPossible ==
    \A s \in Open \ doomed : Possible(op[s]) \/ AdminPossible(op[s])

\* No reversal without a record of it: every reversal that was committed is
\* named in the audit log, although record and commit are two writes with a
\* crash possible between them.
ReversalsAudited ==
    \A r \in Txs :
        (db[r] # Absent /\ db[r].type = "reversal")
            => <<"REVERSE_TRANSACTION", db[r].to>> \in audit

\* Two administrators who reverse a transaction at the same time give the money
\* back once: each reversal that appears takes its transaction from completed
\* to reversed, and is the only one to appear.
OneReversalPerCompletion ==
    [][\A t \in Txs :
          LET new == {r \in Txs : /\ db[r] = Absent
                                  /\ db'[r] # Absent
                                  /\ db'[r].type = "reversal"
                                  /\ db'[r].to = t}
          IN  new # {} => /\ db[t].status = "completed"
                          /\ db'[t].status = "reversed"
                          /\ Cardinality(new) = 1]_allVars

\* ops-transaction.service.ts:150, "Cannot reject transaction with status": a
\* rejection turns a transaction to failed only while it is pending.
RejectsOnlyPending ==
    [][\A t \in Txs :
          (db[t] # Absent /\ db'[t] # db[t] /\ op' = op) => db[t].status = "pending"]_allVars
=============================================================================
