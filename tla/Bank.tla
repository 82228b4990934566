-------------------------------- MODULE Bank --------------------------------
(***************************************************************************)
(* The money of the remittance backend and the operations a user has on it *)
(* (src/Backend-Nordi-remittance/modules/transactions), each as one atomic *)
(* step.  This is what the database transactions of the service promise;   *)
(* BankSessions models how they are really executed.                       *)
(*                                                                         *)
(* Money is an integer number of hundredths of a cent: the withdrawal fee  *)
(* is 1% of an amount in cents and the code does not round it.  One        *)
(* currency is modelled: every operation reads and writes one key of the   *)
(* "balances" map.                                                         *)
(***************************************************************************)
EXTENDS Integers, Sequences, FiniteSets

CONSTANTS
    Users,          \* user accounts, all of them eligible
    Wallets,        \* identities a Wallets document can have
    Txs,            \* identities a Transactions document can have
    OtherDocs,      \* documents of the other collections
    Owner,          \* Owner[w] is the "user" field of wallet w
    Amounts,        \* amounts a request may name
    StatusUpdates,  \* wallet statuses an administrator sets
    OtherRows,      \* rows of the other collections
    Absent          \* a document that does not exist

\* The four statuses of WalletSchema and the five of the transactions schema.
WalletStatus == {"active", "suspended", "frozen", "closed"}
TxStatus == {"pending", "completed", "failed", "cancelled", "reversed"}
TxType == {"transfer", "deposit", "withdrawal", "reversal"}

Docs == Wallets \cup Txs \cup OtherDocs

\* A Wallets document, a Transactions document and a LedgerEntries document.
\* "to" is recipientWallet, or the original transaction of a reversal.  An entry
\* names its transaction, or the application for an account it paid for.
Wallet == [status : WalletStatus, bal : Int]
Tx == [type : TxType, status : TxStatus, wallet : Wallets,
       to : Wallets \cup Txs \cup {Absent}, amount : Nat, fee : Nat]
Entry == [tx : Txs \cup OtherDocs, side : {"debit", "credit"}, amount : Nat, bal : Int]

ASSUME OwnerAssumption == Owner \in [Wallets -> Users]
ASSUME AmountAssumption == Amounts \subseteq {a \in Nat : a > 0 /\ a % 100 = 0}
ASSUME StatusAssumption == StatusUpdates \subseteq WalletStatus
ASSUME DocsDisjoint == /\ Wallets \cap Txs = {}
                       /\ Wallets \cap OtherDocs = {}
                       /\ Txs \cap OtherDocs = {}
ASSUME AbsentAssumption == /\ Absent \notin Wallet
                           /\ Absent \notin Tx
                           /\ Absent \notin Docs

VARIABLES
    db,      \* db[d] is the document d, or Absent
    ledger   \* ledger[w] is the sequence of ledger entries of wallet w

bankVars == <<db, ledger>>

(***************************************************************************)
(* Fees.  A transfer costs 0.5%, at least 50 cents, rounded to the cent; a *)
(* withdrawal costs 1%, at least one dollar, not rounded.  A secure        *)
(* transfer and a credit by an administrator pay a tax of 20%, rounded to  *)
(* the cent.                                                               *)
(***************************************************************************)
TransferFee(a) ==
    LET cents == (a + 10000) \div 20000
    IN  100 * (IF cents > 50 THEN cents ELSE 50)

WithdrawalFee(a) == IF a \div 100 > 10000 THEN a \div 100 ELSE 10000

Tax(a) == 100 * ((a + 250) \div 500)

(***************************************************************************)
(* An operation is what it writes: "writes" maps the documents it inserts  *)
(* or updates to their new contents, "posts" maps a wallet to the ledger   *)
(* entry it inserts for it.                                                *)
(***************************************************************************)
Bal(w) == IF db[w] = Absent THEN 0 ELSE db[w].bal

\* The wallet document after adding n to its balance; a wallet that does not
\* exist is created active.
Moved(w, n) == [status |-> IF db[w] = Absent THEN "active" ELSE db[w].status,
                bal |-> Bal(w) + n]

Posting(w, t, side, a) ==
    [tx |-> t, side |-> side, amount |-> a,
     bal |-> IF side = "debit" THEN Bal(w) - a ELSE Bal(w) + a]

Active(w) == db[w] # Absent /\ db[w].status = "active"

Apply(o) ==
    /\ db' = [d \in Docs |-> IF d \in DOMAIN o.writes THEN o.writes[d] ELSE db[d]]
    /\ ledger' = [w \in Wallets |-> IF w \in DOMAIN o.posts
                                    THEN Append(ledger[w], o.posts[w])
                                    ELSE ledger[w]]

\* internalTransfer.  The balance is compared with the amount alone, the
\* debit takes the fee as well.
CanTransfer(w, x, a, t) ==
    /\ Owner[w] # Owner[x]
    /\ Active(w)
    /\ db[x] = Absent \/ Active(x)
    /\ db[t] = Absent
    /\ Bal(w) >= a

TransferOp(w, x, a, t) ==
    LET total == a + TransferFee(a)
    IN  [writes |-> [d \in {w, x, t} |->
                        IF d = w THEN Moved(w, -total)
                        ELSE IF d = x THEN Moved(x, a)
                        ELSE [type |-> "transfer", status |-> "completed", wallet |-> w,
                              to |-> x, amount |-> a, fee |-> TransferFee(a)]],
         posts |-> [y \in {w, x} |-> IF y = w THEN Posting(w, t, "debit", total)
                                              ELSE Posting(x, t, "credit", a)]]

CanDeposit(w, t) == (db[w] = Absent \/ Active(w)) /\ db[t] = Absent

DepositOp(w, a, t) ==
    [writes |-> [d \in {w, t} |->
                    IF d = w THEN Moved(w, a)
                    ELSE [type |-> "deposit", status |-> "completed", wallet |-> w,
                          to |-> Absent, amount |-> a, fee |-> 0]],
     posts |-> [y \in {w} |-> Posting(w, t, "credit", a)]]

\* A balance check without the fee, as the one of the transfer.
CanWithdrawWithoutFee(w, a, t) ==
    /\ Active(w)
    /\ db[t] = Absent
    /\ Bal(w) >= a

\* withdraw.  The amount and the fee leave the wallet at once, the
\* transaction stays pending.
CanWithdraw(w, a, t) ==
    /\ Active(w)
    /\ db[t] = Absent
    /\ Bal(w) >= a + WithdrawalFee(a)

WithdrawOp(w, a, t) ==
    LET total == a + WithdrawalFee(a)
    IN  [writes |-> [d \in {w, t} |->
                        IF d = w THEN Moved(w, -total)
                        ELSE [type |-> "withdrawal", status |-> "pending", wallet |-> w,
                              to |-> Absent, amount |-> a, fee |-> WithdrawalFee(a)]],
         posts |-> [y \in {w} |-> Posting(w, t, "debit", total)]]

\* cancelTransaction.  It refunds what the document says, without looking at
\* the status of the wallet.
CanCancel(t) == db[t] # Absent /\ db[t].status = "pending"

CancelOp(t) ==
    LET w == db[t].wallet
        refund == db[t].amount + db[t].fee
    IN  [writes |-> [d \in {w, t} |->
                        IF d = w THEN Moved(w, refund)
                        ELSE [db[t] EXCEPT !.status = "cancelled"]],
         posts |-> [y \in {w} |-> Posting(w, t, "credit", refund)]]

\* o is one of the four operations, and could happen now.
Possible(o) ==
    \/ \E w, x \in Wallets, a \in Amounts, t \in Txs :
          CanTransfer(w, x, a, t) /\ o = TransferOp(w, x, a, t)
    \/ \E w \in Wallets, a \in Amounts, t \in Txs :
          CanDeposit(w, t) /\ o = DepositOp(w, a, t)
    \/ \E w \in Wallets, a \in Amounts, t \in Txs :
          CanWithdraw(w, a, t) /\ o = WithdrawOp(w, a, t)
    \/ \E t \in Txs : CanCancel(t) /\ o = CancelOp(t)

\* updateWalletStatus of an administrator: one findByIdAndUpdate.
SetStatus(w, st) ==
    /\ db[w] # Absent
    /\ db' = [db EXCEPT ![w].status = st]
    /\ UNCHANGED ledger

----------------------------------------------------------------------------
(***************************************************************************)
(* The abstract specification: the operations happen one at a time.        *)
(***************************************************************************)

\* Any set of wallets may exist at first, active and empty.
BankInit ==
    /\ \E open \in SUBSET Wallets :
          db = [d \in Docs |-> IF d \in open THEN [status |-> "active", bal |-> 0]
                                             ELSE Absent]
    /\ ledger = [w \in Wallets |-> <<>>]

Transfer == \E w, x \in Wallets, a \in Amounts, t \in Txs :
                CanTransfer(w, x, a, t) /\ Apply(TransferOp(w, x, a, t))
Deposit == \E w \in Wallets, a \in Amounts, t \in Txs :
                CanDeposit(w, t) /\ Apply(DepositOp(w, a, t))
Withdraw == \E w \in Wallets, a \in Amounts, t \in Txs :
                CanWithdraw(w, a, t) /\ Apply(WithdrawOp(w, a, t))
Cancel == \E t \in Txs : CanCancel(t) /\ Apply(CancelOp(t))

BankNext ==
    \/ Transfer
    \/ Deposit
    \/ Withdraw
    \/ Cancel
    \/ \E w \in Wallets, st \in StatusUpdates : SetStatus(w, st)

\* The operations of the users are serializable: every behaviour of the
\* wallets, transactions and ledger is one of whole operations, one after the
\* other (modules/transactions/transactions-transfer.service.ts runs each in a
\* database transaction, several at a time).
BankSpec == BankInit /\ [][BankNext]_bankVars

----------------------------------------------------------------------------
(***************************************************************************)
(* What the operations keep true.                                          *)
(***************************************************************************)

BankTypeOK ==
    /\ db \in [Docs -> Wallet \cup Tx \cup OtherRows \cup {Absent}]
    /\ \A w \in Wallets : db[w] \in Wallet \cup {Absent}
    /\ \A t \in Txs : db[t] \in Tx \cup {Absent}
    /\ \A d \in OtherDocs : db[d] \in OtherRows \cup {Absent}
    /\ ledger \in [Wallets -> Seq(Entry)]

Signed(e) == IF e.side = "debit" THEN -e.amount ELSE e.amount

\* The balance the first n entries of a ledger lead to.
BalanceAt(l, n) == IF n = 0 THEN 0 ELSE l[n].bal

\* "The complete balance history is recoverable": in the ledger of every wallet
\* each entry starts from the balance the entry before it left, and the last
\* one leaves the balance of the wallet.  An operation that wrote a balance
\* computed from a stale read breaks the chain.
LedgerChain ==
    \A w \in Wallets :
        /\ \A i \in 1..Len(ledger[w]) :
              ledger[w][i].bal = BalanceAt(ledger[w], i - 1) + Signed(ledger[w][i])
        /\ Bal(w) = BalanceAt(ledger[w], Len(ledger[w]))

\* The entries of transaction t on wallet w.
Entries(w, t, side) ==
    {i \in 1..Len(ledger[w]) : ledger[w][i].tx = t /\ ledger[w][i].side = side}

Only(n, S) == Cardinality(S) = n

\* The status of a transaction and the ledger tell the same story: a transfer
\* or withdrawal is debited once, a deposit or the receiving side of a transfer
\* credited once, a cancelled withdrawal refunded once and a pending one not
\* yet, however many cancellations run at the same time; no entry is left
\* without its transaction.
LedgerTellsStatus ==
    \A t \in Txs :
        IF db[t] = Absent
        THEN \A w \in Wallets : Entries(w, t, "debit") \cup Entries(w, t, "credit") = {}
        ELSE LET x == db[t]
             IN  /\ Only(IF x.type = "deposit" THEN 0 ELSE 1, Entries(x.wallet, t, "debit"))
                 /\ Only(IF x.type = "deposit" \/ x.status = "cancelled" THEN 1 ELSE 0,
                         Entries(x.wallet, t, "credit"))
                 /\ x.type = "transfer" => Only(1, Entries(x.to, t, "credit"))

\* A user can overdraw a wallet by the fee of one transfer, never by more: the
\* balance check of a transfer leaves the fee out, and nothing can be taken
\* from a wallet that is already negative.
OverdraftIsOneFee ==
    \A w \in Wallets :
        \/ Bal(w) >= 0
        \/ \E t \in Txs : /\ db[t] # Absent
                          /\ db[t].type = "transfer"
                          /\ db[t].wallet = w
                          /\ Bal(w) >= -db[t].fee

\* Money never leaves a wallet that is not active at that moment: an
\* administrator who freezes a wallet while a withdrawal from it is running
\* either comes after it or makes it abort.
NoDebitUnlessActive ==
    [][\A w \in Wallets :
          (db[w] # Absent /\ db'[w].bal < db[w].bal) => db[w].status = "active"]_bankVars
=============================================================================
