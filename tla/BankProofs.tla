----------------------------- MODULE BankProofs -----------------------------
(***************************************************************************)
(* Proofs about BankSessions, for any users, wallets, transactions,        *)
(* sessions and amounts.                                                   *)
(***************************************************************************)
EXTENDS BankSessions, FiniteSetTheorems, WellFoundedInduction, TLAPS

\* The fees of whole-cent amounts are natural numbers.
LEMMA FeesAreNatural ==
    ASSUME NEW a \in Amounts
    PROVE  /\ a \in Nat
           /\ TransferFee(a) \in Nat
           /\ WithdrawalFee(a) \in Nat
<1>1. a \in Nat
  BY AmountAssumption
<1>2. TransferFee(a) \in Nat
  BY <1>1 DEF TransferFee
<1>3. WithdrawalFee(a) \in Nat
  BY <1>1 DEF WithdrawalFee
<1> QED
  BY <1>1, <1>2, <1>3

\* Wallets are read and moved as rows of their schema.
LEMMA MovedIsWallet ==
    ASSUME BankTypeOK, NEW w \in Wallets, NEW n \in Int
    PROVE  /\ Bal(w) \in Int
           /\ Moved(w, n) \in Wallet
           /\ Moved(w, n).bal = Bal(w) + n
<1>1. db[w] \in Wallet \cup {Absent}
  BY DEF BankTypeOK
<1>2. Bal(w) \in Int
  BY <1>1 DEF Bal, Wallet
<1>3. Moved(w, n).status \in WalletStatus
  BY <1>1 DEF Moved, Wallet, WalletStatus
<1> QED
  BY <1>2, <1>3 DEF Moved, Wallet

LEMMA PostingIsEntry ==
    ASSUME BankTypeOK, NEW w \in Wallets, NEW t \in Txs, NEW a \in Nat,
           NEW side \in {"debit", "credit"}
    PROVE  /\ Posting(w, t, side, a) \in Entry
           /\ Posting(w, t, side, a).bal = Bal(w) + Signed(Posting(w, t, side, a))
<1>1. Bal(w) \in Int
  BY MovedIsWallet
<1> QED
  BY <1>1 DEF Posting, Entry, Signed

\* What an operation posts for a wallet is what it writes for it; a balance it
\* posts nothing for stays.
Balanced(o) ==
    \A w \in Wallets :
        IF w \in DOMAIN o.posts
        THEN /\ o.posts[w].bal = Bal(w) + Signed(o.posts[w])
             /\ o.writes[w].bal = o.posts[w].bal
        ELSE w \in DOMAIN o.writes => o.writes[w].bal = Bal(w)

----------------------------------------------------------------------------
\* Each operation that is possible writes well-formed rows and posts what it
\* writes.
LEMMA TransferIsOp ==
    ASSUME BankTypeOK, NEW w \in Wallets, NEW x \in Wallets, NEW a \in Amounts,
           NEW t \in Txs, CanTransfer(w, x, a, t)
    PROVE  /\ IsOp(TransferOp(w, x, a, t))
           /\ Balanced(TransferOp(w, x, a, t))
           /\ DOMAIN TransferOp(w, x, a, t).writes = {w, x, t}
<1> DEFINE o == TransferOp(w, x, a, t)
           total == a + TransferFee(a)
           row == [type |-> "transfer", status |-> "completed", wallet |-> w,
                   to |-> x, amount |-> a, fee |-> TransferFee(a)]
<1>1. /\ a \in Nat /\ TransferFee(a) \in Nat /\ total \in Nat /\ -total \in Int
  BY FeesAreNatural
<1>2. w # x /\ w # t /\ x # t
  BY DocsDisjoint DEF CanTransfer
<1>3. /\ DOMAIN o.writes = {w, x, t}
      /\ o.writes[w] = Moved(w, -total)
      /\ o.writes[x] = Moved(x, a)
      /\ o.writes[t] = row
      /\ DOMAIN o.posts = {w, x}
      /\ o.posts[w] = Posting(w, t, "debit", total)
      /\ o.posts[x] = Posting(x, t, "credit", a)
  BY <1>2 DEF TransferOp
<1>4. row \in Tx
  BY <1>1 DEF Tx, TxType, TxStatus
<1>5. /\ Moved(w, -total) \in Wallet /\ Moved(w, -total).bal = Bal(w) + (-total)
      /\ Moved(x, a) \in Wallet /\ Moved(x, a).bal = Bal(x) + a
      /\ Bal(w) \in Int /\ Bal(x) \in Int
  BY <1>1, MovedIsWallet
<1>6. /\ Posting(w, t, "debit", total) \in Entry
      /\ Posting(x, t, "credit", a) \in Entry
      /\ Posting(w, t, "debit", total).bal = Bal(w) + Signed(Posting(w, t, "debit", total))
      /\ Posting(x, t, "credit", a).bal = Bal(x) + Signed(Posting(x, t, "credit", a))
  BY <1>1, PostingIsEntry
<1>7. /\ Posting(w, t, "debit", total).bal = Bal(w) + (-total)
      /\ Posting(x, t, "credit", a).bal = Bal(x) + a
  BY <1>1, <1>5 DEF Posting
<1>8. IsOp(o)
  <2> HIDE DEF o, total, row
  <2> QED
    BY <1>3, <1>4, <1>5, <1>6, DocsDisjoint DEF IsOp, Docs
<1>9. Balanced(o)
  <2> HIDE DEF o, total, row
  <2> QED
    BY <1>3, <1>5, <1>6, <1>7, DocsDisjoint DEF Balanced
<1> QED
  BY <1>3, <1>8, <1>9

LEMMA DepositIsOp ==
    ASSUME BankTypeOK, NEW w \in Wallets, NEW a \in Amounts, NEW t \in Txs
    PROVE  /\ IsOp(DepositOp(w, a, t))
           /\ Balanced(DepositOp(w, a, t))
           /\ DOMAIN DepositOp(w, a, t).writes = {w, t}
<1> DEFINE o == DepositOp(w, a, t)
           row == [type |-> "deposit", status |-> "completed", wallet |-> w,
                   to |-> Absent, amount |-> a, fee |-> 0]
<1>1. a \in Nat /\ a \in Int
  BY FeesAreNatural
<1>2. w # t
  BY DocsDisjoint
<1>3. /\ DOMAIN o.writes = {w, t}
      /\ o.writes[w] = Moved(w, a)
      /\ o.writes[t] = row
      /\ DOMAIN o.posts = {w}
      /\ o.posts[w] = Posting(w, t, "credit", a)
  BY <1>2 DEF DepositOp
<1>4. row \in Tx
  BY <1>1 DEF Tx, TxType, TxStatus
<1>5. Moved(w, a) \in Wallet /\ Moved(w, a).bal = Bal(w) + a /\ Bal(w) \in Int
  BY <1>1, MovedIsWallet
<1>6. /\ Posting(w, t, "credit", a) \in Entry
      /\ Posting(w, t, "credit", a).bal = Bal(w) + Signed(Posting(w, t, "credit", a))
  BY <1>1, PostingIsEntry
<1>7. Posting(w, t, "credit", a).bal = Bal(w) + a
  BY <1>1, <1>5 DEF Posting
<1>8. IsOp(o)
  <2> HIDE DEF o, row
  <2> QED
    BY <1>3, <1>4, <1>5, <1>6, DocsDisjoint DEF IsOp, Docs
<1>9. Balanced(o)
  <2> HIDE DEF o, row
  <2> QED
    BY <1>3, <1>5, <1>6, <1>7, DocsDisjoint DEF Balanced
<1> QED
  BY <1>3, <1>8, <1>9

LEMMA WithdrawIsOp ==
    ASSUME BankTypeOK, NEW w \in Wallets, NEW a \in Amounts, NEW t \in Txs
    PROVE  /\ IsOp(WithdrawOp(w, a, t))
           /\ Balanced(WithdrawOp(w, a, t))
           /\ DOMAIN WithdrawOp(w, a, t).writes = {w, t}
<1> DEFINE o == WithdrawOp(w, a, t)
           total == a + WithdrawalFee(a)
           row == [type |-> "withdrawal", status |-> "pending", wallet |-> w,
                   to |-> Absent, amount |-> a, fee |-> WithdrawalFee(a)]
<1>1. a \in Nat /\ WithdrawalFee(a) \in Nat /\ total \in Nat /\ -total \in Int
  BY FeesAreNatural
<1>2. w # t
  BY DocsDisjoint
<1>3. /\ DOMAIN o.writes = {w, t}
      /\ o.writes[w] = Moved(w, -total)
      /\ o.writes[t] = row
      /\ DOMAIN o.posts = {w}
      /\ o.posts[w] = Posting(w, t, "debit", total)
  BY <1>2 DEF WithdrawOp
<1>4. row \in Tx
  BY <1>1 DEF Tx, TxType, TxStatus
<1>5. /\ Moved(w, -total) \in Wallet /\ Moved(w, -total).bal = Bal(w) + (-total)
      /\ Bal(w) \in Int
  BY <1>1, MovedIsWallet
<1>6. /\ Posting(w, t, "debit", total) \in Entry
      /\ Posting(w, t, "debit", total).bal = Bal(w) + Signed(Posting(w, t, "debit", total))
  BY <1>1, PostingIsEntry
<1>7. Posting(w, t, "debit", total).bal = Bal(w) + (-total)
  BY <1>1, <1>5 DEF Posting
<1>8. IsOp(o)
  <2> HIDE DEF o, total, row
  <2> QED
    BY <1>3, <1>4, <1>5, <1>6, DocsDisjoint DEF IsOp, Docs
<1>9. Balanced(o)
  <2> HIDE DEF o, total, row
  <2> QED
    BY <1>3, <1>5, <1>6, <1>7, DocsDisjoint DEF Balanced
<1> QED
  BY <1>3, <1>8, <1>9

LEMMA CancelIsOp ==
    ASSUME BankTypeOK, NEW t \in Txs, CanCancel(t)
    PROVE  /\ IsOp(CancelOp(t))
           /\ Balanced(CancelOp(t))
           /\ DOMAIN CancelOp(t).writes = {db[t].wallet, t}
           /\ db[t].wallet \in Wallets
<1> DEFINE w == db[t].wallet
           a == db[t].amount + db[t].fee
           row == [db[t] EXCEPT !.status = "cancelled"]
           o == CancelOp(t)
<1>1. db[t] \in Tx
  BY DEF BankTypeOK, CanCancel
<1>2. w \in Wallets /\ a \in Nat /\ a \in Int
  BY <1>1 DEF Tx
<1>3. w # t
  BY <1>2, DocsDisjoint
<1>4. row \in Tx
  BY <1>1 DEF Tx, TxStatus
<1>5. /\ DOMAIN o.writes = {w, t}
      /\ o.writes[w] = Moved(w, a)
      /\ o.writes[t] = row
      /\ DOMAIN o.posts = {w}
      /\ o.posts[w] = Posting(w, t, "credit", a)
  BY <1>3 DEF CancelOp
<1> HIDE DEF w, a, row, o
<1>6. Moved(w, a) \in Wallet /\ Moved(w, a).bal = Bal(w) + a /\ Bal(w) \in Int
  BY <1>2, MovedIsWallet
<1>7. /\ Posting(w, t, "credit", a) \in Entry
      /\ Posting(w, t, "credit", a).bal = Bal(w) + Signed(Posting(w, t, "credit", a))
  BY <1>2, PostingIsEntry
<1>8. Posting(w, t, "credit", a).bal = Bal(w) + a
  BY <1>2, <1>6 DEF Posting
<1>9. IsOp(o)
  BY <1>2, <1>4, <1>5, <1>6, <1>7, DocsDisjoint DEF IsOp, Docs
<1>10. Balanced(o)
  BY <1>2, <1>5, <1>6, <1>7, <1>8, DocsDisjoint DEF Balanced
<1> QED
  BY <1>2, <1>5, <1>9, <1>10 DEF w, o

LEMMA PossibleIsOp ==
    ASSUME BankTypeOK, NEW o, Possible(o)
    PROVE  IsOp(o) /\ Balanced(o)
  BY TransferIsOp, DepositIsOp, WithdrawIsOp, CancelIsOp DEF Possible

----------------------------------------------------------------------------
\* Writing well-formed rows and entries keeps the documents and the ledgers
\* well formed.
LEMMA ApplyKeepsType ==
    ASSUME BankTypeOK, NEW o, IsOp(o), Apply(o)
    PROVE  BankTypeOK'
<1>1. ASSUME NEW d \in Docs
      PROVE  /\ db'[d] = IF d \in DOMAIN o.writes THEN o.writes[d] ELSE db[d]
             /\ d \in Wallets => db'[d] \in Wallet \cup {Absent}
             /\ d \in Txs => db'[d] \in Tx \cup {Absent}
             /\ d \in OtherDocs => db'[d] \in OtherRows \cup {Absent}
  <2>1. db'[d] = IF d \in DOMAIN o.writes THEN o.writes[d] ELSE db[d]
    BY DEF Apply
  <2> QED
    BY <2>1 DEF IsOp, BankTypeOK, Docs
<1>2. db' \in [Docs -> Wallet \cup Tx \cup OtherRows \cup {Absent}]
  <2>1. \A d \in Docs : db'[d] \in Wallet \cup Tx \cup OtherRows \cup {Absent}
    BY <1>1 DEF Docs
  <2> QED
    BY <2>1 DEF Apply
<1>3. ledger' \in [Wallets -> Seq(Entry)]
  <2>1. ASSUME NEW w \in Wallets
        PROVE  (IF w \in DOMAIN o.posts THEN Append(ledger[w], o.posts[w])
                ELSE ledger[w]) \in Seq(Entry)
    BY DEF IsOp, BankTypeOK
  <2> QED
    BY <2>1 DEF Apply
<1> QED
  BY <1>1, <1>2, <1>3 DEF BankTypeOK, Docs

LEMMA SetStatusKeepsType ==
    ASSUME BankTypeOK, NEW w \in Wallets, NEW st \in StatusUpdates, SetStatus(w, st)
    PROVE  /\ BankTypeOK'
           /\ \A x \in Wallets : Bal(x)' = Bal(x)
           /\ \A d \in Docs \ {w} : db'[d] = db[d]
           /\ db[w] # Absent /\ db'[w] # Absent
<1>1. db[w] \in Wallet /\ w \in Docs
  BY DEF SetStatus, BankTypeOK, Docs
<1>2. db'[w] = [db[w] EXCEPT !.status = st]
  BY <1>1 DEF SetStatus, BankTypeOK
<1>3. db'[w] \in Wallet /\ db'[w].bal = db[w].bal
  BY <1>1, <1>2, StatusAssumption DEF Wallet
<1>4. \A d \in Docs \ {w} : db'[d] = db[d]
  BY DEF SetStatus, BankTypeOK
<1>5. db' \in [Docs -> Wallet \cup Tx \cup OtherRows \cup {Absent}]
  <2>1. DOMAIN db' = Docs /\ db' = [d \in Docs |-> db'[d]]
    BY DEF SetStatus, BankTypeOK
  <2>2. \A d \in Docs : db'[d] \in Wallet \cup Tx \cup OtherRows \cup {Absent}
    BY <1>3, <1>4 DEF BankTypeOK
  <2> QED
    BY <2>1, <2>2
<1>6. db'[w] # Absent
  BY <1>3, AbsentAssumption
<1>7. BankTypeOK'
  BY <1>3, <1>4, <1>5, DocsDisjoint DEF BankTypeOK, SetStatus, Docs
<1>8. \A x \in Wallets : Bal(x)' = Bal(x)
  BY <1>1, <1>3, <1>4, <1>6, AbsentAssumption DEF Bal, Docs
<1> QED
  BY <1>1, <1>4, <1>6, <1>7, <1>8, AbsentAssumption

\* A step of the abstract specification is one possible operation, or a status
\* update.
LEMMA BankStep ==
    ASSUME BankNext
    PROVE  \/ \E o : Possible(o) /\ Apply(o)
           \/ \E w \in Wallets, st \in StatusUpdates : SetStatus(w, st)
<1>1. CASE Transfer
  BY <1>1 DEF Transfer, Possible
<1>2. CASE Deposit
  BY <1>2 DEF Deposit, Possible
<1>3. CASE Withdraw
  BY <1>3 DEF Withdraw, Possible
<1>4. CASE Cancel
  BY <1>4 DEF Cancel, Possible
<1> QED
  BY <1>1, <1>2, <1>3, <1>4 DEF BankNext

LEMMA PossibleIsStep ==
    ASSUME NEW o, Possible(o), Apply(o)
    PROVE  BankNext
<1>1. CASE \E w, x \in Wallets, a \in Amounts, t \in Txs :
              CanTransfer(w, x, a, t) /\ o = TransferOp(w, x, a, t)
  BY <1>1 DEF BankNext, Transfer
<1>2. CASE \E w \in Wallets, a \in Amounts, t \in Txs :
              CanDeposit(w, t) /\ o = DepositOp(w, a, t)
  BY <1>2 DEF BankNext, Deposit
<1>3. CASE \E w \in Wallets, a \in Amounts, t \in Txs :
              CanWithdraw(w, a, t) /\ o = WithdrawOp(w, a, t)
  BY <1>3 DEF BankNext, Withdraw
<1>4. CASE \E t \in Txs : CanCancel(t) /\ o = CancelOp(t)
  BY <1>4 DEF BankNext, Cancel
<1> QED
  BY <1>1, <1>2, <1>3, <1>4 DEF Possible

----------------------------------------------------------------------------
(***************************************************************************)
(* The inductive invariant of BankSessions.  The point of                  *)
(* OpenOpsStillPossible is that an operation depends only on the documents *)
(* it writes (Frame), and that every change of a document dooms the other  *)
(* sessions that write it.                                                 *)
(***************************************************************************)
IInv == TypeOK /\ OpenOpsStillPossible

\* What is possible stays possible, with the same writes and postings, while
\* the documents it writes do not change.
LEMMA Frame ==
    ASSUME BankTypeOK, NEW o, Possible(o),
           \A d \in DOMAIN o.writes : db'[d] = db[d]
    PROVE  Possible(o)'
<1>1. ASSUME NEW w \in Wallets, NEW x \in Wallets, NEW a \in Amounts, NEW t \in Txs,
             CanTransfer(w, x, a, t), o = TransferOp(w, x, a, t)
      PROVE  Possible(o)'
  <2>1. db'[w] = db[w] /\ db'[x] = db[x] /\ db'[t] = db[t]
    BY <1>1, TransferIsOp
  <2>2. CanTransfer(w, x, a, t)'
    BY <1>1, <2>1 DEF CanTransfer, Active, Bal
  <2>3. o = TransferOp(w, x, a, t)'
    BY <1>1, <2>1 DEF TransferOp, Moved, Posting, Bal, TransferFee
  <2> QED
    BY <2>2, <2>3 DEF Possible
<1>2. ASSUME NEW w \in Wallets, NEW a \in Amounts, NEW t \in Txs,
             CanDeposit(w, t), o = DepositOp(w, a, t)
      PROVE  Possible(o)'
  <2>1. db'[w] = db[w] /\ db'[t] = db[t]
    BY <1>2, DepositIsOp
  <2>2. CanDeposit(w, t)'
    BY <1>2, <2>1 DEF CanDeposit, Active
  <2>3. o = DepositOp(w, a, t)'
    BY <1>2, <2>1 DEF DepositOp, Moved, Posting, Bal
  <2> QED
    BY <2>2, <2>3 DEF Possible
<1>3. ASSUME NEW w \in Wallets, NEW a \in Amounts, NEW t \in Txs,
             CanWithdraw(w, a, t), o = WithdrawOp(w, a, t)
      PROVE  Possible(o)'
  <2>1. db'[w] = db[w] /\ db'[t] = db[t]
    BY <1>3, WithdrawIsOp
  <2>2. CanWithdraw(w, a, t)'
    BY <1>3, <2>1 DEF CanWithdraw, Active, Bal
  <2>3. o = WithdrawOp(w, a, t)'
    BY <1>3, <2>1 DEF WithdrawOp, Moved, Posting, Bal, WithdrawalFee
  <2> QED
    BY <2>2, <2>3 DEF Possible
<1>4. ASSUME NEW t \in Txs, CanCancel(t), o = CancelOp(t)
      PROVE  Possible(o)'
  <2>1. db'[db[t].wallet] = db[db[t].wallet] /\ db'[t] = db[t]
    BY <1>4, CancelIsOp
  <2>2. CanCancel(t)'
    BY <1>4, <2>1 DEF CanCancel
  <2>3. o = CancelOp(t)'
    BY <1>4, <2>1 DEF CancelOp, Moved, Posting, Bal
  <2> QED
    BY <2>2, <2>3 DEF Possible
<1> QED
  BY <1>1, <1>2, <1>3, <1>4 DEF Possible

LEMMA InitEstablishes == Init => IInv
<1> SUFFICES ASSUME Init PROVE IInv
  OBVIOUS
<1>1. Open = {} /\ doomed = {} /\ DOMAIN op = Sessions
  BY DEF Init, Open
<1>2. PICK exist \in SUBSET Wallets :
         db = [d \in Docs |-> IF d \in exist THEN [status |-> "active", bal |-> 0]
                                             ELSE Absent]
  BY DEF Init, BankInit
<1>3. [status |-> "active", bal |-> 0] \in Wallet
  BY DEF Wallet, WalletStatus
<1>4. BankTypeOK
  BY <1>2, <1>3, DocsDisjoint DEF BankTypeOK, Init, BankInit, Docs
<1> QED
  BY <1>1, <1>4 DEF IInv, TypeOK, OpenOpsStillPossible

\* An open session whose documents did not change keeps a possible operation.
LEMMA StillPossible ==
    ASSUME BankTypeOK, NEW r \in Sessions, Possible(op'[r]),
           \A d \in DOMAIN op'[r].writes : db'[d] = db[d]
    PROVE  Possible(op[r])'
<1>1. PICK o : o = op'[r]
  OBVIOUS
<1>2. Possible(o)'
  BY <1>1, Frame
<1> QED
  BY <1>1, <1>2 DEF Possible

\* Starting a possible operation on an idle session.
LEMMA BeginKeeps ==
    ASSUME IInv, NEW s \in Sessions, NEW o, Possible(o), Begin(s, o)
    PROVE  IInv'
<1>1. BankTypeOK' /\ db' = db
  BY DEF IInv, TypeOK, BankTypeOK, Begin
<1>2. s \notin Open /\ s \notin doomed
  BY DEF IInv, TypeOK, Begin, Open
<1>3. IsOp(o)
  BY PossibleIsOp DEF IInv, TypeOK
<1>4. Open \subseteq Open' /\ Open' \subseteq Open \cup {s}
  BY <1>2 DEF Begin, Open, IInv, TypeOK
<1>5. \A r \in Open' : IsOp(op'[r])
  BY <1>2, <1>3, <1>4 DEF Begin, IInv, TypeOK, Open
<1>6. ASSUME NEW r \in Open' \ doomed'
      PROVE  Possible(op[r])'
  <2>1. r \in Sessions
    BY DEF Open
  <2>2. Possible(op'[r])
    <3>1. CASE r = s
      BY <3>1 DEF Begin, IInv, TypeOK
    <3>2. CASE r # s
      BY <1>4, <3>2 DEF Begin, IInv, TypeOK, OpenOpsStillPossible
    <3> QED
      BY <3>1, <3>2
  <2> QED
    BY <1>1, <2>1, <2>2, StillPossible DEF IInv, TypeOK
<1>7. doomed' \subseteq Open' /\ DOMAIN op' = Sessions
  BY <1>4 DEF IInv, TypeOK, Begin
<1>8. OpenOpsStillPossible'
  BY <1>6 DEF OpenOpsStillPossible
<1>9. TypeOK'
  BY <1>1, <1>5, <1>7 DEF TypeOK, IsOp
<1> QED
  BY <1>8, <1>9 DEF IInv

\* The sessions left in play when the documents of D change are those that
\* write none of them.
LEMMA DoomingKeeps ==
    ASSUME IInv, NEW D, BankTypeOK',
           \A d \in Docs \ D : db'[d] = db[d],
           NEW S \in SUBSET Sessions,
           DOMAIN op' = Sessions,
           Open' = Open \ S,
           \A r \in Open' : op'[r] = op[r],
           doomed' = (doomed \cup Writers(D)) \ S
    PROVE  IInv'
<1>1. \A r \in Open' : IsOp(op'[r])
  BY DEF IInv, TypeOK
<1>2. doomed' \subseteq Open'
  BY DEF IInv, TypeOK, Writers
<1>3. ASSUME NEW r \in Open' \ doomed'
      PROVE  Possible(op[r])'
  <2>1. r \in Sessions /\ r \in Open /\ r \notin doomed /\ r \notin Writers(D) /\ op'[r] = op[r]
    BY DEF Open
  <2>2. \A d \in DOMAIN op'[r].writes : db'[d] = db[d]
    BY <2>1 DEF Writers, IInv, TypeOK, IsOp
  <2>3. Possible(op'[r])
    BY <2>1 DEF IInv, OpenOpsStillPossible
  <2> QED
    BY <2>1, <2>2, <2>3, StillPossible DEF IInv, TypeOK
<1>4. OpenOpsStillPossible'
  BY <1>3 DEF OpenOpsStillPossible
<1>5. TypeOK'
  BY <1>1, <1>2 DEF TypeOK, IsOp
<1> QED
  BY <1>4, <1>5 DEF IInv

LEMMA CommitKeeps ==
    ASSUME IInv, NEW s \in Sessions, Commit(s)
    PROVE  IInv' /\ BankNext
<1>1. s \in Open /\ s \notin doomed /\ IsOp(op[s]) /\ Possible(op[s])
  BY DEF Commit, Open, IInv, TypeOK, OpenOpsStillPossible
<1>2. PICK o : o = op[s]
  OBVIOUS
<1>3. Apply(o) /\ Possible(o) /\ IsOp(o)
  BY <1>1, <1>2 DEF Commit
<1>4. BankNext
  BY <1>3, PossibleIsStep
<1>5. BankTypeOK'
  BY <1>3, ApplyKeepsType DEF IInv, TypeOK
<1>6. \A d \in Docs \ DOMAIN o.writes : db'[d] = db[d]
  BY <1>3 DEF Apply
<1>7. /\ DOMAIN op' = Sessions
      /\ Open' = Open \ {s}
      /\ \A r \in Open' : op'[r] = op[r]
      /\ doomed' = (doomed \cup Writers(DOMAIN o.writes)) \ {s}
  BY <1>2 DEF Commit, Open, IInv, TypeOK
<1>8. IInv'
  BY <1>5, <1>6, <1>7, DoomingKeeps
<1> QED
  BY <1>4, <1>8

LEMMA AbortKeeps ==
    ASSUME IInv, NEW s \in Sessions, Abort(s)
    PROVE  IInv' /\ UNCHANGED bankVars
<1>1. BankTypeOK'
  BY DEF IInv, TypeOK, BankTypeOK, Abort
<1>2. /\ DOMAIN op' = Sessions
      /\ Open' = Open \ {s}
      /\ \A r \in Open' : op'[r] = op[r]
      /\ doomed' = (doomed \cup Writers({})) \ {s}
      /\ \A d \in Docs \ {} : db'[d] = db[d]
  BY DEF Abort, Open, Writers, IInv, TypeOK
<1>3. IInv'
  BY <1>1, <1>2, DoomingKeeps
<1> QED
  BY <1>3 DEF Abort, bankVars

LEMMA UpdateWalletStatusKeeps ==
    ASSUME IInv, NEW w \in Wallets, NEW st \in StatusUpdates, UpdateWalletStatus(w, st)
    PROVE  IInv' /\ BankNext
<1>1. BankTypeOK' /\ \A d \in Docs \ {w} : db'[d] = db[d]
  BY SetStatusKeepsType DEF UpdateWalletStatus, IInv, TypeOK
<1>2. /\ DOMAIN op' = Sessions
      /\ Open' = Open \ {}
      /\ \A r \in Open' : op'[r] = op[r]
      /\ doomed' = (doomed \cup Writers({w})) \ {}
  BY DEF UpdateWalletStatus, Open, IInv, TypeOK
<1>3. IInv'
  BY <1>1, <1>2, DoomingKeeps
<1> QED
  BY <1>3 DEF UpdateWalletStatus, BankNext

\* Every step keeps the invariant and is a step of the abstract specification
\* or leaves the documents and the ledgers alone.
LEMMA NextKeeps ==
    IInv /\ [Next]_vars => IInv' /\ [BankNext]_bankVars
<1> SUFFICES ASSUME IInv, [Next]_vars PROVE IInv' /\ [BankNext]_bankVars
  OBVIOUS
<1>1. ASSUME NEW s \in Sessions, NEW u \in Users, NEW v \in Users, NEW a \in Amounts,
             BeginTransfer(s, u, v, a)
      PROVE  IInv' /\ UNCHANGED bankVars
  <2>1. PICK w \in Wallets, x \in Wallets, t \in Txs :
           CanTransfer(w, x, a, t) /\ Begin(s, TransferOp(w, x, a, t))
    BY <1>1 DEF BeginTransfer, ActiveWallets, ReceivingWallets
  <2>2. PICK o : o = TransferOp(w, x, a, t)
    OBVIOUS
  <2> QED
    BY <2>1, <2>2, BeginKeeps DEF Possible, Begin, bankVars
<1>2. ASSUME NEW s \in Sessions, NEW u \in Users, NEW a \in Amounts, BeginDeposit(s, u, a)
      PROVE  IInv' /\ UNCHANGED bankVars
  <2>1. PICK w \in Wallets, t \in Txs : CanDeposit(w, t) /\ Begin(s, DepositOp(w, a, t))
    BY <1>2 DEF BeginDeposit, ActiveWallets, ReceivingWallets
  <2>2. PICK o : o = DepositOp(w, a, t)
    OBVIOUS
  <2> QED
    BY <2>1, <2>2, BeginKeeps DEF Possible, Begin, bankVars
<1>3. ASSUME NEW s \in Sessions, NEW u \in Users, NEW a \in Amounts, BeginWithdraw(s, u, a)
      PROVE  IInv' /\ UNCHANGED bankVars
  <2>1. PICK w \in Wallets, t \in Txs : CanWithdraw(w, a, t) /\ Begin(s, WithdrawOp(w, a, t))
    BY <1>3 DEF BeginWithdraw, ActiveWallets
  <2>2. PICK o : o = WithdrawOp(w, a, t)
    OBVIOUS
  <2> QED
    BY <2>1, <2>2, BeginKeeps DEF Possible, Begin, bankVars
<1>4. ASSUME NEW s \in Sessions, NEW u \in Users, BeginCancel(s, u)
      PROVE  IInv' /\ UNCHANGED bankVars
  <2>1. PICK t \in Txs : CanCancel(t) /\ Begin(s, CancelOp(t))
    BY <1>4 DEF BeginCancel
  <2>2. PICK o : o = CancelOp(t)
    OBVIOUS
  <2> QED
    BY <2>1, <2>2, BeginKeeps DEF Possible, Begin, bankVars
<1>5. CASE UNCHANGED vars
  <2>1. /\ BankTypeOK'
        /\ \A d \in Docs \ {} : db'[d] = db[d]
        /\ DOMAIN op' = Sessions
        /\ Open' = Open \ {}
        /\ \A r \in Open' : op'[r] = op[r]
        /\ doomed' = (doomed \cup Writers({})) \ {}
    BY <1>5 DEF vars, IInv, TypeOK, BankTypeOK, Open, Writers
  <2>2. IInv'
    BY <2>1, DoomingKeeps
  <2> QED
    BY <1>5, <2>2 DEF vars, bankVars
<1> QED
  BY <1>1, <1>2, <1>3, <1>4, <1>5, CommitKeeps, AbortKeeps, UpdateWalletStatusKeeps
     DEF Next, UserBegin

\* Every document and every ledger keeps the form the schemas give it, and a
\* session that ended is in no conflict.
THEOREM TypeCorrect == Spec => []TypeOK
<1>1. Spec => []IInv
  BY InitEstablishes, NextKeeps, PTL DEF Spec
<1>2. IInv => TypeOK
  BY DEF IInv
<1> QED
  BY <1>1, <1>2, PTL

\* The operation of a session that may still commit is possible at that
\* moment: commitTransaction never applies a balance, a check or a status that
\* went stale after the snapshot.
THEOREM NoStaleCommit == Spec => []OpenOpsStillPossible
<1>1. Spec => []IInv
  BY InitEstablishes, NextKeeps, PTL DEF Spec
<1>2. IInv => OpenOpsStillPossible
  BY DEF IInv
<1> QED
  BY <1>1, <1>2, PTL

\* The transfers, deposits, withdrawals and cancellations that run at the same
\* time are serializable: BankSessions implements Bank.
THEOREM Serializable == Spec => BankSpec
<1>1. Spec => []IInv /\ [][Next]_vars
  BY InitEstablishes, NextKeeps, PTL DEF Spec
<1>2. Spec => BankInit
  BY DEF Spec, Init
<1>3. IInv /\ [Next]_vars => [BankNext]_bankVars
  BY NextKeeps
<1> QED
  BY <1>1, <1>2, <1>3, PTL DEF BankSpec

----------------------------------------------------------------------------
(***************************************************************************)
(* Safety of the abstract specification, inherited by BankSessions.        *)
(***************************************************************************)
LEMMA BankInitType == BankInit => BankTypeOK
<1> SUFFICES ASSUME BankInit PROVE BankTypeOK
  OBVIOUS
<1>1. PICK exist \in SUBSET Wallets :
         db = [d \in Docs |-> IF d \in exist THEN [status |-> "active", bal |-> 0]
                                             ELSE Absent]
  BY DEF BankInit
<1>2. [status |-> "active", bal |-> 0] \in Wallet
  BY DEF Wallet, WalletStatus
<1> QED
  BY <1>1, <1>2, DocsDisjoint DEF BankTypeOK, BankInit, Docs

LEMMA BankStepType == BankTypeOK /\ [BankNext]_bankVars => BankTypeOK'
<1> SUFFICES ASSUME BankTypeOK, [BankNext]_bankVars PROVE BankTypeOK'
  OBVIOUS
<1>1. ASSUME NEW o, Possible(o), Apply(o) PROVE BankTypeOK'
  BY <1>1, PossibleIsOp, ApplyKeepsType
<1>2. ASSUME NEW w \in Wallets, NEW st \in StatusUpdates, SetStatus(w, st)
      PROVE  BankTypeOK'
  BY <1>2, SetStatusKeepsType
<1>3. CASE UNCHANGED bankVars
  BY <1>3 DEF BankTypeOK, bankVars
<1> QED
  BY <1>1, <1>2, <1>3, BankStep

\* The balance after an operation is the one it writes.
LEMMA BalanceAfter ==
    ASSUME BankTypeOK, NEW o, IsOp(o), Balanced(o), Apply(o), NEW w \in Wallets
    PROVE  IF w \in DOMAIN o.posts
           THEN /\ Bal(w)' = o.posts[w].bal
                /\ ledger'[w] = Append(ledger[w], o.posts[w])
           ELSE /\ Bal(w)' = Bal(w)
                /\ ledger'[w] = ledger[w]
<1>1. w \in Docs
  BY DEF Docs
<1>2. CASE w \in DOMAIN o.posts
  <2>1. w \in DOMAIN o.writes /\ o.writes[w] \in Wallet /\ o.writes[w].bal = o.posts[w].bal
    BY <1>2 DEF IsOp, Balanced
  <2>2. db'[w] = o.writes[w] /\ db'[w] # Absent
    BY <1>1, <2>1, AbsentAssumption DEF Apply
  <2> QED
    BY <1>2, <2>1, <2>2 DEF Bal, Apply
<1>3. CASE w \notin DOMAIN o.posts
  <2>1. ledger'[w] = ledger[w]
    BY <1>3 DEF Apply
  <2>2. CASE w \notin DOMAIN o.writes
    BY <1>1, <1>3, <2>1, <2>2 DEF Apply, Bal
  <2>3. CASE w \in DOMAIN o.writes
    <3>1. o.writes[w] \in Wallet /\ o.writes[w].bal = Bal(w)
      BY <1>3, <2>3 DEF IsOp, Balanced
    <3>2. db'[w] = o.writes[w] /\ db'[w] # Absent
      BY <1>1, <2>3, <3>1, AbsentAssumption DEF Apply
    <3> QED
      BY <1>3, <2>1, <3>1, <3>2 DEF Bal
  <2> QED
    BY <2>2, <2>3
<1> QED
  BY <1>2, <1>3

LEMMA ApplyKeepsChain ==
    ASSUME BankTypeOK, LedgerChain, NEW o, IsOp(o), Balanced(o), Apply(o)
    PROVE  LedgerChain'
<1> SUFFICES ASSUME NEW w \in Wallets
             PROVE  /\ \A i \in 1..Len(ledger'[w]) :
                          ledger'[w][i].bal
                            = BalanceAt(ledger'[w], i - 1) + Signed(ledger'[w][i])
                    /\ Bal(w)' = BalanceAt(ledger'[w], Len(ledger'[w]))
  BY DEF LedgerChain
<1>1. CASE w \notin DOMAIN o.posts
  BY <1>1, BalanceAfter DEF LedgerChain
<1>2. CASE w \in DOMAIN o.posts
  <2> DEFINE l == ledger[w]
             e == o.posts[w]
             n == Len(ledger[w])
  <2>1. l \in Seq(Entry) /\ e \in Entry /\ n \in Nat
    BY <1>2 DEF BankTypeOK, IsOp
  <2>2. /\ ledger'[w] = Append(l, e)
        /\ Bal(w)' = e.bal
        /\ e.bal = Bal(w) + Signed(e)
        /\ Bal(w) = BalanceAt(l, n)
    BY <1>2, BalanceAfter DEF Balanced, LedgerChain
  <2>3. \A i \in 1..n : l[i].bal = BalanceAt(l, i - 1) + Signed(l[i])
    BY DEF LedgerChain
  <2> HIDE DEF l, e, n
  <2>4. /\ Len(Append(l, e)) = n + 1
        /\ \A i \in 1..n : Append(l, e)[i] = l[i]
        /\ Append(l, e)[n + 1] = e
    BY <2>1 DEF l, n
  <2>5. \A i \in 0..n : BalanceAt(Append(l, e), i) = BalanceAt(l, i)
    BY <2>1, <2>4 DEF BalanceAt
  <2>6. BalanceAt(Append(l, e), n + 1) = e.bal
    BY <2>1, <2>4 DEF BalanceAt
  <2>7. ASSUME NEW i \in 1..(n + 1)
        PROVE  Append(l, e)[i].bal
                 = BalanceAt(Append(l, e), i - 1) + Signed(Append(l, e)[i])
    <3>1. CASE i = n + 1
      BY <2>1, <2>2, <2>4, <2>5, <3>1
    <3>2. CASE i # n + 1
      BY <2>1, <2>3, <2>4, <2>5, <3>2
    <3> QED
      BY <3>1, <3>2
  <2> QED
    BY <2>2, <2>4, <2>6, <2>7
<1> QED
  BY <1>1, <1>2

\* The ledger of every wallet recovers the whole history of its balance,
\* whatever the operations that ran at the same time.
THEOREM LedgerRecovers == Spec => []LedgerChain
<1>1. BankInit => LedgerChain
  <2> SUFFICES ASSUME BankInit PROVE LedgerChain
    OBVIOUS
  <2>1. \A w \in Wallets : ledger[w] = <<>> /\ Bal(w) = 0
    BY DEF BankInit, Bal, Docs
  <2> QED
    BY <2>1 DEF LedgerChain, BalanceAt
<1>2. BankTypeOK /\ LedgerChain /\ [BankNext]_bankVars => LedgerChain'
  <2> SUFFICES ASSUME BankTypeOK, LedgerChain, [BankNext]_bankVars PROVE LedgerChain'
    OBVIOUS
  <2>1. ASSUME NEW o, Possible(o), Apply(o) PROVE LedgerChain'
    BY <2>1, PossibleIsOp, ApplyKeepsChain
  <2>2. ASSUME NEW w \in Wallets, NEW st \in StatusUpdates, SetStatus(w, st)
        PROVE  LedgerChain'
    <3>1. ledger' = ledger /\ \A x \in Wallets : Bal(x)' = Bal(x)
      BY <2>2, SetStatusKeepsType DEF SetStatus
    <3> QED
      BY <3>1 DEF LedgerChain
  <2>3. CASE UNCHANGED bankVars
    BY <2>3 DEF LedgerChain, bankVars, Bal
  <2> QED
    BY <2>1, <2>2, <2>3, BankStep
<1>3. BankSpec => []LedgerChain
  BY <1>1, <1>2, BankInitType, BankStepType, PTL DEF BankSpec
<1> QED
  BY <1>3, Serializable, PTL

\* No operation takes a transaction away or changes what it is about.
LEMMA TransactionsStay ==
    ASSUME BankTypeOK, NEW o, Possible(o), Apply(o), NEW t \in Txs, db[t] # Absent
    PROVE  /\ db'[t] # Absent
           /\ db'[t].type = db[t].type
           /\ db'[t].wallet = db[t].wallet
           /\ db'[t].fee = db[t].fee
<1>1. db'[t] = IF t \in DOMAIN o.writes THEN o.writes[t] ELSE db[t]
  BY DEF Apply, Docs
<1>2. CASE t \notin DOMAIN o.writes
  BY <1>1, <1>2
<1>3. CASE t \in DOMAIN o.writes
  <2>1. o = CancelOp(t)
    <3>1. ASSUME NEW w \in Wallets, NEW x \in Wallets, NEW a \in Amounts, NEW r \in Txs,
                 CanTransfer(w, x, a, r), o = TransferOp(w, x, a, r)
          PROVE  FALSE
      BY <1>3, <3>1, TransferIsOp, DocsDisjoint DEF CanTransfer
    <3>2. ASSUME NEW w \in Wallets, NEW a \in Amounts, NEW r \in Txs,
                 CanDeposit(w, r), o = DepositOp(w, a, r)
          PROVE  FALSE
      BY <1>3, <3>2, DepositIsOp, DocsDisjoint DEF CanDeposit
    <3>3. ASSUME NEW w \in Wallets, NEW a \in Amounts, NEW r \in Txs,
                 CanWithdraw(w, a, r), o = WithdrawOp(w, a, r)
          PROVE  FALSE
      BY <1>3, <3>3, WithdrawIsOp, DocsDisjoint DEF CanWithdraw
    <3>4. ASSUME NEW r \in Txs, CanCancel(r), o = CancelOp(r)
          PROVE  o = CancelOp(t)
      BY <1>3, <3>4, CancelIsOp, DocsDisjoint
    <3> QED
      BY <3>1, <3>2, <3>3, <3>4 DEF Possible
  <2>2. db[t] \in Tx
    BY DEF BankTypeOK
  <2>3. db[t].wallet \in Wallets /\ db[t].wallet # t
    BY <2>2, DocsDisjoint DEF Tx
  <2>4. o.writes[t] = [db[t] EXCEPT !.status = "cancelled"]
    BY <1>3, <2>1, <2>3 DEF CancelOp
  <2>5. o.writes[t] \in Tx
    BY <2>2, <2>4 DEF Tx, TxStatus
  <2> QED
    BY <1>1, <1>3, <2>2, <2>4, <2>5, AbsentAssumption DEF Tx
<1> QED
  BY <1>2, <1>3

\* An operation that takes money from a wallet takes it from an active one, and
\* leaves it below zero only by the fee of the transfer it is.
LEMMA DebitsAreCovered ==
    ASSUME BankTypeOK, NEW o, Possible(o), Apply(o), NEW w \in Wallets,
           ~(Bal(w)' >= Bal(w))
    PROVE  /\ Active(w)
           /\ \/ Bal(w)' >= 0
              \/ \E t \in Txs : /\ db'[t] # Absent
                                /\ db'[t].type = "transfer"
                                /\ db'[t].wallet = w
                                /\ Bal(w)' >= -db'[t].fee
<1>1. IsOp(o) /\ Balanced(o) /\ Bal(w) \in Int
  BY PossibleIsOp, MovedIsWallet, 0 \in Int
<1>2. w \in DOMAIN o.posts /\ Bal(w)' = o.posts[w].bal
  BY <1>1, BalanceAfter
<1>3. ASSUME NEW y \in Wallets, NEW x \in Wallets, NEW a \in Amounts, NEW t \in Txs,
             CanTransfer(y, x, a, t), o = TransferOp(y, x, a, t)
      PROVE  /\ Active(w)
             /\ db'[t] # Absent
             /\ db'[t].type = "transfer"
             /\ db'[t].wallet = w
             /\ Bal(w)' >= -db'[t].fee
  <2>1. a \in Nat /\ TransferFee(a) \in Nat
    BY FeesAreNatural
  <2>2. y # x /\ t # y /\ t # x
    BY <1>3, DocsDisjoint DEF CanTransfer
  <2>3. w \in {y, x}
    BY <1>2, <1>3 DEF TransferOp
  <2>4. CASE w = x
    <3>1. o.posts[w] = Posting(w, t, "credit", a)
      BY <1>3, <2>2, <2>4 DEF TransferOp
    <3> QED
      BY <1>1, <1>2, <2>1, <3>1 DEF Posting
  <2>5. CASE w = y
    <3>1. o.posts[w] = Posting(w, t, "debit", a + TransferFee(a))
      BY <1>3, <2>2, <2>5 DEF TransferOp
    <3>2. Bal(w)' = Bal(w) - (a + TransferFee(a)) /\ Bal(w) >= a
      BY <1>2, <1>3, <2>5, <3>1 DEF Posting, CanTransfer
    <3>3. o.writes[t] = [type |-> "transfer", status |-> "completed", wallet |-> w,
                         to |-> x, amount |-> a, fee |-> TransferFee(a)]
      BY <1>3, <2>2, <2>5 DEF TransferOp
    <3>4. db'[t] = o.writes[t]
      BY <1>3, TransferIsOp DEF Apply, Docs
    <3>5. db'[t] \in Tx
      BY <2>1, <3>3, <3>4 DEF Tx, TxType, TxStatus
    <3> QED
      BY <1>1, <1>3, <2>1, <2>5, <3>2, <3>3, <3>4, <3>5, AbsentAssumption DEF CanTransfer
  <2> QED
    BY <2>3, <2>4, <2>5
<1>4. ASSUME NEW y \in Wallets, NEW a \in Amounts, NEW t \in Txs, o = DepositOp(y, a, t)
      PROVE  FALSE
  <2>1. w = y /\ o.posts[w] = Posting(w, t, "credit", a)
    BY <1>2, <1>4 DEF DepositOp
  <2> QED
    BY <1>1, <1>2, <2>1, FeesAreNatural DEF Posting
<1>5. ASSUME NEW y \in Wallets, NEW a \in Amounts, NEW t \in Txs,
             CanWithdraw(y, a, t), o = WithdrawOp(y, a, t)
      PROVE  Active(w) /\ Bal(w)' >= 0
  <2>1. w = y /\ o.posts[w] = Posting(w, t, "debit", a + WithdrawalFee(a))
    BY <1>2, <1>5 DEF WithdrawOp
  <2> QED
    BY <1>1, <1>2, <1>5, <2>1, FeesAreNatural DEF Posting, CanWithdraw
<1>6. ASSUME NEW t \in Txs, CanCancel(t), o = CancelOp(t)
      PROVE  FALSE
  <2>1. db[t] \in Tx
    BY <1>6 DEF BankTypeOK, CanCancel
  <2>2. w = db[t].wallet /\ o.posts[w] = Posting(w, t, "credit", db[t].amount + db[t].fee)
    BY <1>2, <1>6 DEF CancelOp
  <2> QED
    BY <1>1, <1>2, <2>1, <2>2 DEF Posting, Tx
<1> QED
  BY <1>3, <1>4, <1>5, <1>6 DEF Possible

\* Whatever runs at the same time, a wallet is overdrawn by one transfer fee at
\* the most.
THEOREM OverdraftBounded == Spec => []OverdraftIsOneFee
<1>1. BankInit => OverdraftIsOneFee
  BY DEF BankInit, OverdraftIsOneFee, Bal, Docs
<1>2. BankTypeOK /\ OverdraftIsOneFee /\ [BankNext]_bankVars => OverdraftIsOneFee'
  <2> SUFFICES ASSUME BankTypeOK, OverdraftIsOneFee, [BankNext]_bankVars,
                      NEW w \in Wallets
               PROVE  \/ Bal(w)' >= 0
                      \/ \E t \in Txs : /\ db'[t] # Absent
                                        /\ db'[t].type = "transfer"
                                        /\ db'[t].wallet = w
                                        /\ Bal(w)' >= -db'[t].fee
    BY DEF OverdraftIsOneFee
  <2>1. ASSUME NEW o, Possible(o), Apply(o), Bal(w)' >= Bal(w)
        PROVE  \/ Bal(w)' >= 0
               \/ \E t \in Txs : /\ db'[t] # Absent
                                 /\ db'[t].type = "transfer"
                                 /\ db'[t].wallet = w
                                 /\ Bal(w)' >= -db'[t].fee
    <3>1. Bal(w) \in Int /\ Bal(w)' \in Int
      <4>1. BankTypeOK'
        BY <2>1, PossibleIsOp, ApplyKeepsType
      <4> QED
        BY <4>1 DEF Bal, BankTypeOK, Wallet
    <3>2. CASE Bal(w) >= 0
      BY <2>1, <3>1, <3>2
    <3>3. CASE ~(Bal(w) >= 0)
      <4>1. PICK t \in Txs : /\ db[t] # Absent
                             /\ db[t].type = "transfer"
                             /\ db[t].wallet = w
                             /\ Bal(w) >= -db[t].fee
        BY <3>3 DEF OverdraftIsOneFee
      <4>2. db[t].fee \in Nat
        BY <4>1 DEF BankTypeOK, Tx
      <4> QED
        BY <2>1, <3>1, <4>1, <4>2, TransactionsStay
    <3> QED
      BY <3>2, <3>3
  <2>2. ASSUME NEW x \in Wallets, NEW st \in StatusUpdates, SetStatus(x, st)
        PROVE  Bal(w)' = Bal(w) /\ \A t \in Txs : db'[t] = db[t]
    BY <2>2, SetStatusKeepsType, DocsDisjoint DEF Docs
  <2>3. CASE UNCHANGED bankVars
    BY <2>3 DEF OverdraftIsOneFee, bankVars, Bal
  <2> QED
    BY <2>1, <2>2, <2>3, BankStep, DebitsAreCovered DEF OverdraftIsOneFee
<1>3. BankSpec => []OverdraftIsOneFee
  BY <1>1, <1>2, BankInitType, BankStepType, PTL DEF BankSpec
<1> QED
  BY <1>3, Serializable, PTL

\* Whatever runs at the same time, no money leaves a wallet an administrator
\* has frozen, suspended or closed.
THEOREM FrozenMoneyStays == Spec => NoDebitUnlessActive
<1> DEFINE A == \A w \in Wallets :
                   (db[w] # Absent /\ db'[w].bal < db[w].bal) => db[w].status = "active"
<1>1. BankTypeOK /\ [BankNext]_bankVars => [A]_bankVars
  <2> SUFFICES ASSUME BankTypeOK, BankNext, NEW w \in Wallets,
                      db[w] # Absent, db'[w].bal < db[w].bal
               PROVE  db[w].status = "active"
    OBVIOUS
  <2>1. BankTypeOK' /\ db[w] \in Wallet /\ Bal(w) = db[w].bal
    BY BankStepType DEF Bal, BankTypeOK
  <2>2. ASSUME NEW o, Possible(o), Apply(o) PROVE db[w].status = "active"
    <3>1. IsOp(o)
      BY <2>2, PossibleIsOp
    <3>2. db'[w] # Absent
      BY <2>1, <2>2, <3>1, AbsentAssumption DEF Apply, IsOp, Docs
    <3>3. Bal(w)' = db'[w].bal /\ Bal(w)' \in Int /\ Bal(w) \in Int
      BY <2>1, <3>2 DEF Bal, BankTypeOK, Wallet
    <3>4. ~(Bal(w)' >= Bal(w))
      BY <2>1, <3>3
    <3> QED
      BY <2>2, <3>4, DebitsAreCovered DEF Active
  <2>3. ASSUME NEW x \in Wallets, NEW st \in StatusUpdates, SetStatus(x, st) PROVE FALSE
    <3>1. db'[w] # Absent /\ Bal(w)' = Bal(w)
      BY <2>3, SetStatusKeepsType DEF Docs
    <3>2. Bal(w)' = db'[w].bal /\ db[w].bal \in Int
      BY <2>1, <3>1 DEF Bal, Wallet
    <3> QED
      BY <2>1, <3>1, <3>2
  <2> QED
    BY <2>2, <2>3, BankStep
<1>2. BankSpec => [][A]_bankVars
  BY <1>1, BankInitType, BankStepType, PTL DEF BankSpec
<1> QED
  BY <1>2, Serializable, PTL DEF NoDebitUnlessActive

----------------------------------------------------------------------------
\* An operation adds at most one entry to a ledger.
LEMMA EntriesAfter ==
    ASSUME BankTypeOK, NEW o, IsOp(o), Apply(o), NEW w \in Wallets, NEW t, NEW side
    PROVE  Entries(w, t, side)'
                = IF w \in DOMAIN o.posts /\ o.posts[w].tx = t /\ o.posts[w].side = side
                  THEN Entries(w, t, side) \cup {Len(ledger[w]) + 1}
                  ELSE Entries(w, t, side)
<1> DEFINE l == ledger[w]
           n == Len(ledger[w])
<1>1. l \in Seq(Entry) /\ n \in Nat
  BY DEF BankTypeOK
<1>2. ledger'[w] = IF w \in DOMAIN o.posts THEN Append(l, o.posts[w]) ELSE l
  BY DEF Apply
<1>3. Entries(w, t, side)' = {i \in 1..Len(ledger'[w]) : /\ ledger'[w][i].tx = t
                                                         /\ ledger'[w][i].side = side}
  BY DEF Entries
<1>4. Entries(w, t, side) = {i \in 1..n : l[i].tx = t /\ l[i].side = side}
  BY DEF Entries
<1> HIDE DEF l, n
<1>5. CASE w \notin DOMAIN o.posts
  BY <1>2, <1>3, <1>4, <1>5 DEF n, l
<1>6. CASE w \in DOMAIN o.posts
  <2>1. PICK e : e = o.posts[w]
    OBVIOUS
  <2>2. ledger'[w] = Append(l, e) /\ e \in Entry
    BY <1>2, <1>6, <2>1 DEF IsOp
  <2>3. /\ Len(Append(l, e)) = n + 1
        /\ \A i \in 1..n : Append(l, e)[i] = l[i]
        /\ Append(l, e)[n + 1] = e
    BY <1>1, <2>2 DEF l, n
  <2>4. 1..(n + 1) = (1..n) \cup {n + 1}
    BY <1>1
  <2>5. \A i : i \in Entries(w, t, side)' <=>
                 \/ i \in Entries(w, t, side)
                 \/ i = n + 1 /\ e.tx = t /\ e.side = side
    BY <1>1, <1>3, <1>4, <2>2, <2>3, <2>4
  <2> QED
    BY <1>6, <2>1, <2>5 DEF n
<1> QED
  BY <1>5, <1>6


\* An operation that posts nothing about t leaves the entries of t alone.
LEMMA OthersEntriesStay ==
    ASSUME BankTypeOK, NEW o, IsOp(o), Apply(o), NEW t,
           \A w \in DOMAIN o.posts : o.posts[w].tx # t
    PROVE  \A w \in Wallets : /\ Entries(w, t, "debit")' = Entries(w, t, "debit")
                              /\ Entries(w, t, "credit")' = Entries(w, t, "credit")
  BY EntriesAfter

LEMMA EntriesAreFinite ==
    ASSUME BankTypeOK, NEW w \in Wallets, NEW t, NEW side
    PROVE  /\ IsFiniteSet(Entries(w, t, side))
           /\ Cardinality(Entries(w, t, side)) = 0 <=> Entries(w, t, side) = {}
<1>1. Len(ledger[w]) \in Nat
  BY DEF BankTypeOK
<1>2. IsFiniteSet(1..Len(ledger[w]))
  BY <1>1, FS_Interval
<1>3. Entries(w, t, side) \subseteq 1..Len(ledger[w])
  BY DEF Entries
<1>4. IsFiniteSet(Entries(w, t, side))
  BY <1>2, <1>3, FS_Subset
<1> QED
  BY <1>4, FS_EmptySet

\* What LedgerTellsStatus says of one transaction.
TellsStatus(t) ==
    IF db[t] = Absent
    THEN \A w \in Wallets : Entries(w, t, "debit") \cup Entries(w, t, "credit") = {}
    ELSE LET x == db[t]
         IN  /\ Only(IF x.type = "deposit" THEN 0 ELSE 1, Entries(x.wallet, t, "debit"))
             /\ Only(IF x.type = "deposit" \/ x.status = "cancelled" THEN 1 ELSE 0,
                     Entries(x.wallet, t, "credit"))
             /\ x.type = "transfer" => Only(1, Entries(x.to, t, "credit"))

\* Only withdrawals wait, and can so be cancelled.
WithdrawalsWait ==
    \A t \in Txs :
        db[t] # Absent => /\ db[t].status = "pending" => db[t].type = "withdrawal"
                          /\ db[t].type = "transfer" => db[t].to \in Wallets

\* A transaction that an operation says nothing about.
LEMMA OthersToldStill ==
    ASSUME BankTypeOK, WithdrawalsWait, NEW o, IsOp(o), Apply(o), NEW t \in Txs, TellsStatus(t),
           t \notin DOMAIN o.writes, \A w \in DOMAIN o.posts : o.posts[w].tx # t
    PROVE  TellsStatus(t)' /\ db'[t] = db[t]
<1>1. db'[t] = db[t]
  BY DEF Apply, Docs
<1>2. db[t] # Absent => db[t] \in Tx /\ db[t].wallet \in Wallets
  BY DEF BankTypeOK, Tx
<1>3. db[t] # Absent /\ db[t].type = "transfer" => db[t].to \in Wallets
  BY DEF WithdrawalsWait
<1>4. \A w \in Wallets : /\ Entries(w, t, "debit")' = Entries(w, t, "debit")
                         /\ Entries(w, t, "credit")' = Entries(w, t, "credit")
  BY OthersEntriesStay
<1> QED
  BY <1>1, <1>2, <1>3, <1>4 DEF TellsStatus, Only

\* A transaction had no entries before it was inserted.
LEMMA FirstEntries ==
    ASSUME BankTypeOK, NEW o, IsOp(o), Apply(o), NEW t, NEW w \in Wallets,
           NEW side, Entries(w, t, side) = {}
    PROVE  Only(IF w \in DOMAIN o.posts /\ o.posts[w].tx = t /\ o.posts[w].side = side
                THEN 1 ELSE 0,
                Entries(w, t, side)')
<1>1. Entries(w, t, side)' =
         IF w \in DOMAIN o.posts /\ o.posts[w].tx = t /\ o.posts[w].side = side
         THEN {Len(ledger[w]) + 1} ELSE {}
  BY EntriesAfter
<1>2. Cardinality({}) = 0 /\ Cardinality({Len(ledger[w]) + 1}) = 1
  BY FS_EmptySet, FS_Singleton
<1> QED
  BY <1>1, <1>2 DEF Only

\* Each operation tells of the transaction it writes.
LEMMA TransferTells ==
    ASSUME BankTypeOK, NEW w \in Wallets, NEW x \in Wallets, NEW a \in Amounts,
           NEW t \in Txs, CanTransfer(w, x, a, t), TellsStatus(t),
           NEW o, o = TransferOp(w, x, a, t), Apply(o)
    PROVE  /\ TellsStatus(t)'
           /\ db'[t] # Absent /\ db'[t].status = "completed"
           /\ db'[t].type = "transfer" => db'[t].to \in Wallets
<1>1. IsOp(o) /\ DOMAIN o.writes = {w, x, t}
  BY TransferIsOp
<1>2. w # x /\ w # t /\ x # t
  BY DocsDisjoint DEF CanTransfer
<1>3. o.writes[t] = [type |-> "transfer", status |-> "completed", wallet |-> w,
                     to |-> x, amount |-> a, fee |-> TransferFee(a)]
  BY <1>2 DEF TransferOp
<1>4. db'[t] = o.writes[t] /\ o.writes[t] \in Tx
  BY <1>1 DEF Apply, Docs, IsOp
<1>5. /\ DOMAIN o.posts = {w, x}
      /\ o.posts[w].tx = t /\ o.posts[w].side = "debit"
      /\ o.posts[x].tx = t /\ o.posts[x].side = "credit"
  BY <1>2 DEF TransferOp, Posting
<1>6. \A y \in Wallets : Entries(y, t, "debit") = {} /\ Entries(y, t, "credit") = {}
  BY DEF TellsStatus, CanTransfer
<1>7. /\ Only(1, Entries(w, t, "debit")')
      /\ Only(0, Entries(w, t, "credit")')
      /\ Only(1, Entries(x, t, "credit")')
  BY <1>1, <1>5, <1>6, FirstEntries
<1>8. db'[t] # Absent
  BY <1>4, AbsentAssumption
<1>9. TellsStatus(t)'
  BY <1>3, <1>4, <1>7, <1>8 DEF TellsStatus, Only
<1> QED
  BY <1>3, <1>4, <1>8, <1>9

LEMMA DepositTells ==
    ASSUME BankTypeOK, NEW w \in Wallets, NEW a \in Amounts,
           NEW t \in Txs, CanDeposit(w, t), TellsStatus(t),
           NEW o, o = DepositOp(w, a, t), Apply(o)
    PROVE  /\ TellsStatus(t)'
           /\ db'[t] # Absent /\ db'[t].status = "completed" /\ db'[t].type = "deposit"
<1>1. IsOp(o) /\ DOMAIN o.writes = {w, t}
  BY DepositIsOp
<1>2. w # t
  BY DocsDisjoint
<1>3. o.writes[t] = [type |-> "deposit", status |-> "completed", wallet |-> w,
                     to |-> Absent, amount |-> a, fee |-> 0]
  BY <1>2 DEF DepositOp
<1>4. db'[t] = o.writes[t] /\ o.writes[t] \in Tx
  BY <1>1 DEF Apply, Docs, IsOp
<1>5. /\ DOMAIN o.posts = {w}
      /\ o.posts[w].tx = t /\ o.posts[w].side = "credit"
  BY DEF DepositOp, Posting
<1>6. \A y \in Wallets : Entries(y, t, "debit") = {} /\ Entries(y, t, "credit") = {}
  BY DEF TellsStatus, CanDeposit
<1>7. Only(0, Entries(w, t, "debit")') /\ Only(1, Entries(w, t, "credit")')
  BY <1>1, <1>5, <1>6, FirstEntries
<1>8. db'[t] # Absent
  BY <1>4, AbsentAssumption
<1>9. TellsStatus(t)'
  BY <1>3, <1>4, <1>7, <1>8 DEF TellsStatus, Only
<1> QED
  BY <1>3, <1>4, <1>8, <1>9

LEMMA WithdrawTells ==
    ASSUME BankTypeOK, NEW w \in Wallets, NEW a \in Amounts,
           NEW t \in Txs, CanWithdraw(w, a, t), TellsStatus(t),
           NEW o, o = WithdrawOp(w, a, t), Apply(o)
    PROVE  TellsStatus(t)' /\ db'[t] # Absent /\ db'[t].type = "withdrawal"
<1>1. IsOp(o) /\ DOMAIN o.writes = {w, t}
  BY WithdrawIsOp
<1>2. w # t
  BY DocsDisjoint
<1>3. o.writes[t] = [type |-> "withdrawal", status |-> "pending", wallet |-> w,
                     to |-> Absent, amount |-> a, fee |-> WithdrawalFee(a)]
  BY <1>2 DEF WithdrawOp
<1>4. db'[t] = o.writes[t] /\ o.writes[t] \in Tx
  BY <1>1 DEF Apply, Docs, IsOp
<1>5. /\ DOMAIN o.posts = {w}
      /\ o.posts[w].tx = t /\ o.posts[w].side = "debit"
  BY DEF WithdrawOp, Posting
<1>6. \A y \in Wallets : Entries(y, t, "debit") = {} /\ Entries(y, t, "credit") = {}
  BY DEF TellsStatus, CanWithdraw
<1>7. Only(1, Entries(w, t, "debit")') /\ Only(0, Entries(w, t, "credit")')
  BY <1>1, <1>5, <1>6, FirstEntries
<1>8. db'[t] # Absent
  BY <1>4, AbsentAssumption
<1>9. TellsStatus(t)'
  BY <1>3, <1>4, <1>7, <1>8 DEF TellsStatus, Only
<1> QED
  BY <1>3, <1>4, <1>8, <1>9

\* The refund of a withdrawal is its first credit, since it was pending.
LEMMA CancelTells ==
    ASSUME BankTypeOK, WithdrawalsWait, NEW t \in Txs, CanCancel(t), TellsStatus(t),
           NEW o, o = CancelOp(t), Apply(o)
    PROVE  TellsStatus(t)' /\ db'[t] # Absent /\ db'[t].type = "withdrawal"
<1>1. /\ db[t] # Absent /\ db[t] \in Tx /\ db[t].status = "pending"
      /\ db[t].type = "withdrawal"
  BY DEF CanCancel, BankTypeOK, WithdrawalsWait
<1>2. PICK w : w = db[t].wallet
  OBVIOUS
<1>3. IsOp(o) /\ DOMAIN o.writes = {w, t} /\ w \in Wallets /\ w # t
  BY <1>2, CancelIsOp, DocsDisjoint
<1>4. db'[t] = o.writes[t] /\ o.writes[t] = [db[t] EXCEPT !.status = "cancelled"]
  BY <1>2, <1>3 DEF Apply, Docs, CancelOp
<1>5. /\ db'[t] # Absent /\ db'[t].type = "withdrawal" /\ db'[t].wallet = w
      /\ db'[t].status = "cancelled"
  BY <1>1, <1>2, <1>3, <1>4, AbsentAssumption DEF Tx, IsOp
<1>6. /\ DOMAIN o.posts = {w}
      /\ o.posts[w].tx = t /\ o.posts[w].side = "credit"
  BY <1>2 DEF CancelOp, Posting
<1>7. Only(1, Entries(w, t, "debit")) /\ Only(0, Entries(w, t, "credit"))
  BY <1>1, <1>2 DEF TellsStatus
<1>8. Entries(w, t, "credit") = {}
  BY <1>3, <1>7, EntriesAreFinite DEF Only
<1>9. Entries(w, t, "debit")' = Entries(w, t, "debit")
  BY <1>3, <1>6, EntriesAfter
<1>10. Only(1, Entries(w, t, "credit")') /\ Only(1, Entries(w, t, "debit")')
  BY <1>3, <1>6, <1>7, <1>8, <1>9, FirstEntries
<1>11. TellsStatus(t)'
  BY <1>5, <1>10 DEF TellsStatus, Only
<1> QED
  BY <1>5, <1>11

\* The status of a transaction and the ledger tell the same story, whatever
\* withdrawals, cancellations and transfers ran at the same time.
THEOREM LedgerTellsTruth == Spec => []LedgerTellsStatus
<1> DEFINE I == BankTypeOK /\ WithdrawalsWait /\ \A t \in Txs : TellsStatus(t)
<1>1. BankInit => I
  <2> SUFFICES ASSUME BankInit PROVE I
    OBVIOUS
  <2>1. /\ \A w \in Wallets : ledger[w] = <<>>
        /\ \A t \in Txs : db[t] = Absent
    BY DocsDisjoint DEF BankInit, Docs
  <2> QED
    BY <2>1, BankInitType DEF WithdrawalsWait, TellsStatus, Entries
<1>2. I /\ [BankNext]_bankVars => I'
  <2> SUFFICES ASSUME I, [BankNext]_bankVars PROVE I'
    OBVIOUS
  <2>1. BankTypeOK'
    BY BankStepType
  <2> DEFINE Row(t) == db'[t] # Absent =>
                          /\ db'[t].status = "pending" => db'[t].type = "withdrawal"
                          /\ db'[t].type = "transfer" => db'[t].to \in Wallets
  <2>2. ASSUME NEW o, Possible(o), Apply(o), NEW t \in Txs
        PROVE  TellsStatus(t)' /\ Row(t)
    <3>1. IsOp(o) /\ TellsStatus(t)
      BY <2>2, PossibleIsOp
    <3>2. ASSUME t \notin DOMAIN o.writes, \A w \in DOMAIN o.posts : o.posts[w].tx # t
          PROVE  TellsStatus(t)' /\ Row(t)
      BY <2>2, <3>1, <3>2, OthersToldStill DEF WithdrawalsWait
    <3>3. ASSUME NEW w \in Wallets, NEW x \in Wallets, NEW a \in Amounts, NEW r \in Txs,
                 CanTransfer(w, x, a, r), o = TransferOp(w, x, a, r)
          PROVE  TellsStatus(t)' /\ Row(t)
      <4>1. CASE r = t
        BY <2>2, <3>1, <3>3, <4>1, TransferTells
      <4>2. CASE r # t
        BY <3>2, <3>3, <4>2, TransferIsOp, DocsDisjoint DEF TransferOp, Posting
      <4> QED
        BY <4>1, <4>2
    <3>4. ASSUME NEW w \in Wallets, NEW a \in Amounts, NEW r \in Txs,
                 CanDeposit(w, r), o = DepositOp(w, a, r)
          PROVE  TellsStatus(t)' /\ Row(t)
      <4>1. CASE r = t
        BY <2>2, <3>1, <3>4, <4>1, DepositTells
      <4>2. CASE r # t
        BY <3>2, <3>4, <4>2, DepositIsOp, DocsDisjoint DEF DepositOp, Posting
      <4> QED
        BY <4>1, <4>2
    <3>5. ASSUME NEW w \in Wallets, NEW a \in Amounts, NEW r \in Txs,
                 CanWithdraw(w, a, r), o = WithdrawOp(w, a, r)
          PROVE  TellsStatus(t)' /\ Row(t)
      <4>1. CASE r = t
        BY <2>2, <3>1, <3>5, <4>1, WithdrawTells
      <4>2. CASE r # t
        BY <3>2, <3>5, <4>2, WithdrawIsOp, DocsDisjoint DEF WithdrawOp, Posting
      <4> QED
        BY <4>1, <4>2
    <3>6. ASSUME NEW r \in Txs, CanCancel(r), o = CancelOp(r)
          PROVE  TellsStatus(t)' /\ Row(t)
      <4>1. CASE r = t
        BY <2>2, <3>1, <3>6, <4>1, CancelTells
      <4>2. CASE r # t
        BY <3>2, <3>6, <4>2, CancelIsOp, DocsDisjoint DEF CancelOp, Posting
      <4> QED
        BY <4>1, <4>2
    <3> QED
      BY <2>2, <3>3, <3>4, <3>5, <3>6 DEF Possible
  <2>3. ASSUME ledger' = ledger, \A t \in Txs : db'[t] = db[t]
        PROVE  \A t \in Txs : TellsStatus(t)' /\ Row(t)
    <3>1. \A w, t, side : Entries(w, t, side)' = Entries(w, t, side)
      BY <2>3 DEF Entries
    <3> QED
      BY <2>3, <3>1 DEF TellsStatus, WithdrawalsWait, Only
  <2>4. ASSUME NEW w \in Wallets, NEW st \in StatusUpdates, SetStatus(w, st)
        PROVE  \A t \in Txs : TellsStatus(t)' /\ Row(t)
    BY <2>3, <2>4, SetStatusKeepsType, DocsDisjoint DEF SetStatus, Docs
  <2>5. ASSUME UNCHANGED bankVars PROVE \A t \in Txs : TellsStatus(t)' /\ Row(t)
    BY <2>3, <2>5 DEF bankVars
  <2>6. \A t \in Txs : TellsStatus(t)' /\ Row(t)
    BY <2>2, <2>4, <2>5, BankStep
  <2> QED
    BY <2>1, <2>6 DEF WithdrawalsWait
<1>3. I => LedgerTellsStatus
  BY DEF TellsStatus, LedgerTellsStatus
<1>4. BankSpec => []LedgerTellsStatus
  BY <1>1, <1>2, <1>3, PTL DEF BankSpec
<1> QED
  BY <1>4, Serializable, PTL

----------------------------------------------------------------------------
(***************************************************************************)
(* Sums over finite sets.  The sum of MapThenSumSet is a function on the   *)
(* subsets of the set, chosen for its equation; that there is one such     *)
(* function, and only one, is what lets one reason about it.               *)
(***************************************************************************)
Pick(S) == CHOOSE x \in S : TRUE
Minus(S) == S \ {Pick(S)}

\* g gives the sum of f over each subset of S.
Sums(g, f, S) ==
    g = [U \in SUBSET S |-> IF U = {} THEN 0 ELSE f[Pick(U)] + g[Minus(U)]]

\* Total(f, S) is the sum of f[x] over x in S.
Total(f, S) == (CHOOSE g : Sums(g, f, S))[S]

\* The member that is added last, and the smaller set that is left.
LEMMA MinusSmaller ==
    ASSUME NEW S, S # {}
    PROVE  Pick(S) \in S /\ Minus(S) \subseteq S /\ Minus(S) # S
  BY DEF Pick, Minus

\* Induction over the subsets of a finite set: Q holds the ones for which the
\* claim is known.
LEMMA SubsetInduction ==
    ASSUME NEW S, IsFiniteSet(S), NEW Q,
           ASSUME NEW U \in SUBSET S,
                  \A V \in SUBSET U : V # U => V \in Q
           PROVE  U \in Q
    PROVE  S \in Q
<1> DEFINE T == (SUBSET S) \ Q
<1>1. SUFFICES T = {}
  OBVIOUS
<1>2. SUFFICES ASSUME T # {} PROVE FALSE
  OBVIOUS
<1>3. IsWellFoundedOn(StrictSubsetOrdering(S), SUBSET S)
  BY FS_StrictSubsetOrderingWellFounded, FS_FiniteSubsetsOfFinite
<1>4. T \subseteq SUBSET S
  OBVIOUS
<1>5. PICK U \in T : \A V \in T : ~ (<<V, U>> \in StrictSubsetOrdering(S))
  <2> HIDE DEF T
  <2> QED
    BY <1>2, <1>3, <1>4, WFMin
<1>6. \A V \in SUBSET U : V # U => V \in Q
  BY <1>5 DEF StrictSubsetOrdering
<1> QED
  BY <1>5, <1>6

\* Two functions of sums agree where they are both defined.
LEMMA SumsAgree ==
    ASSUME NEW f, NEW S, NEW T, NEW g, NEW h, Sums(g, f, S), Sums(h, f, T),
           NEW U, U \subseteq S, U \subseteq T, IsFiniteSet(U)
    PROVE  g[U] = h[U]
<1> DEFINE Q == {V \in SUBSET U : g[V] = h[V]}
<1>1. ASSUME NEW V \in SUBSET U, \A W \in SUBSET V : W # V => W \in Q
      PROVE  V \in Q
  <2>1. CASE V = {}
    BY <2>1 DEF Sums
  <2>2. CASE V # {}
    <3>1. Minus(V) \in SUBSET V /\ Minus(V) # V
      BY <2>2, MinusSmaller
    <3>2. g[Minus(V)] = h[Minus(V)]
      BY <1>1, <3>1
    <3>3. /\ g[V] = f[Pick(V)] + g[Minus(V)]
          /\ h[V] = f[Pick(V)] + h[Minus(V)]
      BY <2>2 DEF Sums
    <3> QED
      BY <3>2, <3>3
  <2> QED
    BY <2>1, <2>2
<1>2. U \in Q
  <2> HIDE DEF Q
  <2> QED
    BY <1>1, SubsetInduction
<1> QED
  BY <1>2

\* There is a function of sums.
LEMMA SumsExist ==
    ASSUME NEW f, NEW S, IsFiniteSet(S)
    PROVE  \E g : Sums(g, f, S)
<1> DEFINE Q == {U \in SUBSET S : \E g : Sums(g, f, U)}
<1>1. ASSUME NEW U \in SUBSET S, \A V \in SUBSET U : V # U => V \in Q
      PROVE  U \in Q
  <2> DEFINE of(V) == CHOOSE g : Sums(g, f, V)
             next(V) == IF V = {} THEN 0 ELSE f[Pick(V)] + of(Minus(V))[Minus(V)]
             g == [V \in SUBSET U |-> next(V)]
  <2>1. \A V \in SUBSET U : V # U => Sums(of(V), f, V)
    BY <1>1
  <2>2. ASSUME NEW V \in SUBSET U, V # U
        PROVE  of(V)[V] = next(V)
    <3>1. CASE V = {}
      <4>1. Sums(of(V), f, V)
        BY <2>1, <2>2
      <4>2. next(V) = 0
        BY <3>1
      <4> HIDE DEF of, next
      <4> QED
        BY <3>1, <4>1, <4>2 DEF Sums
    <3>2. CASE V # {}
      <4>1. Minus(V) \in SUBSET V /\ Minus(V) # V /\ Minus(V) \in SUBSET U /\ Minus(V) # U
        BY <2>2, <3>2, MinusSmaller
      <4>2. Sums(of(V), f, V) /\ Sums(of(Minus(V)), f, Minus(V))
        BY <2>1, <2>2, <4>1
      <4>3. IsFiniteSet(Minus(V))
        BY <4>1, FS_Subset
      <4> HIDE DEF of
      <4>4. of(V)[Minus(V)] = of(Minus(V))[Minus(V)]
        BY <4>1, <4>2, <4>3, SumsAgree
      <4>5. of(V)[V] = f[Pick(V)] + of(V)[Minus(V)]
        BY <3>2, <4>2 DEF Sums
      <4> QED
        BY <3>2, <4>4, <4>5
    <3> QED
      BY <3>1, <3>2
  <2>3. ASSUME NEW V \in SUBSET U, V # {}
        PROVE  next(V) = f[Pick(V)] + g[Minus(V)]
    <3>1. Minus(V) \in SUBSET U /\ Minus(V) # U
      BY <2>3, MinusSmaller
    <3> HIDE DEF of
    <3>2. of(Minus(V))[Minus(V)] = next(Minus(V))
      BY <2>2, <3>1
    <3>3. g[Minus(V)] = next(Minus(V))
      BY <3>1
    <3> QED
      BY <2>3, <3>2, <3>3
  <2>4. Sums(g, f, U)
    <3>1. next({}) = 0
      OBVIOUS
    <3> HIDE DEF next, g
    <3>2. \A V \in SUBSET U : next(V) = IF V = {} THEN 0 ELSE f[Pick(V)] + g[Minus(V)]
      BY <2>3, <3>1
    <3> USE DEF g
    <3> HIDE DEF next
    <3> QED
      BY <3>2 DEF Sums
  <2> QED
    BY <2>4
<1>2. S \in Q
  <2> HIDE DEF Q
  <2> QED
    BY <1>1, SubsetInduction
<1> QED
  BY <1>2

\* Each function of sums gives the totals.
LEMMA TotalSums ==
    ASSUME NEW f, NEW S, IsFiniteSet(S), NEW g, Sums(g, f, S)
    PROVE  \A U \in SUBSET S : Total(f, U) = g[U]
<1>1. SUFFICES ASSUME NEW U \in SUBSET S PROVE Total(f, U) = g[U]
  OBVIOUS
<1>2. IsFiniteSet(U)
  BY FS_Subset
<1>3. PICK h : h = CHOOSE k : Sums(k, f, U)
  OBVIOUS
<1>4. Sums(h, f, U)
  BY <1>2, <1>3, SumsExist
<1>5. Total(f, U) = h[U]
  BY <1>3 DEF Total
<1> QED
  BY <1>2, <1>4, <1>5, SumsAgree

\* The equations of a sum, from which all else follows.
LEMMA TotalEmpty ==
    ASSUME NEW f
    PROVE  Total(f, {}) = 0
<1>1. PICK g : Sums(g, f, {})
  BY SumsExist, FS_EmptySet
<1>2. Total(f, {}) = g[{}]
  BY <1>1, TotalSums, FS_EmptySet
<1> QED
  BY <1>1, <1>2 DEF Sums

LEMMA TotalPick ==
    ASSUME NEW f, NEW S, IsFiniteSet(S), S # {}
    PROVE  Total(f, S) = f[Pick(S)] + Total(f, Minus(S))
<1>1. PICK g : Sums(g, f, S)
  BY SumsExist
<1>2. Total(f, S) = g[S] /\ Total(f, Minus(S)) = g[Minus(S)]
  BY <1>1, TotalSums, MinusSmaller
<1> QED
  BY <1>1, <1>2 DEF Sums

\* A sum of integers is one, a sum of zeros is zero, and equal members have
\* equal sums.
LEMMA TotalType ==
    ASSUME NEW f, NEW S, IsFiniteSet(S), \A x \in S : f[x] \in Int
    PROVE  Total(f, S) \in Int
<1> DEFINE Q == {U \in SUBSET S : Total(f, U) \in Int}
<1>1. ASSUME NEW U \in SUBSET S, \A V \in SUBSET U : V # U => V \in Q
      PROVE  U \in Q
  <2>1. CASE U = {}
    BY <2>1, TotalEmpty
  <2>2. CASE U # {}
    BY <1>1, <2>2, TotalPick, MinusSmaller, FS_Subset
  <2> QED
    BY <2>1, <2>2
<1>2. S \in Q
  <2> HIDE DEF Q
  <2> QED
    BY <1>1, SubsetInduction
<1> QED
  BY <1>2

LEMMA TotalZero ==
    ASSUME NEW f, NEW S, IsFiniteSet(S), \A x \in S : f[x] = 0
    PROVE  Total(f, S) = 0
<1> DEFINE Q == {U \in SUBSET S : Total(f, U) = 0}
<1>1. ASSUME NEW U \in SUBSET S, \A V \in SUBSET U : V # U => V \in Q
      PROVE  U \in Q
  <2>1. CASE U = {}
    BY <2>1, TotalEmpty
  <2>2. CASE U # {}
    BY <1>1, <2>2, TotalPick, MinusSmaller, FS_Subset
  <2> QED
    BY <2>1, <2>2
<1>2. S \in Q
  <2> HIDE DEF Q
  <2> QED
    BY <1>1, SubsetInduction
<1> QED
  BY <1>2

LEMMA TotalSame ==
    ASSUME NEW f, NEW g, NEW S, IsFiniteSet(S), \A x \in S : f[x] = g[x]
    PROVE  Total(f, S) = Total(g, S)
<1> DEFINE Q == {U \in SUBSET S : Total(f, U) = Total(g, U)}
<1>1. ASSUME NEW U \in SUBSET S, \A V \in SUBSET U : V # U => V \in Q
      PROVE  U \in Q
  <2>1. CASE U = {}
    BY <2>1, TotalEmpty
  <2>2. CASE U # {}
    <3>1. IsFiniteSet(U) /\ Pick(U) \in S /\ Minus(U) \in Q
      BY <1>1, <2>2, MinusSmaller, FS_Subset
    <3>2. /\ Total(f, U) = f[Pick(U)] + Total(f, Minus(U))
          /\ Total(g, U) = g[Pick(U)] + Total(g, Minus(U))
      BY <2>2, <3>1, TotalPick
    <3> QED
      BY <3>1, <3>2
  <2> QED
    BY <2>1, <2>2
<1>2. S \in Q
  <2> HIDE DEF Q
  <2> QED
    BY <1>1, SubsetInduction
<1> QED
  BY <1>2

\* The order in which a sum is taken does not matter.
LEMMA TotalSplit ==
    ASSUME NEW f, NEW S, IsFiniteSet(S), \A x \in S : f[x] \in Int
    PROVE  \A x \in S : Total(f, S) = f[x] + Total(f, S \ {x})
<1> DEFINE Q == {U \in SUBSET S : \A x \in U : Total(f, U) = f[x] + Total(f, U \ {x})}
<1>1. ASSUME NEW U \in SUBSET S, \A V \in SUBSET U : V # U => V \in Q
      PROVE  U \in Q
  <2>1. SUFFICES ASSUME NEW x \in U PROVE Total(f, U) = f[x] + Total(f, U \ {x})
    OBVIOUS
  <2>2. PICK p : p = Pick(U)
    OBVIOUS
  <2>3. IsFiniteSet(U) /\ p \in U /\ Minus(U) = U \ {p}
    BY <2>2, MinusSmaller, FS_Subset DEF Minus
  <2>4. Total(f, U) = f[p] + Total(f, U \ {p})
    BY <2>2, <2>3, TotalPick
  <2>5. CASE x = p
    BY <2>4, <2>5
  <2>6. CASE x # p
    <3>1. U \ {p} \in Q /\ U \ {x} \in Q
      BY <1>1, <2>3
    <3>2. PICK r : r = Total(f, (U \ {p}) \ {x})
      OBVIOUS
    <3>3. Total(f, U \ {p}) = f[x] + r
      BY <2>6, <3>1, <3>2
    <3>4. (U \ {p}) \ {x} = (U \ {x}) \ {p}
      OBVIOUS
    <3>5. Total(f, U \ {x}) = f[p] + r
      BY <2>3, <2>6, <3>1, <3>2, <3>4
    <3>6. r \in Int /\ f[x] \in Int /\ f[p] \in Int
      BY <2>3, <3>2, TotalType, FS_Subset
    <3>7. Total(f, U) = f[p] + (f[x] + r)
      BY <2>4, <3>3
    <3>8. f[p] + (f[x] + r) = f[x] + (f[p] + r)
      BY <3>6
    <3> QED
      BY <3>5, <3>7, <3>8
  <2> QED
    BY <2>5, <2>6
<1>2. S \in Q
  <2> HIDE DEF Q
  <2> QED
    BY <1>1, SubsetInduction
<1> QED
  BY <1>2

\* A sum of which one member changes.
LEMMA TotalChanges ==
    ASSUME NEW f, NEW g, NEW S, IsFiniteSet(S), NEW x \in S,
           \A y \in S : f[y] \in Int /\ g[y] \in Int,
           \A y \in S \ {x} : f[y] = g[y]
    PROVE  Total(g, S) = Total(f, S) + (g[x] - f[x])
<1>1. IsFiniteSet(S \ {x})
  BY FS_Subset
<1>2. Total(f, S \ {x}) = Total(g, S \ {x}) /\ Total(f, S \ {x}) \in Int
  BY <1>1, TotalSame, TotalType
<1>3. Total(f, S) = f[x] + Total(f, S \ {x}) /\ Total(g, S) = g[x] + Total(g, S \ {x})
  BY TotalSplit
<1>4. \A m, n, r \in Int : n + r = (m + r) + (n - m)
  OBVIOUS
<1> QED
  BY <1>2, <1>3, <1>4

----------------------------------------------------------------------------
(***************************************************************************)
(* Balances and ledgers.                                                   *)
(***************************************************************************)

\* What the entries of ledger l add up to.
LedgerSum(l) == Total([i \in 1..Len(l) |-> Signed(l[i])], 1..Len(l))

LEMMA SignedIsInt ==
    ASSUME NEW e \in Entry
    PROVE  Signed(e) \in Int
  BY DEF Signed, Entry

LEMMA LedgerSumType ==
    ASSUME NEW l \in Seq(Entry)
    PROVE  LedgerSum(l) \in Int
<1> DEFINE S == 1..Len(l)
           f == [i \in S |-> Signed(l[i])]
<1>1. IsFiniteSet(S)
  BY FS_Interval
<1>2. \A i \in S : f[i] \in Int
  BY SignedIsInt
<1> HIDE DEF f, S
<1>3. Total(f, S) \in Int
  BY <1>1, <1>2, TotalType
<1> QED
  BY <1>3 DEF LedgerSum, f, S

\* An entry that is posted is added.
LEMMA LedgerSumGrows ==
    ASSUME NEW l \in Seq(Entry), NEW e \in Entry
    PROVE  LedgerSum(Append(l, e)) = LedgerSum(l) + Signed(e)
<1> DEFINE n == Len(l) + 1
           S == 1..Len(l)
           T == 1..n
           f == [i \in S |-> Signed(l[i])]
           g == [i \in T |-> Signed(Append(l, e)[i])]
<1>1. Len(l) \in Nat /\ Len(Append(l, e)) = n
  OBVIOUS
<1>2. /\ \A i \in T : Append(l, e)[i] = IF i = n THEN e ELSE l[i]
      /\ T \ {n} = S /\ n \in T
  BY <1>1
<1>3. \A i \in S : l[i] \in Entry
  OBVIOUS
<1>4. /\ \A i \in T : g[i] \in Int
      /\ \A i \in S : g[i] = f[i]
      /\ g[n] = Signed(e)
  BY <1>2, <1>3, SignedIsInt
<1>5. IsFiniteSet(S) /\ IsFiniteSet(T)
  BY <1>1, FS_Interval
<1>6. LedgerSum(Append(l, e)) = Total(g, T) /\ LedgerSum(l) = Total(f, S)
  BY <1>1 DEF LedgerSum
<1>7. Total(f, S) \in Int /\ Signed(e) \in Int
  BY <1>6, LedgerSumType, SignedIsInt
<1> HIDE DEF f, g, S, T, n
<1>8. Total(g, T) = g[n] + Total(g, T \ {n})
  BY <1>2, <1>4, <1>5, TotalSplit
<1>9. Total(g, S) = Total(f, S)
  BY <1>4, <1>5, TotalSame
<1>10. Total(g, T) = Signed(e) + Total(f, S)
  BY <1>2, <1>4, <1>8, <1>9
<1>11. Signed(e) + Total(f, S) = Total(f, S) + Signed(e)
  BY <1>7
<1> QED
  BY <1>6, <1>10, <1>11
=============================================================================
