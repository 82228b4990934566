--------------------------- MODULE AdminOpsProofs ---------------------------
(***************************************************************************)
(* Theorems about AdminOps, for any users, wallets, transactions, sessions *)
(* and rejections.                                                         *)
(*                                                                         *)
(* As in BankProofs, an operation that is possible stays possible while    *)
(* the documents it writes do not change.  Of an administrator's operation *)
(* this is true only because no transaction is about nothing: an approval  *)
(* or reversal of the amount 0 would check the balance of a wallet that it *)
(* does not write.                                                         *)
(***************************************************************************)
EXTENDS AdminOps, BankProofs, FiniteSetTheorems

Can(o) == Possible(o) \/ AdminPossible(o)

AmountsPositive == \A t \in Txs : db[t] # Absent => db[t].amount > 0

\* A transaction that exists keeps all but its status and its fee.
Keeps(o, t) ==
    /\ db[t] # Absent
    /\ o.writes[t].type = db[t].type
    /\ o.writes[t].to = db[t].to
    /\ o.writes[t].amount = db[t].amount

\* A new one is about an amount.
Makes(o, t) == db[t] = Absent /\ o.writes[t].amount > 0

\* o reverses a transaction, by r.
Reverses(o, r) ==
    \E t \in Txs :
        /\ db[t] # Absent /\ db[t].status = "completed"
        /\ db[r] = Absent
        /\ DOMAIN o.writes \cap Txs = {t, r}
        /\ o.writes[r].to = t
        /\ o.writes[t].status = "reversed"

GoodOp(o) ==
    /\ IsOp(o)
    /\ \A t \in Txs \cap DOMAIN o.writes :
          /\ Keeps(o, t) \/ Makes(o, t)
          /\ o.writes[t].type = "reversal" => Keeps(o, t) \/ Reverses(o, t)

\* o inserts no reversal.
Quiet(o) ==
    \A t \in Txs \cap DOMAIN o.writes : o.writes[t].type = "reversal" => Keeps(o, t)

----------------------------------------------------------------------------
\* Something is left of every amount after the tax.
LEMMA TaxIsNatural ==
    ASSUME NEW a \in Amounts
    PROVE  Tax(a) \in Nat /\ a - Tax(a) \in Nat /\ a - Tax(a) > 0
<1>1. a \in Nat /\ a > 0 /\ a % 100 = 0
  BY AmountAssumption
<1>2. (a + 250) \div 500 \in Nat /\ 500 * ((a + 250) \div 500) <= a + 250
  BY <1>1
<1>3. Tax(a) = 100 * ((a + 250) \div 500)
  BY DEF Tax
<1>4. a >= 100
  BY <1>1
<1> QED
  BY <1>1, <1>2, <1>3, <1>4

\* Well-formed rows and entries make an operation.
LEMMA RowsAreOp ==
    ASSUME NEW o, NEW D \in SUBSET Docs, NEW E \in SUBSET (Wallets \cap D), NEW f, NEW g,
           o = [writes |-> f, posts |-> g],
           f = [d \in D |-> f[d]],
           \A d \in D : /\ d \in Wallets => f[d] \in Wallet
                        /\ d \in Txs => f[d] \in Tx
                        /\ d \notin OtherDocs,
           g \in [E -> Entry]
    PROVE  /\ IsOp(o)
           /\ o # Absent
           /\ o.writes = f /\ DOMAIN o.writes = D
<1>1. o.writes = f /\ o.posts = g /\ DOMAIN f = D
  OBVIOUS
<1>2. \A d \in D : f[d] \in Wallet \cup Tx \cup OtherRows
  BY DEF Docs
<1>3. f \in [D -> Wallet \cup Tx \cup OtherRows]
  BY <1>2
<1>4. o \in Operation
  BY <1>3 DEF Operation
<1>5. IsOp(o)
  BY <1>1 DEF IsOp
<1> QED
  BY <1>1, <1>4, <1>5, OperationAssumption

\* The same of rows alone.
LEMMA NoPostsAreOp ==
    ASSUME NEW o, NEW D \in SUBSET Docs, NEW f,
           o = [writes |-> f, posts |-> NoPosts],
           f = [d \in D |-> f[d]],
           \A d \in D : /\ d \in Wallets => f[d] \in Wallet
                        /\ d \in Txs => f[d] \in Tx
                        /\ d \notin OtherDocs
    PROVE  /\ IsOp(o)
           /\ o # Absent
           /\ o.writes = f /\ DOMAIN o.writes = D
<1>1. o.writes = f /\ o.posts = NoPosts /\ DOMAIN f = D
  OBVIOUS
<1>2. \A d \in D : f[d] \in Wallet \cup Tx \cup OtherRows
  BY DEF Docs
<1>3. f \in [D -> Wallet \cup Tx \cup OtherRows]
  BY <1>2
<1>4. NoPosts \in [{} -> Entry] /\ {} \in SUBSET Wallets /\ DOMAIN NoPosts = {}
  BY DEF NoPosts
<1> HIDE DEF NoPosts
<1>5. o \in Operation
  BY <1>3, <1>4 DEF Operation
<1>6. IsOp(o)
  BY <1>1, <1>4 DEF IsOp
<1> QED
  BY <1>1, <1>5, <1>6, OperationAssumption

\* A transaction with another status is a transaction.
LEMMA WithStatusIsTx ==
    ASSUME BankTypeOK, NEW t \in Txs, db[t] # Absent, NEW st \in TxStatus
    PROVE  /\ WithStatus(t, st) \in Tx
           /\ WithStatus(t, st).type = db[t].type
           /\ WithStatus(t, st).to = db[t].to
           /\ WithStatus(t, st).amount = db[t].amount
           /\ WithStatus(t, st).status = st
           /\ db[t] \in Tx
           /\ db[t].wallet \in Wallets
           /\ db[t].amount \in Nat /\ db[t].fee \in Nat
           /\ db[t].type \in TxType
<1>1. db[t] \in Tx
  BY DEF BankTypeOK
<1> QED
  BY <1>1 DEF WithStatus, Tx

----------------------------------------------------------------------------
(***************************************************************************)
(* Each operation writes well-formed rows and all the documents it reads.  *)
(***************************************************************************)
LEMMA ApproveIsGood ==
    ASSUME BankTypeOK, AmountsPositive, NEW t \in Txs, CanApprove(t)
    PROVE  /\ GoodOp(ApproveOp(t)) /\ Quiet(ApproveOp(t)) /\ ApproveOp(t) # Absent
           /\ t \in DOMAIN ApproveOp(t).writes
           /\ db[t].type \in {"withdrawal", "deposit"} =>
                 db[t].wallet \in DOMAIN ApproveOp(t).writes
<1> DEFINE w == db[t].wallet
           n == CASE db[t].type = "withdrawal" -> -db[t].amount
                  [] db[t].type = "deposit" -> db[t].amount
                  [] OTHER -> 0
           D == {t} \cup (IF n = 0 THEN {} ELSE {w})
           f == [d \in D |-> IF d = t THEN WithStatus(t, "completed") ELSE Moved(w, n)]
           o == ApproveOp(t)
<1>1. db[t] # Absent /\ "completed" \in TxStatus /\ db[t].amount > 0
  BY DEF CanApprove, TxStatus, AmountsPositive
<1>2. /\ WithStatus(t, "completed") \in Tx
      /\ WithStatus(t, "completed").type = db[t].type
      /\ WithStatus(t, "completed").to = db[t].to
      /\ WithStatus(t, "completed").amount = db[t].amount
      /\ w \in Wallets /\ db[t].amount \in Nat
  BY <1>1, WithStatusIsTx
<1>3. n \in Int
  BY <1>2
<1>4. Moved(w, n) \in Wallet
  BY <1>2, <1>3, MovedIsWallet
<1>5. o = [writes |-> f, posts |-> NoPosts]
  BY DEF ApproveOp
<1>6. D \in SUBSET Docs /\ t \in D
  BY <1>2 DEF Docs
<1>7. db[t].type \in {"withdrawal", "deposit"} => w \in D
  BY <1>1, <1>2
<1>8. \A d \in D : d = t \/ d = w
  OBVIOUS
<1> HIDE DEF n, D, o, w
<1>9. \A d \in D : /\ d \in Wallets => f[d] \in Wallet
                   /\ d \in Txs => f[d] \in Tx
                   /\ d \notin OtherDocs
  BY <1>2, <1>4, <1>8, DocsDisjoint
<1>10. f = [d \in D |-> f[d]]
  OBVIOUS
<1>11. f[t] = WithStatus(t, "completed")
  BY <1>6
<1>12. \A d \in D \cap Txs : d = t
  BY <1>2, <1>8, DocsDisjoint
<1> HIDE DEF f
<1>13. IsOp(o) /\ o # Absent /\ o.writes = f /\ DOMAIN o.writes = D
  BY <1>5, <1>6, <1>9, <1>10, NoPostsAreOp
<1>14. \A d \in Txs \cap DOMAIN o.writes : Keeps(o, d)
  BY <1>1, <1>2, <1>11, <1>12, <1>13 DEF Keeps
<1>15. GoodOp(o) /\ Quiet(o)
  BY <1>13, <1>14 DEF GoodOp, Quiet
<1> QED
  BY <1>6, <1>7, <1>13, <1>15 DEF o, w

LEMMA ReverseIsGood ==
    ASSUME BankTypeOK, AmountsPositive, NEW t \in Txs, NEW r \in Txs, db[t] # Absent,
           NEW n \in ReverseAmounts(t), CanReverse(t, r, n)
    PROVE  /\ GoodOp(ReverseOp(t, r, n)) /\ ReverseOp(t, r, n) # Absent
           /\ {t, r} \subseteq DOMAIN ReverseOp(t, r, n).writes
           /\ ReverseOp(t, r, n).writes[r].to = t
           /\ \A d \in Txs \cap DOMAIN ReverseOp(t, r, n).writes : d = t \/ d = r
           /\ db[t].type # "reversal" =>
                 db[t].wallet \in DOMAIN ReverseOp(t, r, n).writes
<1> DEFINE w == db[t].wallet
           m == CASE db[t].type \in {"withdrawal", "transfer"} -> n
                  [] db[t].type = "deposit" -> -n
                  [] OTHER -> 0
           D == {t, r} \cup (IF m = 0 THEN {} ELSE {w})
           row == TxRow("reversal", "completed", w, t, n, 0)
           f == [d \in D |-> IF d = t THEN WithStatus(t, "reversed")
                             ELSE IF d = r THEN row
                             ELSE Moved(w, m)]
           o == ReverseOp(t, r, n)
<1>1. /\ db[r] = Absent /\ db[t].status = "completed" /\ t # r
      /\ "reversed" \in TxStatus /\ db[t].amount > 0
  BY DEF CanReverse, TxStatus, AmountsPositive
<1>2. /\ WithStatus(t, "reversed") \in Tx
      /\ WithStatus(t, "reversed").type = db[t].type
      /\ WithStatus(t, "reversed").to = db[t].to
      /\ WithStatus(t, "reversed").amount = db[t].amount
      /\ WithStatus(t, "reversed").status = "reversed"
      /\ w \in Wallets /\ db[t].amount \in Nat /\ db[t].type \in TxType
  BY <1>1, WithStatusIsTx
<1>3. n \in Nat /\ n > 0
  BY <1>1, <1>2, AmountAssumption DEF ReverseAmounts
<1>4. m \in Int
  BY <1>3
<1>5. Moved(w, m) \in Wallet
  BY <1>2, <1>4, MovedIsWallet
<1>6. row \in Tx /\ row.to = t /\ row.amount = n
  BY <1>2, <1>3 DEF TxRow, Tx, TxType, TxStatus
<1>7. o = [writes |-> f, posts |-> NoPosts]
  BY DEF ReverseOp
<1>8. D \in SUBSET Docs /\ t \in D /\ r \in D
  BY <1>2 DEF Docs
<1>9. db[t].type # "reversal" => w \in D
  BY <1>2, <1>3 DEF TxType
<1>10. \A d \in D : d = t \/ d = r \/ d = w
  OBVIOUS
<1> HIDE DEF m, D, o, w, row
<1>11. \A d \in D : /\ d \in Wallets => f[d] \in Wallet
                    /\ d \in Txs => f[d] \in Tx
                    /\ d \notin OtherDocs
  BY <1>2, <1>5, <1>6, <1>10, DocsDisjoint
<1>12. f = [d \in D |-> f[d]]
  OBVIOUS
<1>13. f[t] = WithStatus(t, "reversed") /\ f[r] = row
  BY <1>1, <1>8
<1>14. D \cap Txs = {t, r}
  BY <1>2, <1>8, <1>10, DocsDisjoint
<1> HIDE DEF f
<1>15. IsOp(o) /\ o # Absent /\ o.writes = f /\ DOMAIN o.writes = D
  BY <1>7, <1>8, <1>11, <1>12, NoPostsAreOp
<1>16. Keeps(o, t)
  BY <1>1, <1>2, <1>13, <1>15 DEF Keeps
<1>17. Makes(o, r)
  BY <1>1, <1>3, <1>6, <1>13, <1>15 DEF Makes
<1>18. Reverses(o, r)
  BY <1>1, <1>2, <1>6, <1>13, <1>14, <1>15 DEF Reverses
<1>19. \A d \in Txs \cap DOMAIN o.writes : d = t \/ d = r
  BY <1>14, <1>15
<1>20. GoodOp(o)
  BY <1>15, <1>16, <1>17, <1>18, <1>19 DEF GoodOp
<1> QED
  BY <1>6, <1>8, <1>9, <1>13, <1>15, <1>19, <1>20 DEF o, w

LEMMA UpdateStatusIsGood ==
    ASSUME BankTypeOK, NEW t \in Txs, NEW st \in NewStatus, db[t] # Absent
    PROVE  /\ GoodOp(UpdateStatusOp(t, st)) /\ Quiet(UpdateStatusOp(t, st))
           /\ t \in DOMAIN UpdateStatusOp(t, st).writes
           /\ st \in {"failed", "reversed"} =>
                 db[t].wallet \in DOMAIN UpdateStatusOp(t, st).writes
<1> DEFINE w == db[t].wallet
           refund == st \in {"failed", "reversed"}
           D == {t} \cup (IF refund THEN {w} ELSE {})
           row == Moved(w, db[t].amount + db[t].fee)
           f == [d \in D |-> IF d = t THEN WithStatus(t, st) ELSE row]
           o == UpdateStatusOp(t, st)
<1>1. st \in TxStatus
  BY NewStatusAssumption
<1>2. /\ WithStatus(t, st) \in Tx
      /\ WithStatus(t, st).type = db[t].type
      /\ WithStatus(t, st).to = db[t].to
      /\ WithStatus(t, st).amount = db[t].amount
      /\ w \in Wallets /\ db[t].amount \in Nat /\ db[t].fee \in Nat
  BY <1>1, WithStatusIsTx
<1>3. row \in Wallet
  BY <1>2, MovedIsWallet
<1>4. o = [writes |-> f, posts |-> NoPosts]
  BY DEF UpdateStatusOp
<1>5. D \in SUBSET Docs /\ t \in D /\ (refund => w \in D)
  BY <1>2 DEF Docs
<1>6. \A d \in D : d = t \/ d = w
  OBVIOUS
<1> HIDE DEF D, o, w, row
<1>7. \A d \in D : /\ d \in Wallets => f[d] \in Wallet
                   /\ d \in Txs => f[d] \in Tx
                   /\ d \notin OtherDocs
  BY <1>2, <1>3, <1>6, DocsDisjoint
<1>8. f = [d \in D |-> f[d]]
  OBVIOUS
<1>9. f[t] = WithStatus(t, st)
  BY <1>5
<1>10. \A d \in D \cap Txs : d = t
  BY <1>2, <1>6, DocsDisjoint
<1> HIDE DEF f
<1>11. IsOp(o) /\ o.writes = f /\ DOMAIN o.writes = D
  BY <1>4, <1>5, <1>7, <1>8, NoPostsAreOp
<1>12. \A d \in Txs \cap DOMAIN o.writes : Keeps(o, d)
  BY <1>2, <1>9, <1>10, <1>11 DEF Keeps
<1>13. GoodOp(o) /\ Quiet(o)
  BY <1>11, <1>12 DEF GoodOp, Quiet
<1> QED
  BY <1>5, <1>11, <1>13 DEF o, w

\* What a credit, a debit and an item of a bulk credit have in common: they
\* insert a completed transaction about one wallet, with or without an entry.
LEMMA OneWalletIsGood ==
    ASSUME BankTypeOK, NEW w \in Wallets, NEW t \in Txs, db[t] = Absent,
           NEW n \in Int, NEW row \in Tx, row.amount > 0, row.type # "reversal",
           NEW f, f = [d \in {w, t} |-> IF d = w THEN Moved(w, n) ELSE row],
           NEW g, g = NoPosts \/ g \in [{w} -> Entry],
           NEW o, o = [writes |-> f, posts |-> g]
    PROVE  GoodOp(o) /\ Quiet(o) /\ o # Absent /\ DOMAIN o.writes = {w, t}
<1> DEFINE D == {w, t}
<1>1. w # t /\ D \in SUBSET Docs /\ {w} \in SUBSET (Wallets \cap D)
  BY DocsDisjoint DEF Docs
<1>2. Moved(w, n) \in Wallet
  BY MovedIsWallet
<1>3. \A d \in D : /\ d \in Wallets => f[d] \in Wallet
                   /\ d \in Txs => f[d] \in Tx
                   /\ d \notin OtherDocs
  BY <1>2, DocsDisjoint
<1>4. f = [d \in D |-> f[d]] /\ f[t] = row
  BY <1>1
<1>5. \A d \in D \cap Txs : d = t
  BY DocsDisjoint
<1> HIDE DEF D
<1>6. IsOp(o) /\ o # Absent /\ o.writes = f /\ DOMAIN o.writes = D
  <2>1. CASE g = NoPosts
    BY <1>1, <1>3, <1>4, <2>1, NoPostsAreOp
  <2>2. CASE g \in [{w} -> Entry]
    <3> DEFINE E == {w}
    <3>1. E \in SUBSET (Wallets \cap D) /\ g \in [E -> Entry]
      BY <1>1, <2>2
    <3> HIDE DEF E
    <3> QED
      BY <1>1, <1>3, <1>4, <3>1, RowsAreOp
  <2> QED
    BY <2>1, <2>2
<1>7. \A d \in Txs \cap DOMAIN o.writes : Makes(o, d) /\ o.writes[d].type # "reversal"
  BY <1>4, <1>5, <1>6 DEF Makes
<1> QED
  BY <1>6, <1>7 DEF GoodOp, Quiet, D

LEMMA CreditIsGood ==
    ASSUME BankTypeOK, NEW w \in Wallets, NEW a \in Amounts, NEW t \in Txs, db[t] = Absent
    PROVE  /\ GoodOp(CreditOp(w, a, t)) /\ Quiet(CreditOp(w, a, t)) /\ CreditOp(w, a, t) # Absent
           /\ DOMAIN CreditOp(w, a, t).writes = {w, t}
<1> DEFINE net == a - Tax(a)
           row == TxRow("deposit", "completed", w, Absent, net, Tax(a))
           e == Posting(w, t, "credit", net)
           f == [d \in {w, t} |-> IF d = w THEN Moved(w, net) ELSE row]
           g == [y \in {w} |-> e]
           o == CreditOp(w, a, t)
<1>1. net \in Nat /\ net > 0 /\ net \in Int /\ Tax(a) \in Nat
  BY TaxIsNatural
<1>2. row \in Tx /\ row.amount > 0 /\ row.type # "reversal"
  BY <1>1 DEF TxRow, Tx, TxType, TxStatus
<1>3. e \in Entry /\ g \in [{w} -> Entry]
  BY <1>1, PostingIsEntry
<1>4. o = [writes |-> f, posts |-> g]
  BY DEF CreditOp
<1>5. f = [d \in {w, t} |-> IF d = w THEN Moved(w, net) ELSE row]
  OBVIOUS
<1> HIDE DEF net, row, e, f, g, o
<1>6. GoodOp(o) /\ Quiet(o) /\ o # Absent /\ DOMAIN o.writes = {w, t}
  BY <1>1, <1>2, <1>3, <1>4, <1>5, OneWalletIsGood
<1> QED
  BY <1>6 DEF o

LEMMA DebitIsGood ==
    ASSUME BankTypeOK, NEW w \in Wallets, NEW a \in Amounts, NEW t \in Txs, db[t] = Absent
    PROVE  /\ GoodOp(DebitOp(w, a, t)) /\ Quiet(DebitOp(w, a, t)) /\ DebitOp(w, a, t) # Absent
           /\ DOMAIN DebitOp(w, a, t).writes = {w, t}
<1> DEFINE row == TxRow("withdrawal", "completed", w, Absent, a, 0)
           e == Posting(w, t, "debit", a)
           n == -a
           f == [d \in {w, t} |-> IF d = w THEN Moved(w, n) ELSE row]
           g == [y \in {w} |-> e]
           o == DebitOp(w, a, t)
<1>1. a \in Nat /\ a > 0 /\ n \in Int
  BY AmountAssumption
<1>2. row \in Tx /\ row.amount > 0 /\ row.type # "reversal"
  BY <1>1 DEF TxRow, Tx, TxType, TxStatus
<1>3. e \in Entry /\ g \in [{w} -> Entry]
  BY <1>1, PostingIsEntry
<1>4. o = [writes |-> f, posts |-> g]
  BY DEF DebitOp
<1>5. f = [d \in {w, t} |-> IF d = w THEN Moved(w, n) ELSE row]
  OBVIOUS
<1> HIDE DEF n, row, e, f, g, o
<1>6. GoodOp(o) /\ Quiet(o) /\ o # Absent /\ DOMAIN o.writes = {w, t}
  BY <1>1, <1>2, <1>3, <1>4, <1>5, OneWalletIsGood
<1> QED
  BY <1>6 DEF o

LEMMA BulkCreditIsGood ==
    ASSUME BankTypeOK, NEW w \in Wallets, NEW a \in Amounts, NEW t \in Txs, db[t] = Absent
    PROVE  /\ GoodOp(BulkCreditOp(w, a, t)) /\ Quiet(BulkCreditOp(w, a, t))
           /\ DOMAIN BulkCreditOp(w, a, t).writes = {w, t}
<1> DEFINE row == TxRow("deposit", "completed", w, Absent, a, 0)
           n == a
           f == [d \in {w, t} |-> IF d = w THEN Moved(w, n) ELSE row]
           g == NoPosts
           o == BulkCreditOp(w, a, t)
<1>1. a \in Nat /\ a > 0 /\ n \in Int
  BY AmountAssumption
<1>2. row \in Tx /\ row.amount > 0 /\ row.type # "reversal"
  BY <1>1 DEF TxRow, Tx, TxType, TxStatus
<1>3. o = [writes |-> f, posts |-> g]
  BY DEF BulkCreditOp
<1>4. f = [d \in {w, t} |-> IF d = w THEN Moved(w, n) ELSE row] /\ (g = NoPosts \/ g \in [{w} -> Entry])
  OBVIOUS
<1> HIDE DEF row, f, g, n, o
<1>5. GoodOp(o) /\ Quiet(o) /\ o # Absent /\ DOMAIN o.writes = {w, t}
  BY <1>1, <1>2, <1>3, <1>4, OneWalletIsGood
<1> QED
  BY <1>5 DEF o

LEMMA AdminTransferIsGood ==
    ASSUME BankTypeOK, NEW w \in Wallets, NEW x \in Wallets, NEW a \in Amounts,
           NEW t \in Txs, NEW r \in Txs, db[t] = Absent, db[r] = Absent
    PROVE  /\ GoodOp(AdminTransferOp(w, x, a, t, r)) /\ Quiet(AdminTransferOp(w, x, a, t, r))
           /\ AdminTransferOp(w, x, a, t, r) # Absent
           /\ DOMAIN AdminTransferOp(w, x, a, t, r).writes = {w, x, t, r}
<1> DEFINE D == {w, x, t, r}
           sent == TxRow("transfer", "completed", w, x, a, 0)
           received == TxRow("deposit", "completed", x, Absent, a, 0)
           f == [d \in D |-> IF d = w THEN Moved(w, -a)
                             ELSE IF d = x THEN Moved(x, a)
                             ELSE IF d = t THEN sent
                             ELSE received]
           o == AdminTransferOp(w, x, a, t, r)
<1>1. a \in Nat /\ a > 0 /\ a \in Int /\ -a \in Int
  BY AmountAssumption
<1>2. /\ sent \in Tx /\ sent.amount > 0 /\ sent.type # "reversal"
      /\ received \in Tx /\ received.amount > 0 /\ received.type # "reversal"
  BY <1>1 DEF TxRow, Tx, TxType, TxStatus
<1>3. Moved(w, -a) \in Wallet /\ Moved(x, a) \in Wallet
  BY <1>1, MovedIsWallet
<1>4. o = [writes |-> f, posts |-> NoPosts]
  BY DEF AdminTransferOp
<1>5. D \in SUBSET Docs
  BY DEF Docs
<1> HIDE DEF o, sent, received
<1>6. \A d \in D : d \in Txs => f[d] \in {sent, received}
  BY DocsDisjoint
<1>7. \A d \in D : d \in Wallets => f[d] \in Wallet
  BY <1>3, DocsDisjoint
<1>8. f = [d \in D |-> f[d]]
  OBVIOUS
<1> HIDE DEF f
<1>9. \A d \in D : /\ d \in Wallets => f[d] \in Wallet
                   /\ d \in Txs => f[d] \in Tx
                   /\ d \notin OtherDocs
  BY <1>2, <1>6, <1>7, DocsDisjoint
<1> HIDE DEF D
<1>10. IsOp(o) /\ o # Absent /\ o.writes = f /\ DOMAIN o.writes = D
  BY <1>4, <1>5, <1>8, <1>9, NoPostsAreOp
<1>11. \A d \in Txs \cap D : d = t \/ d = r
  BY DocsDisjoint DEF D
<1>12. \A d \in Txs \cap DOMAIN o.writes : Makes(o, d) /\ o.writes[d].type # "reversal"
  BY <1>2, <1>6, <1>10, <1>11 DEF Makes
<1> QED
  BY <1>10, <1>12 DEF GoodOp, Quiet, o, D

\* The operations of the users.
LEMMA PossibleIsGood ==
    ASSUME BankTypeOK, NEW o, Possible(o)
    PROVE  GoodOp(o) /\ Quiet(o)
<1>0. IsOp(o)
  BY PossibleIsOp
<1>1. ASSUME NEW w \in Wallets, NEW x \in Wallets, NEW a \in Amounts, NEW t \in Txs,
             CanTransfer(w, x, a, t), o = TransferOp(w, x, a, t)
      PROVE  GoodOp(o) /\ Quiet(o)
  <2>1. \A d \in Txs \cap DOMAIN o.writes : d = t
    BY <1>1, TransferIsOp, DocsDisjoint
  <2>2. t # w /\ t # x /\ a > 0
    BY DocsDisjoint, AmountAssumption
  <2>3. t \in DOMAIN o.writes => o.writes[t].type = "transfer" /\ o.writes[t].amount = a
    BY <1>1, <2>2 DEF TransferOp
  <2> QED
    BY <1>0, <1>1, <2>1, <2>2, <2>3 DEF GoodOp, Quiet, Makes, CanTransfer
<1>2. ASSUME NEW w \in Wallets, NEW a \in Amounts, NEW t \in Txs,
             CanDeposit(w, t), o = DepositOp(w, a, t)
      PROVE  GoodOp(o) /\ Quiet(o)
  <2>1. \A d \in Txs \cap DOMAIN o.writes : d = t
    BY <1>2, DepositIsOp, DocsDisjoint
  <2>2. t # w /\ a > 0
    BY DocsDisjoint, AmountAssumption
  <2>3. t \in DOMAIN o.writes => o.writes[t].type = "deposit" /\ o.writes[t].amount = a
    BY <1>2, <2>2 DEF DepositOp
  <2> QED
    BY <1>0, <1>2, <2>1, <2>2, <2>3 DEF GoodOp, Quiet, Makes, CanDeposit
<1>3. ASSUME NEW w \in Wallets, NEW a \in Amounts, NEW t \in Txs,
             CanWithdraw(w, a, t), o = WithdrawOp(w, a, t)
      PROVE  GoodOp(o) /\ Quiet(o)
  <2>1. \A d \in Txs \cap DOMAIN o.writes : d = t
    BY <1>3, WithdrawIsOp, DocsDisjoint
  <2>2. t # w /\ a > 0
    BY DocsDisjoint, AmountAssumption
  <2>3. t \in DOMAIN o.writes => o.writes[t].type = "withdrawal" /\ o.writes[t].amount = a
    BY <1>3, <2>2 DEF WithdrawOp
  <2> QED
    BY <1>0, <1>3, <2>1, <2>2, <2>3 DEF GoodOp, Quiet, Makes, CanWithdraw
<1>4. ASSUME NEW t \in Txs, CanCancel(t), o = CancelOp(t)
      PROVE  GoodOp(o) /\ Quiet(o)
  <2>1. \A d \in Txs \cap DOMAIN o.writes : d = t
    BY <1>4, CancelIsOp, DocsDisjoint
  <2>2. t # db[t].wallet /\ db[t] \in Tx
    BY <1>4, CancelIsOp, DocsDisjoint DEF CanCancel, BankTypeOK
  <2>3. t \in DOMAIN o.writes => o.writes[t] = [db[t] EXCEPT !.status = "cancelled"]
    BY <1>4, <2>2 DEF CancelOp
  <2>4. t \in DOMAIN o.writes => Keeps(o, t)
    BY <1>4, <2>2, <2>3 DEF Keeps, CanCancel, Tx
  <2> QED
    BY <1>0, <2>1, <2>4 DEF GoodOp, Quiet
<1> QED
  BY <1>1, <1>2, <1>3, <1>4 DEF Possible

LEMMA CanIsGood ==
    ASSUME BankTypeOK, AmountsPositive, NEW o, Can(o)
    PROVE  GoodOp(o)
<1>1. ASSUME NEW t \in Txs, CanApprove(t), o = ApproveOp(t) PROVE GoodOp(o)
  BY <1>1, ApproveIsGood
<1>2. ASSUME NEW t \in Txs, NEW r \in Txs, db[t] # Absent, NEW n \in ReverseAmounts(t),
             CanReverse(t, r, n), o = ReverseOp(t, r, n)
      PROVE  GoodOp(o)
  BY <1>2, ReverseIsGood
<1>3. ASSUME NEW t \in Txs, NEW st \in NewStatus, db[t] # Absent, o = UpdateStatusOp(t, st)
      PROVE  GoodOp(o)
  BY <1>3, UpdateStatusIsGood
<1>4. ASSUME NEW w \in Wallets, NEW a \in Amounts, NEW t \in Txs, db[t] = Absent,
             \/ o \in {CreditOp(w, a, t), BulkCreditOp(w, a, t)}
             \/ o = DebitOp(w, a, t)
      PROVE  GoodOp(o)
  BY <1>4, CreditIsGood, BulkCreditIsGood, DebitIsGood
<1>5. ASSUME NEW w \in Wallets, NEW x \in Wallets, NEW a \in Amounts,
             NEW t \in Txs, NEW r \in Txs, {db[t], db[r]} = {Absent},
             o = AdminTransferOp(w, x, a, t, r)
      PROVE  GoodOp(o)
  <2>1. db[t] = Absent /\ db[r] = Absent
    BY <1>5
  <2> QED
    BY <1>5, <2>1, AdminTransferIsGood
<1>6. CASE AdminPossible(o)
  BY <1>1, <1>2, <1>3, <1>4, <1>5, <1>6 DEF AdminPossible
<1> QED
  BY <1>6, PossibleIsGood DEF Can

----------------------------------------------------------------------------
\* What an administrator can do stays possible, with the same writes, while
\* the documents it writes do not change.
LEMMA AdminFrame ==
    ASSUME BankTypeOK, AmountsPositive, NEW o, AdminPossible(o),
           \A d \in DOMAIN o.writes : db'[d] = db[d]
    PROVE  AdminPossible(o)'
<1>1. ASSUME NEW t \in Txs, CanApprove(t), o = ApproveOp(t)
      PROVE  AdminPossible(o)'
  <2>1. /\ db'[t] = db[t]
        /\ db[t].type \in {"withdrawal", "deposit"} => db'[db[t].wallet] = db[db[t].wallet]
    BY <1>1, ApproveIsGood
  <2>2. CanApprove(t)'
    BY <1>1, <2>1 DEF CanApprove, Bal
  <2>3. o = ApproveOp(t)'
    <3>1. CASE db[t].type \in {"withdrawal", "deposit"}
      BY <1>1, <2>1, <3>1 DEF ApproveOp, WithStatus, Moved, Bal
    <3>2. CASE db[t].type \notin {"withdrawal", "deposit"}
      BY <1>1, <2>1, <3>2 DEF ApproveOp, WithStatus
    <3> QED
      BY <3>1, <3>2
  <2> QED
    BY <2>2, <2>3 DEF AdminPossible
<1>2. ASSUME NEW t \in Txs, NEW r \in Txs, db[t] # Absent, NEW n \in ReverseAmounts(t),
             CanReverse(t, r, n), o = ReverseOp(t, r, n)
      PROVE  AdminPossible(o)'
  <2>1. /\ db'[t] = db[t] /\ db'[r] = db[r]
        /\ db[t].type # "reversal" => db'[db[t].wallet] = db[db[t].wallet]
    BY <1>2, ReverseIsGood
  <2>2. CanReverse(t, r, n)' /\ db'[t] # Absent /\ n \in ReverseAmounts(t)'
    BY <1>2, <2>1 DEF CanReverse, Bal, ReverseAmounts
  <2>3. o = ReverseOp(t, r, n)'
    <3>1. CASE db[t].type # "reversal"
      BY <1>2, <2>1, <3>1 DEF ReverseOp, WithStatus, Moved, Bal, TxRow
    <3>2. CASE db[t].type = "reversal"
      BY <1>2, <2>1, <3>2 DEF ReverseOp, WithStatus, TxRow
    <3> QED
      BY <3>1, <3>2
  <2> QED
    BY <2>2, <2>3 DEF AdminPossible
<1>3. ASSUME NEW t \in Txs, NEW st \in NewStatus, db[t] # Absent, o = UpdateStatusOp(t, st)
      PROVE  AdminPossible(o)'
  <2>1. /\ db'[t] = db[t]
        /\ st \in {"failed", "reversed"} => db'[db[t].wallet] = db[db[t].wallet]
    BY <1>3, UpdateStatusIsGood
  <2>2. o = UpdateStatusOp(t, st)'
    <3>1. CASE st \in {"failed", "reversed"}
      BY <1>3, <2>1, <3>1 DEF UpdateStatusOp, WithStatus, Moved, Bal
    <3>2. CASE st \notin {"failed", "reversed"}
      BY <1>3, <2>1, <3>2 DEF UpdateStatusOp, WithStatus
    <3> QED
      BY <3>1, <3>2
  <2> QED
    BY <1>3, <2>1, <2>2 DEF AdminPossible
<1>4. ASSUME NEW w \in Wallets, NEW a \in Amounts, NEW t \in Txs, db[t] = Absent,
             \/ CanDeposit(w, t) /\ o \in {CreditOp(w, a, t), BulkCreditOp(w, a, t)}
             \/ Active(w) /\ o = DebitOp(w, a, t)
      PROVE  AdminPossible(o)'
  <2>1. db'[w] = db[w] /\ db'[t] = db[t]
    BY <1>4, CreditIsGood, BulkCreditIsGood, DebitIsGood
  <2>2. (CanDeposit(w, t) => CanDeposit(w, t)') /\ (Active(w) => Active(w)')
    BY <2>1 DEF CanDeposit, Active
  <2>3. /\ CreditOp(w, a, t)' = CreditOp(w, a, t)
        /\ BulkCreditOp(w, a, t)' = BulkCreditOp(w, a, t)
        /\ DebitOp(w, a, t)' = DebitOp(w, a, t)
    BY <2>1 DEF CreditOp, BulkCreditOp, DebitOp, Moved, Posting, Bal, TxRow, Tax
  <2> QED
    BY <1>4, <2>1, <2>2, <2>3 DEF AdminPossible
<1>5. ASSUME NEW w \in Wallets, NEW x \in Wallets, NEW a \in Amounts,
             NEW t \in Txs, NEW r \in Txs,
             Active(w), Active(x), Bal(w) >= a, {db[t], db[r]} = {Absent},
             o = AdminTransferOp(w, x, a, t, r)
      PROVE  AdminPossible(o)'
  <2>1. db[t] = Absent /\ db[r] = Absent
    BY <1>5
  <2>2. db'[w] = db[w] /\ db'[x] = db[x] /\ db'[t] = db[t] /\ db'[r] = db[r]
    BY <1>5, <2>1, AdminTransferIsGood
  <2>3. Active(w)' /\ Active(x)' /\ (Bal(w) >= a)' /\ {db'[t], db'[r]} = {Absent}
    BY <1>5, <2>2 DEF Active, Bal
  <2>4. o = AdminTransferOp(w, x, a, t, r)'
    BY <1>5, <2>2 DEF AdminTransferOp, Moved, Bal, TxRow
  <2> QED
    BY <2>3, <2>4 DEF AdminPossible
<1> QED
  BY <1>1, <1>2, <1>3, <1>4, <1>5 DEF AdminPossible

LEMMA CanStays ==
    ASSUME BankTypeOK, AmountsPositive, NEW o, Can(o),
           \A d \in DOMAIN o.writes : db'[d] = db[d]
    PROVE  Can(o)'
  BY Frame, AdminFrame DEF Can

----------------------------------------------------------------------------
(***************************************************************************)
(* The documents and the sessions.                                         *)
(***************************************************************************)
Core == TypeOK /\ AdminOpsStillPossible /\ AmountsPositive

LEMMA CoreStillCan ==
    ASSUME BankTypeOK, AmountsPositive, NEW r \in Sessions, Can(op'[r]),
           \A d \in DOMAIN op'[r].writes : db'[d] = db[d]
    PROVE  Can(op[r])'
<1>1. PICK o : o = op'[r]
  OBVIOUS
<1>2. Can(o)'
  BY <1>1, CanStays
<1> QED
  BY <1>1, <1>2 DEF Can, Possible, AdminPossible

\* Starting an operation that is possible.
LEMMA CoreBegin ==
    ASSUME Core, NEW s \in Sessions, NEW o, Can(o), Begin(s, o)
    PROVE  /\ Core'
           /\ s \notin Open /\ Open' \subseteq Open \cup {s} /\ op'[s] = o
           /\ o # Absent => Open' = Open \cup {s}
           /\ \A r \in Sessions \ {s} : op'[r] = op[r]
<1>1. BankTypeOK' /\ AmountsPositive' /\ db' = db
  BY DEF Core, AmountsPositive, TypeOK, BankTypeOK, Begin
<1>2. s \notin Open /\ s \notin doomed
  BY DEF Core, TypeOK, Begin, Open
<1>3. IsOp(o)
  BY CanIsGood DEF Core, TypeOK, GoodOp
<1>4. Open \subseteq Open' /\ Open' \subseteq Open \cup {s} /\ (o # Absent => s \in Open')
  BY <1>2 DEF Begin, Open, Core, TypeOK
<1>5. \A r \in Open' : IsOp(op'[r])
  BY <1>2, <1>3, <1>4 DEF Begin, Core, TypeOK, Open
<1>6. op'[s] = o /\ \A r \in Sessions \ {s} : op'[r] = op[r]
  BY DEF Begin, Core, TypeOK
<1>7. ASSUME NEW r \in Open' \ doomed'
      PROVE  Can(op[r])'
  <2>1. r \in Sessions
    BY DEF Open
  <2>2. Can(op'[r])
    <3>1. CASE r = s
      BY <1>6, <3>1
    <3>2. CASE r # s
      BY <1>4, <3>2 DEF Begin, Core, TypeOK, AdminOpsStillPossible, Can
    <3> QED
      BY <3>1, <3>2
  <2> QED
    BY <1>1, <2>1, <2>2, CoreStillCan DEF Core, TypeOK
<1>8. doomed' \subseteq Open' /\ DOMAIN op' = Sessions
  BY <1>4 DEF Core, TypeOK, Begin
<1>9. AdminOpsStillPossible'
  BY <1>7 DEF AdminOpsStillPossible, Can
<1>10. TypeOK'
  BY <1>1, <1>5, <1>8 DEF TypeOK, IsOp
<1> QED
  BY <1>1, <1>2, <1>4, <1>6, <1>9, <1>10 DEF Core

\* When the documents of D change, the sessions that write none of them stay
\* in play.
LEMMA CoreDooming ==
    ASSUME Core, NEW D, BankTypeOK', AmountsPositive',
           \A d \in Docs \ D : db'[d] = db[d],
           NEW S \in SUBSET Sessions,
           DOMAIN op' = Sessions,
           Open' = Open \ S,
           \A r \in Open' : op'[r] = op[r],
           doomed' = (doomed \cup Writers(D)) \ S
    PROVE  Core'
<1>1. \A r \in Open' : IsOp(op'[r])
  BY DEF Core, TypeOK
<1>2. doomed' \subseteq Open'
  BY DEF Core, TypeOK, Writers
<1>3. ASSUME NEW r \in Open' \ doomed'
      PROVE  Can(op[r])'
  <2>1. r \in Sessions /\ r \in Open /\ r \notin doomed /\ r \notin Writers(D) /\ op'[r] = op[r]
    BY DEF Open
  <2>2. \A d \in DOMAIN op'[r].writes : db'[d] = db[d]
    BY <2>1 DEF Writers, Core, TypeOK, IsOp
  <2>3. Can(op'[r])
    BY <2>1 DEF Core, AdminOpsStillPossible, Can
  <2> QED
    BY <2>1, <2>2, <2>3, CoreStillCan DEF Core, TypeOK
<1>4. AdminOpsStillPossible'
  BY <1>3 DEF AdminOpsStillPossible, Can
<1>5. TypeOK'
  BY <1>1, <1>2 DEF TypeOK, IsOp
<1> QED
  BY <1>4, <1>5 DEF Core

\* No step takes a transaction away or changes what it is about.
TxsEndure ==
    \A t \in Txs :
        db[t] # Absent => /\ db'[t] # Absent
                          /\ db'[t].type = db[t].type
                          /\ db'[t].to = db[t].to
                          /\ db'[t].amount = db[t].amount

LEMMA CoreCommit ==
    ASSUME Core, NEW s \in Sessions, Commit(s)
    PROVE  /\ Core' /\ TxsEndure
           /\ s \in Open /\ Can(op[s]) /\ GoodOp(op[s])
           /\ Open' = Open \ {s}
           /\ \A r \in Open' : op'[r] = op[r]
           /\ \A d \in Docs : db'[d] = IF d \in DOMAIN op[s].writes THEN op[s].writes[d]
                                       ELSE db[d]
<1>1. s \in Open /\ s \notin doomed /\ Can(op[s])
  BY DEF Commit, Open, Core, AdminOpsStillPossible, Can
<1>2. PICK o : o = op[s]
  OBVIOUS
<1>3. Apply(o) /\ Can(o) /\ GoodOp(o) /\ IsOp(o)
  BY <1>1, <1>2, CanIsGood DEF Commit, Core, TypeOK, GoodOp
<1>4. BankTypeOK'
  BY <1>3, ApplyKeepsType DEF Core, TypeOK
<1>5. \A d \in Docs : db'[d] = IF d \in DOMAIN o.writes THEN o.writes[d] ELSE db[d]
  BY <1>3 DEF Apply
<1>6. /\ DOMAIN op' = Sessions
      /\ Open' = Open \ {s}
      /\ \A r \in Open' : op'[r] = op[r]
      /\ doomed' = (doomed \cup Writers(DOMAIN o.writes)) \ {s}
  BY <1>2 DEF Commit, Open, Core, TypeOK
<1>7. TxsEndure /\ AmountsPositive'
  <2> SUFFICES ASSUME NEW t \in Txs
               PROVE  /\ db[t] # Absent => /\ db'[t] # Absent
                                           /\ db'[t].type = db[t].type
                                           /\ db'[t].to = db[t].to
                                           /\ db'[t].amount = db[t].amount
                      /\ db'[t] # Absent => db'[t].amount > 0
    BY DEF TxsEndure, AmountsPositive
  <2>1. CASE t \notin DOMAIN o.writes
    BY <1>5, <2>1 DEF Docs, Core, AmountsPositive
  <2>2. CASE t \in DOMAIN o.writes
    <3>1. db'[t] = o.writes[t] /\ o.writes[t] \in Tx
      BY <1>3, <1>5, <2>2 DEF IsOp, Docs
    <3>2. Keeps(o, t) \/ Makes(o, t)
      BY <1>3, <2>2 DEF GoodOp
    <3> QED
      BY <3>1, <3>2, AbsentAssumption DEF Keeps, Makes, Core, AmountsPositive
  <2> QED
    BY <2>1, <2>2
<1>8. Core'
  <2> DEFINE D == DOMAIN o.writes
             S == {s}
  <2>1. /\ \A d \in Docs \ D : db'[d] = db[d]
        /\ S \in SUBSET Sessions
        /\ Open' = Open \ S
        /\ doomed' = (doomed \cup Writers(D)) \ S
    BY <1>5, <1>6
  <2> HIDE DEF D, S
  <2> QED
    BY <1>4, <1>6, <1>7, <2>1, CoreDooming
<1> QED
  BY <1>1, <1>2, <1>3, <1>5, <1>6, <1>7, <1>8

LEMMA CoreAbort ==
    ASSUME Core, NEW s \in Sessions, Abort(s)
    PROVE  /\ Core' /\ db' = db
           /\ Open' = Open \ {s}
           /\ \A r \in Open' : op'[r] = op[r]
<1>1. BankTypeOK' /\ AmountsPositive' /\ db' = db
  BY DEF Core, AmountsPositive, TypeOK, BankTypeOK, Abort
<1>2. /\ DOMAIN op' = Sessions
      /\ Open' = Open \ {s}
      /\ \A r \in Open' : op'[r] = op[r]
      /\ doomed' = (doomed \cup Writers({})) \ {s}
      /\ \A d \in Docs \ {} : db'[d] = db[d]
  BY DEF Abort, Open, Writers, Core, TypeOK
<1>3. Core'
  BY <1>1, <1>2, CoreDooming
<1> QED
  BY <1>1, <1>2, <1>3

\* A write outside the sessions, of one document.
LEMMA CoreWrite ==
    ASSUME Core, NEW d \in Docs, BankTypeOK', AmountsPositive',
           \A e \in Docs \ {d} : db'[e] = db[e],
           op' = op, doomed' = doomed \cup Writers({d})
    PROVE  Core'
<1>1. /\ DOMAIN op' = Sessions
      /\ Open' = Open \ {}
      /\ \A r \in Open' : op'[r] = op[r]
      /\ doomed' = (doomed \cup Writers({d})) \ {}
  BY DEF Open, Core, TypeOK
<1> QED
  BY <1>1, CoreDooming

LEMMA CoreUpdateWalletStatus ==
    ASSUME Core, NEW w \in Wallets, NEW st \in StatusUpdates, UpdateWalletStatus(w, st)
    PROVE  Core' /\ op' = op /\ \A t \in Txs : db'[t] = db[t]
<1>1. BankTypeOK' /\ \A d \in Docs \ {w} : db'[d] = db[d]
  BY SetStatusKeepsType DEF UpdateWalletStatus, Core, TypeOK
<1>2. \A t \in Txs : db'[t] = db[t]
  BY <1>1, DocsDisjoint DEF Docs
<1>3. AmountsPositive'
  BY <1>2 DEF Core, AmountsPositive
<1>4. w \in Docs /\ op' = op /\ doomed' = doomed \cup Writers({w})
  BY DEF UpdateWalletStatus, Docs
<1> QED
  BY <1>1, <1>2, <1>3, <1>4, CoreWrite

LEMMA CoreRejectSave ==
    ASSUME Core, NEW c \in Callers, NEW t \in Txs, rejecting[c].tx = t, db[t] # Absent,
           RejectSave(c)
    PROVE  /\ Core' /\ TxsEndure /\ op' = op
           /\ db' = [db EXCEPT ![t].status = "failed"]
           /\ \A r \in Txs : db[r] = Absent => db'[r] = Absent
<1>1. db[t] \in Tx /\ t \in Docs /\ BankTypeOK
  BY DEF Core, TypeOK, BankTypeOK, Docs
<1>2. db' = [db EXCEPT ![t].status = "failed"]
  BY DEF RejectSave
<1>3. db'[t] = [db[t] EXCEPT !.status = "failed"]
  BY <1>1, <1>2 DEF BankTypeOK
<1>4. /\ db'[t] \in Tx /\ db'[t].type = db[t].type /\ db'[t].to = db[t].to
      /\ db'[t].amount = db[t].amount
  BY <1>1, <1>3 DEF Tx, TxStatus
<1>5. \A d \in Docs \ {t} : db'[d] = db[d]
  BY <1>2 DEF Core, TypeOK, BankTypeOK
<1>6. db' \in [Docs -> Wallet \cup Tx \cup OtherRows \cup {Absent}]
  <2>1. db' = [d \in Docs |-> db'[d]]
    BY <1>1, <1>2 DEF BankTypeOK
  <2>2. \A d \in Docs : db'[d] \in Wallet \cup Tx \cup OtherRows \cup {Absent}
    BY <1>1, <1>4, <1>5 DEF BankTypeOK
  <2> QED
    BY <2>1, <2>2
<1>7. BankTypeOK'
  BY <1>1, <1>4, <1>5, <1>6, DocsDisjoint DEF BankTypeOK, RejectSave, Docs
<1>8. TxsEndure
  BY <1>4, <1>5, AbsentAssumption DEF TxsEndure, Docs
<1>9. AmountsPositive'
  BY <1>4, <1>5 DEF Core, AmountsPositive, Docs
<1>10. op' = op /\ doomed' = doomed \cup Writers({t})
  BY DEF RejectSave
<1>11. Core'
  BY <1>1, <1>5, <1>7, <1>9, <1>10, CoreWrite
<1> QED
  BY <1>2, <1>5, <1>8, <1>10, <1>11 DEF Docs

----------------------------------------------------------------------------
(***************************************************************************)
(* The inductive invariant.  ReversalsAudited needs to know of each session *)
(* that will insert a reversal which record it leaves before it commits,   *)
(* and that a record that was left is still there.                         *)
(***************************************************************************)
RejectionsExist ==
    \A c \in Callers : rejecting[c] # Absent => db[rejecting[c].tx] # Absent

\* A reversal that session s will write is in the database already, or s
\* leaves the record of it.
Told(s, r) ==
    LET row == op[s].writes[r]
    IN  \/ db[r] # Absent /\ db[r].type = "reversal" /\ db[r].to = row.to
        \/ /\ action[s] # Absent
           /\ action[s].name = "REVERSE_TRANSACTION"
           /\ action[s].doc \in Txs
           /\ action[s].doc = row.to

ReversalsTold ==
    \A s \in Open : \A r \in Txs \cap DOMAIN op[s].writes :
        op[s].writes[r].type = "reversal" => Told(s, r)

RecordsKept ==
    \A s \in Sessions :
        (action[s] # Absent /\ action[s].logged /\ action[s].doc \in Txs)
            => <<action[s].name, action[s].doc>> \in audit

AInv ==
    /\ Core
    /\ AdminTypeOK
    /\ RejectionsExist
    /\ ReversalsTold
    /\ RecordsKept
    /\ ReversalsAudited

LEMMA AdminInitEstablishes == AdminInit => AInv
<1> SUFFICES ASSUME AdminInit PROVE AInv
  OBVIOUS
<1>1. PICK exist \in SUBSET Wallets :
         db = [d \in Docs |-> IF d \in exist THEN [status |-> "active", bal |-> 0]
                                             ELSE Absent]
  BY DEF AdminInit, Init, BankInit
<1>2. \A t \in Txs : db[t] = Absent
  BY <1>1, DocsDisjoint DEF Docs
<1>3. TypeOK /\ Open = {}
  BY InitEstablishes DEF AdminInit, IInv, Init, Open
<1>4. Core
  BY <1>2, <1>3 DEF Core, AdminOpsStillPossible, AmountsPositive
<1>5. AdminTypeOK
  BY <1>3 DEF AdminInit, AdminTypeOK
<1> QED
  BY <1>2, <1>3, <1>4, <1>5
  DEF AInv, RejectionsExist, ReversalsTold, RecordsKept, ReversalsAudited, AdminInit

\* What keeps the parts of the invariant about rejections and reversals when no
\* session starts and no record is taken away.
LEMMA EndureKeeps ==
    ASSUME AInv, TxsEndure, Open' \subseteq Open,
           \A s \in Open' : op'[s] = op[s],
           \A s \in Open' : action[s] # Absent =>
               /\ action'[s] # Absent
               /\ action'[s].name = action[s].name
               /\ action'[s].doc = action[s].doc
    PROVE  ReversalsTold'
<1> SUFFICES ASSUME NEW s \in Open', NEW r \in Txs \cap DOMAIN op'[s].writes,
                    op'[s].writes[r].type = "reversal"
             PROVE  Told(s, r)'
  BY DEF ReversalsTold
<1>1. s \in Open /\ op'[s] = op[s]
  OBVIOUS
<1>2. Told(s, r)
  BY <1>1 DEF AInv, ReversalsTold
<1> QED
  BY <1>1, <1>2 DEF Told, TxsEndure

LEMMA SameTxsEndure ==
    ASSUME \A t \in Txs : db'[t] = db[t]
    PROVE  TxsEndure
  BY DEF TxsEndure

\* A session starts without a record to leave: it inserts no reversal.
LEMMA PlainBeginKeeps ==
    ASSUME AInv, NEW s \in Sessions, NEW o, Can(o), Quiet(o), Begin(s, o),
           UNCHANGED adminVars
    PROVE  AInv'
<1>1. /\ Core'
      /\ s \notin Open /\ Open' \subseteq Open \cup {s} /\ op'[s] = o
      /\ \A r \in Sessions \ {s} : op'[r] = op[r]
  BY CoreBegin DEF AInv
<1>2. db' = db /\ action' = action /\ audit' = audit /\ rejecting' = rejecting
  BY DEF Begin, adminVars
<1>3. \A r \in Open : r \in Open'
  BY <1>1 DEF Open
<1>4. AdminTypeOK'
  BY <1>1, <1>2, <1>3 DEF AInv, AdminTypeOK, Core
<1>5. ReversalsTold'
  <2> SUFFICES ASSUME NEW x \in Open', NEW r \in Txs \cap DOMAIN op'[x].writes,
                      op'[x].writes[r].type = "reversal"
               PROVE  Told(x, r)'
    BY DEF ReversalsTold
  <2>1. CASE x = s
    BY <1>1, <1>2, <2>1 DEF Quiet, Keeps, Told
  <2>2. CASE x # s
    <3>1. x \in Open /\ op'[x] = op[x]
      BY <1>1, <2>2 DEF Open
    <3>2. Told(x, r)
      BY <3>1 DEF AInv, ReversalsTold
    <3> QED
      BY <1>2, <3>1, <3>2 DEF Told
  <2> QED
    BY <2>1, <2>2
<1> QED
  BY <1>1, <1>2, <1>4, <1>5
  DEF AInv, RejectionsExist, RecordsKept, ReversalsAudited

\* A session starts that will record its action.
LEMMA AdminBeginKeeps ==
    ASSUME AInv, NEW s \in Sessions, NEW o, Can(o), o # Absent,
           NEW name \in ActionNames, NEW d \in Docs, AdminBegin(s, o, name, d),
           \A r \in Txs \cap DOMAIN o.writes :
               o.writes[r].type = "reversal" =>
                   \/ Keeps(o, r)
                   \/ name = "REVERSE_TRANSACTION" /\ d \in Txs /\ d = o.writes[r].to
    PROVE  AInv'
<1> DEFINE act == [name |-> name, doc |-> d, logged |-> FALSE]
<1>1. /\ Core'
      /\ s \notin Open /\ Open' = Open \cup {s} /\ op'[s] = o
      /\ \A r \in Sessions \ {s} : op'[r] = op[r]
  BY CoreBegin DEF AInv, AdminBegin
<1>2. /\ db' = db /\ action' = [action EXCEPT ![s] = act]
      /\ audit' = audit /\ rejecting' = rejecting
  BY DEF Begin, AdminBegin
<1>3. act \in Action /\ act # Absent
  <2>1. act \in Action
    BY DEF Action
  <2> QED
    BY <2>1, IdleAssumption
<1>4. /\ action \in [Sessions -> Action \cup {Absent}]
      /\ \A x \in Sessions : action[x] # Absent => x \in Open
  BY DEF AInv, AdminTypeOK
<1>5. action'[s] = act /\ \A x \in Sessions \ {s} : action'[x] = action[x]
  BY <1>2, <1>4
<1>6. AdminTypeOK'
  <2>1. action' \in [Sessions -> Action \cup {Absent}]
    BY <1>2, <1>3, <1>4
  <2>2. \A x \in Sessions : action'[x] # Absent => x \in Open'
    BY <1>1, <1>4, <1>5
  <2> QED
    BY <1>1, <1>2, <2>1, <2>2 DEF AInv, AdminTypeOK, Core
<1> HIDE DEF act
<1>7. ReversalsTold'
  <2> SUFFICES ASSUME NEW x \in Open', NEW r \in Txs \cap DOMAIN op'[x].writes,
                      op'[x].writes[r].type = "reversal"
               PROVE  Told(x, r)'
    BY DEF ReversalsTold
  <2>1. CASE x = s
    <3>1. CASE Keeps(o, r)
      BY <1>1, <1>2, <2>1, <3>1 DEF Keeps, Told
    <3>2. CASE name = "REVERSE_TRANSACTION" /\ d \in Txs /\ d = o.writes[r].to
      BY <1>1, <1>3, <1>5, <2>1, <3>2 DEF Told, act
    <3> QED
      BY <1>1, <2>1, <3>1, <3>2
  <2>2. CASE x # s
    <3>1. x \in Open /\ op'[x] = op[x] /\ x \in Sessions
      BY <1>1, <2>2 DEF Open
    <3>2. Told(x, r)
      BY <3>1 DEF AInv, ReversalsTold
    <3> QED
      BY <1>2, <1>5, <2>2, <3>1, <3>2 DEF Told
  <2> QED
    BY <2>1, <2>2
<1>8. RecordsKept'
  <2> SUFFICES ASSUME NEW x \in Sessions, action'[x] # Absent, action'[x].logged,
                      action'[x].doc \in Txs
               PROVE  <<action'[x].name, action'[x].doc>> \in audit'
    BY DEF RecordsKept
  <2>1. x # s
    BY <1>5 DEF act
  <2> QED
    BY <1>2, <1>5, <2>1 DEF AInv, RecordsKept
<1> QED
  BY <1>1, <1>2, <1>6, <1>7, <1>8 DEF AInv, RejectionsExist, ReversalsAudited

----------------------------------------------------------------------------
LEMMA BeginsKeep ==
    ASSUME AInv, NEW s \in Sessions,
           \/ UserBegin(s) /\ UNCHANGED adminVars
           \/ BeginApprove(s)
           \/ BeginReverse(s)
           \/ BeginCredit(s)
           \/ BeginDebit(s)
           \/ BeginAdminTransfer(s)
           \/ BeginUnlogged(s)
    PROVE  AInv' /\ db' = db
<1>0. BankTypeOK /\ AmountsPositive
  BY DEF AInv, Core, TypeOK
<1>1. ASSUME UserBegin(s), UNCHANGED adminVars PROVE AInv' /\ db' = db
  <2>1. PICK o : Possible(o) /\ Begin(s, o)
    <3>1. ASSUME NEW u \in Users, NEW v \in Users, NEW a \in Amounts, BeginTransfer(s, u, v, a)
          PROVE  \E o : Possible(o) /\ Begin(s, o)
      BY <3>1 DEF BeginTransfer, ActiveWallets, ReceivingWallets, Possible
    <3>2. ASSUME NEW u \in Users, NEW a \in Amounts, BeginDeposit(s, u, a)
          PROVE  \E o : Possible(o) /\ Begin(s, o)
      BY <3>2 DEF BeginDeposit, ActiveWallets, ReceivingWallets, Possible
    <3>3. ASSUME NEW u \in Users, NEW a \in Amounts, BeginWithdraw(s, u, a)
          PROVE  \E o : Possible(o) /\ Begin(s, o)
      BY <3>3 DEF BeginWithdraw, ActiveWallets, Possible
    <3>4. ASSUME NEW u \in Users, BeginCancel(s, u)
          PROVE  \E o : Possible(o) /\ Begin(s, o)
      BY <3>4 DEF BeginCancel, Possible
    <3> QED
      BY <1>1, <3>1, <3>2, <3>3, <3>4 DEF UserBegin
  <2> QED
    BY <1>0, <1>1, <2>1, PossibleIsGood, PlainBeginKeeps DEF Can, Begin
<1>2. ASSUME BeginApprove(s) PROVE AInv' /\ db' = db
  <2>1. PICK t \in Txs : CanApprove(t) /\ AdminBegin(s, ApproveOp(t), "APPROVE_TRANSACTION", t)
    BY <1>2 DEF BeginApprove
  <2>2. PICK o : o = ApproveOp(t)
    OBVIOUS
  <2>3. Can(o) /\ Quiet(o) /\ o # Absent
    BY <1>0, <2>1, <2>2, ApproveIsGood DEF Can, AdminPossible
  <2> QED
    BY <2>1, <2>2, <2>3, AdminBeginKeeps DEF AdminBegin, Begin, ActionNames, Docs, Quiet
<1>3. ASSUME BeginReverse(s) PROVE AInv' /\ db' = db
  <2>0. PICK t \in Txs, r \in Txs :
           /\ db[t] # Absent
           /\ \E n \in ReverseAmounts(t) :
                 /\ CanReverse(t, r, n)
                 /\ AdminBegin(s, ReverseOp(t, r, n), "REVERSE_TRANSACTION", t)
    BY <1>3 DEF BeginReverse
  <2>1. PICK n \in ReverseAmounts(t) :
           /\ db[t] # Absent
           /\ CanReverse(t, r, n)
           /\ AdminBegin(s, ReverseOp(t, r, n), "REVERSE_TRANSACTION", t)
    BY <2>0
  <2>2. PICK o : o = ReverseOp(t, r, n)
    OBVIOUS
  <2>3. /\ Can(o) /\ GoodOp(o) /\ o # Absent
        /\ o.writes[r].to = t
        /\ \A d \in Txs \cap DOMAIN o.writes : d = t \/ d = r
    BY <1>0, <2>1, <2>2, ReverseIsGood DEF Can, AdminPossible
  <2>4. ~Reverses(o, t)
    BY <2>1 DEF Reverses
  <2>5. \A d \in Txs \cap DOMAIN o.writes :
            o.writes[d].type = "reversal" => Keeps(o, d) \/ t = o.writes[d].to
    BY <2>3, <2>4 DEF GoodOp
  <2> DEFINE name == "REVERSE_TRANSACTION"
  <2>6. name \in ActionNames /\ t \in Docs /\ AdminBegin(s, o, name, t)
    BY <2>1, <2>2 DEF ActionNames, Docs
  <2>7. \A d \in Txs \cap DOMAIN o.writes :
            o.writes[d].type = "reversal" =>
                \/ Keeps(o, d)
                \/ name = "REVERSE_TRANSACTION" /\ t \in Txs /\ t = o.writes[d].to
    BY <2>5
  <2> HIDE DEF name
  <2>8. AInv'
    BY <2>3, <2>6, <2>7, AdminBeginKeeps
  <2> QED
    BY <2>6, <2>8 DEF AdminBegin, Begin
<1>4. ASSUME BeginCredit(s) PROVE AInv' /\ db' = db
  <2>1. PICK w \in Wallets, a \in Amounts, t \in Txs :
           /\ CanDeposit(w, t) /\ db[t] = Absent
           /\ AdminBegin(s, CreditOp(w, a, t), "CREDIT_USER_WALLET", w)
    BY <1>4 DEF BeginCredit, ReceivingWallets, ActiveWallets, Fresh, CanDeposit
  <2>2. PICK o : o = CreditOp(w, a, t)
    OBVIOUS
  <2>3. Can(o) /\ Quiet(o) /\ o # Absent
    BY <1>0, <2>1, <2>2, CreditIsGood DEF Can, AdminPossible
  <2> QED
    BY <2>1, <2>2, <2>3, AdminBeginKeeps DEF AdminBegin, Begin, ActionNames, Docs, Quiet
<1>5. ASSUME BeginDebit(s) PROVE AInv' /\ db' = db
  <2>1. PICK w \in Wallets, a \in Amounts, t \in Txs :
           /\ Active(w) /\ db[t] = Absent
           /\ AdminBegin(s, DebitOp(w, a, t), "DEBIT_USER_WALLET", w)
    BY <1>5 DEF BeginDebit, ActiveWallets, Fresh
  <2>2. PICK o : o = DebitOp(w, a, t)
    OBVIOUS
  <2>3. Can(o) /\ Quiet(o) /\ o # Absent
    BY <1>0, <2>1, <2>2, DebitIsGood DEF Can, AdminPossible
  <2> QED
    BY <2>1, <2>2, <2>3, AdminBeginKeeps DEF AdminBegin, Begin, ActionNames, Docs, Quiet
<1>6. ASSUME BeginAdminTransfer(s) PROVE AInv' /\ db' = db
  <2>1. PICK w \in Wallets, x \in Wallets, a \in Amounts, t \in Txs, r \in Txs :
           /\ Active(w) /\ Active(x) /\ Bal(w) >= a
           /\ db[t] = Absent /\ db[r] = Absent
           /\ AdminBegin(s, AdminTransferOp(w, x, a, t, r), "ADMIN_TRANSFER", w)
    BY <1>6 DEF BeginAdminTransfer, ActiveWallets, Fresh
  <2>2. PICK o : o = AdminTransferOp(w, x, a, t, r)
    OBVIOUS
  <2>3. Can(o) /\ Quiet(o) /\ o # Absent
    BY <1>0, <2>1, <2>2, AdminTransferIsGood DEF Can, AdminPossible
  <2> QED
    BY <2>1, <2>2, <2>3, AdminBeginKeeps DEF AdminBegin, Begin, ActionNames, Docs, Quiet
<1>7. ASSUME BeginUnlogged(s) PROVE AInv' /\ db' = db
  <2>1. CASE \E t \in Txs, st \in NewStatus :
                db[t] # Absent /\ Begin(s, UpdateStatusOp(t, st))
    <3>1. PICK t \in Txs, st \in NewStatus : db[t] # Absent /\ Begin(s, UpdateStatusOp(t, st))
      BY <2>1
    <3>2. PICK o : o = UpdateStatusOp(t, st)
      OBVIOUS
    <3>3. Can(o) /\ Quiet(o)
      BY <1>0, <3>1, <3>2, UpdateStatusIsGood DEF Can, AdminPossible
    <3> QED
      BY <1>7, <3>1, <3>2, <3>3, PlainBeginKeeps DEF Begin, BeginUnlogged
  <2>2. CASE \E w \in Wallets, a \in Amounts, t \in Txs :
                CanDeposit(w, t) /\ db[t] = Absent /\ Begin(s, BulkCreditOp(w, a, t))
    <3>1. PICK w \in Wallets, a \in Amounts, t \in Txs :
             CanDeposit(w, t) /\ db[t] = Absent /\ Begin(s, BulkCreditOp(w, a, t))
      BY <2>2
    <3>2. PICK o : o = BulkCreditOp(w, a, t)
      OBVIOUS
    <3>3. Can(o) /\ Quiet(o)
      BY <1>0, <3>1, <3>2, BulkCreditIsGood DEF Can, AdminPossible
    <3> QED
      BY <1>7, <3>1, <3>2, <3>3, PlainBeginKeeps DEF Begin, BeginUnlogged
  <2> QED
    BY <1>7, <2>1, <2>2 DEF BeginUnlogged, ReceivingWallets, ActiveWallets, Fresh, CanDeposit
<1> QED
  BY <1>1, <1>2, <1>3, <1>4, <1>5, <1>6, <1>7

LEMMA LogActionKeeps ==
    ASSUME AInv, NEW s \in Sessions, LogAction(s)
    PROVE  AInv' /\ db' = db
<1> DEFINE act == [action[s] EXCEPT !.logged = TRUE]
<1>1. /\ db' = db /\ ledger' = ledger /\ op' = op /\ doomed' = doomed
      /\ rejecting' = rejecting
      /\ action[s] # Absent
  BY DEF LogAction
<1>2. /\ action \in [Sessions -> Action \cup {Absent}]
      /\ \A x \in Sessions : action[x] # Absent => x \in Open
      /\ audit \subseteq (ActionNames \cup {"REJECT_TRANSACTION"}) \X Txs
  BY DEF AInv, AdminTypeOK
<1>3. action[s] \in Action
  BY <1>1, <1>2
<1>4. /\ act \in Action /\ act.name = action[s].name /\ act.doc = action[s].doc
  BY <1>3 DEF Action
<1>5. act # Absent
  BY <1>4, IdleAssumption
<1>6. action' = [action EXCEPT ![s] = act]
  BY DEF LogAction
<1>7. action'[s] = act /\ \A x \in Sessions \ {s} : action'[x] = action[x]
  BY <1>2, <1>6
<1>8. action[s].name \in ActionNames
  BY <1>3 DEF Action
<1>9. audit' = audit \cup {<<action[s].name, d>> : d \in {action[s].doc} \cap Txs}
  BY DEF LogAction
<1> HIDE DEF act
<1>10. Open' = Open
  BY <1>1 DEF Open
<1>11. Core'
  <2>1. TypeOK'
    BY <1>1, <1>10 DEF AInv, Core, TypeOK, BankTypeOK, IsOp
  <2>2. AmountsPositive'
    BY <1>1 DEF AInv, Core, AmountsPositive
  <2>3. AdminOpsStillPossible'
    <3> SUFFICES ASSUME NEW r \in Open' \ doomed' PROVE Can(op[r])'
      BY DEF AdminOpsStillPossible, Can
    <3>1. r \in Open \ doomed /\ op'[r] = op[r] /\ r \in Sessions
      BY <1>1, <1>10 DEF Open
    <3>2. Can(op'[r])
      BY <3>1 DEF AInv, Core, AdminOpsStillPossible, Can
    <3> QED
      BY <1>1, <3>1, <3>2, CoreStillCan DEF AInv, Core, TypeOK
  <2> QED
    BY <2>1, <2>2, <2>3 DEF Core
<1>12. AdminTypeOK'
  <2>1. action' \in [Sessions -> Action \cup {Absent}]
    BY <1>2, <1>4, <1>6
  <2>2. \A x \in Sessions : action'[x] # Absent => x \in Open'
    BY <1>1, <1>2, <1>7, <1>10
  <2>3. audit' \subseteq (ActionNames \cup {"REJECT_TRANSACTION"}) \X Txs
    BY <1>2, <1>8, <1>9
  <2> QED
    BY <1>1, <1>11, <2>1, <2>2, <2>3 DEF AInv, AdminTypeOK, Core
<1>13. ReversalsTold'
  <2>1. TxsEndure
    BY <1>1, SameTxsEndure
  <2>2. \A x \in Open' : action[x] # Absent =>
            /\ action'[x] # Absent
            /\ action'[x].name = action[x].name
            /\ action'[x].doc = action[x].doc
    BY <1>4, <1>5, <1>7, <1>10 DEF Open
  <2> QED
    BY <1>1, <1>10, <2>1, <2>2, EndureKeeps
<1>14. RecordsKept'
  <2> SUFFICES ASSUME NEW x \in Sessions, action'[x] # Absent, action'[x].logged,
                      action'[x].doc \in Txs
               PROVE  <<action'[x].name, action'[x].doc>> \in audit'
    BY DEF RecordsKept
  <2>1. CASE x = s
    BY <1>4, <1>7, <1>9, <2>1
  <2>2. CASE x # s
    BY <1>7, <1>9, <2>2 DEF AInv, RecordsKept
  <2> QED
    BY <2>1, <2>2
<1>15. RejectionsExist' /\ ReversalsAudited'
  BY <1>1, <1>9 DEF AInv, RejectionsExist, ReversalsAudited
<1> QED
  BY <1>1, <1>11, <1>12, <1>13, <1>14, <1>15 DEF AInv

\* When session s ends, its action ends with it.
LEMMA EndKeeps ==
    ASSUME AInv, Core', TxsEndure, NEW s \in Sessions,
           Open' = Open \ {s},
           \A r \in Open' : op'[r] = op[r],
           action' = [action EXCEPT ![s] = Absent],
           UNCHANGED <<audit, rejecting>>
    PROVE  AdminTypeOK' /\ ReversalsTold' /\ RecordsKept' /\ RejectionsExist'
<1>1. /\ action \in [Sessions -> Action \cup {Absent}]
      /\ \A x \in Sessions : action[x] # Absent => x \in Open
      /\ rejecting \in [Callers -> Rejection \cup {Absent}]
  BY DEF AInv, AdminTypeOK
<1>2. action'[s] = Absent /\ \A x \in Sessions \ {s} : action'[x] = action[x]
  BY <1>1
<1>3. AdminTypeOK'
  <2>1. action' \in [Sessions -> Action \cup {Absent}]
    BY <1>1
  <2>2. \A x \in Sessions : action'[x] # Absent => x \in Open'
    BY <1>1, <1>2
  <2> QED
    BY <2>1, <2>2 DEF AInv, AdminTypeOK, Core
<1>4. ReversalsTold'
  <2>1. \A x \in Open' : action'[x] = action[x]
    BY <1>2 DEF Open
  <2> QED
    BY <2>1, EndureKeeps
<1>5. RecordsKept'
  BY <1>2 DEF AInv, RecordsKept
<1>6. RejectionsExist'
  <2> SUFFICES ASSUME NEW c \in Callers, rejecting[c] # Absent
               PROVE  db'[rejecting[c].tx] # Absent
    BY DEF RejectionsExist
  <2>1. rejecting[c].tx \in Txs
    BY <1>1 DEF Rejection
  <2> QED
    BY <2>1 DEF AInv, RejectionsExist, TxsEndure
<1> QED
  BY <1>3, <1>4, <1>5, <1>6

LEMMA GiveUpKeeps ==
    ASSUME AInv, NEW s \in Sessions, GiveUp(s)
    PROVE  AInv' /\ db' = db
<1>1. /\ Core' /\ db' = db
      /\ Open' = Open \ {s}
      /\ \A r \in Open' : op'[r] = op[r]
  BY CoreAbort DEF AInv, GiveUp
<1>2. TxsEndure
  BY <1>1, SameTxsEndure
<1>3. action' = [action EXCEPT ![s] = Absent] /\ UNCHANGED <<audit, rejecting>>
  BY DEF GiveUp
<1>4. AdminTypeOK' /\ ReversalsTold' /\ RecordsKept' /\ RejectionsExist'
  BY <1>1, <1>2, <1>3, EndKeeps
<1>5. ReversalsAudited'
  BY <1>1, <1>3 DEF AInv, ReversalsAudited
<1> QED
  BY <1>1, <1>4, <1>5 DEF AInv

LEMMA FinishKeeps ==
    ASSUME AInv, NEW s \in Sessions, Finish(s)
    PROVE  AInv'
<1>1. PICK o : o = op[s]
  OBVIOUS
<1>2. /\ Core' /\ TxsEndure /\ s \in Open /\ GoodOp(o)
      /\ Open' = Open \ {s}
      /\ \A r \in Open' : op'[r] = op[r]
      /\ \A d \in Docs : db'[d] = IF d \in DOMAIN o.writes THEN o.writes[d] ELSE db[d]
  BY <1>1, CoreCommit DEF AInv, Finish
<1>3. action' = [action EXCEPT ![s] = Absent] /\ UNCHANGED <<audit, rejecting>>
  BY DEF Finish
<1>4. AdminTypeOK' /\ ReversalsTold' /\ RecordsKept' /\ RejectionsExist'
  BY <1>2, <1>3, EndKeeps
<1>5. ReversalsAudited'
  <2> SUFFICES ASSUME NEW r \in Txs, db'[r] # Absent, db'[r].type = "reversal"
               PROVE  <<"REVERSE_TRANSACTION", db'[r].to>> \in audit
    BY <1>3 DEF ReversalsAudited
  <2>1. CASE r \notin DOMAIN o.writes
    BY <1>2, <2>1 DEF AInv, ReversalsAudited, Docs
  <2>2. CASE r \in DOMAIN o.writes
    <3>1. db'[r] = o.writes[r]
      BY <1>2, <2>2 DEF Docs
    <3>2. Told(s, r)
      BY <1>1, <1>2, <2>2, <3>1 DEF AInv, ReversalsTold
    <3>3. action[s] # Absent => action[s].logged
      BY DEF Finish
    <3> QED
      BY <1>1, <3>1, <3>2, <3>3 DEF Told, AInv, ReversalsAudited, RecordsKept
  <2> QED
    BY <2>1, <2>2
<1> QED
  BY <1>2, <1>4, <1>5 DEF AInv

\* What a step that leaves sessions, actions and the audit log alone must keep.
LEMMA OutsideKeeps ==
    ASSUME AInv, Core', TxsEndure, op' = op, action' = action, audit \subseteq audit',
           audit' \subseteq (ActionNames \cup {"REJECT_TRANSACTION"}) \X Txs,
           rejecting' \in [Callers -> Rejection \cup {Absent}],
           \A c \in Callers : rejecting'[c] # Absent => db[rejecting'[c].tx] # Absent,
           \A r \in Txs : db[r] = Absent => db'[r] = Absent
    PROVE  AInv'
<1>1. Open' = Open
  BY DEF Open
<1>2. AdminTypeOK'
  BY <1>1 DEF AInv, AdminTypeOK, Core
<1>3. ReversalsTold'
  BY <1>1, EndureKeeps
<1>4. RecordsKept'
  BY DEF AInv, RecordsKept
<1>5. ReversalsAudited'
  <2> SUFFICES ASSUME NEW r \in Txs, db'[r] # Absent, db'[r].type = "reversal"
               PROVE  <<"REVERSE_TRANSACTION", db'[r].to>> \in audit'
    BY DEF ReversalsAudited
  <2>1. db[r] # Absent /\ db'[r].type = db[r].type /\ db'[r].to = db[r].to
    BY DEF TxsEndure
  <2> QED
    BY <2>1 DEF AInv, ReversalsAudited
<1>6. RejectionsExist'
  <2> SUFFICES ASSUME NEW c \in Callers, rejecting'[c] # Absent
               PROVE  db'[rejecting'[c].tx] # Absent
    BY DEF RejectionsExist
  <2>1. rejecting'[c].tx \in Txs
    BY DEF Rejection
  <2> QED
    BY <2>1 DEF TxsEndure
<1> QED
  BY <1>2, <1>3, <1>4, <1>5, <1>6 DEF AInv

LEMMA CoreUnchanged ==
    ASSUME Core, UNCHANGED vars
    PROVE  Core'
<1>1. BankTypeOK' /\ AmountsPositive'
  BY DEF Core, AmountsPositive, TypeOK, BankTypeOK, vars
<1>2. /\ DOMAIN op' = Sessions
      /\ Open' = Open \ {}
      /\ \A r \in Open' : op'[r] = op[r]
      /\ doomed' = (doomed \cup Writers({})) \ {}
      /\ \A d \in Docs \ {} : db'[d] = db[d]
  BY DEF Open, Writers, Core, TypeOK, vars
<1> QED
  BY <1>1, <1>2, CoreDooming

LEMMA RejectKeeps ==
    ASSUME AInv, NEW c \in Callers,
           \/ \E t \in Txs : RejectRead(c, t)
           \/ RejectSave(c)
           \/ RejectLog(c)
           \/ RejectLost(c)
    PROVE  AInv' /\ \A r \in Txs : db[r] = Absent => db'[r] = Absent
<1>1. /\ rejecting \in [Callers -> Rejection \cup {Absent}]
      /\ audit \subseteq (ActionNames \cup {"REJECT_TRANSACTION"}) \X Txs
      /\ Core
  BY DEF AInv, AdminTypeOK
<1>2. rejecting[c] # Absent =>
         /\ rejecting[c] \in Rejection /\ rejecting[c].tx \in Txs
         /\ db[rejecting[c].tx] # Absent
  BY <1>1 DEF AInv, RejectionsExist, Rejection
<1>3. ASSUME UNCHANGED vars PROVE Core' /\ TxsEndure
  BY <1>1, <1>3, CoreUnchanged, SameTxsEndure DEF vars
<1>4. ASSUME NEW t \in Txs, RejectRead(c, t)
      PROVE  AInv' /\ \A r \in Txs : db[r] = Absent => db'[r] = Absent
  <2> DEFINE rej == [tx |-> t, saved |-> FALSE]
  <2>1. UNCHANGED vars /\ action' = action /\ audit' = audit /\ db[t] # Absent
    BY <1>4 DEF RejectRead, vars
  <2>2. rej \in Rejection /\ rej.tx = t
    BY DEF Rejection
  <2>3. rejecting' = [rejecting EXCEPT ![c] = rej]
    BY <1>4 DEF RejectRead
  <2> HIDE DEF rej
  <2>4. rejecting' \in [Callers -> Rejection \cup {Absent}]
    BY <1>1, <2>2, <2>3
  <2>5. \A x \in Callers : rejecting'[x] # Absent => db[rejecting'[x].tx] # Absent
    BY <1>1, <2>1, <2>2, <2>3 DEF AInv, RejectionsExist
  <2> QED
    BY <1>1, <1>3, <2>1, <2>4, <2>5, OutsideKeeps DEF vars
<1>5. ASSUME RejectSave(c)
      PROVE  AInv' /\ \A r \in Txs : db[r] = Absent => db'[r] = Absent
  <2> DEFINE rej == [rejecting[c] EXCEPT !.saved = TRUE]
  <2>1. rejecting[c] # Absent /\ action' = action /\ audit' = audit
    BY <1>5 DEF RejectSave
  <2>2. /\ Core' /\ TxsEndure /\ op' = op
        /\ \A r \in Txs : db[r] = Absent => db'[r] = Absent
    BY <1>1, <1>2, <1>5, <2>1, CoreRejectSave
  <2>3. rej \in Rejection /\ rej.tx = rejecting[c].tx
    BY <1>2, <2>1 DEF Rejection
  <2>4. rejecting' = [rejecting EXCEPT ![c] = rej]
    BY <1>5 DEF RejectSave
  <2> HIDE DEF rej
  <2>5. rejecting' \in [Callers -> Rejection \cup {Absent}]
    BY <1>1, <2>3, <2>4
  <2>6. \A x \in Callers : rejecting'[x] # Absent => db[rejecting'[x].tx] # Absent
    BY <1>1, <1>2, <2>1, <2>3, <2>4 DEF AInv, RejectionsExist
  <2> QED
    BY <1>1, <2>1, <2>2, <2>5, <2>6, OutsideKeeps
<1>6. ASSUME RejectLog(c)
      PROVE  AInv' /\ \A r \in Txs : db[r] = Absent => db'[r] = Absent
  <2>1. /\ UNCHANGED vars /\ action' = action
        /\ audit' = audit \cup {<<"REJECT_TRANSACTION", rejecting[c].tx>>}
        /\ rejecting[c].tx \in Txs
        /\ rejecting' = [rejecting EXCEPT ![c] = Absent]
    BY <1>2, <1>6 DEF RejectLog, vars
  <2>2. audit' \subseteq (ActionNames \cup {"REJECT_TRANSACTION"}) \X Txs
    BY <1>1, <2>1
  <2>3. rejecting' \in [Callers -> Rejection \cup {Absent}]
    BY <1>1, <2>1
  <2>4. \A x \in Callers : rejecting'[x] # Absent => db[rejecting'[x].tx] # Absent
    BY <1>1, <2>1 DEF AInv, RejectionsExist
  <2>5. audit \subseteq audit'
    BY <2>1
  <2> HIDE DEF Rejection
  <2> QED
    BY <1>3, <2>1, <2>2, <2>3, <2>4, <2>5, OutsideKeeps DEF vars
<1>7. ASSUME RejectLost(c)
      PROVE  AInv' /\ \A r \in Txs : db[r] = Absent => db'[r] = Absent
  <2>1. /\ UNCHANGED vars /\ action' = action /\ audit' = audit
        /\ rejecting' = [rejecting EXCEPT ![c] = Absent]
    BY <1>7 DEF RejectLost, vars
  <2>2. rejecting' \in [Callers -> Rejection \cup {Absent}]
    BY <1>1, <2>1
  <2>3. \A x \in Callers : rejecting'[x] # Absent => db[rejecting'[x].tx] # Absent
    BY <1>1, <2>1 DEF AInv, RejectionsExist
  <2> QED
    BY <1>1, <1>3, <2>1, <2>2, <2>3, OutsideKeeps DEF vars
<1> QED
  BY <1>4, <1>5, <1>6, <1>7

LEMMA AdminUpdateWalletStatusKeeps ==
    ASSUME AInv, NEW w \in Wallets, NEW st \in StatusUpdates, UpdateWalletStatus(w, st),
           UNCHANGED adminVars
    PROVE  AInv' /\ \A t \in Txs : db'[t] = db[t]
<1>1. Core' /\ op' = op /\ \A t \in Txs : db'[t] = db[t]
  BY CoreUpdateWalletStatus DEF AInv
<1>2. TxsEndure
  BY <1>1, SameTxsEndure
<1>3. action' = action /\ audit' = audit /\ rejecting' = rejecting
  BY DEF adminVars
<1>4. /\ audit' \subseteq (ActionNames \cup {"REJECT_TRANSACTION"}) \X Txs
      /\ rejecting' \in [Callers -> Rejection \cup {Absent}]
      /\ \A c \in Callers : rejecting'[c] # Absent => db[rejecting'[c].tx] # Absent
  BY <1>3 DEF AInv, AdminTypeOK, RejectionsExist
<1> QED
  BY <1>1, <1>2, <1>3, <1>4, OutsideKeeps

LEMMA AdminStutterKeeps ==
    ASSUME AInv, UNCHANGED allVars
    PROVE  AInv'
<1>1. UNCHANGED vars /\ action' = action /\ audit' = audit /\ rejecting' = rejecting
  BY DEF allVars, vars
<1>2. Core' /\ TxsEndure /\ op' = op /\ db' = db
  BY <1>1, CoreUnchanged, SameTxsEndure DEF vars, AInv
<1>3. /\ audit' \subseteq (ActionNames \cup {"REJECT_TRANSACTION"}) \X Txs
      /\ rejecting' \in [Callers -> Rejection \cup {Absent}]
      /\ \A c \in Callers : rejecting'[c] # Absent => db[rejecting'[c].tx] # Absent
  BY <1>1 DEF AInv, AdminTypeOK, RejectionsExist
<1> QED
  BY <1>1, <1>2, <1>3, OutsideKeeps

LEMMA AdminNextKeeps == AInv /\ [AdminNext]_allVars => AInv'
<1> SUFFICES ASSUME AInv, [AdminNext]_allVars PROVE AInv'
  OBVIOUS
<1>1. ASSUME NEW s \in Sessions,
             \/ UserBegin(s) /\ UNCHANGED adminVars
             \/ BeginApprove(s)
             \/ BeginReverse(s)
             \/ BeginCredit(s)
             \/ BeginDebit(s)
             \/ BeginAdminTransfer(s)
             \/ BeginUnlogged(s)
      PROVE  AInv'
  BY <1>1, BeginsKeep
<1> QED
  BY <1>1, LogActionKeeps, FinishKeeps, GiveUpKeeps, RejectKeeps,
     AdminUpdateWalletStatusKeeps, AdminStutterKeeps DEF AdminNext

\* Documents, ledgers, buffered writes, records and rejections keep their form,
\* and only an open session has an action to record.
THEOREM AdminTypeCorrect == AdminSpec => []AdminTypeOK
<1>1. AdminSpec => []AInv
  BY AdminInitEstablishes, AdminNextKeeps, PTL DEF AdminSpec
<1>2. AInv => AdminTypeOK
  BY DEF AInv
<1> QED
  BY <1>1, <1>2, PTL

\* The operation of a session that may still commit, a user's or an
\* administrator's, is possible at that moment: no approval of a transaction
\* that was cancelled meanwhile, no second reversal, no balance from a stale
\* read (modules/admin/ops-transaction.service.ts).
THEOREM NoStaleAdminCommit == AdminSpec => []AdminOpsStillPossible
<1>1. AdminSpec => []AInv
  BY AdminInitEstablishes, AdminNextKeeps, PTL DEF AdminSpec
<1>2. AInv => AdminOpsStillPossible
  BY DEF AInv, Core
<1> QED
  BY <1>1, <1>2, PTL

\* Every reversal that was committed is named in the audit log, whatever
\* crashes between the record and the commit.
THEOREM ReversalsLeaveRecords == AdminSpec => []ReversalsAudited
<1>1. AdminSpec => []AInv
  BY AdminInitEstablishes, AdminNextKeeps, PTL DEF AdminSpec
<1>2. AInv => ReversalsAudited
  BY DEF AInv
<1> QED
  BY <1>1, <1>2, PTL

\* Administrators who reverse a transaction at the same time give the money
\* back once.
THEOREM ReversedOnce == AdminSpec => OneReversalPerCompletion
<1> DEFINE new(t) == {r \in Txs : /\ db[r] = Absent
                                  /\ db'[r] # Absent
                                  /\ db'[r].type = "reversal"
                                  /\ db'[r].to = t}
           A == \A t \in Txs : new(t) # {} => /\ db[t].status = "completed"
                                              /\ db'[t].status = "reversed"
                                              /\ Cardinality(new(t)) = 1
<1>1. AInv /\ [AdminNext]_allVars => [A]_allVars
  <2> SUFFICES ASSUME AInv, AdminNext, NEW t \in Txs, NEW r \in new(t)
               PROVE  /\ db[t].status = "completed"
                      /\ db'[t].status = "reversed"
                      /\ Cardinality(new(t)) = 1
    OBVIOUS
  <2>1. r \in Txs /\ db[r] = Absent /\ db'[r] # Absent /\ db'[r].type = "reversal"
        /\ db'[r].to = t
    OBVIOUS
  <2>2. PICK s \in Sessions : Finish(s)
    <3>1. ASSUME NEW s \in Sessions,
                 \/ UserBegin(s) /\ UNCHANGED adminVars
                 \/ BeginApprove(s)
                 \/ BeginReverse(s)
                 \/ BeginCredit(s)
                 \/ BeginDebit(s)
                 \/ BeginAdminTransfer(s)
                 \/ BeginUnlogged(s)
          PROVE  FALSE
      <4>1. db' = db
        BY <3>1, BeginsKeep
      <4> QED
        BY <2>1, <4>1
    <3>2. ASSUME NEW s \in Sessions, LogAction(s) \/ GiveUp(s) PROVE FALSE
      <4>1. db' = db
        BY <3>2, LogActionKeeps, GiveUpKeeps
      <4> QED
        BY <2>1, <4>1
    <3> HIDE DEF new
    <3> QED
      BY <2>1, <3>1, <3>2, RejectKeeps, AdminUpdateWalletStatusKeeps DEF AdminNext
  <2>3. PICK o : o = op[s]
    OBVIOUS
  <2>4. /\ GoodOp(o)
        /\ \A d \in Docs : db'[d] = IF d \in DOMAIN o.writes THEN o.writes[d] ELSE db[d]
    BY <2>2, <2>3, CoreCommit DEF AInv, Finish
  <2>5. r \in Txs \cap DOMAIN o.writes /\ db'[r] = o.writes[r] /\ ~Keeps(o, r)
    BY <2>1, <2>4 DEF Docs, Keeps
  <2>6. Reverses(o, r)
    BY <2>1, <2>4, <2>5 DEF GoodOp
  <2>7. /\ db[t] # Absent /\ db[t].status = "completed"
        /\ DOMAIN o.writes \cap Txs = {t, r}
        /\ o.writes[t].status = "reversed"
    BY <2>1, <2>5, <2>6 DEF Reverses
  <2>8. db'[t] = o.writes[t]
    BY <2>4, <2>7 DEF Docs
  <2>9. new(t) = {r}
    <3> SUFFICES ASSUME NEW x \in new(t) PROVE x = r
      OBVIOUS
    <3>1. x \in DOMAIN o.writes /\ x # t
      BY <2>4, <2>7 DEF Docs
    <3> QED
      BY <2>7, <3>1
  <2> QED
    BY <2>7, <2>8, <2>9, FS_Singleton
<1>2. AdminSpec => []AInv
  BY AdminInitEstablishes, AdminNextKeeps, PTL DEF AdminSpec
<1>3. AdminSpec => [][A]_allVars
  BY <1>1, <1>2, PTL DEF AdminSpec
<1> QED
  BY <1>3, PTL DEF OneReversalPerCompletion
=============================================================================
