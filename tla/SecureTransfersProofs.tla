----------------------- MODULE SecureTransfersProofs ------------------------
(***************************************************************************)
(* Theorems about SecureTransfers, for any users, wallets, transactions,   *)
(* verifications, sessions and code requests.                              *)
(*                                                                         *)
(* As in BankProofs, a session that can still commit holds an operation    *)
(* that is possible now; of a right code this includes that the code in    *)
(* force is known to the sender.  That the money moves once rests on it:   *)
(* a completed verification can be set back by a late code request, but    *)
(* its sender is deleted by then and never learns the new code.            *)
(***************************************************************************)
EXTENDS SecureTransfers, BankProofs

Exists(d) == db[d] # Absent

IsSent(status) == \E i \in Steps : status = Sent[i]

\* What StatusesAgree says of the statuses of a verification and a transaction.
Agree(vs, ts) ==
    /\ vs = "cancelled" => ts = "cancelled"
    /\ vs = "failed" => ts = "failed"
    /\ vs = "fully_verified" => ts = "completed"

\* A verification is about a transfer of its own, between two users.
VerificationsSound ==
    /\ \A v \in Verifs :
          Exists(v) => LET t == db[v].tx
                       IN  /\ Exists(t)
                           /\ db[t].to \in Wallets
                           /\ Owner[db[t].wallet] # Owner[db[t].to]
    /\ \A v, y \in Verifs :
          (Exists(v) /\ Exists(y) /\ db[v].tx = db[y].tx) => v = y

\* o is one of the operations of a secure transfer, and could happen now.
SecurePossible(o) ==
    \/ \E w, x \in Wallets, a \in Amounts, t \in Txs, v \in Verifs :
          /\ Owner[w] # Owner[x]
          /\ ~Exists(t) /\ ~Exists(v)
          /\ o = InitiateOp(w, x, a, t, v)
    \/ \E v \in Verifs :
          /\ Exists(v)
          /\ IsSent(db[v].status)
          /\ \/ o = FailOp(v)
             \/ db[v].attempts < MaxAttempts /\ o = WrongCodeOp(v)
    \/ \E v \in Verifs, i \in 1..2 :
          /\ Exists(v)
          /\ db[v].status = Sent[i]
          /\ o = RightCodeOp(v, i)
    \/ \E v \in Verifs :
          /\ Exists(v)
          /\ db[v].status = Sent[3]
          /\ v \in known
          /\ NotificationsAccepted(v)
          /\ o = CompleteOp(v)
    \/ \E v \in Verifs :
          /\ Exists(v)
          /\ db[v].status \notin {"fully_verified", "cancelled"}
          /\ o = CancelVerificationOp(v)

Can(o) == Possible(o) \/ SecurePossible(o)

(***************************************************************************)
(* What the theorems need to know of an operation.                         *)
(***************************************************************************)

\* A transaction keeps its wallets and is never made pending again; only that
\* of a verification is written when it is not pending.
TxsKept(o) ==
    \A t \in Txs \cap DOMAIN o.writes :
        Exists(t) =>
            /\ o.writes[t].wallet = db[t].wallet
            /\ o.writes[t].to = db[t].to
            /\ o.writes[t].status = "pending" => db[t].status = "pending"
            /\ \/ db[t].status = "pending"
               \/ \E v \in Verifs \cap DOMAIN o.writes : Exists(v) /\ db[v].tx = t

\* o inserts verification v with its transaction.
Opens(o, v) ==
    LET t == o.writes[v].tx
    IN  /\ ~Exists(v) /\ ~Exists(t)
        /\ t \in DOMAIN o.writes
        /\ o.writes[t].to \in Wallets
        /\ Owner[o.writes[t].wallet] # Owner[o.writes[t].to]
        /\ Agree(o.writes[v].status, o.writes[t].status)
        /\ DOMAIN o.writes \cap Verifs = {v}
        /\ DOMAIN o.posts = {}

\* o updates verification v, and of the transactions only the one of v.
Moves(o, v) ==
    LET t == db[v].tx
    IN  /\ Exists(v)
        /\ o.writes[v].tx = t
        /\ IsSent(o.writes[v].status) => IsSent(db[v].status)
        /\ Agree(o.writes[v].status, IF t \in DOMAIN o.writes THEN o.writes[t].status
                                     ELSE db[t].status)
        /\ DOMAIN o.writes \cap Verifs = {v}
        /\ DOMAIN o.writes \cap Txs \subseteq {t}

\* The three ways in which ledger entries come about.
PostsNew(o) ==
    \A y \in DOMAIN o.posts : ~Exists(o.posts[y].tx) /\ o.posts[y].tx \in DOMAIN o.writes

Refunds(o) ==
    \E t \in Txs :
        /\ Exists(t) /\ db[t].status = "pending"
        /\ t \in DOMAIN o.writes /\ o.writes[t].status # "pending"
        /\ \A y \in DOMAIN o.posts : /\ y = db[t].wallet
                                     /\ o.posts[y].tx = t
                                     /\ o.posts[y].side = "credit"

Completes(o) ==
    \E v \in Verifs :
        LET t == db[v].tx
        IN  /\ Exists(v) /\ IsSent(db[v].status) /\ v \in known
            /\ NotificationsAccepted(v)
            /\ v \in DOMAIN o.writes /\ o.writes[v].status = "fully_verified"
            /\ DOMAIN o.posts = {db[t].wallet, db[t].to}
            /\ \A y \in DOMAIN o.posts :
                  /\ o.posts[y].tx = t
                  /\ o.posts[y].side = IF y = db[t].wallet THEN "debit" ELSE "credit"

GoodOp(o) ==
    /\ IsOp(o) /\ Balanced(o)
    /\ TxsKept(o)
    /\ \A v \in Verifs \cap DOMAIN o.writes : Opens(o, v) \/ Moves(o, v)
    /\ PostsNew(o) \/ Refunds(o) \/ Completes(o)

----------------------------------------------------------------------------
\* The names of the statuses are all different.
LEMMA StatusNames ==
    /\ 3 \in Steps
    /\ "pending_isin" \in VerifStatus
    /\ \A i \in Steps :
          /\ Sent[i] \in VerifStatus /\ Pending[i] \in VerifStatus
          /\ Sent[i] \notin {"pending_isin", "fully_verified", "failed", "expired", "cancelled"}
          /\ Pending[i] \notin {"fully_verified", "failed", "expired", "cancelled"}
          /\ \A j \in Steps : Pending[i] # Sent[j]
<1>1. \A i \in Steps : i = 1 \/ i = 2 \/ i = 3
  BY DEF Steps
<1>2. /\ Sent[1] = "isin_sent" /\ Sent[2] = "imf_bop_sent" /\ Sent[3] = "lei_sent"
      /\ Pending[1] = "pending_isin" /\ Pending[2] = "pending_imf_bop"
      /\ Pending[3] = "pending_lei"
  BY DEF Sent, Pending
<1>3. 1 \in Steps /\ 2 \in Steps /\ 3 \in Steps
  BY DEF Steps
<1>4. \A i \in Steps : Sent[i] \in VerifStatus /\ Pending[i] \in VerifStatus
  BY DEF VerifStatus
<1>5. "pending_isin" \in VerifStatus
  BY <1>2, <1>3, <1>4
<1> QED
  BY <1>1, <1>2, <1>3, <1>4, <1>5

\* A verification and the documents it is about.
LEMMA VerificationRow ==
    ASSUME BankTypeOK, VerificationsSound, NEW v \in Verifs, Exists(v)
    PROVE  /\ db[v] \in Verification
           /\ db[v].tx \in Txs
           /\ Exists(db[v].tx)
           /\ db[db[v].tx] \in Tx
           /\ db[db[v].tx].wallet \in Wallets
           /\ db[db[v].tx].to \in Wallets
           /\ db[db[v].tx].wallet # db[db[v].tx].to
<1>1. db[v] \in Verification
  BY VerificationRows DEF BankTypeOK, Verifs, Exists
<1>2. db[v].tx \in Txs
  BY <1>1 DEF Verification
<1>3. Exists(db[v].tx) /\ db[db[v].tx].to \in Wallets
      /\ db[db[v].tx].wallet # db[db[v].tx].to
  BY DEF VerificationsSound
<1>4. db[db[v].tx] \in Tx
  BY <1>2, <1>3 DEF BankTypeOK, Exists
<1> QED
  BY <1>1, <1>2, <1>3, <1>4 DEF Tx

\* Well-formed rows and entries make an operation.
LEMMA RowsAreOp ==
    ASSUME NEW D \in SUBSET Docs, NEW f, NEW g, NEW o,
           f = [d \in D |-> f[d]],
           o = [writes |-> f, posts |-> g],
           \A d \in D : /\ d \in Wallets => f[d] \in Wallet
                        /\ d \in Txs => f[d] \in Tx
                        /\ d \in Verifs => f[d] \in Verification,
           DOMAIN g \subseteq Wallets \cap D,
           \A y \in DOMAIN g : g[y] \in Entry
    PROVE  IsOp(o) /\ o.writes = f /\ DOMAIN o.writes = D /\ o.posts = g
<1>1. o.writes = f /\ o.posts = g /\ DOMAIN f = D
  OBVIOUS
<1> QED
  BY <1>1, VerificationRows DEF IsOp, Verifs

LEMMA NoPosts ==
    DOMAIN <<>> = {}
  OBVIOUS

LEMMA InitiateIsGood ==
    ASSUME BankTypeOK, NEW w \in Wallets, NEW x \in Wallets, NEW a \in Amounts,
           NEW t \in Txs, NEW v \in Verifs,
           Owner[w] # Owner[x], ~Exists(t), ~Exists(v)
    PROVE  /\ GoodOp(InitiateOp(w, x, a, t, v))
           /\ DOMAIN InitiateOp(w, x, a, t, v).writes
                 = {t, v} \cup (IF db[x] = Absent THEN {x} ELSE {})
<1> DEFINE D == {t, v} \cup (IF db[x] = Absent THEN {x} ELSE {})
           row == [type |-> "transfer", status |-> "pending", wallet |-> w,
                   to |-> x, amount |-> a, fee |-> Tax(a)]
           verif == [tx |-> t, status |-> "pending_isin", attempts |-> 0,
                     verified |-> {}, tax |-> "pending"]
           f == [d \in D |-> IF d = t THEN row ELSE IF d = v THEN verif ELSE Moved(x, 0)]
           g == <<>>
           o == InitiateOp(w, x, a, t, v)
<1>1. a \in Nat /\ Tax(a) \in Nat
  <2>1. a \in Nat
    BY AmountAssumption
  <2>2. (a + 250) \div 500 \in Nat
    BY <2>1
  <2> QED
    BY <2>1, <2>2 DEF Tax
<1>2. row \in Tx /\ row.to = x /\ row.wallet = w /\ row.status = "pending"
  BY <1>1 DEF Tx, TxType, TxStatus
<1>3. verif \in Verification /\ verif.tx = t /\ verif.status = "pending_isin"
  BY StatusNames, MaxAttemptsAssumption DEF Verification
<1>4. Moved(x, 0) \in Wallet /\ Moved(x, 0).bal = Bal(x)
  BY MovedIsWallet
<1>5. D \in SUBSET Docs /\ t \in D /\ v \in D /\ t # v /\ t # x /\ v # x
  BY DocsDisjoint DEF Docs, Verifs
<1>6. o = [writes |-> f, posts |-> g]
  BY DEF InitiateOp
<1>7. DOMAIN g = {}
  BY NoPosts
<1>8. f[t] = row /\ f[v] = verif /\ (x \in D => f[x] = Moved(x, 0))
  BY <1>5
<1>9. f = [d \in D |-> f[d]] /\ \A d \in D : d = t \/ d = v \/ d = x
  OBVIOUS
<1> HIDE DEF D, row, verif, f, g, o
<1>10. \A d \in D : /\ d \in Wallets => f[d] \in Wallet
                    /\ d \in Txs => f[d] \in Tx
                    /\ d \in Verifs => f[d] \in Verification
  BY <1>2, <1>3, <1>4, <1>8, <1>9, DocsDisjoint DEF Verifs
<1>11. IsOp(o) /\ o.writes = f /\ DOMAIN o.writes = D /\ o.posts = g
  <2>1. DOMAIN g \subseteq Wallets \cap D /\ \A y \in DOMAIN g : g[y] \in Entry
    BY <1>7
  <2> QED
    BY <1>5, <1>6, <1>9, <1>10, <2>1, RowsAreOp
<1>12. \A d \in D : /\ d \in Wallets => d = x
                    /\ d \in Txs => d = t
                    /\ d \in Verifs => d = v
  BY <1>9, DocsDisjoint DEF Verifs
<1>13. Balanced(o)
  BY <1>4, <1>7, <1>8, <1>11, <1>12 DEF Balanced
<1>14. Opens(o, v)
  <2>1. Agree("pending_isin", "pending")
    BY DEF Agree
  <2>2. DOMAIN o.writes \cap Verifs = {v}
    BY <1>5, <1>11, <1>12
  <2> QED
    BY <1>2, <1>3, <1>5, <1>7, <1>8, <1>11, <2>1, <2>2 DEF Opens
<1>15. TxsKept(o)
  BY <1>11, <1>12 DEF TxsKept
<1>16. PostsNew(o)
  BY <1>7, <1>11 DEF PostsNew
<1>17. GoodOp(o)
  BY <1>11, <1>12, <1>13, <1>14, <1>15, <1>16 DEF GoodOp
<1> QED
  BY <1>11, <1>17 DEF o, D

\* What an update of a verification and its transaction has in common, without
\* any money.
LEMMA RewriteIsGood ==
    ASSUME BankTypeOK, VerificationsSound, NEW v \in Verifs, Exists(v),
           NEW vrow \in Verification, NEW trow \in Tx, NEW t, t = db[v].tx,
           vrow.tx = t, ~IsSent(vrow.status),
           trow.wallet = db[t].wallet, trow.to = db[t].to, trow.status # "pending",
           Agree(vrow.status, trow.status)
    PROVE  /\ GoodOp(Rewrite(v, vrow, t, trow))
           /\ DOMAIN Rewrite(v, vrow, t, trow).writes = {v, t}
<1> DEFINE D == {v, t}
           f == [d \in D |-> IF d = v THEN vrow ELSE trow]
           g == <<>>
           o == Rewrite(v, vrow, t, trow)
<1>1. t \in Txs /\ Exists(t)
  BY VerificationRow
<1>2. D \in SUBSET Docs /\ t # v
  BY <1>1, DocsDisjoint DEF Docs, Verifs
<1>3. o = [writes |-> f, posts |-> g]
  BY DEF Rewrite
<1>4. DOMAIN g = {}
  BY NoPosts
<1>5. f = [d \in D |-> f[d]] /\ f[v] = vrow /\ f[t] = trow
  BY <1>2
<1>6. \A d \in D : /\ d \notin Wallets
                   /\ d \in Txs => d = t
                   /\ d \in Verifs => d = v
  BY <1>1, DocsDisjoint DEF Verifs
<1>7. v \in D /\ t \in D
  OBVIOUS
<1> HIDE DEF D, f, g, o
<1>8. IsOp(o) /\ o.writes = f /\ DOMAIN o.writes = D /\ o.posts = g
  <2>1. DOMAIN g \subseteq Wallets \cap D /\ \A y \in DOMAIN g : g[y] \in Entry
    BY <1>4
  <2>2. \A d \in D : /\ d \in Wallets => f[d] \in Wallet
                     /\ d \in Txs => f[d] \in Tx
                     /\ d \in Verifs => f[d] \in Verification
    BY <1>5, <1>6
  <2> QED
    BY <1>2, <1>3, <1>5, <2>1, <2>2, RowsAreOp
<1>9. Balanced(o)
  BY <1>4, <1>6, <1>8 DEF Balanced
<1>10. TxsKept(o)
  BY <1>5, <1>6, <1>7, <1>8 DEF TxsKept
<1>11. Moves(o, v)
  BY <1>5, <1>6, <1>7, <1>8 DEF Moves
<1>12. PostsNew(o)
  BY <1>4, <1>8 DEF PostsNew
<1>13. GoodOp(o)
  BY <1>6, <1>8, <1>9, <1>10, <1>11, <1>12 DEF GoodOp
<1> QED
  BY <1>8, <1>13 DEF o, D

LEMMA FailIsGood ==
    ASSUME BankTypeOK, VerificationsSound, NEW v \in Verifs, Exists(v)
    PROVE  GoodOp(FailOp(v)) /\ DOMAIN FailOp(v).writes = {v, db[v].tx}
<1> DEFINE t == db[v].tx
           vrow == [db[v] EXCEPT !.status = "failed"]
           trow == [db[t] EXCEPT !.status = "failed"]
<1>1. db[v] \in Verification /\ db[t] \in Tx
  BY VerificationRow
<1>2. /\ vrow \in Verification /\ vrow.tx = t /\ vrow.status = "failed"
      /\ trow \in Tx /\ trow.wallet = db[t].wallet /\ trow.to = db[t].to
      /\ trow.status = "failed"
  BY <1>1 DEF Verification, VerifStatus, Tx, TxStatus
<1>3. ~IsSent("failed") /\ Agree("failed", "failed")
  BY StatusNames DEF IsSent, Agree
<1>4. FailOp(v) = Rewrite(v, vrow, t, trow)
  BY DEF FailOp
<1> HIDE DEF vrow, trow
<1> QED
  BY <1>2, <1>3, <1>4, RewriteIsGood

LEMMA CancelVerificationIsGood ==
    ASSUME BankTypeOK, VerificationsSound, NEW v \in Verifs, Exists(v)
    PROVE  /\ GoodOp(CancelVerificationOp(v))
           /\ DOMAIN CancelVerificationOp(v).writes = {v, db[v].tx}
<1> DEFINE t == db[v].tx
           vrow == [db[v] EXCEPT !.status = "cancelled", !.tax = "refunded"]
           trow == [db[t] EXCEPT !.status = "cancelled"]
<1>1. db[v] \in Verification /\ db[t] \in Tx
  BY VerificationRow
<1>2. /\ vrow \in Verification /\ vrow.tx = t /\ vrow.status = "cancelled"
      /\ trow \in Tx /\ trow.wallet = db[t].wallet /\ trow.to = db[t].to
      /\ trow.status = "cancelled"
  BY <1>1 DEF Verification, VerifStatus, Tx, TxStatus
<1>3. ~IsSent("cancelled") /\ Agree("cancelled", "cancelled")
  BY StatusNames DEF IsSent, Agree
<1>4. CancelVerificationOp(v) = Rewrite(v, vrow, t, trow)
  BY DEF CancelVerificationOp
<1> HIDE DEF vrow, trow
<1> QED
  BY <1>2, <1>3, <1>4, RewriteIsGood

\* An update of the verification alone.
LEMMA CodeIsGood ==
    ASSUME BankTypeOK, VerificationsSound, NEW v \in Verifs, Exists(v),
           NEW row \in Verification, row.tx = db[v].tx,
           IsSent(row.status) => IsSent(db[v].status),
           row.status \notin {"cancelled", "failed", "fully_verified"},
           NEW o, o = [writes |-> [d \in {v} |-> row], posts |-> <<>>]
    PROVE  GoodOp(o) /\ DOMAIN o.writes = {v}
<1> DEFINE D == {v}
           f == [d \in D |-> row]
           g == <<>>
<1>1. D \in SUBSET Docs /\ v \in D
  BY DEF Docs, Verifs
<1>2. o = [writes |-> f, posts |-> g]
  OBVIOUS
<1>3. DOMAIN g = {}
  BY NoPosts
<1>4. f = [d \in D |-> f[d]] /\ f[v] = row
  OBVIOUS
<1>5. \A d \in D : d \notin Wallets /\ d \notin Txs /\ d = v
  BY DocsDisjoint DEF Verifs
<1> HIDE DEF f, g
<1>6. IsOp(o) /\ o.writes = f /\ DOMAIN o.writes = D /\ o.posts = g
  <2>1. DOMAIN g \subseteq Wallets \cap D /\ \A y \in DOMAIN g : g[y] \in Entry
    BY <1>3
  <2>2. \A d \in D : /\ d \in Wallets => f[d] \in Wallet
                     /\ d \in Txs => f[d] \in Tx
                     /\ d \in Verifs => f[d] \in Verification
    BY <1>4, <1>5
  <2> HIDE DEF D
  <2> QED
    BY <1>1, <1>2, <1>4, <2>1, <2>2, RowsAreOp
<1> HIDE DEF D
<1>7. Balanced(o)
  BY <1>3, <1>5, <1>6 DEF Balanced
<1>8. TxsKept(o)
  BY <1>5, <1>6 DEF TxsKept
<1>9. Moves(o, v)
  <2>1. \A status : Agree(row.status, status)
    BY DEF Agree
  <2>2. DOMAIN o.writes \cap Verifs = {v} /\ DOMAIN o.writes \cap Txs = {}
    BY <1>1, <1>5, <1>6
  <2> QED
    BY <1>4, <1>6, <2>1, <2>2 DEF Moves
<1>10. PostsNew(o)
  BY <1>3, <1>6 DEF PostsNew
<1> QED
  BY <1>5, <1>6, <1>7, <1>8, <1>9, <1>10 DEF GoodOp, D

LEMMA WrongCodeIsGood ==
    ASSUME BankTypeOK, VerificationsSound, NEW v \in Verifs, Exists(v),
           IsSent(db[v].status), db[v].attempts < MaxAttempts
    PROVE  GoodOp(WrongCodeOp(v)) /\ DOMAIN WrongCodeOp(v).writes = {v}
<1> DEFINE row == [db[v] EXCEPT !.attempts = @ + 1]
           o == WrongCodeOp(v)
<1>1. db[v] \in Verification
  BY VerificationRow
<1>2. row \in Verification /\ row.tx = db[v].tx /\ row.status = db[v].status
  BY <1>1, MaxAttemptsAssumption DEF Verification
<1>3. db[v].status \notin {"cancelled", "failed", "fully_verified"}
  BY StatusNames DEF IsSent
<1>4. o = [writes |-> [d \in {v} |-> row], posts |-> <<>>]
  BY DEF WrongCodeOp
<1> HIDE DEF row, o
<1>5. GoodOp(o) /\ DOMAIN o.writes = {v}
  BY <1>2, <1>3, <1>4, CodeIsGood
<1> QED
  BY <1>5 DEF o

LEMMA RightCodeIsGood ==
    ASSUME BankTypeOK, VerificationsSound, NEW v \in Verifs, Exists(v), NEW i \in 1..2
    PROVE  GoodOp(RightCodeOp(v, i)) /\ DOMAIN RightCodeOp(v, i).writes = {v}
<1> DEFINE row == [db[v] EXCEPT !.status = Pending[i + 1], !.verified = @ \cup {i}]
           o == RightCodeOp(v, i)
<1>1. db[v] \in Verification
  BY VerificationRow
<1>2. i + 1 \in Steps /\ i \in Steps
  BY DEF Steps
<1>3. Pending[i + 1] \in VerifStatus /\ ~IsSent(Pending[i + 1])
      /\ Pending[i + 1] \notin {"cancelled", "failed", "fully_verified"}
  BY <1>2, StatusNames DEF IsSent
<1>4. row \in Verification /\ row.tx = db[v].tx /\ row.status = Pending[i + 1]
  BY <1>1, <1>2, <1>3 DEF Verification
<1>5. o = [writes |-> [d \in {v} |-> row], posts |-> <<>>]
  BY DEF RightCodeOp
<1> HIDE DEF row, o
<1>6. GoodOp(o) /\ DOMAIN o.writes = {v}
  BY <1>3, <1>4, <1>5, CodeIsGood
<1> QED
  BY <1>6 DEF o

LEMMA CompleteIsGood ==
    ASSUME BankTypeOK, VerificationsSound, NEW v \in Verifs, Exists(v),
           db[v].status = Sent[3], v \in known
    PROVE  /\ IsOp(CompleteOp(v)) /\ CompleteOp(v) # Absent
           /\ NotificationsAccepted(v) => GoodOp(CompleteOp(v))
           /\ DOMAIN CompleteOp(v).writes = {v, db[v].tx, db[db[v].tx].wallet, db[db[v].tx].to}
<1> DEFINE t == db[v].tx
           w == db[t].wallet
           x == db[t].to
           net == db[t].amount
           gross == db[t].amount + db[t].fee
           vrow == [db[v] EXCEPT !.status = "fully_verified", !.verified = @ \cup {3},
                                 !.tax = "collected"]
           trow == [db[t] EXCEPT !.status = "completed"]
           D == {v, t, w, x}
           f == [d \in D |-> IF d = v THEN vrow
                             ELSE IF d = t THEN trow
                             ELSE IF d = w THEN Moved(w, -gross)
                             ELSE Moved(x, net)]
           g == [y \in {w, x} |-> IF y = w THEN Posting(w, t, "debit", gross)
                                           ELSE Posting(x, t, "credit", net)]
           o == CompleteOp(v)
<1>1. /\ db[v] \in Verification /\ t \in Txs /\ Exists(t) /\ db[t] \in Tx
      /\ w \in Wallets /\ x \in Wallets /\ w # x
  BY VerificationRow
<1>2. net \in Nat /\ gross \in Nat /\ net \in Int /\ -gross \in Int
  BY <1>1 DEF Tx
<1>3. /\ vrow \in Verification /\ vrow.tx = t /\ vrow.status = "fully_verified"
      /\ trow \in Tx /\ trow.wallet = w /\ trow.to = x /\ trow.status = "completed"
  <2>1. 3 \in Steps
    BY StatusNames
  <2> QED
    BY <1>1, <2>1 DEF Verification, VerifStatus, Tx, TxStatus
<1>4. ~IsSent("fully_verified") /\ Agree("fully_verified", "completed")
  BY StatusNames DEF IsSent, Agree
<1>5. IsSent(db[v].status)
  BY StatusNames DEF IsSent
<1>6. o = [writes |-> f, posts |-> g]
  BY DEF CompleteOp
<1>7. D \in SUBSET Docs /\ v # t /\ v # w /\ v # x /\ t # w /\ t # x
  BY <1>1, DocsDisjoint DEF Docs, Verifs
<1>8. /\ f = [d \in D |-> f[d]] /\ f[v] = vrow /\ f[t] = trow
      /\ f[w] = Moved(w, -gross) /\ f[x] = Moved(x, net)
  BY <1>1, <1>7
<1>9. /\ DOMAIN g = {w, x} /\ g = [y \in {w, x} |-> g[y]]
      /\ g[w] = Posting(w, t, "debit", gross) /\ g[x] = Posting(x, t, "credit", net)
  BY <1>1
<1>10. v \in D /\ t \in D /\ w \in D /\ x \in D
       /\ \A d \in D : d = v \/ d = t \/ d = w \/ d = x
  OBVIOUS
<1> HIDE DEF vrow, trow, D, f, g, o, t, w, x, net, gross
<1>11. /\ Moved(w, -gross) \in Wallet /\ Moved(w, -gross).bal = Bal(w) + (-gross)
       /\ Moved(x, net) \in Wallet /\ Moved(x, net).bal = Bal(x) + net
       /\ Bal(w) \in Int /\ Bal(x) \in Int
  BY <1>1, <1>2, MovedIsWallet
<1>12. /\ g[w] \in Entry /\ g[w].bal = Bal(w) + Signed(g[w])
       /\ g[x] \in Entry /\ g[x].bal = Bal(x) + Signed(g[x])
  BY <1>1, <1>2, <1>9, PostingIsEntry
<1>13. /\ g[w].bal = Bal(w) + (-gross) /\ g[x].bal = Bal(x) + net
       /\ g[w].tx = t /\ g[w].side = "debit"
       /\ g[x].tx = t /\ g[x].side = "credit"
  BY <1>2, <1>9, <1>11 DEF Posting
<1>14. \A d \in D : /\ d \in Wallets => d = w \/ d = x
                    /\ d \in Txs => d = t
                    /\ d \in Verifs => d = v
  BY <1>1, <1>10, DocsDisjoint DEF Verifs
<1>15. IsOp(o) /\ o.writes = f /\ DOMAIN o.writes = D /\ o.posts = g
  <2>1. DOMAIN g \subseteq Wallets \cap D /\ \A y \in DOMAIN g : g[y] \in Entry
    BY <1>1, <1>9, <1>10, <1>12
  <2>2. \A d \in D : /\ d \in Wallets => f[d] \in Wallet
                     /\ d \in Txs => f[d] \in Tx
                     /\ d \in Verifs => f[d] \in Verification
    BY <1>3, <1>8, <1>11, <1>14
  <2> QED
    BY <1>6, <1>7, <1>8, <2>1, <2>2, RowsAreOp
<1>16. Balanced(o)
  BY <1>8, <1>9, <1>11, <1>12, <1>13, <1>14, <1>15 DEF Balanced
<1>17. TxsKept(o)
  <2>1. db[t].wallet = w /\ db[t].to = x /\ db[v].tx = t
    BY DEF w, x, t
  <2> QED
    BY <1>3, <1>8, <1>10, <1>14, <1>15, <2>1 DEF TxsKept
<1>18. Moves(o, v)
  <2>1. db[v].tx = t
    BY DEF t
  <2>2. DOMAIN o.writes \cap Verifs = {v} /\ DOMAIN o.writes \cap Txs \subseteq {t}
    BY <1>10, <1>14, <1>15
  <2> QED
    BY <1>3, <1>4, <1>8, <1>10, <1>15, <2>1, <2>2 DEF Moves
<1>19. ASSUME NotificationsAccepted(v) PROVE Completes(o)
  <2>1. db[t].wallet = w /\ db[t].to = x /\ db[v].tx = t
    BY DEF w, x, t
  <2>2. /\ v \in DOMAIN o.writes /\ o.writes[v].status = "fully_verified"
        /\ DOMAIN o.posts = {w, x}
        /\ \A y \in DOMAIN o.posts :
              o.posts[y].tx = t /\ o.posts[y].side = IF y = w THEN "debit" ELSE "credit"
    BY <1>1, <1>3, <1>8, <1>9, <1>10, <1>13, <1>15
  <2> QED
    BY <1>5, <1>19, <2>1, <2>2 DEF Completes
<1>20. NotificationsAccepted(v) => GoodOp(o)
  BY <1>14, <1>15, <1>16, <1>17, <1>18, <1>19 DEF GoodOp
<1>21. o # Absent
  <2>1. f \in [D -> Wallet \cup Tx \cup OtherRows]
    BY <1>3, <1>8, <1>10, <1>11, VerificationRows
  <2>2. g \in [{w, x} -> Entry] /\ {w, x} \in SUBSET Wallets
    BY <1>1, <1>9, <1>12
  <2>3. o \in Operation
    BY <1>6, <1>7, <2>1, <2>2 DEF Operation
  <2> QED
    BY <2>3, OperationAssumption
<1>22. IsOp(CompleteOp(v)) /\ CompleteOp(v) # Absent
  BY <1>15, <1>21 DEF o
<1>23. NotificationsAccepted(v) => GoodOp(CompleteOp(v))
  BY <1>20 DEF o
<1>24. DOMAIN CompleteOp(v).writes = D
  BY <1>15 DEF o
<1> QED
  BY <1>22, <1>23, <1>24 DEF D, t, w, x

\* The operations of the users write no verification.
LEMMA PossibleIsGood ==
    ASSUME BankTypeOK, NEW o, Possible(o)
    PROVE  GoodOp(o)
<1>0. IsOp(o) /\ Balanced(o)
  BY PossibleIsOp
<1>1. ASSUME NEW w \in Wallets, NEW x \in Wallets, NEW a \in Amounts, NEW t \in Txs,
             CanTransfer(w, x, a, t), o = TransferOp(w, x, a, t)
      PROVE  GoodOp(o)
  <2>1. /\ t \in DOMAIN o.writes /\ \A d \in Txs \cap DOMAIN o.writes : d = t
        /\ \A d \in DOMAIN o.writes : d \notin Verifs
    BY <1>1, TransferIsOp, DocsDisjoint DEF Verifs
  <2>2. \A y \in DOMAIN o.posts : o.posts[y].tx = t
    BY <1>1 DEF TransferOp, Posting
  <2> QED
    BY <1>0, <1>1, <2>1, <2>2 DEF GoodOp, TxsKept, PostsNew, Exists, CanTransfer
<1>2. ASSUME NEW w \in Wallets, NEW a \in Amounts, NEW t \in Txs,
             CanDeposit(w, t), o = DepositOp(w, a, t)
      PROVE  GoodOp(o)
  <2>1. /\ t \in DOMAIN o.writes /\ \A d \in Txs \cap DOMAIN o.writes : d = t
        /\ \A d \in DOMAIN o.writes : d \notin Verifs
    BY <1>2, DepositIsOp, DocsDisjoint DEF Verifs
  <2>2. \A y \in DOMAIN o.posts : o.posts[y].tx = t
    BY <1>2 DEF DepositOp, Posting
  <2> QED
    BY <1>0, <1>2, <2>1, <2>2 DEF GoodOp, TxsKept, PostsNew, Exists, CanDeposit
<1>3. ASSUME NEW w \in Wallets, NEW a \in Amounts, NEW t \in Txs,
             CanWithdraw(w, a, t), o = WithdrawOp(w, a, t)
      PROVE  GoodOp(o)
  <2>1. /\ t \in DOMAIN o.writes /\ \A d \in Txs \cap DOMAIN o.writes : d = t
        /\ \A d \in DOMAIN o.writes : d \notin Verifs
    BY <1>3, WithdrawIsOp, DocsDisjoint DEF Verifs
  <2>2. \A y \in DOMAIN o.posts : o.posts[y].tx = t
    BY <1>3 DEF WithdrawOp, Posting
  <2> QED
    BY <1>0, <1>3, <2>1, <2>2 DEF GoodOp, TxsKept, PostsNew, Exists, CanWithdraw
<1>4. ASSUME NEW t \in Txs, CanCancel(t), o = CancelOp(t)
      PROVE  GoodOp(o)
  <2>1. db[t] \in Tx /\ db[t].wallet \in Wallets /\ db[t].wallet # t
    BY <1>4, CancelIsOp, DocsDisjoint DEF CanCancel, BankTypeOK
  <2>2. /\ t \in DOMAIN o.writes /\ \A d \in Txs \cap DOMAIN o.writes : d = t
        /\ \A d \in DOMAIN o.writes : d \notin Verifs
    BY <1>4, <2>1, CancelIsOp, DocsDisjoint DEF Verifs
  <2>3. o.writes[t] = [db[t] EXCEPT !.status = "cancelled"]
    BY <1>4, <2>1 DEF CancelOp
  <2>4. /\ o.writes[t].wallet = db[t].wallet /\ o.writes[t].to = db[t].to
        /\ o.writes[t].status = "cancelled"
    BY <2>1, <2>3 DEF Tx
  <2>5. \A y \in DOMAIN o.posts : /\ y = db[t].wallet
                                  /\ o.posts[y].tx = t
                                  /\ o.posts[y].side = "credit"
    BY <1>4 DEF CancelOp, Posting
  <2>6. Exists(t) /\ db[t].status = "pending"
    BY <1>4 DEF CanCancel, Exists
  <2>7. TxsKept(o)
    BY <2>2, <2>4, <2>6 DEF TxsKept
  <2>8. Refunds(o)
    BY <2>2, <2>4, <2>5, <2>6 DEF Refunds
  <2> QED
    BY <1>0, <2>2, <2>7, <2>8 DEF GoodOp
<1> QED
  BY <1>1, <1>2, <1>3, <1>4 DEF Possible

LEMMA CanIsGood ==
    ASSUME BankTypeOK, VerificationsSound, NEW o, Can(o)
    PROVE  GoodOp(o)
<1>1. CASE SecurePossible(o)
  BY <1>1, InitiateIsGood, FailIsGood, WrongCodeIsGood, RightCodeIsGood, CompleteIsGood,
     CancelVerificationIsGood DEF SecurePossible
<1> QED
  BY <1>1, PossibleIsGood DEF Can

----------------------------------------------------------------------------
\* The shape of a completion.
Completion(v, vrow, t, trow, w, wrow, x, xrow, debit, credit) ==
    [writes |-> [d \in {v, t, w, x} |-> IF d = v THEN vrow
                                       ELSE IF d = t THEN trow
                                       ELSE IF d = w THEN wrow
                                       ELSE xrow],
     posts |-> [y \in {w, x} |-> IF y = w THEN debit ELSE credit]]

\* What is possible stays possible, with the same writes and postings, while
\* the documents it writes do not change, the codes of the verifications it
\* writes stay known, no wallet disappears and no deleted user comes back.
LEMMA CanStays ==
    ASSUME BankTypeOK, VerificationsSound, NEW o, Can(o),
           \A d \in DOMAIN o.writes : db'[d] = db[d],
           \A v \in Verifs \cap DOMAIN o.writes : v \in known => v \in known',
           \A v \in Verifs : Exists(v) => db'[v].tx = db[v].tx,
           \A d \in Wallets \cup Txs : Exists(d) => db'[d] # Absent,
           \A t \in Txs : Exists(t) => /\ db'[t].wallet = db[t].wallet
                                       /\ db'[t].to = db[t].to,
           gone \subseteq gone'
    PROVE  Can(o)'
<1>1. ASSUME NEW w \in Wallets, NEW x \in Wallets, NEW a \in Amounts,
             NEW t \in Txs, NEW v \in Verifs,
             Owner[w] # Owner[x], ~Exists(t), ~Exists(v), o = InitiateOp(w, x, a, t, v)
      PROVE  SecurePossible(o)'
  <2>1. db'[t] = db[t] /\ db'[v] = db[v] /\ (db[x] = Absent => db'[x] = Absent)
    BY <1>1, InitiateIsGood
  <2>2. db'[x] = Absent <=> db[x] = Absent
    BY <2>1 DEF Exists
  <2>3. o = InitiateOp(w, x, a, t, v)'
    BY <1>1, <2>2 DEF InitiateOp, Moved, Bal, Tax
  <2>4. ~Exists(t)' /\ ~Exists(v)'
    BY <1>1, <2>1 DEF Exists
  <2> QED
    BY <1>1, <2>3, <2>4 DEF SecurePossible
<1>2. ASSUME NEW v \in Verifs, Exists(v), IsSent(db[v].status), o = FailOp(v)
      PROVE  SecurePossible(o)'
  <2>1. db'[v] = db[v] /\ db'[db[v].tx] = db[db[v].tx]
    BY <1>2, FailIsGood
  <2>2. o = FailOp(v)' /\ Exists(v)' /\ IsSent(db'[v].status)
    BY <1>2, <2>1 DEF FailOp, Rewrite, Exists
  <2>3. IsSent(db[v].status)'
    BY <2>2 DEF IsSent
  <2> QED
    BY <2>2, <2>3 DEF SecurePossible
<1>3. ASSUME NEW v \in Verifs, Exists(v), IsSent(db[v].status),
             db[v].attempts < MaxAttempts, o = WrongCodeOp(v)
      PROVE  SecurePossible(o)'
  <2>1. db'[v] = db[v]
    BY <1>3, WrongCodeIsGood
  <2>2. o = WrongCodeOp(v)' /\ Exists(v)' /\ (db[v].attempts < MaxAttempts)'
    BY <1>3, <2>1 DEF WrongCodeOp, Exists
  <2>3. IsSent(db[v].status)'
    BY <1>3, <2>1 DEF IsSent
  <2> QED
    BY <2>2, <2>3 DEF SecurePossible
<1>4. ASSUME NEW v \in Verifs, NEW i \in 1..2, Exists(v), db[v].status = Sent[i],
             o = RightCodeOp(v, i)
      PROVE  SecurePossible(o)'
  <2>1. db'[v] = db[v]
    BY <1>4, RightCodeIsGood
  <2>2. o = RightCodeOp(v, i)' /\ Exists(v)' /\ (db[v].status = Sent[i])'
    BY <1>4, <2>1 DEF RightCodeOp, Exists
  <2> QED
    BY <2>2 DEF SecurePossible
<1>5. ASSUME NEW v \in Verifs, Exists(v), db[v].status = Sent[3], v \in known,
             NotificationsAccepted(v), o = CompleteOp(v)
      PROVE  SecurePossible(o)'
  <2> DEFINE t == db[v].tx
  <2>1. /\ db'[v] = db[v] /\ db'[t] = db[t]
        /\ db'[db[t].wallet] = db[db[t].wallet] /\ db'[db[t].to] = db[db[t].to]
        /\ v \in known'
    BY <1>5, CompleteIsGood
  <2>2. o = CompleteOp(v)'
    <3> DEFINE w == db[t].wallet
               x == db[t].to
               gross == db[t].amount + db[t].fee
               net == db[t].amount
    <3>1. /\ Moved(w, -gross)' = Moved(w, -gross)
          /\ Moved(x, net)' = Moved(x, net)
          /\ Posting(w, t, "debit", gross)' = Posting(w, t, "debit", gross)
          /\ Posting(x, t, "credit", net)' = Posting(x, t, "credit", net)
      BY <2>1 DEF Moved, Posting, Bal
    <3>2. CompleteOp(v)
            = Completion(v, [db[v] EXCEPT !.status = "fully_verified",
                                          !.verified = @ \cup {3}, !.tax = "collected"],
                         t, [db[t] EXCEPT !.status = "completed"],
                         w, Moved(w, -gross), x, Moved(x, net),
                         Posting(w, t, "debit", gross), Posting(x, t, "credit", net))
      BY DEF CompleteOp, Completion
    <3>3. CompleteOp(v)'
            = Completion(v, [db'[v] EXCEPT !.status = "fully_verified",
                                           !.verified = @ \cup {3}, !.tax = "collected"],
                         t', [db'[t'] EXCEPT !.status = "completed"],
                         w', Moved(w, -gross)', x', Moved(x, net)',
                         Posting(w, t, "debit", gross)', Posting(x, t, "credit", net)')
      BY DEF CompleteOp, Completion
    <3>4. db'[v] = db[v] /\ t' = t /\ db'[t'] = db[t] /\ w' = w /\ x' = x
      BY <2>1
    <3> QED
      BY <1>5, <3>1, <3>2, <3>3, <3>4
  <2>3. NotificationsAccepted(v)'
    BY <1>5, <2>1 DEF NotificationsAccepted, Sender, Recipient
  <2>4. Exists(v)' /\ (db[v].status = Sent[3])'
    BY <1>5, <2>1 DEF Exists
  <2> QED
    BY <2>1, <2>2, <2>3, <2>4 DEF SecurePossible
<1>6. ASSUME NEW v \in Verifs, Exists(v),
             db[v].status \notin {"fully_verified", "cancelled"},
             o = CancelVerificationOp(v)
      PROVE  SecurePossible(o)'
  <2>1. db'[v] = db[v] /\ db'[db[v].tx] = db[db[v].tx]
    BY <1>6, CancelVerificationIsGood
  <2>2. /\ o = CancelVerificationOp(v)' /\ Exists(v)'
        /\ (db[v].status \notin {"fully_verified", "cancelled"})'
    BY <1>6, <2>1 DEF CancelVerificationOp, Rewrite, Exists
  <2> QED
    BY <2>2 DEF SecurePossible
<1>7. CASE Possible(o)
  BY <1>7, Frame DEF Can
<1>8. CASE SecurePossible(o)
  BY <1>1, <1>2, <1>3, <1>4, <1>5, <1>6, <1>8 DEF SecurePossible, Can
<1> QED
  BY <1>7, <1>8 DEF Can

----------------------------------------------------------------------------
(***************************************************************************)
(* The documents and the sessions.                                         *)
(***************************************************************************)

\* A session that can still commit holds an operation that is possible now.
SecureOpsPossible == \A s \in Open \ doomed : Can(op[s])

\* What a code request has read is a verification that is still there.
AskedExist == \A c \in Callers : asking[c] # Absent => Exists(asking[c].verif)

Core == SecureTypeOK /\ SecureOpsPossible /\ VerificationsSound /\ AskedExist

\* No step takes a document away or changes whom it is about.
Endures ==
    /\ \A v \in Verifs : Exists(v) => db'[v] # Absent /\ db'[v].tx = db[v].tx
    /\ \A d \in Wallets \cup Txs : Exists(d) => db'[d] # Absent
    /\ \A t \in Txs : Exists(t) => /\ db'[t].wallet = db[t].wallet
                                   /\ db'[t].to = db[t].to
    /\ gone \subseteq gone'

LEMMA SameDocsEndure ==
    ASSUME db' = db, gone \subseteq gone'
    PROVE  /\ Endures
           /\ AskedExist /\ asking' = asking => AskedExist'
           /\ VerificationsSound => VerificationsSound'
  BY DEF Endures, Exists, AskedExist, VerificationsSound

\* An operation keeps the documents apart from those it writes.
LEMMA ApplyEndures ==
    ASSUME BankTypeOK, VerificationsSound, NEW o, GoodOp(o), Apply(o), gone' = gone
    PROVE  /\ Endures /\ VerificationsSound'
           /\ \A d \in Docs : db'[d] = IF d \in DOMAIN o.writes THEN o.writes[d] ELSE db[d]
<1>1. /\ IsOp(o) /\ TxsKept(o)
      /\ \A v \in Verifs \cap DOMAIN o.writes : Opens(o, v) \/ Moves(o, v)
  BY DEF GoodOp
<1>2. \A d \in Docs : db'[d] = IF d \in DOMAIN o.writes THEN o.writes[d] ELSE db[d]
  BY DEF Apply
<1>3. ASSUME NEW v \in Verifs, Exists(v)
      PROVE  db'[v] # Absent /\ db'[v].tx = db[v].tx
  <2>1. v \in Docs
    BY DEF Docs, Verifs
  <2>2. CASE v \in DOMAIN o.writes
    <3>1. o.writes[v] \in Verification
      BY <1>1, <2>1, <2>2, VerificationRows DEF IsOp, Verifs
    <3>2. Moves(o, v)
      BY <1>1, <1>3, <2>2 DEF Opens
    <3> QED
      BY <1>2, <2>1, <2>2, <3>1, <3>2, VerificationRows DEF Moves
  <2> QED
    BY <1>2, <1>3, <2>1, <2>2 DEF Exists
<1>4. \A d \in Wallets \cup Txs : Exists(d) => db'[d] # Absent
  BY <1>1, <1>2, AbsentAssumption DEF IsOp, Docs, Exists
<1>5. \A t \in Txs : Exists(t) => /\ db'[t].wallet = db[t].wallet
                                  /\ db'[t].to = db[t].to
  BY <1>1, <1>2 DEF TxsKept, Docs
<1>6. Endures
  BY <1>3, <1>4, <1>5 DEF Endures
<1>7. ASSUME NEW v \in Verifs, db'[v] # Absent, ~Exists(v)
      PROVE  v \in DOMAIN o.writes /\ Opens(o, v) /\ db'[v] = o.writes[v]
  <2>1. v \in Docs
    BY DEF Docs, Verifs
  <2> QED
    BY <1>1, <1>2, <1>7, <2>1 DEF Moves, Exists
<1>8. ASSUME NEW v \in Verifs, db'[v] # Absent
      PROVE  LET t == db'[v].tx
             IN  /\ db'[t] # Absent
                 /\ db'[t].to \in Wallets
                 /\ Owner[db'[t].wallet] # Owner[db'[t].to]
  <2>1. CASE Exists(v)
    <3>1. PICK t : t = db[v].tx
      OBVIOUS
    <3>2. t \in Txs /\ Exists(t) /\ db[t].to \in Wallets
          /\ Owner[db[t].wallet] # Owner[db[t].to]
      BY <2>1, <3>1, VerificationRow DEF VerificationsSound
    <3> QED
      BY <1>6, <2>1, <3>1, <3>2 DEF Endures
  <2>2. CASE ~Exists(v)
    <3>1. PICK t : t = o.writes[v].tx
      OBVIOUS
    <3>2. /\ Opens(o, v) /\ db'[v].tx = t
      BY <1>7, <1>8, <2>2, <3>1
    <3>3. o.writes[v] \in Verification
      BY <1>1, <1>7, <1>8, <2>2, VerificationRows DEF IsOp, Verifs
    <3>4. t \in Txs /\ t \in Docs /\ t \in DOMAIN o.writes
      BY <3>1, <3>2, <3>3 DEF Verification, Opens, Docs
    <3>5. db'[t] = o.writes[t] /\ o.writes[t] \in Tx
      BY <1>1, <1>2, <3>4 DEF IsOp
    <3> QED
      BY <3>1, <3>2, <3>5, AbsentAssumption DEF Opens
  <2> QED
    BY <2>1, <2>2
<1>9. ASSUME NEW v \in Verifs, NEW y \in Verifs, db'[v] # Absent, db'[y] # Absent,
             db'[v].tx = db'[y].tx
      PROVE  v = y
  <2>1. CASE Exists(v) /\ Exists(y)
    BY <1>3, <1>9, <2>1 DEF VerificationsSound
  <2>2. ASSUME NEW a \in Verifs, NEW b \in Verifs, ~Exists(a), Exists(b),
               db'[a] # Absent, db'[a].tx = db'[b].tx
        PROVE  FALSE
    <3>1. db'[b].tx = db[b].tx /\ Exists(db[b].tx)
      BY <1>3, <2>2, VerificationRow
    <3>2. ~Exists(db'[a].tx)
      BY <1>7, <2>2 DEF Opens
    <3> QED
      BY <2>2, <3>1, <3>2
  <2>3. CASE ~Exists(v) /\ ~Exists(y)
    BY <1>7, <1>9, <2>3 DEF Opens
  <2> QED
    BY <1>9, <2>1, <2>2, <2>3
<1>10. VerificationsSound'
  BY <1>8, <1>9 DEF VerificationsSound, Exists
<1> QED
  BY <1>2, <1>6, <1>10

LEMMA CoreStillCan ==
    ASSUME BankTypeOK, VerificationsSound, Endures, NEW r \in Sessions, Can(op'[r]),
           \A d \in DOMAIN op'[r].writes : db'[d] = db[d],
           \A v \in Verifs \cap DOMAIN op'[r].writes : v \in known => v \in known'
    PROVE  Can(op[r])'
<1>1. PICK o : o = op'[r]
  OBVIOUS
<1>2. Can(o)'
  BY <1>1, CanStays DEF Endures
<1> QED
  BY <1>1, <1>2 DEF Can, Possible, SecurePossible

\* A session takes an operation up that is possible, or one it cannot commit.
Starts(s, o) ==
    /\ op[s] = Absent
    /\ op' = [op EXCEPT ![s] = o]
    /\ UNCHANGED <<db, ledger>>
    /\ \/ doomed' = doomed /\ Can(o)
       \/ doomed' = doomed \cup {s} /\ IsOp(o) /\ o # Absent

LEMMA CoreBegin ==
    ASSUME Core, NEW s \in Sessions, NEW o, Starts(s, o), UNCHANGED secureVars
    PROVE  Core'
<1>1. BankTypeOK' /\ db' = db /\ known' = known /\ asking' = asking /\ gone \subseteq gone'
  BY DEF Core, SecureTypeOK, TypeOK, BankTypeOK, Starts, secureVars
<1>2. s \notin Open /\ s \notin doomed
  BY DEF Core, SecureTypeOK, TypeOK, Starts, Open
<1>3. IsOp(o)
  BY CanIsGood DEF Core, SecureTypeOK, TypeOK, GoodOp, Starts
<1>4. Open \subseteq Open' /\ Open' \subseteq Open \cup {s}
  BY <1>2 DEF Starts, Open, Core, SecureTypeOK, TypeOK
<1>5. \A r \in Open' : IsOp(op'[r])
  BY <1>2, <1>3, <1>4 DEF Starts, Core, SecureTypeOK, TypeOK, Open
<1>6. op'[s] = o /\ \A r \in Sessions \ {s} : op'[r] = op[r]
  BY DEF Starts, Core, SecureTypeOK, TypeOK
<1>7. Endures /\ AskedExist' /\ VerificationsSound'
  BY <1>1, SameDocsEndure DEF Core
<1>8. ASSUME NEW r \in Open' \ doomed'
      PROVE  Can(op[r])'
  <2>1. r \in Sessions
    BY DEF Open
  <2>2. Can(op'[r])
    <3>1. CASE r = s
      BY <1>6, <1>8, <3>1 DEF Starts
    <3>2. CASE r # s
      BY <1>4, <1>8, <3>2 DEF Starts, Core, SecureTypeOK, TypeOK, SecureOpsPossible, Can
    <3> QED
      BY <3>1, <3>2
  <2> QED
    BY <1>1, <1>7, <2>1, <2>2, CoreStillCan DEF Core, SecureTypeOK, TypeOK
<1>9. doomed' \subseteq Open' /\ DOMAIN op' = Sessions
  BY <1>2, <1>4, <1>6 DEF Core, SecureTypeOK, TypeOK, Starts, Open
<1>10. SecureOpsPossible'
  BY <1>8 DEF SecureOpsPossible, Can
<1>11. TypeOK'
  BY <1>1, <1>5, <1>9 DEF TypeOK, IsOp
<1>12. SecureTypeOK'
  BY <1>11 DEF SecureTypeOK, Core, secureVars
<1> QED
  BY <1>7, <1>10, <1>12 DEF Core

\* When the documents of D change, the sessions that write none of them stay
\* in play.
LEMMA CoreDooming ==
    ASSUME Core, NEW D, BankTypeOK', Endures,
           \A d \in Docs \ D : db'[d] = db[d],
           \A v \in Verifs \ D : v \in known => v \in known',
           NEW S \in SUBSET Sessions,
           DOMAIN op' = Sessions,
           Open' = Open \ S,
           \A r \in Open' : op'[r] = op[r],
           doomed' = (doomed \cup Writers(D)) \ S
    PROVE  TypeOK' /\ SecureOpsPossible'
<1>1. \A r \in Open' : IsOp(op'[r])
  BY DEF Core, SecureTypeOK, TypeOK
<1>2. doomed' \subseteq Open'
  BY DEF Core, SecureTypeOK, TypeOK, Writers
<1>3. ASSUME NEW r \in Open' \ doomed'
      PROVE  Can(op[r])'
  <2>1. r \in Sessions /\ r \in Open /\ r \notin doomed /\ r \notin Writers(D) /\ op'[r] = op[r]
    BY DEF Open
  <2>2. DOMAIN op'[r].writes \cap D = {} /\ DOMAIN op'[r].writes \subseteq Docs
    BY <2>1 DEF Writers, Core, SecureTypeOK, TypeOK, IsOp
  <2>3. Can(op'[r])
    BY <2>1 DEF Core, SecureOpsPossible, Can
  <2> QED
    BY <2>1, <2>2, <2>3, CoreStillCan DEF Core, SecureTypeOK, TypeOK
<1>4. SecureOpsPossible'
  BY <1>3 DEF SecureOpsPossible, Can
<1>5. TypeOK'
  BY <1>1, <1>2 DEF TypeOK, IsOp
<1> QED
  BY <1>4, <1>5

LEMMA AskedStay ==
    ASSUME Core, Endures, asking' = asking
    PROVE  AskedExist'
<1> SUFFICES ASSUME NEW c \in Callers, asking[c] # Absent
             PROVE  db'[asking[c].verif] # Absent
  BY DEF AskedExist, Exists
<1>1. asking[c].verif \in Verifs /\ Exists(asking[c].verif)
  BY DEF Core, SecureTypeOK, AskedExist
<1> QED
  BY <1>1 DEF Endures

LEMMA CoreCommit ==
    ASSUME Core, NEW s \in Sessions, Commit(s), UNCHANGED secureVars
    PROVE  Core' /\ Endures /\ \E o : GoodOp(o) /\ Apply(o)
<1>1. s \in Open /\ s \notin doomed /\ Can(op[s])
  BY DEF Commit, Open, Core, SecureOpsPossible, Can
<1>2. PICK o : o = op[s]
  OBVIOUS
<1>3. Apply(o) /\ GoodOp(o) /\ IsOp(o)
  BY <1>1, <1>2, CanIsGood DEF Commit, Core, SecureTypeOK, TypeOK, GoodOp
<1>4. BankTypeOK'
  BY <1>3, ApplyKeepsType DEF Core, SecureTypeOK, TypeOK
<1>5. /\ Endures /\ VerificationsSound'
      /\ \A d \in Docs : db'[d] = IF d \in DOMAIN o.writes THEN o.writes[d] ELSE db[d]
  BY <1>3, ApplyEndures DEF Core, SecureTypeOK, TypeOK, secureVars
<1>6. TypeOK' /\ SecureOpsPossible'
  <2> DEFINE D == DOMAIN o.writes
             S == {s}
  <2>1. /\ DOMAIN op' = Sessions
        /\ Open' = Open \ S
        /\ \A r \in Open' : op'[r] = op[r]
        /\ doomed' = (doomed \cup Writers(D)) \ S
    BY <1>2 DEF Commit, Open, Core, SecureTypeOK, TypeOK
  <2>2. /\ \A d \in Docs \ D : db'[d] = db[d]
        /\ \A v \in Verifs \ D : v \in known => v \in known'
        /\ S \in SUBSET Sessions
    BY <1>5 DEF secureVars
  <2> HIDE DEF D, S
  <2> QED
    BY <1>4, <1>5, <2>1, <2>2, CoreDooming
<1>7. SecureTypeOK'
  BY <1>6 DEF SecureTypeOK, Core, secureVars
<1>8. AskedExist'
  BY <1>5, AskedStay DEF secureVars
<1> QED
  BY <1>3, <1>5, <1>6, <1>7, <1>8 DEF Core

LEMMA CoreAbort ==
    ASSUME Core, NEW s \in Sessions, Abort(s), UNCHANGED secureVars
    PROVE  Core'
<1>1. BankTypeOK' /\ db' = db /\ known' = known /\ asking' = asking /\ gone \subseteq gone'
  BY DEF Core, SecureTypeOK, TypeOK, BankTypeOK, Abort, secureVars
<1>2. Endures /\ AskedExist' /\ VerificationsSound'
  BY <1>1, SameDocsEndure DEF Core
<1>3. /\ DOMAIN op' = Sessions
      /\ Open' = Open \ {s}
      /\ \A r \in Open' : op'[r] = op[r]
      /\ doomed' = (doomed \cup Writers({})) \ {s}
      /\ \A d \in Docs \ {} : db'[d] = db[d]
  BY DEF Abort, Open, Writers, Core, SecureTypeOK, TypeOK
<1>4. TypeOK' /\ SecureOpsPossible'
  BY <1>1, <1>2, <1>3, CoreDooming
<1>5. SecureTypeOK'
  BY <1>4 DEF SecureTypeOK, Core, secureVars
<1> QED
  BY <1>2, <1>4, <1>5 DEF Core

\* A write outside the sessions, of one document.
LEMMA CoreWrite ==
    ASSUME Core, NEW d \in Docs, BankTypeOK', Endures,
           \A e \in Docs \ {d} : db'[e] = db[e],
           \A v \in Verifs \ {d} : v \in known => v \in known',
           op' = op, doomed' = doomed \cup Writers({d})
    PROVE  TypeOK' /\ SecureOpsPossible'
<1>1. /\ DOMAIN op' = Sessions
      /\ Open' = Open \ {}
      /\ \A r \in Open' : op'[r] = op[r]
      /\ doomed' = (doomed \cup Writers({d})) \ {}
  BY DEF Open, Core, SecureTypeOK, TypeOK
<1> QED
  BY <1>1, CoreDooming

LEMMA CoreUpdateWalletStatus ==
    ASSUME Core, NEW w \in Wallets, NEW st \in StatusUpdates, UpdateWalletStatus(w, st),
           UNCHANGED secureVars
    PROVE  /\ Core' /\ ledger' = ledger
           /\ \A x \in Wallets : Bal(x)' = Bal(x)
           /\ \A d \in Txs \cup Verifs : db'[d] = db[d]
<1>1. /\ BankTypeOK' /\ \A d \in Docs \ {w} : db'[d] = db[d]
      /\ db'[w] # Absent /\ \A x \in Wallets : Bal(x)' = Bal(x)
  BY SetStatusKeepsType DEF UpdateWalletStatus, Core, SecureTypeOK, TypeOK
<1>2. \A d \in Txs \cup Verifs : db'[d] = db[d]
  BY <1>1, DocsDisjoint DEF Docs, Verifs
<1>3. Endures
  BY <1>1, <1>2 DEF Endures, Exists, Docs, secureVars
<1>4. /\ w \in Docs /\ op' = op /\ doomed' = doomed \cup Writers({w})
      /\ \A v \in Verifs \ {w} : v \in known => v \in known'
  BY DEF UpdateWalletStatus, Docs, secureVars
<1>5. TypeOK' /\ SecureOpsPossible'
  BY <1>1, <1>3, <1>4, CoreWrite
<1>6. SecureTypeOK'
  BY <1>5 DEF SecureTypeOK, Core, secureVars
<1>7. AskedExist'
  BY <1>3, AskedStay DEF secureVars
<1>8. VerificationsSound'
  <2>1. \A v \in Verifs : Exists(v) => db[v].tx \in Txs
    BY VerificationRow DEF Core, SecureTypeOK, TypeOK
  <2> QED
    BY <1>2, <2>1 DEF VerificationsSound, Exists, Core
<1> QED
  BY <1>1, <1>2, <1>5, <1>6, <1>7, <1>8 DEF Core, UpdateWalletStatus, SetStatus

\* What ReadRequest leaves and SaveExpired, SaveCode write: one verification,
\* of the same transaction, with a status that ends nothing.
Saves(v) ==
    /\ Exists(v)
    /\ db' = [db EXCEPT ![v] = db'[v]]
    /\ db'[v] \in Verification
    /\ db'[v].tx = db[v].tx
    /\ db'[v].status \notin {"cancelled", "failed", "fully_verified"}
    /\ \A y \in Verifs \ {v} : y \in known <=> y \in known'
    /\ Sender(v) \in gone => ~(v \in known' /\ IsSent(db'[v].status))
    /\ doomed' = doomed \cup Writers({v})
    /\ UNCHANGED <<ledger, op, gone>>

LEMMA CoreSave ==
    ASSUME Core, NEW v \in Verifs, Saves(v), TypeOK' => SecureTypeOK',
           \A c \in Callers : asking'[c] \in {asking[c], Absent}
    PROVE  /\ Core' /\ Endures
           /\ \A d \in Docs \ {v} : db'[d] = db[d]
<1>1. v \in Docs /\ v \notin Wallets /\ v \notin Txs /\ BankTypeOK
  BY DocsDisjoint DEF Docs, Verifs, Core, SecureTypeOK, TypeOK
<1>2. \A d \in Docs \ {v} : db'[d] = db[d]
  BY <1>1 DEF Saves, BankTypeOK
<1>3. db'[v] \in OtherRows /\ db'[v] # Absent
  BY VerificationRows DEF Saves
<1>4. db' \in [Docs -> Wallet \cup Tx \cup OtherRows \cup {Absent}]
  <2>1. db' = [d \in Docs |-> db'[d]]
    BY <1>1 DEF BankTypeOK, Saves
  <2>2. \A d \in Docs : db'[d] \in Wallet \cup Tx \cup OtherRows \cup {Absent}
    BY <1>1, <1>2, <1>3 DEF BankTypeOK
  <2> QED
    BY <2>1, <2>2
<1>5. BankTypeOK'
  BY <1>1, <1>2, <1>3, <1>4, DocsDisjoint DEF BankTypeOK, Saves, Docs
<1>6. Endures
  BY <1>1, <1>2, <1>3 DEF Endures, Exists, Docs, Verifs, Saves
<1>7. TypeOK' /\ SecureOpsPossible'
  <2>1. \A y \in Verifs \ {v} : y \in known => y \in known'
    BY DEF Saves
  <2> QED
    BY <1>1, <1>2, <1>5, <1>6, <2>1, CoreWrite DEF Saves
<1>8. AskedExist'
  <2> SUFFICES ASSUME NEW c \in Callers, asking'[c] # Absent
               PROVE  db'[asking'[c].verif] # Absent
    BY DEF AskedExist, Exists
  <2>1. asking'[c] = asking[c] /\ asking[c] # Absent
    OBVIOUS
  <2>2. asking[c].verif \in Verifs /\ Exists(asking[c].verif)
    BY <2>1 DEF Core, SecureTypeOK, AskedExist
  <2> QED
    BY <1>6, <2>1, <2>2 DEF Endures
<1>9. VerificationsSound'
  <2>1. \A y \in Verifs : /\ Exists(y)' <=> Exists(y)
                          /\ Exists(y) => db'[y].tx = db[y].tx /\ db[y].tx \in Txs
    BY <1>1, <1>2, <1>3, VerificationRow
       DEF Exists, Docs, Verifs, Saves, Core, SecureTypeOK, TypeOK
  <2>2. \A t \in Txs : db'[t] = db[t]
    BY <1>1, <1>2 DEF Docs
  <2> QED
    BY <2>1, <2>2 DEF VerificationsSound, Exists, Core
<1> QED
  BY <1>2, <1>6, <1>7, <1>8, <1>9 DEF Core

----------------------------------------------------------------------------
(***************************************************************************)
(* The ledger entries of a secure transfer.                                *)
(***************************************************************************)
AtMostOne(S) == \A i, j \in S : i = j

\* Of a set whose members are all equal there is at most one.
LEMMA AtMostOneCounts ==
    ASSUME NEW S, AtMostOne(S)
    PROVE  Cardinality(S) <= 1
<1>1. CASE S = {}
  <2>1. Cardinality(S) = 0
    BY <1>1, FS_EmptySet
  <2> QED
    BY <2>1
<1>2. CASE S # {}
  <2>1. PICK i : i \in S
    BY <1>2
  <2>2. S = {i}
    BY <2>1 DEF AtMostOne
  <2>3. Cardinality(S) = 1
    BY <2>2, FS_Singleton
  <2> QED
    BY <2>3
<1> QED
  BY <1>1, <1>2

Sides == {"debit", "credit"}

\* Every ledger entry has its transaction.
EntriesHaveTx ==
    \A w \in Wallets : \A i \in 1..Len(ledger[w]) : Exists(ledger[w][i].tx)

\* The money of verification v, on transaction t from wallet w to wallet x:
\* each entry is made once, the credit of the recipient with the debit of the
\* sender, the refund when the transaction stops being pending; and after the
\* debit both users are gone and the sender knows no code that could be entered.
PaidBy(v, t, w, x) ==
    /\ \A y \in Wallets \ {w} : Entries(y, t, "debit") = {}
    /\ \A y \in Wallets \ {w, x} : Entries(y, t, "credit") = {}
    /\ AtMostOne(Entries(w, t, "debit"))
    /\ AtMostOne(Entries(w, t, "credit"))
    /\ AtMostOne(Entries(x, t, "credit"))
    /\ Entries(x, t, "credit") # {} => Entries(w, t, "debit") # {}
    /\ Entries(w, t, "credit") # {} => db[t].status # "pending"
    /\ Entries(w, t, "debit") # {} => /\ {Owner[w], Owner[x]} \subseteq gone
                                      /\ ~(v \in known /\ IsSent(db[v].status))

SecureEntries ==
    \A v \in Verifs :
        Exists(v) => PaidBy(v, db[v].tx, db[db[v].tx].wallet, db[db[v].tx].to)

\* Transactions that do not exist have no entries.
LEMMA NoTxNoEntries ==
    ASSUME EntriesHaveTx, NEW w \in Wallets, NEW t, NEW side, ~Exists(t)
    PROVE  Entries(w, t, side) = {}
  BY DEF EntriesHaveTx, Entries

LEMMA ApplyKeepsEntriesTx ==
    ASSUME BankTypeOK, VerificationsSound, EntriesHaveTx, NEW o, GoodOp(o), Apply(o)
    PROVE  EntriesHaveTx'
<1> SUFFICES ASSUME NEW w \in Wallets, NEW i \in 1..Len(ledger'[w])
             PROVE  db'[ledger'[w][i].tx] # Absent
  BY DEF EntriesHaveTx, Exists
<1>1. IsOp(o) /\ (PostsNew(o) \/ Refunds(o) \/ Completes(o))
  BY DEF GoodOp
<1>2. \A d \in Docs : db'[d] = IF d \in DOMAIN o.writes THEN o.writes[d] ELSE db[d]
  BY DEF Apply
<1>3. \A t \in Txs \cup OtherDocs : Exists(t) => db'[t] # Absent
  BY <1>1, <1>2, AbsentAssumption, VerificationRows DEF IsOp, Docs, Exists
<1>4. ASSUME NEW j \in 1..Len(ledger[w]) PROVE db'[ledger[w][j].tx] # Absent
  <2>1. ledger[w][j] \in Entry
    BY DEF BankTypeOK
  <2> QED
    BY <1>3, <2>1 DEF EntriesHaveTx, Entry
<1>5. CASE w \notin DOMAIN o.posts
  BY <1>4, <1>5 DEF Apply
<1>6. CASE w \in DOMAIN o.posts
  <2>1. PICK e : e = o.posts[w]
    OBVIOUS
  <2>2. ledger'[w] = Append(ledger[w], e) /\ e \in Entry /\ e.tx \in Docs
    BY <1>1, <1>6, <2>1 DEF Apply, IsOp, Entry, Docs
  <2>3. \/ i \in 1..Len(ledger[w]) /\ ledger'[w][i] = ledger[w][i]
        \/ ledger'[w][i] = e
    BY <2>2 DEF BankTypeOK
  <2>4. db'[e.tx] # Absent
    <3>1. CASE PostsNew(o)
      BY <1>1, <1>2, <1>6, <2>1, <2>2, <3>1, AbsentAssumption, VerificationRows DEF PostsNew, IsOp, Docs
    <3>2. CASE Refunds(o)
      BY <1>3, <1>6, <2>1, <3>2 DEF Refunds
    <3>3. CASE Completes(o)
      BY <1>3, <1>6, <2>1, <3>3, VerificationRow DEF Completes
    <3> QED
      BY <1>1, <3>1, <3>2, <3>3
  <2> QED
    BY <1>4, <2>3, <2>4
<1> QED
  BY <1>5, <1>6

\* A step that adds no entry of a secure transfer, and that makes no code
\* enterable after the debit, leaves its money alone.
LEMMA PaidQuietly ==
    ASSUME NEW v, NEW t, NEW w, NEW x, PaidBy(v, t, w, x), w \in Wallets, x \in Wallets,
           \A y \in Wallets, side \in Sides : Entries(y, t, side)' = Entries(y, t, side),
           db'[t].status = "pending" => db[t].status = "pending",
           gone \subseteq gone',
           Entries(w, t, "debit") # {} => ~(v \in known' /\ IsSent(db'[v].status))
    PROVE  PaidBy(v, t, w, x)'
<1>1. \A y \in Wallets : /\ Entries(y, t, "debit")' = Entries(y, t, "debit")
                         /\ Entries(y, t, "credit")' = Entries(y, t, "credit")
  BY DEF Sides
<1>2. IsSent(db[v].status)' <=> IsSent(db'[v].status)
  BY DEF IsSent
<1> QED
  BY <1>1, <1>2 DEF PaidBy, AtMostOne

\* A completion pays when nothing has been paid yet.
LEMMA CompletionPays ==
    ASSUME BankTypeOK, NEW o, IsOp(o), Apply(o),
           NEW v \in Verifs, NEW t \in Txs, NEW w \in Wallets, NEW x \in Wallets, w # x,
           PaidBy(v, t, w, x), v \in known, IsSent(db[v].status),
           ~IsSent(db'[v].status),
           db'[t].status = "pending" => db[t].status = "pending",
           {Owner[w], Owner[x]} \subseteq gone, gone' = gone,
           DOMAIN o.posts = {w, x},
           \A y \in DOMAIN o.posts :
              /\ o.posts[y].tx = t
              /\ o.posts[y].side = IF y = w THEN "debit" ELSE "credit"
    PROVE  PaidBy(v, t, w, x)'
<1>1. Entries(w, t, "debit") = {} /\ Entries(x, t, "credit") = {}
  BY DEF PaidBy
<1>2. /\ Entries(w, t, "debit")' = {} \cup {Len(ledger[w]) + 1}
      /\ Entries(w, t, "credit")' = Entries(w, t, "credit")
      /\ Entries(x, t, "debit")' = Entries(x, t, "debit")
      /\ Entries(x, t, "credit")' = {} \cup {Len(ledger[x]) + 1}
  <2>1. "debit" # "credit"
    OBVIOUS
  <2> QED
    BY <1>1, <2>1, EntriesAfter
<1>3. ASSUME NEW y \in Wallets \ {w, x}
      PROVE  /\ Entries(y, t, "debit")' = Entries(y, t, "debit")
             /\ Entries(y, t, "credit")' = Entries(y, t, "credit")
  BY EntriesAfter
<1>4. IsSent(db[v].status)' <=> IsSent(db'[v].status)
  BY DEF IsSent
<1>5. \A n : AtMostOne({} \cup {n})
  BY DEF AtMostOne
<1>6. AtMostOne(Entries(w, t, "credit"))'
  BY <1>2 DEF PaidBy, AtMostOne
<1>7. AtMostOne(Entries(w, t, "debit"))' /\ AtMostOne(Entries(x, t, "credit"))'
  BY <1>2, <1>5 DEF AtMostOne
<1> QED
  BY <1>1, <1>2, <1>3, <1>4, <1>6, <1>7 DEF PaidBy

\* A refund gives back when nothing has been given back yet.
LEMMA RefundPays ==
    ASSUME BankTypeOK, NEW o, IsOp(o), Apply(o),
           NEW v \in Verifs, NEW t \in Txs, NEW w \in Wallets, NEW x \in Wallets, w # x,
           PaidBy(v, t, w, x),
           IsSent(db'[v].status) => IsSent(db[v].status),
           known' = known, gone' = gone,
           db[t].status = "pending", db'[t].status # "pending",
           \A y \in DOMAIN o.posts : /\ y = w
                                     /\ o.posts[y].tx = t
                                     /\ o.posts[y].side = "credit"
    PROVE  PaidBy(v, t, w, x)'
<1>1. Entries(w, t, "credit") = {}
  BY DEF PaidBy
<1>2. \/ Entries(w, t, "credit")' = {} \cup {Len(ledger[w]) + 1}
      \/ Entries(w, t, "credit")' = {}
  BY <1>1, EntriesAfter
<1>3. \A y \in Wallets : Entries(y, t, "debit")' = Entries(y, t, "debit")
  <2>1. "debit" # "credit"
    OBVIOUS
  <2> QED
    BY <2>1, EntriesAfter
<1>4. \A y \in Wallets \ {w} : Entries(y, t, "credit")' = Entries(y, t, "credit")
  BY EntriesAfter
<1>5. IsSent(db[v].status)' <=> IsSent(db'[v].status)
  BY DEF IsSent
<1>6. AtMostOne(Entries(w, t, "credit"))'
  BY <1>2 DEF AtMostOne
<1>7. AtMostOne(Entries(w, t, "debit"))' /\ AtMostOne(Entries(x, t, "credit"))'
  BY <1>3, <1>4 DEF PaidBy, AtMostOne
<1> QED
  BY <1>3, <1>4, <1>5, <1>6, <1>7 DEF PaidBy

LEMMA ApplyKeepsEntries ==
    ASSUME BankTypeOK, VerificationsSound, EntriesHaveTx, SecureEntries,
           NEW o, GoodOp(o), Apply(o), UNCHANGED secureVars
    PROVE  SecureEntries'
<1> SUFFICES ASSUME NEW v \in Verifs, db'[v] # Absent
             PROVE  PaidBy(v, db[v].tx, db[db[v].tx].wallet, db[db[v].tx].to)'
  BY DEF SecureEntries, Exists
<1>1. /\ IsOp(o) /\ TxsKept(o)
      /\ \A y \in Verifs \cap DOMAIN o.writes : Opens(o, y) \/ Moves(o, y)
      /\ PostsNew(o) \/ Refunds(o) \/ Completes(o)
  BY DEF GoodOp
<1>2. known' = known /\ gone' = gone
  BY DEF secureVars
<1>3. /\ Endures
      /\ \A d \in Docs : db'[d] = IF d \in DOMAIN o.writes THEN o.writes[d] ELSE db[d]
  BY <1>2, ApplyEndures
<1>4. v \in Docs
  BY DEF Docs, Verifs
<1>5. CASE ~Exists(v)
  <2>1. v \in DOMAIN o.writes /\ db'[v] = o.writes[v] /\ Opens(o, v)
    BY <1>1, <1>3, <1>4, <1>5 DEF Exists, Moves
  <2>2. PICK t : t = o.writes[v].tx
    OBVIOUS
  <2>3. ~Exists(t) /\ DOMAIN o.posts = {} /\ db'[v].tx = t
    BY <2>1, <2>2 DEF Opens
  <2>4. \A y \in Wallets : Entries(y, t, "debit")' = {} /\ Entries(y, t, "credit")' = {}
    <3>1. ASSUME NEW y \in Wallets, NEW side
          PROVE  Entries(y, t, side)' = {}
      BY <1>1, <2>3, EntriesAfter, NoTxNoEntries
    <3> QED
      BY <3>1
  <2>5. o.writes[v] \in Verification
    BY <1>1, <1>4, <2>1, VerificationRows DEF IsOp, Verifs
  <2>6. t \in Txs /\ t \in Docs /\ t \in DOMAIN o.writes
    BY <2>1, <2>2, <2>5 DEF Verification, Opens, Docs
  <2>7. db'[t] = o.writes[t] /\ o.writes[t] \in Tx
    BY <1>1, <1>3, <2>6 DEF IsOp
  <2>8. db'[t].wallet \in Wallets /\ db'[t].to \in Wallets
    BY <2>1, <2>2, <2>7 DEF Opens, Tx
  <2>9. PICK w, x : w = db'[t].wallet /\ x = db'[t].to
    OBVIOUS
  <2>10. PaidBy(v, t, w, x)'
    BY <2>4, <2>8, <2>9 DEF PaidBy, AtMostOne
  <2> QED
    BY <2>3, <2>9, <2>10
<1>6. CASE Exists(v)
  <2>1. PICK t, w, x : t = db[v].tx /\ w = db[t].wallet /\ x = db[t].to
    OBVIOUS
  <2>2. /\ t \in Txs /\ Exists(t) /\ w \in Wallets /\ x \in Wallets /\ w # x
        /\ PaidBy(v, t, w, x)
    BY <1>6, <2>1, VerificationRow DEF SecureEntries
  <2>3. db'[v].tx = t /\ db'[t].wallet = w /\ db'[t].to = x
    BY <1>3, <1>6, <2>1, <2>2 DEF Endures
  <2>4. db'[t].status = "pending" => db[t].status = "pending"
    BY <1>1, <1>3, <2>2 DEF TxsKept, Docs
  <2>5. IsSent(db'[v].status) => IsSent(db[v].status)
    BY <1>1, <1>3, <1>4, <1>6 DEF Moves, Opens
  <2>6. Entries(w, t, "debit") # {} => ~(v \in known' /\ IsSent(db'[v].status))
    BY <1>2, <2>2, <2>5 DEF PaidBy
  <2>7. ASSUME \A y \in DOMAIN o.posts : o.posts[y].tx # t
        PROVE  PaidBy(v, t, w, x)'
    <3>1. \A y \in Wallets, side \in Sides : Entries(y, t, side)' = Entries(y, t, side)
      BY <1>1, <2>7, EntriesAfter
    <3> QED
      BY <1>2, <2>2, <2>4, <2>6, <3>1, PaidQuietly
  <2>8. PaidBy(v, t, w, x)'
    <3>1. CASE PostsNew(o)
      BY <2>2, <2>7, <3>1 DEF PostsNew
    <3>2. CASE Refunds(o)
      <4>1. PICK r \in Txs :
               /\ Exists(r) /\ db[r].status = "pending"
               /\ r \in DOMAIN o.writes /\ o.writes[r].status # "pending"
               /\ \A y \in DOMAIN o.posts : /\ y = db[r].wallet
                                            /\ o.posts[y].tx = r
                                            /\ o.posts[y].side = "credit"
        BY <3>2 DEF Refunds
      <4>2. CASE r # t
        BY <2>7, <4>1, <4>2
      <4>3. CASE r = t
        <5>1. db'[t].status # "pending"
          BY <1>3, <4>1, <4>3 DEF Docs
        <5>2. /\ db[t].status = "pending"
              /\ \A y \in DOMAIN o.posts : /\ y = w
                                           /\ o.posts[y].tx = t
                                           /\ o.posts[y].side = "credit"
          BY <2>1, <4>1, <4>3
        <5> QED
          BY <1>1, <1>2, <2>2, <2>5, <5>1, <5>2, RefundPays
      <4> QED
        BY <4>2, <4>3
    <3>3. CASE Completes(o)
      <4>1. PICK y \in Verifs :
               /\ Exists(y) /\ IsSent(db[y].status) /\ y \in known
               /\ NotificationsAccepted(y)
               /\ y \in DOMAIN o.writes /\ o.writes[y].status = "fully_verified"
               /\ DOMAIN o.posts = {db[db[y].tx].wallet, db[db[y].tx].to}
               /\ \A z \in DOMAIN o.posts :
                     /\ o.posts[z].tx = db[y].tx
                     /\ o.posts[z].side = IF z = db[db[y].tx].wallet THEN "debit" ELSE "credit"
        BY <3>3 DEF Completes
      <4>2. CASE y # v
        <5>1. db[y].tx # t
          BY <1>6, <2>1, <4>1, <4>2 DEF VerificationsSound
        <5> QED
          BY <2>7, <4>1, <5>1
      <4>3. CASE y = v
        <5>1. /\ DOMAIN o.posts = {w, x}
              /\ \A z \in DOMAIN o.posts :
                    /\ o.posts[z].tx = t
                    /\ o.posts[z].side = IF z = w THEN "debit" ELSE "credit"
          BY <2>1, <4>1, <4>3
        <5>2. {Owner[w], Owner[x]} \subseteq gone
          BY <2>1, <4>1, <4>3 DEF NotificationsAccepted, Sender, Recipient
        <5>3. ~IsSent(db'[v].status)
          BY <1>3, <1>4, <4>1, <4>3, StatusNames DEF IsSent
        <5>4. IsSent(db[v].status) /\ v \in known /\ IsOp(o)
          BY <1>1, <4>1, <4>3
        <5>5. gone' = gone
          BY <1>2
        <5> QED
          BY <2>2, <2>4, <5>1, <5>2, <5>3, <5>4, <5>5, CompletionPays
      <4> QED
        BY <4>2, <4>3
    <3> QED
      BY <1>1, <3>1, <3>2, <3>3
  <2> QED
    BY <2>1, <2>3, <2>8
<1> QED
  BY <1>5, <1>6

\* An operation that ends a verification ends its transaction alike, and one
\* that ends the transaction alone finds it pending.
LEMMA ApplyKeepsAgreement ==
    ASSUME BankTypeOK, VerificationsSound, StatusesAgree,
           NEW o, GoodOp(o), Apply(o), gone' = gone
    PROVE  StatusesAgree'
<1> SUFFICES ASSUME NEW v \in Verifs, db'[v] # Absent
             PROVE  Agree(db'[v].status, db'[db'[v].tx].status)
  BY DEF StatusesAgree, Agree
<1>1. /\ IsOp(o) /\ TxsKept(o)
      /\ \A y \in Verifs \cap DOMAIN o.writes : Opens(o, y) \/ Moves(o, y)
  BY DEF GoodOp
<1>2. /\ Endures
      /\ \A d \in Docs : db'[d] = IF d \in DOMAIN o.writes THEN o.writes[d] ELSE db[d]
  BY ApplyEndures
<1>3. v \in Docs
  BY DEF Docs, Verifs
<1>4. CASE ~Exists(v)
  <2>1. v \in DOMAIN o.writes /\ db'[v] = o.writes[v] /\ Opens(o, v)
    BY <1>1, <1>2, <1>3, <1>4 DEF Exists, Moves
  <2>2. PICK t : t = o.writes[v].tx
    OBVIOUS
  <2>3. o.writes[v] \in Verification
    BY <1>1, <1>3, <2>1, VerificationRows DEF IsOp, Verifs
  <2>4. t \in Docs /\ t \in DOMAIN o.writes /\ Agree(o.writes[v].status, o.writes[t].status)
    BY <2>1, <2>2, <2>3 DEF Verification, Opens, Docs
  <2> QED
    BY <1>2, <2>1, <2>2, <2>4
<1>5. CASE Exists(v)
  <2>1. PICK t : t = db[v].tx
    OBVIOUS
  <2>2. t \in Txs /\ t \in Docs /\ Exists(t) /\ db'[v].tx = t
    BY <1>2, <1>5, <2>1, VerificationRow DEF Endures, Docs
  <2>3. Agree(db[v].status, db[t].status)
    BY <1>5, <2>1 DEF StatusesAgree, Agree, Exists
  <2>4. CASE v \in DOMAIN o.writes
    <3>1. Moves(o, v)
      BY <1>1, <1>5, <2>4 DEF Opens
    <3>2. db'[v] = o.writes[v]
          /\ db'[t] = IF t \in DOMAIN o.writes THEN o.writes[t] ELSE db[t]
      BY <1>2, <1>3, <2>2, <2>4
    <3> QED
      BY <2>1, <2>2, <3>1, <3>2 DEF Moves
  <2>5. CASE v \notin DOMAIN o.writes
    <3>1. db'[v] = db[v]
      BY <1>2, <1>3, <2>5
    <3>2. CASE t \notin DOMAIN o.writes
      BY <1>2, <2>2, <2>3, <3>1, <3>2
    <3>3. CASE t \in DOMAIN o.writes
      <4>1. db[t].status = "pending"
        BY <1>1, <1>5, <2>1, <2>2, <2>5, <3>3 DEF TxsKept, VerificationsSound
      <4> QED
        BY <2>2, <2>3, <3>1, <4>1 DEF Agree
    <3> QED
      BY <3>2, <3>3
  <2> QED
    BY <2>4, <2>5
<1> QED
  BY <1>4, <1>5

----------------------------------------------------------------------------
(***************************************************************************)
(* The inductive invariant.                                                *)
(***************************************************************************)
SInv ==
    /\ Core
    /\ EntriesHaveTx /\ SecureEntries
    /\ StatusesAgree
    /\ LedgerChain

LEMMA SecureInitEstablishes == SecureInit => SInv
<1> SUFFICES ASSUME SecureInit PROVE SInv
  OBVIOUS
<1>1. Init /\ IInv
  BY InitEstablishes DEF SecureInit
<1>2. \A d \in Txs \cup Verifs : ~Exists(d)
  <2>1. PICK exist \in SUBSET Wallets :
           db = [d \in Docs |-> IF d \in exist THEN [status |-> "active", bal |-> 0]
                                               ELSE Absent]
    BY <1>1 DEF Init, BankInit
  <2> QED
    BY <2>1, DocsDisjoint DEF Exists, Docs, Verifs
<1>3. \A w \in Wallets : ledger[w] = <<>> /\ Bal(w) = 0
  BY <1>1 DEF Init, BankInit, Bal, Docs
<1>4. Open = {}
  BY <1>1 DEF Init, Open
<1>5. SecureTypeOK /\ AskedExist
  BY <1>1 DEF SecureTypeOK, AskedExist, SecureInit, IInv
<1>6. SecureOpsPossible /\ VerificationsSound
  BY <1>2, <1>4 DEF SecureOpsPossible, VerificationsSound
<1>7. EntriesHaveTx /\ LedgerChain
  BY <1>3 DEF EntriesHaveTx, LedgerChain, BalanceAt
<1>8. SecureEntries /\ StatusesAgree
  BY <1>2 DEF SecureEntries, StatusesAgree, Exists
<1> QED
  BY <1>5, <1>6, <1>7, <1>8 DEF SInv, Core

\* A step that leaves the transactions, the verifications and the ledgers alone.
LEMMA QuietKeeps ==
    ASSUME SInv, Core', ledger' = ledger,
           \A w \in Wallets : Bal(w)' = Bal(w),
           \A d \in Txs \cup Verifs : db'[d] = db[d],
           known' = known, gone \subseteq gone'
    PROVE  SInv'
<1>1. BankTypeOK /\ VerificationsSound
  BY DEF SInv, Core, SecureTypeOK, TypeOK
<1>2. EntriesHaveTx'
  <2> SUFFICES ASSUME NEW w \in Wallets, NEW i \in 1..Len(ledger[w])
               PROVE  db'[ledger[w][i].tx] # Absent
    BY DEF EntriesHaveTx, Exists
  <2>0. ledger[w][i] \in Entry
    BY <1>1 DEF BankTypeOK
  <2>1. ledger[w][i].tx \in Txs \cup Verifs
    BY <2>0 DEF Entry, Verifs
  <2> QED
    BY <2>1 DEF SInv, EntriesHaveTx, Exists
<1>3. ASSUME NEW v \in Verifs, db'[v] # Absent
      PROVE  /\ PaidBy(v, db[v].tx, db[db[v].tx].wallet, db[db[v].tx].to)'
             /\ Agree(db'[v].status, db'[db'[v].tx].status)
  <2>1. Exists(v) /\ db'[v] = db[v]
    BY <1>3 DEF Exists
  <2>2. PICK t, w, x : t = db[v].tx /\ w = db[t].wallet /\ x = db[t].to
    OBVIOUS
  <2>3. t \in Txs /\ w \in Wallets /\ x \in Wallets
    BY <1>1, <2>1, <2>2, VerificationRow
  <2>4. PaidBy(v, t, w, x) /\ Agree(db[v].status, db[t].status)
    BY <2>1, <2>2 DEF SInv, SecureEntries, StatusesAgree, Agree, Exists
  <2>5. db'[t] = db[t]
    BY <2>3
  <2>6. \A y \in Wallets, side \in Sides : Entries(y, t, side)' = Entries(y, t, side)
    BY DEF Entries
  <2>7. PaidBy(v, t, w, x)'
    BY <2>1, <2>3, <2>4, <2>5, <2>6, PaidQuietly DEF PaidBy
  <2> QED
    BY <2>1, <2>2, <2>4, <2>5, <2>7
<1>4. SecureEntries' /\ StatusesAgree'
  BY <1>3 DEF SecureEntries, StatusesAgree, Agree, Exists
<1>5. LedgerChain'
  BY DEF LedgerChain, SInv
<1> QED
  BY <1>2, <1>4, <1>5 DEF SInv

\* A step that leaves the documents, the ledgers and the sessions alone.
LEMMA StillKeeps ==
    ASSUME SInv, UNCHANGED <<db, ledger, op, doomed, known>>, gone \subseteq gone',
           TypeOK' => SecureTypeOK', AskedExist'
    PROVE  SInv'
<1>1. BankTypeOK'
  BY DEF SInv, Core, SecureTypeOK, TypeOK, BankTypeOK
<1>2. Endures /\ VerificationsSound'
  BY SameDocsEndure DEF SInv, Core
<1>3. Core /\ \A r \in Open' : op'[r] = op[r]
  BY DEF SInv
<1>4. /\ DOMAIN op' = Sessions
      /\ Open' = Open \ {}
      /\ doomed' = (doomed \cup Writers({})) \ {}
      /\ \A d \in Docs \ {} : db'[d] = db[d]
  BY DEF Open, Writers, SInv, Core, SecureTypeOK, TypeOK
<1>5. TypeOK' /\ SecureOpsPossible'
  BY <1>1, <1>2, <1>3, <1>4, CoreDooming
<1>6. Core'
  BY <1>2, <1>5 DEF Core
<1> QED
  BY <1>6, QuietKeeps DEF Bal

LEMMA BeginKeepsAll ==
    ASSUME SInv, NEW s \in Sessions, NEW o, Starts(s, o), UNCHANGED secureVars
    PROVE  SInv'
<1>1. Core'
  BY CoreBegin DEF SInv
<1>2. db' = db /\ ledger' = ledger /\ known' = known /\ gone \subseteq gone'
  BY DEF Starts, secureVars
<1> QED
  BY <1>1, <1>2, QuietKeeps DEF Bal

\* What a handler starts is possible.
LEMMA UserBeginIsPossible ==
    ASSUME NEW s \in Sessions, UserBegin(s)
    PROVE  \E o : Possible(o) /\ Begin(s, o)
<1>1. ASSUME NEW u \in Users, NEW v \in Users, NEW a \in Amounts, BeginTransfer(s, u, v, a)
      PROVE  \E o : Possible(o) /\ Begin(s, o)
  <2>1. PICK w \in Wallets, x \in Wallets, t \in Txs :
           CanTransfer(w, x, a, t) /\ Begin(s, TransferOp(w, x, a, t))
    BY <1>1 DEF BeginTransfer, ActiveWallets, ReceivingWallets
  <2> QED
    BY <2>1 DEF Possible
<1>2. ASSUME NEW u \in Users, NEW a \in Amounts, BeginDeposit(s, u, a)
      PROVE  \E o : Possible(o) /\ Begin(s, o)
  <2>1. PICK w \in Wallets, t \in Txs : CanDeposit(w, t) /\ Begin(s, DepositOp(w, a, t))
    BY <1>2 DEF BeginDeposit, ActiveWallets, ReceivingWallets
  <2> QED
    BY <2>1 DEF Possible
<1>3. ASSUME NEW u \in Users, NEW a \in Amounts, BeginWithdraw(s, u, a)
      PROVE  \E o : Possible(o) /\ Begin(s, o)
  <2>1. PICK w \in Wallets, t \in Txs : CanWithdraw(w, a, t) /\ Begin(s, WithdrawOp(w, a, t))
    BY <1>3 DEF BeginWithdraw, ActiveWallets
  <2> QED
    BY <2>1 DEF Possible
<1>4. ASSUME NEW u \in Users, BeginCancel(s, u)
      PROVE  \E o : Possible(o) /\ Begin(s, o)
  <2>1. PICK t \in Txs : CanCancel(t) /\ Begin(s, CancelOp(t))
    BY <1>4 DEF BeginCancel
  <2> QED
    BY <2>1 DEF Possible
<1> QED
  BY <1>1, <1>2, <1>3, <1>4 DEF UserBegin

LEMMA InitiateIsPossible ==
    ASSUME NEW s \in Sessions, NEW u \in Users, NEW x \in Wallets, NEW a \in Amounts,
           BeginInitiate(s, u, x, a)
    PROVE  \E o : Can(o) /\ Begin(s, o)
<1>1. PICK w \in Wallets, t \in Txs, v \in Verifs :
         /\ Owner[w] # Owner[x] /\ ~Exists(t) /\ ~Exists(v)
         /\ Begin(s, InitiateOp(w, x, a, t, v))
  BY DEF BeginInitiate, ActiveWallets, Fresh, Exists
<1> QED
  BY <1>1 DEF Can, SecurePossible

\* A last code whose notifications are refused starts what cannot be committed.
LEMMA VerifyStarts ==
    ASSUME BankTypeOK, VerificationsSound, NEW s \in Sessions, NEW v \in Verifs,
           BeginVerify(s, v)
    PROVE  \E o : Starts(s, o)
<1>1. PICK i \in Steps :
         /\ Exists(v) /\ db[v].status = Sent[i]
         /\ \/ VerifyTooOften(s, v)
            \/ VerifyWrong(s, v)
            \/ VerifyRight(s, v, i)
            \/ i = 3 /\ VerifyLast(s, v)
  BY DEF BeginVerify, Exists
<1>2. IsSent(db[v].status)
  BY <1>1 DEF IsSent
<1>3. CASE VerifyTooOften(s, v)
  BY <1>1, <1>2, <1>3 DEF VerifyTooOften, Can, SecurePossible, Begin, Starts
<1>4. CASE VerifyWrong(s, v)
  BY <1>1, <1>2, <1>4 DEF VerifyWrong, Can, SecurePossible, Begin, Starts
<1>5. CASE VerifyRight(s, v, i)
  <2>1. i \in 1..2
    BY <1>5 DEF VerifyRight, Steps
  <2> QED
    BY <1>1, <1>5, <2>1 DEF VerifyRight, Can, SecurePossible, Begin, Starts
<1>6. CASE i = 3 /\ VerifyLast(s, v)
  <2>1. /\ op[s] = Absent /\ op' = [op EXCEPT ![s] = CompleteOp(v)]
        /\ UNCHANGED <<db, ledger>> /\ v \in known /\ db[v].status = Sent[3]
        /\ IF NotificationsAccepted(v) THEN doomed' = doomed ELSE doomed' = doomed \cup {s}
    BY <1>1, <1>6 DEF VerifyLast, RightCode
  <2>2. CASE NotificationsAccepted(v)
    <3>1. SecurePossible(CompleteOp(v))
      BY <1>1, <2>1, <2>2 DEF SecurePossible
    <3> QED
      BY <2>1, <2>2, <3>1 DEF Can, Starts
  <2>3. CASE ~NotificationsAccepted(v)
    <3>1. IsOp(CompleteOp(v)) /\ CompleteOp(v) # Absent
      BY <1>1, <2>1, CompleteIsGood
    <3> QED
      BY <2>1, <2>3, <3>1 DEF Starts
  <2> QED
    BY <2>2, <2>3
<1> QED
  BY <1>1, <1>3, <1>4, <1>5, <1>6

LEMMA CancelVerificationIsPossible ==
    ASSUME NEW s \in Sessions, NEW v \in Verifs, BeginCancelVerification(s, v)
    PROVE  \E o : Can(o) /\ Begin(s, o)
  BY DEF BeginCancelVerification, Can, SecurePossible, Exists

LEMMA CommitKeepsAll ==
    ASSUME SInv, NEW s \in Sessions, Commit(s), UNCHANGED secureVars
    PROVE  SInv'
<1>1. Core' /\ \E o : GoodOp(o) /\ Apply(o)
  BY CoreCommit DEF SInv
<1>2. PICK o : GoodOp(o) /\ Apply(o)
  BY <1>1
<1>3. BankTypeOK /\ VerificationsSound /\ EntriesHaveTx /\ SecureEntries
      /\ StatusesAgree /\ LedgerChain /\ gone' = gone
  BY DEF SInv, Core, SecureTypeOK, TypeOK, secureVars
<1>4. EntriesHaveTx'
  BY <1>2, <1>3, ApplyKeepsEntriesTx
<1>5. SecureEntries'
  BY <1>2, <1>3, ApplyKeepsEntries
<1>6. StatusesAgree'
  BY <1>2, <1>3, ApplyKeepsAgreement
<1>7. LedgerChain'
  BY <1>2, <1>3, ApplyKeepsChain DEF GoodOp
<1> QED
  BY <1>1, <1>4, <1>5, <1>6, <1>7 DEF SInv

\* The late save of a code request.
LEMMA SaveKeepsAll ==
    ASSUME SInv, NEW v \in Verifs, Saves(v), TypeOK' => SecureTypeOK',
           \A c \in Callers : asking'[c] \in {asking[c], Absent}
    PROVE  SInv'
<1>1. Core' /\ Endures /\ \A d \in Docs \ {v} : db'[d] = db[d]
  BY CoreSave DEF SInv
<1>2. BankTypeOK /\ VerificationsSound
  BY DEF SInv, Core, SecureTypeOK, TypeOK
<1>3. \A d \in Wallets \cup Txs : db'[d] = db[d]
  BY <1>1, DocsDisjoint DEF Docs, Verifs
<1>4. EntriesHaveTx'
  <2> SUFFICES ASSUME NEW w \in Wallets, NEW i \in 1..Len(ledger[w])
               PROVE  db'[ledger[w][i].tx] # Absent
    BY DEF EntriesHaveTx, Exists, Saves
  <2>0. ledger[w][i] \in Entry
    BY <1>2 DEF BankTypeOK
  <2>1. ledger[w][i].tx \in Txs \cup Verifs
    BY <2>0 DEF Entry, Verifs
  <2>2. \A y \in Verifs : Exists(y) => db'[y] # Absent
    BY <1>1 DEF Endures, Exists
  <2> QED
    BY <1>3, <2>1, <2>2 DEF SInv, EntriesHaveTx, Exists
<1>5. ASSUME NEW y \in Verifs, db'[y] # Absent
      PROVE  /\ PaidBy(y, db[y].tx, db[db[y].tx].wallet, db[db[y].tx].to)'
             /\ Agree(db'[y].status, db'[db'[y].tx].status)
  <2>1. Exists(y) /\ db'[y].tx = db[y].tx /\ (y # v => db'[y] = db[y])
    BY <1>1, <1>5 DEF Exists, Saves, Docs, Verifs
  <2>2. PICK t, w, x : t = db[y].tx /\ w = db[t].wallet /\ x = db[t].to
    OBVIOUS
  <2>3. t \in Txs /\ w \in Wallets /\ x \in Wallets
    BY <1>2, <2>1, <2>2, VerificationRow
  <2>4. PaidBy(y, t, w, x) /\ Agree(db[y].status, db[t].status)
    BY <2>1, <2>2 DEF SInv, SecureEntries, StatusesAgree, Agree, Exists
  <2>5. db'[t] = db[t]
    BY <1>3, <2>3
  <2>6. \A z \in Wallets, side \in Sides : Entries(z, t, side)' = Entries(z, t, side)
    BY DEF Entries, Saves
  <2>7. Entries(w, t, "debit") # {} => ~(y \in known' /\ IsSent(db'[y].status))
    <3>1. CASE y = v
      BY <2>2, <2>4, <3>1 DEF PaidBy, Saves, Sender
    <3>2. CASE y # v
      BY <2>1, <2>4, <3>2 DEF PaidBy, Saves
    <3> QED
      BY <3>1, <3>2
  <2>8. PaidBy(y, t, w, x)'
    BY <2>3, <2>4, <2>5, <2>6, <2>7, PaidQuietly DEF Saves
  <2>9. Agree(db'[y].status, db'[t].status)
    BY <2>1, <2>4, <2>5 DEF Saves, Agree
  <2> QED
    BY <2>1, <2>2, <2>5, <2>8, <2>9
<1>6. SecureEntries' /\ StatusesAgree'
  BY <1>5 DEF SecureEntries, StatusesAgree, Agree, Exists
<1>7. LedgerChain'
  BY <1>3 DEF LedgerChain, SInv, Bal, Saves
<1> QED
  BY <1>1, <1>4, <1>6, <1>7 DEF SInv

LEMMA SaveExpiredKeeps ==
    ASSUME SInv, NEW c \in Callers, SaveExpired(c)
    PROVE  SInv'
<1>1. PICK v : v = asking[c].verif
  OBVIOUS
<1>2. /\ v \in Verifs /\ Exists(v) /\ BankTypeOK /\ v \in Docs
      /\ \A e \in Callers : asking'[e] \in {asking[e], Absent}
  BY <1>1 DEF SaveExpired, SInv, Core, SecureTypeOK, AskedExist, TypeOK, Docs, Verifs
<1>3. db[v] \in Verification
  BY <1>2, VerificationRow DEF SInv, Core
<1>4. db' = [db EXCEPT ![v] = [db[v] EXCEPT !.status = "expired"]]
  BY <1>1 DEF SaveExpired
<1>5. db'[v] = [db[v] EXCEPT !.status = "expired"]
  BY <1>2, <1>4 DEF BankTypeOK
<1>6. db'[v] \in Verification /\ db'[v].tx = db[v].tx /\ db'[v].status = "expired"
  BY <1>3, <1>5 DEF Verification, VerifStatus
<1>7. ~IsSent("expired")
  BY StatusNames DEF IsSent
<1>8. Saves(v)
  BY <1>1, <1>2, <1>4, <1>5, <1>6, <1>7 DEF Saves, SaveExpired
<1>9. TypeOK' => SecureTypeOK'
  BY DEF SaveExpired, SInv, Core, SecureTypeOK
<1> QED
  BY <1>2, <1>8, <1>9, SaveKeepsAll

LEMMA SaveCodeKeeps ==
    ASSUME SInv, NEW c \in Callers, SaveCode(c)
    PROVE  SInv'
<1>1. PICK v, i : v = asking[c].verif /\ i = asking[c].step
  OBVIOUS
<1>2. /\ v \in Verifs /\ Exists(v) /\ BankTypeOK /\ v \in Docs /\ i \in Steps
      /\ \A e \in Callers : asking'[e] \in {asking[e], Absent}
  BY <1>1 DEF SaveCode, SInv, Core, SecureTypeOK, AskedExist, TypeOK, Docs, Verifs
<1>3. db[v] \in Verification
  BY <1>2, VerificationRow DEF SInv, Core
<1> DEFINE row == [db[v] EXCEPT !.status = Sent[i], !.attempts = 0, !.verified = @ \ {i}]
<1>4. db' = [db EXCEPT ![v] = row]
  BY <1>1, <1>2, <1>3 DEF SaveCode, BankTypeOK, Verification
<1>5. db'[v] = row
  BY <1>2, <1>4 DEF BankTypeOK
<1>6. Sent[i] \in VerifStatus /\ Sent[i] \notin {"cancelled", "failed", "fully_verified"}
  BY <1>2, StatusNames
<1>7. row \in Verification /\ row.tx = db[v].tx /\ row.status = Sent[i]
  <2>1. PICK st \in VerifStatus, some \in SUBSET Steps :
           st = Sent[i] /\ some = db[v].verified \ {i}
    BY <1>3, <1>6 DEF Verification
  <2>2. row = [db[v] EXCEPT !.status = st, !.attempts = 0, !.verified = some]
    BY <2>1
  <2>3. 0 \in 0..MaxAttempts
    BY MaxAttemptsAssumption
  <2> HIDE DEF row
  <2> QED
    BY <1>3, <2>1, <2>2, <2>3 DEF Verification
<1> HIDE DEF row
<1>8. /\ Sender(v) \in gone => v \notin known'
      /\ \A y \in Verifs \ {v} : y \in known <=> y \in known'
      /\ doomed' = doomed \cup Writers({v})
      /\ UNCHANGED <<ledger, op, gone>>
  BY <1>1 DEF SaveCode
<1>9. Saves(v)
  BY <1>2, <1>4, <1>5, <1>6, <1>7, <1>8 DEF Saves
<1>10. TypeOK' => SecureTypeOK'
  BY <1>1, <1>2 DEF SaveCode, SInv, Core, SecureTypeOK
<1> QED
  BY <1>2, <1>9, <1>10, SaveKeepsAll

\* Reading a code request, losing one, the clocks and the deletion of a user.
LEMMA OutsideKeeps ==
    ASSUME SInv,
           \/ \E c \in Callers : RequestLost(c) \/ \E v \in Verifs : ReadRequest(c, v)
           \/ \E v \in Verifs : VerificationAges(v) \/ CodeAges(v)
           \/ \E u \in Users : DeleteUser(u)
    PROVE  SInv'
<1>1. UNCHANGED <<db, ledger, op, doomed, known>> /\ gone \subseteq gone'
  BY DEF RequestLost, ReadRequest, VerificationAges, CodeAges, DeleteUser
<1>2. AskedExist /\ SecureTypeOK
  BY DEF SInv, Core
<1>3. ASSUME NEW c \in Callers, NEW v \in Verifs, ReadRequest(c, v)
      PROVE  AskedExist' /\ (TypeOK' => SecureTypeOK')
  <2>1. PICK i \in Steps \cup {Expiring} :
           asking' = [asking EXCEPT ![c] = [verif |-> v, step |-> i]]
    BY <1>3 DEF ReadRequest
  <2>2. /\ asking'[c].verif = v
        /\ \A e \in Callers \ {c} : asking'[e] = asking[e]
        /\ db'[v] # Absent /\ db' = db
    BY <1>1, <1>2, <1>3, <2>1 DEF SecureTypeOK, ReadRequest
  <2>3. AskedExist'
    BY <1>2, <2>2 DEF AskedExist, Exists
  <2>4. TypeOK' => SecureTypeOK'
    BY <1>2, <1>3, <2>1 DEF SecureTypeOK, ReadRequest
  <2> QED
    BY <2>3, <2>4
<1>4. ASSUME NEW c \in Callers, RequestLost(c)
      PROVE  AskedExist' /\ (TypeOK' => SecureTypeOK')
  BY <1>1, <1>2, <1>4 DEF AskedExist, Exists, SecureTypeOK, RequestLost
<1>5. ASSUME asking' = asking PROVE AskedExist'
  BY <1>1, <1>2, <1>5 DEF AskedExist, Exists
<1>6. ASSUME NEW v \in Verifs, VerificationAges(v) \/ CodeAges(v)
      PROVE  asking' = asking /\ (TypeOK' => SecureTypeOK')
  BY <1>2, <1>6 DEF SecureTypeOK, VerificationAges, CodeAges
<1>7. ASSUME NEW u \in Users, DeleteUser(u)
      PROVE  asking' = asking /\ (TypeOK' => SecureTypeOK')
  BY <1>2, <1>7 DEF SecureTypeOK, DeleteUser
<1>8. AskedExist' /\ (TypeOK' => SecureTypeOK')
  BY <1>3, <1>4, <1>5, <1>6, <1>7
<1> QED
  BY <1>1, <1>8, StillKeeps

LEMMA SecureNextKeeps == SInv /\ [SecureNext]_allVars => SInv'
<1> SUFFICES ASSUME SInv, [SecureNext]_allVars PROVE SInv'
  OBVIOUS
<1>1. CASE BankStepHere
  <2>1. UNCHANGED secureVars /\ Next
    BY <1>1 DEF BankStepHere
  <2>2. ASSUME NEW s \in Sessions, UserBegin(s) PROVE SInv'
    <3>1. \E o : Starts(s, o)
      BY <2>2, UserBeginIsPossible DEF Can, Begin, Starts
    <3> QED
      BY <2>1, <3>1, BeginKeepsAll
  <2>3. ASSUME NEW s \in Sessions, Abort(s) PROVE SInv'
    <3>1. Core'
      BY <2>1, <2>3, CoreAbort DEF SInv
    <3>2. db' = db /\ ledger' = ledger /\ known' = known /\ gone \subseteq gone'
      BY <2>1, <2>3 DEF Abort, secureVars
    <3> QED
      BY <3>1, <3>2, QuietKeeps DEF Bal
  <2>4. ASSUME NEW w \in Wallets, NEW st \in StatusUpdates, UpdateWalletStatus(w, st)
        PROVE  SInv'
    <3>1. /\ Core' /\ ledger' = ledger
          /\ \A x \in Wallets : Bal(x)' = Bal(x)
          /\ \A d \in Txs \cup Verifs : db'[d] = db[d]
      BY <2>1, <2>4, CoreUpdateWalletStatus DEF SInv
    <3> QED
      BY <2>1, <3>1, QuietKeeps DEF secureVars
  <2> QED
    BY <2>1, <2>2, <2>3, <2>4, CommitKeepsAll DEF Next
<1>2. ASSUME NEW s \in Sessions, UNCHANGED secureVars,
             \/ \E u \in Users, x \in Wallets, a \in Amounts : BeginInitiate(s, u, x, a)
             \/ \E v \in Verifs : BeginVerify(s, v) \/ BeginCancelVerification(s, v)
      PROVE  SInv'
  <2>1. \E o : Starts(s, o)
    <3>1. BankTypeOK /\ VerificationsSound
      BY DEF SInv, Core, SecureTypeOK, TypeOK
    <3>2. ASSUME NEW o, Can(o), Begin(s, o) PROVE Starts(s, o)
      BY <3>2 DEF Begin, Starts
    <3> QED
      BY <1>2, <3>1, <3>2, InitiateIsPossible, VerifyStarts, CancelVerificationIsPossible
  <2> QED
    BY <1>2, <2>1, BeginKeepsAll
<1>3. CASE UNCHANGED allVars
  <2>1. /\ UNCHANGED <<db, ledger, op, doomed, known>> /\ gone \subseteq gone'
        /\ AskedExist' /\ (TypeOK' => SecureTypeOK')
    BY <1>3 DEF allVars, SInv, Core, AskedExist, Exists, SecureTypeOK
  <2> QED
    BY <2>1, StillKeeps
<1> QED
  BY <1>1, <1>2, <1>3, SaveExpiredKeeps, SaveCodeKeeps, OutsideKeeps DEF SecureNext

LEMMA SecureInvariant == SecureSpec => []SInv
  BY SecureInitEstablishes, SecureNextKeeps, PTL DEF SecureSpec

----------------------------------------------------------------------------
\* Every document, ledger, open session and code request keeps the form the
\* schemas and the handlers give it.
THEOREM SecureTypeCorrect == SecureSpec => []SecureTypeOK
<1>1. SInv => SecureTypeOK
  BY DEF SInv, Core
<1> QED
  BY <1>1, SecureInvariant, PTL

\* No session commits a verification, a completion or a cancellation on what
\* went stale after its snapshot: its operation is possible at that moment.
THEOREM NoStaleSecureCommit == SecureSpec => []SecureOpsPossible
<1>1. SInv => SecureOpsPossible
  BY DEF SInv, Core
<1> QED
  BY <1>1, SecureInvariant, PTL

\* The balance history stays recoverable when secure transfers complete beside
\* the other operations.
THEOREM SecureLedgerRecovers == SecureSpec => []LedgerChain
<1>1. SInv => LedgerChain
  BY DEF SInv
<1> QED
  BY <1>1, SecureInvariant, PTL

\* A verification and its transaction end together, whatever code requests save
\* late and whatever is cancelled meanwhile.
THEOREM SecureStatusesAgree == SecureSpec => []StatusesAgree
<1>1. SInv => StatusesAgree
  BY DEF SInv
<1> QED
  BY <1>1, SecureInvariant, PTL

\* The money of a secure transfer leaves once, arrives once and comes back once
\* at the most, also after a late code request has set the completed
\* verification back.
THEOREM SecurePaidOnce == SecureSpec => []PaidOnce
<1>1. SInv => PaidOnce
  <2> SUFFICES ASSUME SInv, NEW t \in SecureTxs, NEW w \in Wallets, NEW side \in Sides
               PROVE  Cardinality(Entries(w, t, side)) <= 1
    BY DEF PaidOnce, Sides
  <2>1. PICK v \in Verifs : Exists(v) /\ t = db[v].tx
    BY DEF SecureTxs, Exists
  <2>2. PaidBy(v, t, db[t].wallet, db[t].to)
    BY <2>1 DEF SInv, SecureEntries
  <2>3. AtMostOne(Entries(w, t, side))
    <3>1. AtMostOne({})
      BY DEF AtMostOne
    <3> QED
      BY <2>2, <3>1 DEF PaidBy, Sides
  <2> QED
    BY <2>3, AtMostOneCounts
<1> QED
  BY <1>1, SecureInvariant, PTL
=============================================================================
