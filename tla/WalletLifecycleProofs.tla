----------------------- MODULE WalletLifecycleProofs -----------------------
(***************************************************************************)
(* Theorems about WalletLifecycle, for any users, wallets, applications,   *)
(* sessions and closings.                                                  *)
(*                                                                         *)
(* The approvals are carried through the steps of the others as the        *)
(* operations of the users are in BankProofs.  What a closing has read is  *)
(* still true of the wallet while the wallet has not changed (Tells); a    *)
(* wallet that was shut with nothing unseen can be written by nobody any   *)
(* more (ShutStays).                                                       *)
(***************************************************************************)
EXTENDS WalletLifecycle, BankProofs

Exists(d) == db[d] # Absent

\* No transaction of wallet w waits.
NoPending(w) == \A t \in Txs : Is(t, "pending") => db[t].wallet # w

----------------------------------------------------------------------------
(***************************************************************************)
(* The operations.                                                         *)
(***************************************************************************)

\* o approves application a, and could happen now.
Approves(o, a) ==
    /\ Is(a, "pending")
    /\ \/ o = ApproveOnlyOp(a)
       \/ \E w \in Wallets : ~Exists(w) /\ o = OpenOp(a, w)
       \/ \E w, p \in Wallets :
             /\ ~Exists(w) /\ Active(p)
             /\ db[a].deposit > 0 /\ Bal(p) >= db[a].deposit
             /\ o = OpenAndPayOp(a, w, p)

Can(o) == Possible(o) \/ \E a \in Apps : Approves(o, a)

\* A wallet that exists keeps its status, and is written only while it is active
\* or has a transaction waiting.
WalletsKept(o) ==
    \A w \in Wallets \cap DOMAIN o.writes :
        Exists(w) => /\ o.writes[w].status = db[w].status
                     /\ Active(w) \/ ~NoPending(w)

\* A transaction that waits is a new one, of an active wallet it takes money from.
WaitsNew(o) ==
    \A t \in Txs \cap DOMAIN o.writes :
        o.writes[t].status = "pending" =>
            LET w == o.writes[t].wallet
            IN  /\ w \in DOMAIN o.writes
                /\ Active(w)
                /\ o.writes[w] # db[w]

\* An application is written by its approval.
AppsApproved(o) ==
    \A a \in Apps \cap DOMAIN o.writes :
        Is(a, "pending") /\ o.writes[a] = WithStatus(a, "approved")

\* The entries of o on application a: none, or a debit and a credit.
PaysOnce(o, a) ==
    \/ \A y \in DOMAIN o.posts : o.posts[y].tx # a
    \/ /\ a \in DOMAIN o.writes
       /\ \E w, p \in Wallets :
             /\ w # p
             /\ DOMAIN o.posts = {w, p}
             /\ o.posts[w].tx = a /\ o.posts[w].side = "credit"
             /\ o.posts[p].tx = a /\ o.posts[p].side = "debit"

GoodOp(o) ==
    /\ IsOp(o)
    /\ WalletsKept(o) /\ WaitsNew(o) /\ AppsApproved(o)
    /\ \A a \in Apps : PaysOnce(o, a)

\* The operations of the users write no application.
LEMMA PossibleIsGood ==
    ASSUME BankTypeOK, NEW o, Possible(o)
    PROVE  GoodOp(o) /\ DOMAIN o.writes \cap Apps = {}
<1>1. IsOp(o)
  BY PossibleIsOp
<1>2. ASSUME NEW w \in Wallets, NEW x \in Wallets, NEW a \in Amounts, NEW t \in Txs,
             CanTransfer(w, x, a, t), o = TransferOp(w, x, a, t)
      PROVE  GoodOp(o) /\ DOMAIN o.writes \cap Apps = {}
  <2>1. /\ DOMAIN o.writes = {w, x, t} /\ w # x /\ w # t /\ x # t
        /\ DOMAIN o.posts = {w, x}
        /\ o.posts[w].tx = t /\ o.posts[x].tx = t
        /\ o.writes[t].status = "completed"
        /\ \E n : o.writes[w] = Moved(w, n)
        /\ \E n : o.writes[x] = Moved(x, n)
    BY <1>2, DocsDisjoint DEF TransferOp, CanTransfer, Posting
  <2>2. WalletsKept(o)
    BY <1>2, <2>1, DocsDisjoint DEF WalletsKept, Moved, CanTransfer, Exists, Active
  <2>3. WaitsNew(o)
    BY <2>1, DocsDisjoint DEF WaitsNew
  <2>4. DOMAIN o.writes \cap Apps = {}
    BY <2>1, DocsDisjoint DEF Apps
  <2>5. \A b \in Apps : PaysOnce(o, b)
    BY <2>1, DocsDisjoint DEF PaysOnce, Apps
  <2> QED
    BY <1>1, <2>2, <2>3, <2>4, <2>5 DEF GoodOp, AppsApproved
<1>3. ASSUME NEW w \in Wallets, NEW a \in Amounts, NEW t \in Txs,
             CanDeposit(w, t), o = DepositOp(w, a, t)
      PROVE  GoodOp(o) /\ DOMAIN o.writes \cap Apps = {}
  <2>1. /\ DOMAIN o.writes = {w, t} /\ w # t
        /\ DOMAIN o.posts = {w}
        /\ o.posts[w].tx = t
        /\ o.writes[t].status = "completed"
        /\ \E n : o.writes[w] = Moved(w, n)
    BY <1>3, DocsDisjoint DEF DepositOp, Posting
  <2>2. WalletsKept(o)
    BY <1>3, <2>1, DocsDisjoint DEF WalletsKept, Moved, CanDeposit, Exists, Active
  <2>3. WaitsNew(o)
    BY <2>1, DocsDisjoint DEF WaitsNew
  <2>4. DOMAIN o.writes \cap Apps = {}
    BY <2>1, DocsDisjoint DEF Apps
  <2>5. \A b \in Apps : PaysOnce(o, b)
    BY <2>1, DocsDisjoint DEF PaysOnce, Apps
  <2> QED
    BY <1>1, <2>2, <2>3, <2>4, <2>5 DEF GoodOp, AppsApproved
<1>4. ASSUME NEW w \in Wallets, NEW a \in Amounts, NEW t \in Txs,
             CanWithdraw(w, a, t), o = WithdrawOp(w, a, t)
      PROVE  GoodOp(o) /\ DOMAIN o.writes \cap Apps = {}
  <2> DEFINE total == a + WithdrawalFee(a)
  <2>1. /\ DOMAIN o.writes = {w, t} /\ w # t
        /\ DOMAIN o.posts = {w}
        /\ o.posts[w].tx = t
        /\ o.writes[t].wallet = w
        /\ o.writes[w] = Moved(w, -total)
    BY <1>4, DocsDisjoint DEF WithdrawOp, Posting
  <2>2. Active(w) /\ total \in Nat /\ total > 0 /\ -total \in Int
    BY <1>4, FeesAreNatural, AmountAssumption DEF CanWithdraw
  <2>3. o.writes[w].bal = Bal(w) + (-total) /\ Bal(w) \in Int /\ Bal(w) = db[w].bal
    BY <2>1, <2>2, MovedIsWallet DEF Active, Bal
  <2>4. WalletsKept(o)
    BY <2>1, <2>2, DocsDisjoint DEF WalletsKept, Moved, Exists, Active
  <2>5. WaitsNew(o)
    <3>1. o.writes[w] # db[w]
      BY <2>2, <2>3
    <3> QED
      BY <2>1, <2>2, <3>1, DocsDisjoint DEF WaitsNew
  <2>6. DOMAIN o.writes \cap Apps = {}
    BY <2>1, DocsDisjoint DEF Apps
  <2>7. \A b \in Apps : PaysOnce(o, b)
    BY <2>1, DocsDisjoint DEF PaysOnce, Apps
  <2> QED
    BY <1>1, <2>4, <2>5, <2>6, <2>7 DEF GoodOp, AppsApproved
<1>5. ASSUME NEW t \in Txs, CanCancel(t), o = CancelOp(t)
      PROVE  GoodOp(o) /\ DOMAIN o.writes \cap Apps = {}
  <2> DEFINE w == db[t].wallet
  <2>1. DOMAIN o.writes = {w, t} /\ w \in Wallets /\ w # t /\ db[t] \in Tx
    BY <1>5, CancelIsOp, DocsDisjoint DEF CanCancel, BankTypeOK
  <2>2. /\ DOMAIN o.posts = {w}
        /\ o.posts[w].tx = t
        /\ \E n : o.writes[w] = Moved(w, n)
    BY <1>5, <2>1 DEF CancelOp, Posting
  <2>3. o.writes[t].status = "cancelled"
    BY <1>5, <2>1 DEF CancelOp, Tx
  <2>4. ~NoPending(w)
    BY <1>5 DEF NoPending, Is, CanCancel
  <2> HIDE DEF w
  <2>5. WalletsKept(o)
    BY <2>1, <2>2, <2>4, DocsDisjoint DEF WalletsKept, Moved, Exists
  <2>6. WaitsNew(o)
    BY <2>1, <2>3, DocsDisjoint DEF WaitsNew
  <2>7. DOMAIN o.writes \cap Apps = {}
    BY <2>1, DocsDisjoint DEF Apps
  <2>8. \A b \in Apps : PaysOnce(o, b)
    BY <2>2, DocsDisjoint DEF PaysOnce, Apps
  <2> QED
    BY <1>1, <2>5, <2>6, <2>7, <2>8 DEF GoodOp, AppsApproved
<1> QED
  BY <1>2, <1>3, <1>4, <1>5 DEF Possible

\* A pending application is a row of its schema, and so is the approved one.
LEMMA PendingApplication ==
    ASSUME BankTypeOK, NEW a \in Apps, Is(a, "pending")
    PROVE  /\ db[a] \in Application /\ WithStatus(a, "approved") \in OtherRows
           /\ a \in OtherDocs /\ a \notin Wallets /\ a \notin Txs
           /\ db[a].deposit \in Int
           /\ WithStatus(a, "approved").status = "approved"
<1>1. a \in OtherDocs /\ db[a] \in Application
  BY ApplicationRows DEF BankTypeOK, Apps, Is
<1>2. db[a].deposit \in Int
  BY <1>1, DepositAssumption DEF Application
<1>3. /\ WithStatus(a, "approved") \in Application
      /\ WithStatus(a, "approved").status = "approved"
  BY <1>1 DEF WithStatus, Application
<1> QED
  BY <1>1, <1>2, <1>3, ApplicationRows, DocsDisjoint

\* What each kind of approval writes and posts.
LEMMA ApproveOnlyWrites ==
    ASSUME NEW a \in Apps
    PROVE  /\ DOMAIN ApproveOnlyOp(a).writes = {a}
           /\ ApproveOnlyOp(a).writes[a] = WithStatus(a, "approved")
           /\ DOMAIN ApproveOnlyOp(a).posts = {}
  BY DEF ApproveOnlyOp

LEMMA OpenWrites ==
    ASSUME NEW a \in Apps, NEW w \in Wallets
    PROVE  /\ DOMAIN OpenOp(a, w).writes = {a, w} /\ a # w
           /\ OpenOp(a, w).writes[a] = WithStatus(a, "approved")
           /\ OpenOp(a, w).writes[w] = Moved(w, 0)
           /\ DOMAIN OpenOp(a, w).posts = {}
  BY DocsDisjoint DEF OpenOp, Apps

LEMMA OpenAndPayWrites ==
    ASSUME NEW a \in Apps, NEW w \in Wallets, NEW p \in Wallets, ~Exists(w), Active(p)
    PROVE  /\ DOMAIN OpenAndPayOp(a, w, p).writes = {a, w, p}
           /\ a # w /\ a # p /\ w # p
           /\ OpenAndPayOp(a, w, p).writes[a] = WithStatus(a, "approved")
           /\ OpenAndPayOp(a, w, p).writes[w] = Moved(w, db[a].deposit)
           /\ OpenAndPayOp(a, w, p).writes[p] = Moved(p, -db[a].deposit)
           /\ DOMAIN OpenAndPayOp(a, w, p).posts = {w, p}
           /\ OpenAndPayOp(a, w, p).posts[w] = Posting(w, a, "credit", db[a].deposit)
           /\ OpenAndPayOp(a, w, p).posts[p] = Posting(p, a, "debit", db[a].deposit)
<1>1. a # w /\ a # p /\ w # p
  BY DocsDisjoint DEF Apps, Exists, Active
<1> QED
  BY <1>1 DEF OpenAndPayOp

LEMMA ApprovalIsGood ==
    ASSUME BankTypeOK, NEW o, NEW a \in Apps, Approves(o, a)
    PROVE  GoodOp(o) /\ DOMAIN o.writes \cap Apps = {a} /\ DOMAIN o.writes \cap Txs = {}
<1>0. /\ WithStatus(a, "approved") \in OtherRows /\ Is(a, "pending")
      /\ a \in OtherDocs /\ a \notin Wallets /\ a \notin Txs
      /\ db[a].deposit \in Int
  BY PendingApplication DEF Approves
<1>1. CASE o = ApproveOnlyOp(a)
  <2>1. /\ DOMAIN o.writes = {a} /\ o.writes[a] = WithStatus(a, "approved")
        /\ DOMAIN o.posts = {}
    BY <1>1, ApproveOnlyWrites
  <2>2. IsOp(o)
    BY <1>0, <2>1 DEF IsOp, Docs
  <2>3. \A b \in Apps : PaysOnce(o, b)
    BY <2>1 DEF PaysOnce
  <2>4. DOMAIN o.writes \cap Txs = {} /\ DOMAIN o.writes \cap Wallets = {}
    BY <1>0, <2>1
  <2> QED
    BY <1>0, <2>1, <2>2, <2>3, <2>4 DEF GoodOp, WalletsKept, WaitsNew, AppsApproved
<1>2. ASSUME NEW w \in Wallets, ~Exists(w), o = OpenOp(a, w)
      PROVE  GoodOp(o) /\ DOMAIN o.writes \cap Apps = {a} /\ DOMAIN o.writes \cap Txs = {}
  <2>1. /\ DOMAIN o.writes = {a, w} /\ a # w
        /\ o.writes[a] = WithStatus(a, "approved")
        /\ o.writes[w] = Moved(w, 0)
        /\ DOMAIN o.posts = {}
    BY <1>2, OpenWrites
  <2>2. Moved(w, 0) \in Wallet
    BY MovedIsWallet
  <2>3. IsOp(o)
    BY <1>0, <2>1, <2>2, DocsDisjoint DEF IsOp, Docs
  <2>4. \A b \in Apps : PaysOnce(o, b)
    BY <2>1 DEF PaysOnce
  <2>5. /\ DOMAIN o.writes \cap Txs = {} /\ DOMAIN o.writes \cap Wallets = {w}
        /\ DOMAIN o.writes \cap Apps = {a}
    BY <1>0, <2>1, DocsDisjoint DEF Apps
  <2> QED
    BY <1>0, <1>2, <2>1, <2>3, <2>4, <2>5 DEF GoodOp, WalletsKept, WaitsNew, AppsApproved
<1>3. ASSUME NEW w \in Wallets, NEW p \in Wallets, ~Exists(w), Active(p),
             db[a].deposit > 0, o = OpenAndPayOp(a, w, p)
      PROVE  GoodOp(o) /\ DOMAIN o.writes \cap Apps = {a} /\ DOMAIN o.writes \cap Txs = {}
  <2> DEFINE n == db[a].deposit
  <2>1. /\ DOMAIN o.writes = {a, w, p} /\ a # w /\ a # p /\ w # p
        /\ o.writes[a] = WithStatus(a, "approved")
        /\ o.writes[w] = Moved(w, n)
        /\ o.writes[p] = Moved(p, -n)
        /\ DOMAIN o.posts = {w, p}
        /\ o.posts[w] = Posting(w, a, "credit", n)
        /\ o.posts[p] = Posting(p, a, "debit", n)
    BY <1>3, OpenAndPayWrites
  <2>2. n \in Nat /\ -n \in Int
    BY <1>0, <1>3
  <2> HIDE DEF n
  <2>3. /\ Moved(w, n) \in Wallet /\ Moved(p, -n) \in Wallet
        /\ Bal(w) \in Int /\ Bal(p) \in Int
    BY <2>2, MovedIsWallet
  <2>4. /\ Posting(w, a, "credit", n) \in Entry
        /\ Posting(p, a, "debit", n) \in Entry
    BY <1>0, <2>2, <2>3 DEF Posting, Entry
  <2>5. IsOp(o)
    BY <1>0, <2>1, <2>3, <2>4, DocsDisjoint DEF IsOp, Docs
  <2>6. PaysOnce(o, a)
    BY <2>1 DEF PaysOnce, Posting
  <2>7. \A b \in Apps \ {a} : PaysOnce(o, b)
    BY <2>1 DEF PaysOnce, Posting
  <2>8. /\ DOMAIN o.writes \cap Txs = {} /\ DOMAIN o.writes \cap Wallets = {w, p}
        /\ DOMAIN o.writes \cap Apps = {a}
    BY <1>0, <2>1, DocsDisjoint DEF Apps
  <2>9. WalletsKept(o)
    BY <1>3, <2>1, <2>8 DEF WalletsKept, Moved, Exists, Active
  <2> QED
    BY <1>0, <2>1, <2>5, <2>6, <2>7, <2>8, <2>9 DEF GoodOp, WaitsNew, AppsApproved
<1> QED
  BY <1>1, <1>2, <1>3 DEF Approves

LEMMA CanIsGood ==
    ASSUME BankTypeOK, NEW o, Can(o)
    PROVE  GoodOp(o)
  BY PossibleIsGood, ApprovalIsGood DEF Can

\* What can happen still can while the documents it writes do not change.
LEMMA CanStays ==
    ASSUME BankTypeOK, NEW o, Can(o),
           \A d \in DOMAIN o.writes : db'[d] = db[d]
    PROVE  Can(o)'
<1>1. CASE Possible(o)
  BY <1>1, Frame DEF Can
<1>2. ASSUME NEW a \in Apps, Approves(o, a)
      PROVE  Can(o)'
  <2>1. a \in DOMAIN o.writes
    BY <1>2, ApprovalIsGood
  <2>2. Is(a, "pending")' /\ db'[a] = db[a]
    BY <1>2, <2>1 DEF Approves, Is
  <2>3. CASE o = ApproveOnlyOp(a)
    <3>1. o = ApproveOnlyOp(a)'
      BY <2>2, <2>3 DEF ApproveOnlyOp, WithStatus
    <3> QED
      BY <2>2, <3>1 DEF Can, Approves
  <2>4. ASSUME NEW w \in Wallets, ~Exists(w), o = OpenOp(a, w)
        PROVE  Can(o)'
    <3>1. db'[w] = db[w]
      BY <2>4, OpenWrites
    <3>2. ~Exists(w)' /\ o = OpenOp(a, w)'
      BY <2>2, <2>4, <3>1 DEF Exists, OpenOp, WithStatus, Moved, Bal
    <3> QED
      BY <2>2, <3>2 DEF Can, Approves
  <2>5. ASSUME NEW w \in Wallets, NEW p \in Wallets, ~Exists(w), Active(p),
               db[a].deposit > 0, Bal(p) >= db[a].deposit, o = OpenAndPayOp(a, w, p)
        PROVE  Can(o)'
    <3>1. db'[w] = db[w] /\ db'[p] = db[p]
      BY <2>5, OpenAndPayWrites
    <3>2. /\ ~Exists(w)' /\ Active(p)'
          /\ db'[a].deposit > 0 /\ Bal(p)' >= db'[a].deposit
      BY <2>2, <2>5, <3>1 DEF Exists, Active, Bal
    <3>3. o = OpenAndPayOp(a, w, p)'
      BY <2>2, <2>5, <3>1 DEF OpenAndPayOp, WithStatus, Moved, Posting, Bal
    <3> QED
      BY <2>2, <3>2, <3>3 DEF Can, Approves
  <2> QED
    BY <1>2, <2>3, <2>4, <2>5 DEF Approves
<1> QED
  BY <1>1, <1>2 DEF Can

----------------------------------------------------------------------------
(***************************************************************************)
(* The documents and the sessions.                                         *)
(***************************************************************************)

\* A session that can still commit holds an operation that is possible now.
LifeOpsPossible == \A s \in Open \ doomed : Can(op[s])

Core == TypeOK /\ LifeOpsPossible

\* No step takes a document away.
Endures == \A d \in Docs : Exists(d) => db'[d] # Absent

LEMMA CoreStillCan ==
    ASSUME BankTypeOK, NEW r \in Sessions, Can(op'[r]),
           \A d \in DOMAIN op'[r].writes : db'[d] = db[d]
    PROVE  Can(op[r])'
<1>1. PICK o : o = op'[r]
  OBVIOUS
<1>2. Can(o)'
  BY <1>1, CanStays
<1> QED
  BY <1>1, <1>2 DEF Can, Possible, Approves

LEMMA CoreBegin ==
    ASSUME Core, NEW s \in Sessions, NEW o, Can(o), Begin(s, o)
    PROVE  Core'
<1>1. BankTypeOK' /\ db' = db
  BY DEF Core, TypeOK, BankTypeOK, Begin
<1>2. s \notin Open /\ s \notin doomed
  BY DEF Core, TypeOK, Begin, Open
<1>3. IsOp(o)
  BY CanIsGood DEF Core, TypeOK, GoodOp
<1>4. Open \subseteq Open' /\ Open' \subseteq Open \cup {s}
  BY <1>2 DEF Begin, Open, Core, TypeOK
<1>5. op'[s] = o /\ \A r \in Sessions \ {s} : op'[r] = op[r]
  BY DEF Begin, Core, TypeOK
<1>6. \A r \in Open' : IsOp(op'[r])
  BY <1>2, <1>3, <1>4, <1>5 DEF Core, TypeOK, Open
<1>7. ASSUME NEW r \in Open' \ doomed'
      PROVE  Can(op[r])'
  <2>1. r \in Sessions
    BY DEF Open
  <2>2. Can(op'[r])
    <3>1. CASE r = s
      BY <1>5, <3>1
    <3>2. CASE r # s
      BY <1>4, <1>5, <2>1, <3>2 DEF Begin, Core, LifeOpsPossible, Can
    <3> QED
      BY <3>1, <3>2
  <2> QED
    BY <1>1, <2>1, <2>2, CoreStillCan DEF Core, TypeOK
<1>8. doomed' \subseteq Open' /\ DOMAIN op' = Sessions
  BY <1>4 DEF Core, TypeOK, Begin
<1>9. LifeOpsPossible'
  BY <1>7 DEF LifeOpsPossible, Can
<1>10. TypeOK'
  BY <1>1, <1>6, <1>8 DEF TypeOK, IsOp
<1> QED
  BY <1>9, <1>10 DEF Core

\* When the documents of D change, the sessions that write none of them stay
\* in play.
LEMMA CoreDooming ==
    ASSUME Core, NEW D, BankTypeOK',
           \A d \in Docs \ D : db'[d] = db[d],
           NEW S \in SUBSET Sessions,
           DOMAIN op' = Sessions,
           Open' = Open \ S,
           \A r \in Open' : op'[r] = op[r],
           doomed' = (doomed \cup Writers(D)) \ S
    PROVE  Core'
<1>1. \A r \in Open' : IsOp(op'[r])
  BY DEF Core, TypeOK
<1>2. doomed' \subseteq Open'
  BY DEF Core, TypeOK, Writers
<1>3. ASSUME NEW r \in Open' \ doomed'
      PROVE  Can(op[r])'
  <2>1. r \in Sessions /\ r \in Open /\ r \notin doomed /\ r \notin Writers(D) /\ op'[r] = op[r]
    BY DEF Open
  <2>2. \A d \in DOMAIN op'[r].writes : db'[d] = db[d]
    BY <2>1 DEF Writers, Core, TypeOK, IsOp
  <2>3. Can(op'[r])
    BY <2>1 DEF Core, LifeOpsPossible, Can
  <2> QED
    BY <2>1, <2>2, <2>3, CoreStillCan DEF Core, TypeOK
<1>4. LifeOpsPossible'
  BY <1>3 DEF LifeOpsPossible, Can
<1>5. TypeOK'
  BY <1>1, <1>2 DEF TypeOK, IsOp
<1> QED
  BY <1>4, <1>5 DEF Core

\* A commit performs a good operation.
LEMMA CoreCommit ==
    ASSUME Core, NEW s \in Sessions, Commit(s)
    PROVE  /\ Core' /\ Endures
           /\ GoodOp(op[s]) /\ Apply(op[s])
           /\ \A d \in Docs : db'[d] = IF d \in DOMAIN op[s].writes THEN op[s].writes[d]
                                       ELSE db[d]
<1>1. s \in Open /\ s \notin doomed /\ Can(op[s])
  BY DEF Commit, Open, Core, LifeOpsPossible, Can
<1>2. PICK o : o = op[s]
  OBVIOUS
<1>3. Apply(o) /\ GoodOp(o) /\ IsOp(o)
  BY <1>1, <1>2, CanIsGood DEF Commit, Core, TypeOK, GoodOp
<1>4. BankTypeOK'
  BY <1>3, ApplyKeepsType DEF Core, TypeOK
<1>5. \A d \in Docs : db'[d] = IF d \in DOMAIN o.writes THEN o.writes[d] ELSE db[d]
  BY <1>3 DEF Apply
<1>6. Endures
  BY <1>3, <1>5, AbsentAssumption, ApplicationRows DEF Endures, Exists, IsOp, Docs
<1>7. Core'
  <2> DEFINE D == DOMAIN o.writes
             S == {s}
  <2>1. /\ DOMAIN op' = Sessions
        /\ Open' = Open \ S
        /\ \A r \in Open' : op'[r] = op[r]
        /\ doomed' = (doomed \cup Writers(D)) \ S
    BY <1>2 DEF Commit, Open, Core, TypeOK
  <2>2. (\A d \in Docs \ D : db'[d] = db[d]) /\ S \in SUBSET Sessions
    BY <1>5
  <2> HIDE DEF D, S
  <2> QED
    BY <1>4, <2>1, <2>2, CoreDooming
<1> QED
  BY <1>2, <1>3, <1>5, <1>6, <1>7

LEMMA CoreAbort ==
    ASSUME Core, NEW s \in Sessions, Abort(s)
    PROVE  Core'
<1>1. BankTypeOK'
  BY DEF Core, TypeOK, BankTypeOK, Abort
<1>2. /\ DOMAIN op' = Sessions
      /\ Open' = Open \ {s}
      /\ \A r \in Open' : op'[r] = op[r]
      /\ doomed' = (doomed \cup Writers({})) \ {s}
      /\ \A d \in Docs \ {} : db'[d] = db[d]
  BY DEF Abort, Open, Writers, Core, TypeOK
<1> QED
  BY <1>1, <1>2, CoreDooming

\* A write outside the sessions, of one document.
LEMMA CoreWrite ==
    ASSUME Core, NEW d \in Docs, BankTypeOK',
           \A e \in Docs \ {d} : db'[e] = db[e],
           op' = op, doomed' = doomed \cup Writers({d})
    PROVE  Core'
<1>1. /\ DOMAIN op' = Sessions
      /\ Open' = Open \ {}
      /\ \A r \in Open' : op'[r] = op[r]
      /\ doomed' = (doomed \cup Writers({d})) \ {}
  BY DEF Open, Core, TypeOK
<1> QED
  BY <1>1, CoreDooming

\* One document gets a row of its collection.
LEMMA WriteKeepsType ==
    ASSUME BankTypeOK, NEW d \in Docs, NEW row, db' = [db EXCEPT ![d] = row],
           d \in Wallets => row \in Wallet,
           d \in Txs => row \in Tx,
           d \in OtherDocs => row \in OtherRows,
           ledger' = ledger
    PROVE  /\ BankTypeOK' /\ Endures
           /\ db'[d] = row /\ row # Absent
           /\ \A e \in Docs \ {d} : db'[e] = db[e]
<1>1. db'[d] = row /\ \A e \in Docs \ {d} : db'[e] = db[e]
  BY DEF BankTypeOK
<1>2. row # Absent /\ row \in Wallet \cup Tx \cup OtherRows
  BY AbsentAssumption, ApplicationRows DEF Docs
<1>3. db' \in [Docs -> Wallet \cup Tx \cup OtherRows \cup {Absent}]
  BY <1>2 DEF BankTypeOK
<1>4. BankTypeOK'
  BY <1>1, <1>3 DEF BankTypeOK, Docs
<1>5. Endures
  BY <1>1, <1>2 DEF Endures, Exists
<1> QED
  BY <1>1, <1>2, <1>4, <1>5

LEMMA CoreUnchanged ==
    ASSUME Core, UNCHANGED <<bankVars, sessionVars>>
    PROVE  Core' /\ Endures
<1>1. BankTypeOK'
  BY DEF Core, TypeOK, BankTypeOK, bankVars
<1>2. /\ DOMAIN op' = Sessions
      /\ Open' = Open \ {}
      /\ \A r \in Open' : op'[r] = op[r]
      /\ doomed' = (doomed \cup Writers({})) \ {}
      /\ \A d \in Docs \ {} : db'[d] = db[d]
  BY DEF Open, Writers, Core, TypeOK, bankVars, sessionVars
<1> QED
  BY <1>1, <1>2, CoreDooming DEF Endures, Exists

----------------------------------------------------------------------------
(***************************************************************************)
(* What a closing has read.                                                *)
(***************************************************************************)

\* Wallets that were closed with nothing unseen, and whose status was not set
\* again since.
Shut == deleted \ (stale \cup stranded \cup reopened)

\* They stay closed and empty: no operation is under way or possible that
\* writes one.
ShutStays ==
    \A w \in Shut : Exists(w) /\ db[w].status = "closed" /\ Bal(w) <= 0 /\ NoPending(w)

\* Call c still holds what is true of its wallet and of the successor, as far as
\* it has missed nothing.
Tells(c) ==
    LET r == closing[c]
        w == r.wallet
    IN  /\ Exists(w) /\ w \notin primary
        /\ <<c, w>> \notin missed => /\ db[w] = r.seen
                                     /\ r.step # "counting" => NoPending(w)
        /\ r.step = "closing" => w \in stranded
        /\ r.step \in {"paying", "paid"} => Exists(r.to)
        /\ (r.step = "paying" /\ <<c, r.to>> \notin missed)
              => r.to \notin Shut /\ (Active(r.to) \/ r.to \in primary)

Busy(c) == closing[c] \notin {Idle, Done}

ClosersTell == \A c \in Closers : Busy(c) => Tells(c)

PrimaryExist == \A w \in primary : Exists(w)

\* What a step does to the closings of others: documents stay, a wallet that
\* exists does not become primary, a wallet that has not changed has no new
\* transaction waiting, and a wallet that was active changes when it is shut.
Steady ==
    /\ Endures
    /\ primary \subseteq primary'
    /\ \A w \in primary' \ primary : ~Exists(w)
    /\ stranded \subseteq stranded'
    /\ \A w \in Wallets : NoPending(w) /\ db'[w] = db[w] => NoPending(w)'
    /\ \A w \in Shut' \ Shut : w \notin primary /\ (Active(w) => db'[w] # db[w])

\* The fields of a record of a closing under way, and the copies it holds.
LEMMA CopiedRecords ==
    ASSUME NEW r \in Closing, r \notin {Idle, Done}
    PROVE  /\ r.step \in {"counting", "choosing", "closing", "paying", "paid"}
           /\ r.wallet \in Wallets /\ r.seen \in Wallet
           /\ r.wallet \in Copied(r)
           /\ r.step \in {"paying", "paid"} =>
                 /\ r \in [step : {"paying", "paid"}, wallet : Wallets, seen : Wallet,
                           to : Wallets, toBal : Int]
                 /\ r.to \in Copied(r)
           /\ r.step \notin {"paying", "paid"} =>
                 r \in [step : {"counting", "choosing", "closing"}, wallet : Wallets,
                        seen : Wallet]
<1>1. CASE r \in [step : {"counting", "choosing", "closing"}, wallet : Wallets, seen : Wallet]
  <2>1. r.step \in {"counting", "choosing", "closing"} /\ r.wallet \in Wallets /\ r.seen \in Wallet
    BY <1>1
  <2>2. Copied(r) = {r.wallet}
    BY <2>1 DEF Copied
  <2> QED
    BY <1>1, <2>1, <2>2
<1>2. CASE r \in [step : {"paying", "paid"}, wallet : Wallets, seen : Wallet,
                  to : Wallets, toBal : Int]
  <2>1. /\ r.step \in {"paying", "paid"} /\ r.wallet \in Wallets /\ r.seen \in Wallet
        /\ r.to \in Wallets
    BY <1>2
  <2>2. Copied(r) = {r.wallet, r.to}
    BY <2>1 DEF Copied
  <2> QED
    BY <1>2, <2>1, <2>2
<1> QED
  BY <1>1, <1>2 DEF Closing

\* A copy that was not missed is of a wallet that did not change.
LEMMA NoticeTells ==
    ASSUME Notice, NEW c \in Closers, NEW w \in Wallets,
           w \in Copied(closing[c]), w \in Copied(closing'[c]), <<c, w>> \notin missed'
    PROVE  <<c, w>> \notin missed /\ db'[w] = db[w]
<1>1. <<c, w>> \in Closers \X Wallets /\ <<c, w>>[1] = c /\ <<c, w>>[2] = w
  OBVIOUS
<1> QED
  BY <1>1 DEF Notice

\* A step of another leaves what call c holds as true as it was.
LEMMA TellsStay ==
    ASSUME NEW c \in Closers, closing[c] \in Closing, Busy(c), closing'[c] = closing[c],
           Tells(c), Steady, Notice
    PROVE  Tells(c)'
<1> DEFINE r == closing[c]
           w == r.wallet
<1>1. /\ w \in Wallets /\ w \in Copied(r)
      /\ r.step \in {"paying", "paid"} => r.to \in Wallets /\ r.to \in Copied(r)
  BY CopiedRecords DEF Busy
<1>2. <<c, w>> \notin missed' => <<c, w>> \notin missed /\ db'[w] = db[w]
  BY <1>1, NoticeTells
<1>3. r.step = "paying" /\ <<c, r.to>> \notin missed' =>
          <<c, r.to>> \notin missed /\ db'[r.to] = db[r.to]
  BY <1>1, NoticeTells
<1>4. db'[w] # Absent /\ w \notin primary'
  BY <1>1 DEF Tells, Steady, Endures, Exists, Docs
<1>5. <<c, w>> \notin missed' => /\ db'[w] = r.seen
                                 /\ r.step # "counting" => NoPending(w)'
  BY <1>1, <1>2 DEF Tells, Steady
<1>6. r.step = "closing" => w \in stranded'
  BY DEF Tells, Steady
<1>7. r.step \in {"paying", "paid"} => db'[r.to] # Absent
  BY <1>1 DEF Tells, Steady, Endures, Exists, Docs
<1>8. ASSUME r.step = "paying", <<c, r.to>> \notin missed'
      PROVE  r.to \notin Shut' /\ (Active(r.to)' \/ r.to \in primary')
  <2>1. /\ r.to \in Wallets /\ db'[r.to] = db[r.to]
        /\ r.to \notin Shut /\ (Active(r.to) \/ r.to \in primary)
    BY <1>1, <1>3, <1>8 DEF Tells
  <2>2. Active(r.to)' \/ r.to \in primary'
    BY <2>1 DEF Active, Steady
  <2>3. r.to \notin Shut'
    BY <2>1 DEF Steady
  <2> QED
    BY <2>2, <2>3
<1> QED
  BY <1>4, <1>5, <1>6, <1>7, <1>8 DEF Tells, Exists, NoPending, Is, Active

----------------------------------------------------------------------------
(***************************************************************************)
(* What was paid for an application.                                       *)
(***************************************************************************)
AtMostOne(S) == \A i, j \in S : i = j

\* A payment has a debit and a credit, and is made by the approval; a refusal
\* that overwrites the approval marks the application.
PaymentsTell ==
    \A a \in Apps :
        /\ AtMostOne(Payments(a, "debit")) /\ AtMostOne(Payments(a, "credit"))
        /\ Payments(a, "debit") = {} <=> Payments(a, "credit") = {}
        /\ Payments(a, "debit") # {} => /\ Exists(a) /\ ~Is(a, "pending")
                                        /\ Is(a, "approved") \/ a \in stale

\* Without new entries it is enough to look at the applications.
LEMMA PaymentsStay ==
    ASSUME PaymentsTell, ledger' = ledger,
           \A a \in Apps :
              Exists(a) /\ ~Is(a, "pending") /\ (Is(a, "approved") \/ a \in stale) =>
                  /\ Exists(a)' /\ ~Is(a, "pending")'
                  /\ Is(a, "approved")' \/ a \in stale'
    PROVE  PaymentsTell'
<1>1. ASSUME NEW a \in Apps, NEW side
      PROVE  Payments(a, side)' = Payments(a, side)
  BY DEF Payments, Entries
<1> QED
  BY <1>1 DEF PaymentsTell, AtMostOne

\* An operation that has no entry on an application leaves what was paid for it.
LEMMA PaymentsUntouched ==
    ASSUME BankTypeOK, NEW o, IsOp(o), Apply(o), NEW a,
           \A y \in DOMAIN o.posts : o.posts[y].tx # a
    PROVE  /\ Payments(a, "debit")' = Payments(a, "debit")
           /\ Payments(a, "credit")' = Payments(a, "credit")
<1>1. \A w \in Wallets : /\ Entries(w, a, "debit")' = Entries(w, a, "debit")
                         /\ Entries(w, a, "credit")' = Entries(w, a, "credit")
  BY OthersEntriesStay
<1> QED
  BY <1>1 DEF Payments

\* The first payment.
LEMMA PaymentsMade ==
    ASSUME BankTypeOK, NEW o, IsOp(o), Apply(o), NEW a,
           Payments(a, "debit") = {}, Payments(a, "credit") = {},
           NEW w \in Wallets, NEW p \in Wallets, w # p, DOMAIN o.posts = {w, p},
           o.posts[w].tx = a, o.posts[w].side = "credit",
           o.posts[p].tx = a, o.posts[p].side = "debit"
    PROVE  /\ Payments(a, "debit")' = {<<p, Len(ledger[p]) + 1>>}
           /\ Payments(a, "credit")' = {<<w, Len(ledger[w]) + 1>>}
<1>1. ASSUME NEW side, Payments(a, side) = {}, NEW y \in Wallets
      PROVE  Entries(y, a, side) = {}
  <2>1. SUFFICES ASSUME NEW i \in Entries(y, a, side)
                 PROVE  FALSE
    OBVIOUS
  <2>2. <<y, i>> \in {y} \X Entries(y, a, side)
    BY <2>1
  <2>3. <<y, i>> \in Payments(a, side)
    BY <2>2 DEF Payments
  <2> QED
    BY <1>1, <2>3
<1>2. \A y \in Wallets : Entries(y, a, "debit")' = IF y = p THEN {Len(ledger[p]) + 1} ELSE {}
  BY <1>1, EntriesAfter
<1>3. \A y \in Wallets : Entries(y, a, "credit")' = IF y = w THEN {Len(ledger[w]) + 1} ELSE {}
  BY <1>1, EntriesAfter
<1>4. Payments(a, "debit")' = {<<p, Len(ledger[p]) + 1>>}
  BY <1>2 DEF Payments
<1>5. Payments(a, "credit")' = {<<w, Len(ledger[w]) + 1>>}
  BY <1>3 DEF Payments
<1> QED
  BY <1>4, <1>5

\* A good operation pays for an application that it approves, once.
LEMMA PaymentsApplied ==
    ASSUME BankTypeOK, PaymentsTell, NEW o, GoodOp(o), Apply(o), Endures,
           \A d \in Docs : db'[d] = IF d \in DOMAIN o.writes THEN o.writes[d] ELSE db[d],
           stale' = stale
    PROVE  PaymentsTell'
<1>1. IsOp(o)
  BY DEF GoodOp
<1>2. ASSUME NEW a \in Apps
      PROVE  /\ AtMostOne(Payments(a, "debit"))' /\ AtMostOne(Payments(a, "credit"))'
             /\ (Payments(a, "debit") = {} <=> Payments(a, "credit") = {})'
             /\ (Payments(a, "debit") # {} =>
                   /\ Exists(a) /\ ~Is(a, "pending")
                   /\ Is(a, "approved") \/ a \in stale)'
  <2>1. a \in Docs
    BY DEF Docs, Apps
  <2>2. a \in DOMAIN o.writes =>
            /\ Is(a, "pending") /\ Exists(a)'
            /\ Is(a, "approved")' /\ ~Is(a, "pending")'
    <3>1. SUFFICES ASSUME a \in DOMAIN o.writes
                   PROVE  Is(a, "pending") /\ Exists(a)' /\ Is(a, "approved")'
                              /\ ~Is(a, "pending")'
      OBVIOUS
    <3>2. Is(a, "pending") /\ db'[a] = WithStatus(a, "approved")
      BY <2>1, <3>1 DEF GoodOp, AppsApproved
    <3>3. WithStatus(a, "approved") \in Application /\ WithStatus(a, "approved").status = "approved"
      BY <3>2, PendingApplication, ApplicationRows
    <3> QED
      BY <3>2, <3>3, ApplicationRows DEF Is, Exists
  <2>3. CASE \A y \in DOMAIN o.posts : o.posts[y].tx # a
    <3>1. /\ Payments(a, "debit")' = Payments(a, "debit")
          /\ Payments(a, "credit")' = Payments(a, "credit")
      BY <1>1, <2>3, PaymentsUntouched
    <3>2. CASE a \in DOMAIN o.writes
      <4>1. Payments(a, "debit") = {} /\ Payments(a, "credit") = {}
        BY <2>2, <3>2 DEF PaymentsTell
      <4> QED
        BY <3>1, <4>1 DEF AtMostOne
    <3>3. CASE a \notin DOMAIN o.writes
      <4>1. db'[a] = db[a]
        BY <2>1, <3>3
      <4> QED
        BY <3>1, <4>1 DEF PaymentsTell, AtMostOne, Exists, Is
    <3> QED
      BY <3>2, <3>3
  <2>4. ASSUME a \in DOMAIN o.writes, NEW w \in Wallets, NEW p \in Wallets, w # p,
               DOMAIN o.posts = {w, p},
               o.posts[w].tx = a, o.posts[w].side = "credit",
               o.posts[p].tx = a, o.posts[p].side = "debit"
        PROVE  /\ AtMostOne(Payments(a, "debit"))' /\ AtMostOne(Payments(a, "credit"))'
               /\ (Payments(a, "debit") = {} <=> Payments(a, "credit") = {})'
               /\ (Payments(a, "debit") # {} =>
                     /\ Exists(a) /\ ~Is(a, "pending")
                     /\ Is(a, "approved") \/ a \in stale)'
    <3>1. Payments(a, "debit") = {} /\ Payments(a, "credit") = {}
      BY <2>2, <2>4 DEF PaymentsTell
    <3>2. /\ Payments(a, "debit")' = {<<p, Len(ledger[p]) + 1>>}
          /\ Payments(a, "credit")' = {<<w, Len(ledger[w]) + 1>>}
      BY <1>1, <2>4, <3>1, PaymentsMade
    <3> QED
      BY <2>2, <2>4, <3>2 DEF AtMostOne
  <2> QED
    BY <2>3, <2>4 DEF GoodOp, PaysOnce
<1> QED
  BY <1>2 DEF PaymentsTell

----------------------------------------------------------------------------
(***************************************************************************)
(* The invariant and the steps.                                            *)
(***************************************************************************)

\* The forms of what the calls hold and of the histories.
CallsOK ==
    /\ closing \in [Closers -> Closing]
    /\ refusing \in [Refusers -> Refusing]
    /\ \A h \in Refusers : refusing[h] \notin {Idle, Done} => Exists(refusing[h].app)
    /\ primary \cup deleted \cup torn \cup stranded \cup reopened \subseteq Wallets
    /\ stale \subseteq Docs

LInv ==
    /\ LifeTypeOK
    /\ LifeOpsPossible
    /\ ShutStays
    /\ ClosersTell
    /\ PaymentsTell
    /\ PrimaryExist

LEMMA LInvParts ==
    ASSUME LInv
    PROVE  /\ Core /\ CallsOK /\ ShutStays /\ ClosersTell /\ PaymentsTell /\ PrimaryExist
           /\ BankTypeOK
  BY DEF LInv, LifeTypeOK, Core, CallsOK, Exists, TypeOK

\* What a step has to show.  C are the calls whose record it changes.
LEMMA StepKeeps ==
    ASSUME LInv, Notice, Core', CallsOK', Steady, ShutStays', PaymentsTell', PrimaryExist',
           NEW C, \A c \in Closers \ C : closing'[c] = closing[c],
           \A c \in Closers \cap C : Busy(c)' => Tells(c)'
    PROVE  LInv'
<1>1. \A m \in missed' : m \in Closers \X Wallets /\ m[2] \in Copied(closing'[m[1]])
  BY DEF Notice
<1>2. LifeTypeOK'
  BY <1>1 DEF LifeTypeOK, Core, CallsOK, Exists
<1>3. ASSUME NEW c \in Closers, Busy(c)'
      PROVE  Tells(c)'
  <2>1. CASE c \in C
    BY <1>3, <2>1
  <2>2. CASE c \notin C
    <3>1. closing'[c] = closing[c] /\ closing[c] \in Closing
      BY <2>2, LInvParts DEF CallsOK
    <3>2. Busy(c) /\ Tells(c)
      BY <1>3, <3>1 DEF LInv, ClosersTell, Busy
    <3> QED
      BY <3>1, <3>2, TellsStay
  <2> QED
    BY <2>1, <2>2
<1>4. ClosersTell'
  BY <1>3 DEF ClosersTell, Busy, Tells, Exists, NoPending, Is, Active
<1> QED
  BY <1>2, <1>4 DEF LInv, Core

\* The refused applications are still there.
LEMMA RefusedStay ==
    ASSUME CallsOK, Endures, refusing' = refusing
    PROVE  /\ refusing' \in [Refusers -> Refusing]
           /\ \A h \in Refusers : refusing'[h] \notin {Idle, Done} => db'[refusing'[h].app] # Absent
<1>1. ASSUME NEW h \in Refusers, refusing[h] \notin {Idle, Done}
      PROVE  db'[refusing[h].app] # Absent
  <2>1. refusing[h].app \in Docs /\ Exists(refusing[h].app)
    BY <1>1 DEF CallsOK, Refusing, Docs, Apps
  <2> QED
    BY <2>1 DEF Endures, Exists
<1> QED
  BY <1>1 DEF CallsOK

\* A step that leaves the wallets that were shut, and shuts none.
LEMMA ShutStaysUntouched ==
    ASSUME ShutStays, Steady, deleted \subseteq Wallets, Shut' \subseteq Shut,
           \A w \in Shut' : db'[w] = db[w]
    PROVE  ShutStays'
<1>1. ASSUME NEW w \in Shut'
      PROVE  (Exists(w) /\ db[w].status = "closed" /\ Bal(w) <= 0 /\ NoPending(w))'
  <2>1. /\ w \in Shut /\ w \in Wallets /\ db'[w] = db[w]
        /\ Exists(w) /\ db[w].status = "closed" /\ Bal(w) <= 0 /\ NoPending(w)
    BY DEF ShutStays, Shut
  <2>2. NoPending(w)'
    BY <2>1 DEF Steady
  <2> QED
    BY <2>1, <2>2 DEF Exists, Bal
<1> QED
  BY <1>1 DEF ShutStays

\* A step that leaves the transactions and the primary wallets, and shuts none.
LEMMA TxsSteady ==
    ASSUME Endures, \A t \in Txs : db'[t] = db[t], primary' = primary,
           stranded \subseteq stranded', Shut' \subseteq Shut
    PROVE  Steady
  BY DEF Steady, NoPending, Is

\* A step that leaves the documents and the ledgers: begins, aborts and reads.
LEMMA ReadKeeps ==
    ASSUME LInv, Notice, Core', UNCHANGED <<db, ledger, primary, deleted>>, CallsOK',
           stranded \subseteq stranded', stale \subseteq stale', reopened \subseteq reopened',
           NEW C, \A c \in Closers \ C : closing'[c] = closing[c],
           \A c \in Closers \cap C : Busy(c)' => Tells(c)'
    PROVE  LInv'
<1>1. Steady /\ Shut' \subseteq Shut
  BY TxsSteady DEF Shut, Endures, Exists
<1>2. ShutStays'
  BY <1>1, LInvParts, ShutStaysUntouched DEF CallsOK
<1>3. PaymentsTell'
  BY LInvParts, PaymentsStay DEF Exists, Is
<1>4. PrimaryExist'
  BY LInvParts DEF PrimaryExist, Exists
<1> QED
  BY <1>1, <1>2, <1>3, <1>4, StepKeeps

\* A step of the sessions that leaves the documents.
LEMMA SessionKeeps ==
    ASSUME LInv, Notice, Core', UNCHANGED <<db, ledger>>, UNCHANGED lifeVars
    PROVE  LInv'
<1>1. CallsOK'
  BY LInvParts DEF CallsOK, lifeVars, Exists
<1> DEFINE C == {}
<1>2. /\ \A c \in Closers \ C : closing'[c] = closing[c]
      /\ \A c \in Closers \cap C : Busy(c)' => Tells(c)'
  BY DEF lifeVars
<1>3. /\ UNCHANGED <<db, ledger, primary, deleted>>
      /\ stranded \subseteq stranded' /\ stale \subseteq stale' /\ reopened \subseteq reopened'
  BY DEF lifeVars
<1> HIDE DEF C
<1> QED
  BY <1>1, <1>2, <1>3, ReadKeeps

LEMMA UserBeginKeepsAll ==
    ASSUME LInv, Notice, NEW s \in Sessions, UserBeginPersonal(s)
    PROVE  LInv'
<1>1. PICK o : Possible(o) /\ Begin(s, o)
  BY DEF UserBeginPersonal, UserBegin, Possible, BeginTransfer, BeginDeposit, BeginWithdraw,
         BeginCancel, ActiveWallets, ReceivingWallets
<1>2. Core'
  BY <1>1, LInvParts, CoreBegin DEF Can
<1> QED
  BY <1>1, <1>2, SessionKeeps DEF Begin, UserBeginPersonal

LEMMA BeginApprovalKeeps ==
    ASSUME LInv, Notice, NEW s \in Sessions, NEW a \in Apps,
           BeginApproval(s, a), UNCHANGED lifeVars
    PROVE  LInv'
<1>1. PICK o : Approves(o, a) /\ Begin(s, o)
  BY DEF BeginApproval, Approves, Fresh, Exists, PayingWallets, ActiveWallets
<1>2. Core'
  BY <1>1, LInvParts, CoreBegin DEF Can
<1> QED
  BY <1>1, <1>2, SessionKeeps DEF Begin

LEMMA AbortKeepsAll ==
    ASSUME LInv, Notice, NEW s \in Sessions, Abort(s), UNCHANGED lifeVars
    PROVE  LInv'
  BY LInvParts, CoreAbort, SessionKeeps DEF Abort

LEMMA CommitKeepsAll ==
    ASSUME LInv, Notice, NEW s \in Sessions, CommitWallets(s)
    PROVE  LInv'
<1>1. PICK o : o = op[s]
  OBVIOUS
<1>2. /\ Core' /\ Endures /\ GoodOp(o) /\ Apply(o) /\ IsOp(o)
      /\ \A d \in Docs : db'[d] = IF d \in DOMAIN o.writes THEN o.writes[d] ELSE db[d]
  BY <1>1, LInvParts, CoreCommit DEF CommitWallets, GoodOp
<1>3. /\ primary \subseteq primary'
      /\ primary' \ primary \subseteq {w \in DOMAIN o.writes \cap Wallets : ~Exists(w)}
      /\ UNCHANGED <<deleted, closing, refusing, stale, torn, stranded, reopened>>
  BY <1>1 DEF CommitWallets, Created, Exists
<1>4. ASSUME NEW w \in Wallets, NoPending(w), db'[w] = db[w]
      PROVE  NoPending(w)'
  <2>1. SUFFICES ASSUME NEW t \in Txs, Is(t, "pending")', db'[t].wallet = w
                 PROVE  FALSE
    BY DEF NoPending
  <2>2. t \in Docs /\ w \in Docs
    BY DEF Docs
  <2>3. CASE t \in DOMAIN o.writes
    <3>1. o.writes[t].status = "pending" /\ o.writes[t].wallet = w
      BY <1>2, <2>1, <2>2, <2>3 DEF Is
    <3>2. w \in DOMAIN o.writes /\ o.writes[w] # db[w]
      BY <1>2, <2>3, <3>1 DEF GoodOp, WaitsNew
    <3> QED
      BY <1>2, <1>4, <2>2, <3>2
  <2>4. CASE t \notin DOMAIN o.writes
    BY <1>2, <1>4, <2>1, <2>2, <2>4 DEF NoPending, Is
  <2> QED
    BY <2>3, <2>4
<1>5. Steady /\ Shut' = Shut
  BY <1>2, <1>3, <1>4 DEF Steady, Shut
<1>6. ASSUME NEW w \in Shut
      PROVE  db'[w] = db[w]
  <2>1. w \in Wallets /\ w \in Docs
    BY LInvParts DEF Shut, CallsOK, Docs
  <2>2. w \notin DOMAIN o.writes
    BY <1>2, <2>1, LInvParts DEF ShutStays, GoodOp, WalletsKept, Active
  <2> QED
    BY <1>2, <2>1, <2>2
<1>7. ShutStays'
  BY <1>5, <1>6, LInvParts, ShutStaysUntouched DEF CallsOK
<1>8. PaymentsTell'
  BY <1>2, <1>3, LInvParts, PaymentsApplied
<1>9. PrimaryExist'
  <2>1. ASSUME NEW w \in primary'
        PROVE  Exists(w)'
    <3>1. CASE w \in primary
      BY <1>2, <3>1, LInvParts DEF PrimaryExist, Endures, Exists, CallsOK, Docs
    <3>2. CASE w \notin primary
      <4>1. w \in DOMAIN o.writes /\ w \in Wallets
        BY <1>3, <2>1, <3>2
      <4>2. db'[w] \in Wallet
        BY <1>2, <4>1 DEF IsOp, Docs
      <4> QED
        BY <4>2, AbsentAssumption DEF Exists
    <3> QED
      BY <3>1, <3>2
  <2> QED
    BY <2>1 DEF PrimaryExist
<1>10. CallsOK'
  <2>1. /\ refusing' \in [Refusers -> Refusing]
        /\ \A h \in Refusers : refusing'[h] \notin {Idle, Done} => db'[refusing'[h].app] # Absent
    BY <1>2, <1>3, LInvParts, RefusedStay
  <2> QED
    BY <1>3, <2>1, LInvParts DEF CallsOK, Exists
<1> DEFINE C == {}
<1>11. /\ \A c \in Closers \ C : closing'[c] = closing[c]
       /\ \A c \in Closers \cap C : Busy(c)' => Tells(c)'
  BY <1>3
<1> HIDE DEF C
<1> QED
  BY <1>2, <1>5, <1>7, <1>8, <1>9, <1>10, <1>11, StepKeeps

\* A step beside the sessions that writes one document and leaves the ledgers,
\* and that shuts no wallet.
LEMMA WriteKeeps ==
    ASSUME LInv, Notice, Core', Endures, NEW d \in Docs, d \notin Txs,
           \A e \in Docs \ {d} : db'[e] = db[e],
           UNCHANGED <<ledger, primary, deleted, stranded>>,
           stale \subseteq stale', reopened \subseteq reopened',
           d \in Wallets => d \notin Shut' \/ db'[d] = db[d],
           d \in Apps =>
              (Exists(d) /\ ~Is(d, "pending") /\ (Is(d, "approved") \/ d \in stale) =>
                  ~Is(d, "pending")' /\ (Is(d, "approved")' \/ d \in stale')),
           CallsOK',
           NEW C, \A c \in Closers \ C : closing'[c] = closing[c],
           \A c \in Closers \cap C : Busy(c)' => Tells(c)'
    PROVE  LInv'
<1>1. Shut' \subseteq Shut /\ Shut \subseteq Wallets
  BY LInvParts DEF Shut, CallsOK
<1>2. Steady
  <2>1. \A t \in Txs : db'[t] = db[t]
    BY DEF Docs
  <2> QED
    BY <1>1, <2>1, TxsSteady
<1>3. ShutStays'
  <2>1. \A w \in Shut' : db'[w] = db[w]
    BY <1>1 DEF Docs
  <2> QED
    BY <1>1, <1>2, <2>1, LInvParts, ShutStaysUntouched DEF CallsOK
<1>4. PaymentsTell'
  <2>1. ASSUME NEW a \in Apps, Exists(a), ~Is(a, "pending"), Is(a, "approved") \/ a \in stale
        PROVE  Exists(a)' /\ ~Is(a, "pending")' /\ (Is(a, "approved")' \/ a \in stale')
    <3>1. a \in Docs
      BY DEF Docs, Apps
    <3>2. Exists(a)'
      BY <2>1, <3>1 DEF Endures, Exists
    <3>3. CASE a = d
      BY <2>1, <3>2, <3>3
    <3>4. CASE a # d
      BY <2>1, <3>1, <3>2, <3>4 DEF Is
    <3> QED
      BY <3>3, <3>4
  <2> QED
    BY <2>1, LInvParts, PaymentsStay
<1>5. PrimaryExist'
  BY LInvParts DEF PrimaryExist, Endures, Exists, CallsOK, Docs
<1> QED
  BY <1>2, <1>3, <1>4, <1>5, StepKeeps

\* A status that is set on a wallet that was shut marks it.
LEMMA UpdateStatusKeeps ==
    ASSUME LInv, Notice, NEW w \in Wallets, NEW st \in StatusUpdates, UpdateStatus(w, st)
    PROVE  LInv'
<1>1. /\ BankTypeOK' /\ w \in Docs /\ w \notin Txs
      /\ \A d \in Docs \ {w} : db'[d] = db[d]
      /\ db'[w] # Absent
  BY LInvParts, SetStatusKeepsType, DocsDisjoint DEF UpdateStatus, UpdateWalletStatus, Docs
<1>2. Endures
  BY <1>1 DEF Endures, Exists
<1>3. Core'
  BY <1>1, LInvParts, CoreWrite DEF UpdateStatus, UpdateWalletStatus
<1>4. /\ UNCHANGED <<ledger, primary, deleted, stranded, closing, refusing, torn>>
      /\ stale' = stale /\ reopened \subseteq reopened' /\ reopened' \subseteq reopened \cup {w}
      /\ w \notin Shut'
  BY DEF UpdateStatus, UpdateWalletStatus, SetStatus, Shut
<1>5. CallsOK'
  <2>1. /\ refusing' \in [Refusers -> Refusing]
        /\ \A h \in Refusers : refusing'[h] \notin {Idle, Done} => db'[refusing'[h].app] # Absent
    BY <1>2, <1>4, LInvParts, RefusedStay
  <2> QED
    BY <1>4, <2>1, LInvParts DEF CallsOK, Exists
<1>6. w \notin Apps
  BY DocsDisjoint DEF Apps
<1> DEFINE C == {}
<1>7. /\ \A c \in Closers \ C : closing'[c] = closing[c]
      /\ \A c \in Closers \cap C : Busy(c)' => Tells(c)'
  BY <1>4
<1> HIDE DEF C
<1> QED
  BY <1>1, <1>2, <1>3, <1>4, <1>5, <1>6, <1>7, WriteKeeps

\* A session that would write a document that does not exist yet as an
\* application cannot commit any more.
LEMMA ApplyForAccountKeeps ==
    ASSUME LInv, Notice, NEW a \in Apps, NEW u \in Users, NEW ty \in AccountTypes,
           NEW n \in Deposits, ApplyForAccount(a, u, ty, n)
    PROVE  LInv'
<1> DEFINE row == [user |-> u, type |-> ty, deposit |-> n, status |-> "pending"]
<1>1. /\ a \in Docs /\ a \in OtherDocs /\ a \notin Wallets /\ a \notin Txs
      /\ row \in OtherRows
  BY ApplicationRows, DocsDisjoint DEF Docs, Apps, Application
<1>2. /\ db' = [db EXCEPT ![a] = row]
      /\ UNCHANGED <<ledger, sessionVars, lifeVars>> /\ ~Exists(a)
  BY DEF ApplyForAccount, Exists
<1> HIDE DEF row
<1>3. /\ BankTypeOK' /\ Endures /\ \A e \in Docs \ {a} : db'[e] = db[e]
  BY <1>1, <1>2, LInvParts, WriteKeepsType
<1>4. Writers({a}) \subseteq doomed
  <2>1. SUFFICES ASSUME NEW s \in Writers({a}), s \notin doomed
                 PROVE  FALSE
    OBVIOUS
  <2>2. s \in Open /\ a \in DOMAIN op[s].writes
    BY DEF Writers
  <2>3. GoodOp(op[s])
    BY <2>1, <2>2, LInvParts, CanIsGood DEF LInv, LifeOpsPossible
  <2> QED
    BY <1>2, <2>2, <2>3 DEF GoodOp, AppsApproved, Is, Exists
<1>5. Core'
  <2>1. op' = op /\ doomed' = doomed \cup Writers({a})
    BY <1>2, <1>4 DEF sessionVars
  <2> QED
    BY <1>1, <1>3, <2>1, LInvParts, CoreWrite
<1>6. UNCHANGED <<primary, deleted, closing, refusing, stale, torn, stranded, reopened>>
  BY <1>2 DEF lifeVars
<1>7. CallsOK'
  <2>1. /\ refusing' \in [Refusers -> Refusing]
        /\ \A h \in Refusers : refusing'[h] \notin {Idle, Done} => db'[refusing'[h].app] # Absent
    BY <1>3, <1>6, LInvParts, RefusedStay
  <2> QED
    BY <1>6, <2>1, LInvParts DEF CallsOK, Exists
<1> DEFINE C == {}
<1>8. /\ \A c \in Closers \ C : closing'[c] = closing[c]
      /\ \A c \in Closers \cap C : Busy(c)' => Tells(c)'
  BY <1>6
<1> HIDE DEF C
<1> QED
  BY <1>1, <1>2, <1>3, <1>5, <1>6, <1>7, <1>8, WriteKeeps

LEMMA RefuseReadKeeps ==
    ASSUME LInv, Notice, NEW h \in Refusers, NEW a \in Apps, NEW st \in {"rejected", "gone"},
           RefuseRead(h, a, st)
    PROVE  LInv'
<1>1. /\ UNCHANGED <<bankVars, sessionVars>>
      /\ UNCHANGED <<primary, deleted, closing, stale, torn, stranded, reopened>>
      /\ UNCHANGED <<db, ledger>>
  BY DEF RefuseRead, bankVars
<1>2. Core' /\ Endures
  BY <1>1, LInvParts, CoreUnchanged
<1> DEFINE r == [step |-> "read", app |-> a, as |-> st]
<1>3. r \in Refusing /\ Exists(r.app) /\ refusing' = [refusing EXCEPT ![h] = r]
  BY DEF RefuseRead, Refusing, Is, Exists
<1> HIDE DEF r
<1>4. /\ refusing' \in [Refusers -> Refusing]
      /\ \A g \in Refusers : refusing'[g] \notin {Idle, Done} => db'[refusing'[g].app] # Absent
  BY <1>1, <1>3, LInvParts DEF CallsOK, Exists
<1>5. CallsOK'
  BY <1>1, <1>4, LInvParts DEF CallsOK, Exists
<1> DEFINE C == {}
<1>6. /\ \A c \in Closers \ C : closing'[c] = closing[c]
      /\ \A c \in Closers \cap C : Busy(c)' => Tells(c)'
  BY <1>1
<1> HIDE DEF C
<1> QED
  BY <1>1, <1>2, <1>5, <1>6, ReadKeeps

\* A refusal that finds the application approved marks it; one that finds it
\* gone writes nothing.
LEMMA RefuseWriteKeeps ==
    ASSUME LInv, Notice, NEW h \in Refusers, RefuseWrite(h)
    PROVE  LInv'
<1>0. PICK a, st, row : /\ a = refusing[h].app /\ st = refusing[h].as
                         /\ row = [db[a] EXCEPT !.status = st]
  OBVIOUS
<1>1. /\ refusing[h] \in Refusing /\ refusing[h] \notin {Idle, Done}
      /\ a \in Apps /\ st \in {"rejected", "gone"} /\ Exists(a)
  <2>1. refusing[h].step = "read" /\ refusing[h] \in Refusing
    BY LInvParts DEF RefuseWrite, CallsOK
  <2>2. refusing[h] \notin {Idle, Done}
    BY <2>1 DEF Idle, Done
  <2> QED
    BY <1>0, <2>1, <2>2, LInvParts DEF CallsOK, Refusing
<1>2. /\ db' = IF Is(a, "gone") THEN db ELSE [db EXCEPT ![a].status = st]
      /\ stale' = IF Is(a, "approved") THEN stale \cup {a} ELSE stale
      /\ doomed' = doomed \cup Writers({a})
      /\ refusing' = [refusing EXCEPT ![h] = Done]
      /\ UNCHANGED <<ledger, op, primary, deleted, closing, torn, stranded, reopened>>
  BY <1>0 DEF RefuseWrite
<1>3. /\ a \in Docs /\ a \in OtherDocs /\ a \notin Wallets /\ a \notin Txs
      /\ db[a] \in Application
  BY <1>1, LInvParts, DocsDisjoint, ApplicationRows DEF Docs, Apps, BankTypeOK, Exists
<1>4. row \in Application /\ row.status = st
  BY <1>0, <1>1, <1>3 DEF Application
<1>5. /\ BankTypeOK' /\ Endures /\ \A e \in Docs \ {a} : db'[e] = db[e]
      /\ ~Is(a, "pending")' \/ Is(a, "gone")
  <2>1. CASE Is(a, "gone")
    BY <1>2, <2>1, LInvParts DEF BankTypeOK, Endures, Exists
  <2>2. CASE ~Is(a, "gone")
    <3>1. db' = [db EXCEPT ![a] = row] /\ ledger' = ledger
      BY <1>0, <1>2, <2>2
    <3>2. row \in OtherRows /\ BankTypeOK
      BY <1>4, ApplicationRows, LInvParts
    <3>3. /\ BankTypeOK' /\ Endures /\ \A e \in Docs \ {a} : db'[e] = db[e]
          /\ db'[a] = row
      BY <1>3, <3>1, <3>2, WriteKeepsType
    <3> QED
      BY <1>1, <1>4, <3>3 DEF Is
  <2> QED
    BY <2>1, <2>2
<1>6. Core'
  BY <1>2, <1>3, <1>5, LInvParts, CoreWrite
<1>7. Exists(a) /\ ~Is(a, "pending") /\ (Is(a, "approved") \/ a \in stale) =>
          ~Is(a, "pending")' /\ (Is(a, "approved")' \/ a \in stale')
  <2>1. CASE Is(a, "gone")
    <3>1. db' = db /\ stale \subseteq stale'
      BY <1>2, <2>1
    <3> QED
      BY <3>1 DEF Is
  <2>2. CASE ~Is(a, "gone")
    BY <1>2, <1>5, <2>2
  <2> QED
    BY <2>1, <2>2
<1>8. CallsOK'
  <2>1. ASSUME NEW g \in Refusers, refusing'[g] \notin {Idle, Done}
        PROVE  db'[refusing'[g].app] # Absent
    <3>1. g # h /\ refusing'[g] = refusing[g]
      BY <1>2, <2>1, LInvParts DEF CallsOK
    <3>2. refusing[g].app \in Docs /\ Exists(refusing[g].app)
      BY <2>1, <3>1, LInvParts DEF CallsOK, Refusing, Docs, Apps
    <3> QED
      BY <1>5, <3>1, <3>2 DEF Endures, Exists
  <2>2. refusing' \in [Refusers -> Refusing]
    BY <1>2, LInvParts DEF CallsOK, Refusing
  <2>3. stale' \subseteq Docs
    BY <1>2, <1>3, LInvParts DEF CallsOK
  <2> QED
    BY <1>2, <2>1, <2>2, <2>3, LInvParts DEF CallsOK, Exists
<1> DEFINE C == {}
<1>9. /\ \A c \in Closers \ C : closing'[c] = closing[c]
      /\ \A c \in Closers \cap C : Busy(c)' => Tells(c)'
  BY <1>2
<1> HIDE DEF C
<1>10. /\ UNCHANGED <<ledger, primary, deleted, stranded>>
       /\ stale \subseteq stale' /\ reopened \subseteq reopened'
  BY <1>2
<1> QED
  BY <1>3, <1>5, <1>6, <1>7, <1>8, <1>9, <1>10, WriteKeeps

----------------------------------------------------------------------------
(***************************************************************************)
(* The steps of a closing.                                                 *)
(***************************************************************************)
LEMMA PutClosing ==
    ASSUME CallsOK, NEW c \in Closers, NEW r \in Closing, Put(c, r)
    PROVE  /\ closing' \in [Closers -> Closing]
           /\ closing'[c] = r
           /\ \A d \in Closers \ {c} : closing'[d] = closing[d]
  BY DEF CallsOK, Put

\* The steps that only read.
LEMMA ReadingKeeps ==
    ASSUME LInv, Notice, NEW c \in Closers, NEW r \in Closing, Put(c, r),
           UNCHANGED <<bankVars, sessionVars, primary, deleted, refusing, stale, reopened>>,
           stranded \subseteq stranded', stranded' \cup torn' \subseteq Wallets,
           Busy(c)' => Tells(c)'
    PROVE  LInv'
<1>1. /\ UNCHANGED <<bankVars, sessionVars>>
      /\ UNCHANGED <<db, ledger, primary, deleted>>
      /\ refusing' = refusing
      /\ stale \subseteq stale' /\ reopened \subseteq reopened'
  BY DEF bankVars
<1>2. Core'
  BY <1>1, LInvParts, CoreUnchanged
<1>3. /\ closing' \in [Closers -> Closing]
      /\ \A d \in Closers \ {c} : closing'[d] = closing[d]
  BY LInvParts, PutClosing
<1>4. CallsOK'
  BY <1>1, <1>3, LInvParts DEF CallsOK, Exists
<1> DEFINE C == {c}
<1>5. /\ \A d \in Closers \ C : closing'[d] = closing[d]
      /\ \A d \in Closers \cap C : Busy(d)' => Tells(d)'
  BY <1>3
<1> HIDE DEF C
<1> QED
  BY <1>1, <1>2, <1>4, <1>5, ReadKeeps

\* What a call that reads the wallet and is under way holds.
LEMMA ClosingTells ==
    ASSUME LInv, NEW c \in Closers, NEW r, r = closing[c],
           r.step \in {"counting", "choosing", "closing", "paying", "paid"}
    PROVE  /\ Busy(c) /\ Tells(c) /\ r \in Closing /\ r \notin {Idle, Done}
           /\ r.wallet \in Wallets /\ r.seen \in Wallet /\ r.wallet \in Copied(r)
           /\ Exists(r.wallet) /\ r.wallet \notin primary
<1>1. r \in Closing
  BY LInvParts DEF CallsOK
<1>2. r \notin {Idle, Done}
  BY DEF Idle, Done
<1>3. Busy(c) /\ Tells(c)
  BY <1>2 DEF Busy, LInv, ClosersTell
<1> QED
  BY <1>1, <1>2, <1>3, CopiedRecords DEF Tells

LEMMA CloseReadKeeps ==
    ASSUME LInv, Notice, NEW c \in Closers, NEW w \in Wallets, CloseRead(c, w)
    PROVE  LInv'
<1> DEFINE r == [step |-> "counting", wallet |-> w, seen |-> db[w]]
<1>1. PICK q : q = r
  OBVIOUS
<1>2. db[w] \in Wallet /\ Exists(w) /\ w \notin primary
  BY LInvParts DEF CloseRead, BankTypeOK, Exists
<1>3. q \in Closing /\ q.step = "counting" /\ q.wallet = w /\ q.seen = db[w]
  BY <1>1, <1>2 DEF Closing
<1>4. /\ Put(c, q) /\ UNCHANGED <<bankVars, sessionVars>>
      /\ UNCHANGED <<primary, deleted, refusing, stale, torn, stranded, reopened>>
  BY <1>1 DEF CloseRead
<1>5. closing'[c] = q /\ db' = db
  BY <1>3, <1>4, LInvParts, PutClosing DEF bankVars
<1>6. Tells(c)'
  BY <1>2, <1>3, <1>4, <1>5 DEF Tells, Exists
<1>7. stranded' \cup torn' \subseteq Wallets
  BY <1>4, LInvParts DEF CallsOK
<1> QED
  BY <1>3, <1>4, <1>6, <1>7, ReadingKeeps

LEMMA CloseCountKeeps ==
    ASSUME LInv, Notice, NEW c \in Closers, CloseCount(c)
    PROVE  LInv'
<1>1. PICK r, w : r = closing[c] /\ w = r.wallet
  OBVIOUS
<1>2. /\ r.step = "counting"
      /\ UNCHANGED <<bankVars, sessionVars>>
      /\ UNCHANGED <<primary, deleted, refusing, stale, torn, stranded, reopened>>
      /\ stranded' \cup torn' \subseteq Wallets
  BY <1>1, LInvParts DEF CloseCount, CallsOK
<1>3. CASE NoPending(w)
  <2>1. PICK q : q = [r EXCEPT !.step = "choosing"]
    OBVIOUS
  <2>2. Put(c, q)
    BY <1>1, <1>3, <2>1 DEF CloseCount, NoPending
  <2>3. /\ r \in Closing /\ r \notin {Idle, Done} /\ Tells(c)
        /\ w \in Wallets /\ w \in Copied(r) /\ Exists(w) /\ w \notin primary
    BY <1>1, <1>2, ClosingTells
  <2>4. r \in [step : {"counting", "choosing", "closing"}, wallet : Wallets, seen : Wallet]
    BY <1>2, <2>3, CopiedRecords
  <2>5. /\ q \in [step : {"counting", "choosing", "closing"}, wallet : Wallets, seen : Wallet]
        /\ q.step = "choosing" /\ q.wallet = w /\ q.seen = r.seen
    BY <1>1, <2>1, <2>4
  <2>6. q \in Closing /\ w \in Copied(q)
    BY <2>5, CopiedRecords DEF Closing, Idle, Done
  <2>7. closing'[c] = q /\ db' = db
    BY <1>2, <2>2, <2>6, LInvParts, PutClosing DEF bankVars
  <2>8. <<c, w>> \notin missed' => <<c, w>> \notin missed
    BY <1>1, <2>3, <2>6, <2>7, NoticeTells
  <2>9. <<c, w>> \notin missed' => db[w] = r.seen
    BY <1>1, <2>3, <2>8 DEF Tells
  <2>10. Tells(c)'
    BY <1>2, <1>3, <2>3, <2>5, <2>7, <2>9 DEF Tells, Exists, NoPending, Is
  <2> QED
    BY <1>2, <2>2, <2>6, <2>10, ReadingKeeps
<1>4. CASE ~NoPending(w)
  <2>1. Put(c, Done)
    BY <1>1, <1>4 DEF CloseCount, NoPending
  <2>2. Done \in Closing
    BY DEF Closing
  <2>3. ~Busy(c)'
    BY <2>1, <2>2, LInvParts, PutClosing DEF Busy
  <2> QED
    BY <1>2, <2>1, <2>2, <2>3, ReadingKeeps
<1> QED
  BY <1>3, <1>4

LEMMA CloseChooseKeeps ==
    ASSUME LInv, Notice, NEW c \in Closers, NEW x \in Wallets, CloseChoose(c, x)
    PROVE  LInv'
<1>1. PICK r, w, q : /\ r = closing[c] /\ w = r.wallet
                     /\ q = [step |-> "paying", wallet |-> w, seen |-> r.seen,
                             to |-> x, toBal |-> Bal(x)]
  OBVIOUS
<1>2. /\ r.step = "choosing" /\ x \in Successors(w)
      /\ Put(c, q)
      /\ UNCHANGED <<bankVars, sessionVars>>
      /\ UNCHANGED <<primary, deleted, refusing, stale, torn, stranded, reopened>>
      /\ stranded' \cup torn' \subseteq Wallets
  BY <1>1, LInvParts DEF CloseChoose, CallsOK
<1>3. /\ r \in Closing /\ r \notin {Idle, Done} /\ Tells(c) /\ r.seen \in Wallet
      /\ w \in Wallets /\ w \in Copied(r) /\ Exists(w) /\ w \notin primary
  BY <1>1, <1>2, ClosingTells
<1>4. x \notin deleted /\ Exists(x) /\ (Active(x) \/ x \in primary)
  BY <1>2 DEF Successors, Exists
<1>5. /\ q \in Closing /\ q \notin {Idle, Done}
      /\ q.step = "paying" /\ q.wallet = w /\ q.seen = r.seen /\ q.to = x
  <2>1. Bal(x) \in Int
    BY LInvParts, MovedIsWallet
  <2> QED
    BY <1>1, <1>3, <2>1 DEF Closing, Idle, Done
<1>6. w \in Copied(q)
  BY <1>5, CopiedRecords
<1>7. closing'[c] = q /\ db' = db
  BY <1>2, <1>5, LInvParts, PutClosing DEF bankVars
<1>8. <<c, w>> \notin missed' => <<c, w>> \notin missed
  BY <1>1, <1>3, <1>6, <1>7, NoticeTells
<1>9. <<c, w>> \notin missed' => db[w] = r.seen /\ NoPending(w)
  BY <1>1, <1>2, <1>3, <1>8 DEF Tells
<1>10. x \notin Shut'
  BY <1>2, <1>4 DEF Shut
<1>11. Tells(c)'
  BY <1>2, <1>3, <1>4, <1>5, <1>7, <1>9, <1>10 DEF Tells, Exists, NoPending, Is, Active
<1> QED
  BY <1>2, <1>5, <1>11, ReadingKeeps

LEMMA CloseAloneKeeps ==
    ASSUME LInv, Notice, NEW c \in Closers, CloseAlone(c)
    PROVE  LInv'
<1>1. PICK r, w, q : r = closing[c] /\ w = r.wallet /\ q = [r EXCEPT !.step = "closing"]
  OBVIOUS
<1>2. /\ r.step = "choosing" /\ Put(c, q)
      /\ UNCHANGED <<bankVars, sessionVars>>
      /\ UNCHANGED <<primary, deleted, refusing, stale, torn, reopened>>
      /\ stranded' = stranded \cup {w}
  BY <1>1 DEF CloseAlone
<1>3. /\ r \in Closing /\ r \notin {Idle, Done} /\ Tells(c)
      /\ w \in Wallets /\ w \in Copied(r) /\ Exists(w) /\ w \notin primary
  BY <1>1, <1>2, ClosingTells
<1>4. r \in [step : {"counting", "choosing", "closing"}, wallet : Wallets, seen : Wallet]
  BY <1>2, <1>3, CopiedRecords
<1>5. /\ q \in [step : {"counting", "choosing", "closing"}, wallet : Wallets, seen : Wallet]
      /\ q.step = "closing" /\ q.wallet = w /\ q.seen = r.seen
  BY <1>1, <1>4
<1>6. q \in Closing /\ w \in Copied(q)
  BY <1>5, CopiedRecords DEF Closing, Idle, Done
<1>7. closing'[c] = q /\ db' = db
  BY <1>2, <1>6, LInvParts, PutClosing DEF bankVars
<1>8. <<c, w>> \notin missed' => <<c, w>> \notin missed
  BY <1>1, <1>3, <1>6, <1>7, NoticeTells
<1>9. <<c, w>> \notin missed' => db[w] = r.seen /\ NoPending(w)
  BY <1>1, <1>2, <1>3, <1>8 DEF Tells
<1>10. Tells(c)'
  BY <1>2, <1>3, <1>5, <1>7, <1>9 DEF Tells, Exists, NoPending, Is
<1>11. stranded' \cup torn' \subseteq Wallets
  BY <1>2, <1>3, LInvParts DEF CallsOK
<1> QED
  BY <1>2, <1>6, <1>10, <1>11, ReadingKeeps

LEMMA CloseLostKeeps ==
    ASSUME LInv, Notice, NEW c \in Closers, CloseLost(c)
    PROVE  LInv'
<1>1. /\ Put(c, Done)
      /\ UNCHANGED <<bankVars, sessionVars, primary, deleted, refusing, stale, reopened>>
      /\ stranded' = stranded
      /\ torn' \subseteq torn \cup {closing[c].wallet}
      /\ closing[c] \notin {Idle, Done}
  BY DEF CloseLost
<1>2. closing[c].wallet \in Wallets
  BY <1>1, LInvParts, CopiedRecords DEF CallsOK
<1>3. Done \in Closing
  BY DEF Closing
<1>4. ~Busy(c)'
  BY <1>1, <1>3, LInvParts, PutClosing DEF Busy
<1>5. stranded \subseteq stranded' /\ stranded' \cup torn' \subseteq Wallets
  BY <1>1, <1>2, LInvParts DEF CallsOK
<1> QED
  BY <1>1, <1>3, <1>4, <1>5, ReadingKeeps

\* A successor that was shut since it was read is written over something unseen.
LEMMA ClosePayKeeps ==
    ASSUME LInv, Notice, NEW c \in Closers, ClosePay(c)
    PROVE  LInv'
<1>1. PICK r, w, x, q : /\ r = closing[c] /\ w = r.wallet /\ x = r.to
                        /\ q = [r EXCEPT !.step = "paid"]
  OBVIOUS
<1>2. /\ r.step = "paying" /\ Put(c, q)
      /\ doomed' = doomed \cup Writers({x})
      /\ UNCHANGED <<ledger, op, primary, deleted, refusing, torn, stranded, reopened>>
  BY <1>1 DEF ClosePay
<1>3. /\ r.seen.bal > 0 =>
             /\ db' = [db EXCEPT ![x].bal = r.toBal + r.seen.bal]
             /\ stale' = IF <<c, x>> \in missed THEN stale \cup {x} ELSE stale
      /\ ~(r.seen.bal > 0) => db' = db /\ stale' = stale
  BY <1>1 DEF ClosePay
<1>4. /\ r \in Closing /\ r \notin {Idle, Done} /\ Tells(c)
      /\ w \in Wallets /\ w \in Copied(r) /\ Exists(w) /\ w \notin primary
      /\ r.seen \in Wallet
  BY <1>1, <1>2, ClosingTells
<1>5. /\ r \in [step : {"paying", "paid"}, wallet : Wallets, seen : Wallet,
                to : Wallets, toBal : Int]
      /\ x \in Wallets
  BY <1>1, <1>2, <1>4, CopiedRecords
<1>6. /\ q \in [step : {"paying", "paid"}, wallet : Wallets, seen : Wallet,
                to : Wallets, toBal : Int]
      /\ q.step = "paid" /\ q.wallet = w /\ q.seen = r.seen /\ q.to = x
  BY <1>1, <1>5
<1>7. q \in Closing /\ q \notin {Idle, Done} /\ w \in Copied(q)
  BY <1>6, CopiedRecords DEF Closing, Idle, Done
<1>8. /\ x \in Docs /\ x \notin Txs /\ x \notin OtherDocs /\ x \notin Apps /\ Exists(x)
      /\ db[x] \in Wallet
  BY <1>1, <1>2, <1>4, <1>5, LInvParts, DocsDisjoint DEF Docs, Apps, Tells, BankTypeOK, Exists
<1>9. BankTypeOK' /\ Endures /\ \A e \in Docs \ {x} : db'[e] = db[e]
  <2>1. CASE r.seen.bal > 0
    <3>1. PICK row : row = [db[x] EXCEPT !.bal = r.toBal + r.seen.bal]
      OBVIOUS
    <3>2. r.toBal + r.seen.bal \in Int
      BY <1>4, <1>5 DEF Wallet
    <3>3. row \in Wallet
      BY <1>8, <3>1, <3>2 DEF Wallet
    <3>4. db' = [db EXCEPT ![x] = row] /\ ledger' = ledger
      BY <1>2, <1>3, <2>1, <3>1
    <3> QED
      BY <1>8, <3>3, <3>4, LInvParts, WriteKeepsType
  <2>2. CASE ~(r.seen.bal > 0)
    BY <1>2, <1>3, <2>2, LInvParts DEF BankTypeOK, Endures, Exists
  <2> QED
    BY <2>1, <2>2
<1>10. Core'
  BY <1>2, <1>8, <1>9, LInvParts, CoreWrite
<1>11. /\ closing' \in [Closers -> Closing]
       /\ closing'[c] = q
       /\ \A d \in Closers \ {c} : closing'[d] = closing[d]
  BY <1>2, <1>7, LInvParts, PutClosing
<1>12. stale \subseteq stale' /\ stale' \subseteq Docs
  BY <1>3, <1>8, LInvParts DEF CallsOK
<1>13. x \notin Shut' \/ db'[x] = db[x]
  <2>1. SUFFICES ASSUME x \in Shut', r.seen.bal > 0
                 PROVE  FALSE
    BY <1>3
  <2>2. x \in Shut
    BY <1>2, <1>12, <2>1 DEF Shut
  <2>3. <<c, x>> \in missed
    BY <1>1, <1>2, <1>4, <2>2 DEF Tells
  <2> QED
    BY <1>3, <2>1, <2>3 DEF Shut
<1>14. CallsOK'
  <2>1. /\ refusing' \in [Refusers -> Refusing]
        /\ \A h \in Refusers : refusing'[h] \notin {Idle, Done} => db'[refusing'[h].app] # Absent
    BY <1>2, <1>9, LInvParts, RefusedStay
  <2> QED
    BY <1>2, <1>11, <1>12, <2>1, LInvParts DEF CallsOK, Exists
<1>15. <<c, w>> \notin missed' => <<c, w>> \notin missed /\ db'[w] = db[w]
  BY <1>1, <1>4, <1>7, <1>11, NoticeTells
<1>16. <<c, w>> \notin missed' => db'[w] = r.seen /\ NoPending(w)'
  <2>1. \A t \in Txs : db'[t] = db[t]
    BY <1>8, <1>9 DEF Docs
  <2>2. <<c, w>> \notin missed' => db'[w] = r.seen /\ NoPending(w)
    BY <1>1, <1>2, <1>4, <1>15 DEF Tells
  <2> QED
    BY <2>1, <2>2 DEF NoPending, Is
<1>17. db'[w] # Absent /\ db'[x] # Absent /\ w \notin primary'
  BY <1>2, <1>4, <1>8, <1>9 DEF Endures, Exists, Docs
<1>18. Tells(c)'
  BY <1>6, <1>11, <1>16, <1>17 DEF Tells, Exists
<1> DEFINE C == {c}
<1>19. /\ \A d \in Closers \ C : closing'[d] = closing[d]
       /\ \A d \in Closers \cap C : Busy(d)' => Tells(d)'
  BY <1>11, <1>18
<1> HIDE DEF C
<1>20. UNCHANGED <<ledger, primary, deleted, stranded>> /\ reopened \subseteq reopened'
  BY <1>2
<1> QED
  BY <1>8, <1>9, <1>10, <1>12, <1>13, <1>14, <1>19, <1>20, WriteKeeps

\* A wallet that is shut now has not changed since it was read: it is closed by
\* this save, its money was moved, and none of its transactions waits.
LEMMA CloseSaveKeeps ==
    ASSUME LInv, Notice, NEW c \in Closers, CloseSave(c)
    PROVE  LInv'
<1>0. PICK r, w : r = closing[c] /\ w = r.wallet
  OBVIOUS
<1> DEFINE status == IF r.seen.status = "closed" THEN db[w].status ELSE "closed"
           left == IF r.step = "paid" /\ r.seen.bal > 0 THEN 0 ELSE db[w].bal
<1>1. PICK st, n, row : /\ r = closing[c] /\ w = r.wallet
                        /\ st = status /\ n = left
                        /\ row = [db[w] EXCEPT !.status = st, !.bal = n]
  BY <1>0
<1>2. /\ r.step \in {"paid", "closing"} /\ Put(c, Done)
      /\ db' = [db EXCEPT ![w] = row]
      /\ deleted' = deleted \cup {w}
      /\ stale' = IF <<c, w>> \in missed THEN stale \cup {w} ELSE stale
      /\ doomed' = doomed \cup Writers({w})
      /\ UNCHANGED <<ledger, op, primary, refusing, torn, stranded, reopened>>
  <2>1. /\ r.step \in {"paid", "closing"} /\ Put(c, Done)
        /\ db' = [db EXCEPT
               ![w].status = IF r.seen.status = "closed" THEN @ ELSE "closed",
               ![w].bal = IF r.step = "paid" /\ r.seen.bal > 0 THEN 0 ELSE @]
        /\ deleted' = deleted \cup {w}
        /\ stale' = IF <<c, w>> \in missed THEN stale \cup {w} ELSE stale
        /\ doomed' = doomed \cup Writers({w})
        /\ UNCHANGED <<ledger, op, primary, refusing, torn, stranded, reopened>>
    BY <1>1 DEF CloseSave
  <2>2. db' = [db EXCEPT ![w] = row]
    BY <1>1, <2>1
  <2> QED
    BY <2>1, <2>2
<1>3. /\ r \in Closing /\ r \notin {Idle, Done} /\ Tells(c)
      /\ w \in Wallets /\ Exists(w) /\ w \notin primary /\ r.seen \in Wallet
  BY <1>1, <1>2, ClosingTells
<1>4. /\ w \in Docs /\ w \notin Txs /\ w \notin OtherDocs /\ w \notin Apps
      /\ db[w] \in Wallet
  BY <1>3, LInvParts, DocsDisjoint DEF Docs, Apps, BankTypeOK, Exists
<1>5. /\ row \in Wallet
      /\ row.status = st /\ row.bal = n
  <2>1. st \in WalletStatus /\ n \in Int
    BY <1>1, <1>4 DEF Wallet, WalletStatus
  <2> QED
    BY <1>1, <1>4, <2>1 DEF Wallet
<1>6. /\ BankTypeOK' /\ Endures
      /\ db'[w] = row /\ row # Absent
      /\ \A e \in Docs \ {w} : db'[e] = db[e]
  BY <1>2, <1>4, <1>5, LInvParts, WriteKeepsType
<1>7. Core'
  BY <1>2, <1>4, <1>6, LInvParts, CoreWrite
<1>8. Done \in Closing
  BY DEF Closing
<1>9. /\ closing' \in [Closers -> Closing]
      /\ closing'[c] = Done
      /\ \A d \in Closers \ {c} : closing'[d] = closing[d]
  BY <1>2, <1>8, LInvParts, PutClosing
<1>10. stale \subseteq stale' /\ stale' \subseteq Docs
  BY <1>2, <1>4, LInvParts DEF CallsOK
<1>11. CallsOK'
  <2>1. /\ refusing' \in [Refusers -> Refusing]
        /\ \A h \in Refusers : refusing'[h] \notin {Idle, Done} => db'[refusing'[h].app] # Absent
    BY <1>2, <1>6, LInvParts, RefusedStay
  <2> QED
    BY <1>2, <1>3, <1>9, <1>10, <2>1, LInvParts DEF CallsOK, Exists
<1>12. w \in Shut' => /\ db[w] = r.seen /\ NoPending(w)
                      /\ r.step = "paid"
  BY <1>1, <1>2, <1>3 DEF Shut, Tells
<1>13. \A t \in Txs : db'[t] = db[t]
  BY <1>4, <1>6 DEF Docs
<1>14. Shut' \subseteq Shut \cup {w}
  BY <1>2, <1>10 DEF Shut
<1>15. Steady
  <2>1. \A y \in Wallets : NoPending(y) => NoPending(y)'
    BY <1>13 DEF NoPending, Is
  <2>2. w \in Shut' /\ Active(w) => db'[w] # db[w]
    BY <1>1, <1>5, <1>6, <1>12 DEF Active
  <2> QED
    BY <1>2, <1>3, <1>6, <1>14, <2>1, <2>2 DEF Steady
<1>16. ShutStays'
  <2>1. ASSUME NEW y \in Shut'
        PROVE  (Exists(y) /\ db[y].status = "closed" /\ Bal(y) <= 0 /\ NoPending(y))'
    <3>1. CASE y = w
      <4>1. db'[w].status = "closed"
        BY <1>1, <1>5, <1>6, <1>12, <2>1, <3>1
      <4>2. Bal(w)' <= 0
        <5>1. Bal(w)' = row.bal
          BY <1>6 DEF Bal
        <5>2. row.bal <= 0
          BY <1>1, <1>3, <1>5, <1>12, <2>1, <3>1 DEF Wallet
        <5> QED
          BY <5>1, <5>2
      <4>3. NoPending(w)'
        BY <1>12, <1>13, <2>1, <3>1 DEF NoPending, Is
      <4> QED
        BY <1>6, <3>1, <4>1, <4>2, <4>3 DEF Exists
    <3>2. CASE y # w
      <4>1. y \in Shut /\ y \in Wallets /\ db'[y] = db[y]
        BY <1>6, <1>14, <2>1, <3>2, LInvParts DEF Shut, CallsOK, Docs
      <4>2. NoPending(y)'
        BY <1>13, <4>1, LInvParts DEF ShutStays, NoPending, Is
      <4> QED
        BY <4>1, <4>2, LInvParts DEF ShutStays, Exists, Bal
    <3> QED
      BY <3>1, <3>2
  <2> QED
    BY <2>1 DEF ShutStays
<1>17. PaymentsTell'
  <2>1. \A a \in Apps : db'[a] = db[a]
    BY <1>4, <1>6 DEF Docs, Apps
  <2> QED
    BY <1>2, <1>10, <2>1, LInvParts, PaymentsStay DEF Exists, Is
<1>18. PrimaryExist'
  BY <1>2, <1>6, LInvParts DEF PrimaryExist, Endures, Exists, CallsOK, Docs
<1> DEFINE C == {c}
<1>19. /\ \A d \in Closers \ C : closing'[d] = closing[d]
       /\ \A d \in Closers \cap C : Busy(d)' => Tells(d)'
  BY <1>9 DEF Busy
<1> HIDE DEF C
<1> QED
  BY <1>7, <1>11, <1>15, <1>16, <1>17, <1>18, <1>19, StepKeeps

----------------------------------------------------------------------------
(***************************************************************************)
(* The theorems.                                                           *)
(***************************************************************************)
LEMMA LifeInitEstablishes == LifeInit => LInv
<1> SUFFICES ASSUME LifeInit
             PROVE  LInv
  OBVIOUS
<1>1. IInv
  BY InitEstablishes DEF LifeInit
<1>2. TypeOK /\ Open = {}
  BY <1>1 DEF IInv, LifeInit, Init, Open
<1>3. LifeOpsPossible
  BY <1>2 DEF LifeOpsPossible
<1>4. CallsOK /\ \A c \in Closers : ~Busy(c)
  BY DEF LifeInit, CallsOK, Closing, Refusing, Busy
<1>5. LifeTypeOK
  BY <1>2, <1>4 DEF LifeTypeOK, CallsOK, Exists, LifeInit
<1>6. ShutStays /\ ClosersTell /\ PrimaryExist
  BY <1>4 DEF LifeInit, ShutStays, Shut, ClosersTell, PrimaryExist, Exists
<1>7. PaymentsTell
  <2>1. \A w \in Wallets : ledger[w] = <<>>
    BY DEF LifeInit, Init, BankInit
  <2>2. ASSUME NEW a, NEW side
        PROVE  Payments(a, side) = {}
    <3>1. ASSUME NEW w \in Wallets
          PROVE  Entries(w, a, side) = {}
      <4>1. Len(ledger[w]) = 0
        BY <2>1
      <4>2. 1..Len(ledger[w]) = {}
        BY <4>1
      <4> QED
        BY <4>2 DEF Entries
    <3> QED
      BY <3>1 DEF Payments
  <2> QED
    BY <2>2 DEF PaymentsTell, AtMostOne
<1> QED
  BY <1>3, <1>5, <1>6, <1>7 DEF LInv

LEMMA LifeNextKeeps == LInv /\ [LifeNext]_allVars => LInv'
<1> SUFFICES ASSUME LInv, [LifeNext]_allVars
             PROVE  LInv'
  OBVIOUS
<1>1. CASE LifeNext
  <2>1. Step /\ Notice
    BY <1>1 DEF LifeNext
  <2>2. ASSUME NEW s \in Sessions, UserBeginPersonal(s)
        PROVE  LInv'
    BY <2>1, <2>2, UserBeginKeepsAll
  <2>3. ASSUME NEW s \in Sessions, NEW a \in Apps, BeginApproval(s, a), UNCHANGED lifeVars
        PROVE  LInv'
    BY <2>1, <2>3, BeginApprovalKeeps
  <2>4. ASSUME NEW s \in Sessions, CommitWallets(s)
        PROVE  LInv'
    BY <2>1, <2>4, CommitKeepsAll
  <2>5. ASSUME NEW s \in Sessions, Abort(s), UNCHANGED lifeVars
        PROVE  LInv'
    BY <2>1, <2>5, AbortKeepsAll
  <2>6. ASSUME NEW w \in Wallets, NEW st \in StatusUpdates, UpdateStatus(w, st)
        PROVE  LInv'
    BY <2>1, <2>6, UpdateStatusKeeps
  <2>7. ASSUME NEW a \in Apps, NEW u \in Users, NEW ty \in AccountTypes, NEW n \in Deposits,
               ApplyForAccount(a, u, ty, n)
        PROVE  LInv'
    BY <2>1, <2>7, ApplyForAccountKeeps
  <2>8. ASSUME NEW h \in Refusers, NEW a \in Apps, NEW st \in {"rejected", "gone"},
               RefuseRead(h, a, st)
        PROVE  LInv'
    BY <2>1, <2>8, RefuseReadKeeps
  <2>9. ASSUME NEW h \in Refusers, RefuseWrite(h)
        PROVE  LInv'
    BY <2>1, <2>9, RefuseWriteKeeps
  <2>10. ASSUME NEW c \in Closers, NEW w \in Wallets, CloseRead(c, w)
         PROVE  LInv'
    BY <2>1, <2>10, CloseReadKeeps
  <2>11. ASSUME NEW c \in Closers, CloseCount(c)
         PROVE  LInv'
    BY <2>1, <2>11, CloseCountKeeps
  <2>12. ASSUME NEW c \in Closers, NEW x \in Wallets, CloseChoose(c, x)
         PROVE  LInv'
    BY <2>1, <2>12, CloseChooseKeeps
  <2>13. ASSUME NEW c \in Closers, CloseAlone(c)
         PROVE  LInv'
    BY <2>1, <2>13, CloseAloneKeeps
  <2>14. ASSUME NEW c \in Closers, ClosePay(c)
         PROVE  LInv'
    BY <2>1, <2>14, ClosePayKeeps
  <2>15. ASSUME NEW c \in Closers, CloseSave(c)
         PROVE  LInv'
    BY <2>1, <2>15, CloseSaveKeeps
  <2>16. ASSUME NEW c \in Closers, CloseLost(c)
         PROVE  LInv'
    BY <2>1, <2>16, CloseLostKeeps
  <2> QED
    BY <2>1, <2>2, <2>3, <2>4, <2>5, <2>6, <2>7, <2>8, <2>9, <2>10, <2>11, <2>12, <2>13,
       <2>14, <2>15, <2>16 DEF Step
<1>2. CASE UNCHANGED allVars
  <2>1. UNCHANGED <<bankVars, sessionVars>> /\ UNCHANGED lifeVars /\ missed' = missed
    BY <1>2 DEF allVars, bankVars, sessionVars, lifeVars
  <2>2. Core'
    BY <2>1, LInvParts, CoreUnchanged
  <2>3. db' = db /\ ledger' = ledger
    BY <2>1 DEF bankVars
  <2>4. LifeTypeOK'
    BY <2>1, <2>2, <2>3 DEF Core, LInv, LifeTypeOK, lifeVars
  <2>5. ShutStays' /\ PrimaryExist'
    BY <2>1, <2>3 DEF LInv, ShutStays, Shut, PrimaryExist, Exists, Bal, NoPending, Is, lifeVars
  <2>6. ClosersTell'
    BY <2>1, <2>3 DEF LInv, ClosersTell, Tells, Busy, Exists, NoPending, Is, Active, Shut, lifeVars
  <2>7. PaymentsTell'
    BY <2>1, <2>3, LInvParts, PaymentsStay DEF Exists, Is, lifeVars
  <2> QED
    BY <2>2, <2>4, <2>5, <2>6, <2>7 DEF LInv, Core
<1> QED
  BY <1>1, <1>2

LEMMA LifeInvariant == LifeSpec => []LInv
<1>1. LInv /\ [LifeNext]_allVars => LInv'
  BY LifeNextKeeps
<1> QED
  BY LifeInitEstablishes, <1>1, PTL DEF LifeSpec

\* Documents, buffered writes, closings, refusals and the histories keep their
\* form (account-applications.service.ts, wallet.service.ts, ops-wallet.service.ts).
THEOREM LifeTypeCorrect == LifeSpec => []LifeTypeOK
<1>1. LInv => LifeTypeOK
  BY DEF LInv
<1> QED
  BY LifeInvariant, <1>1, PTL

\* An approval that can still commit is of an application that is pending, and
\* the wallet it pays from is active and has the money, whatever refusals,
\* closings and movements have come between its reads and its commit
\* (approveApplication).
THEOREM NoStaleApproval == LifeSpec => []ApprovalsStillPossible
<1>1. LInv => ApprovalsStillPossible
  <2> SUFFICES ASSUME LInv
               PROVE  ApprovalsStillPossible
    OBVIOUS
  <2>1. ASSUME NEW s \in Open \ doomed, NEW a \in Apps, a \in DOMAIN op[s].writes
        PROVE  /\ Is(a, "pending")
               /\ \A p \in DOMAIN op[s].posts :
                     op[s].posts[p].side = "debit" =>
                        /\ Active(p)
                        /\ Bal(p) >= db[a].deposit
                        /\ op[s].writes[p] = Moved(p, -db[a].deposit)
    <3>1. PICK o : o = op[s]
      OBVIOUS
    <3>2. Can(o)
      BY <3>1 DEF LInv, LifeOpsPossible
    <3>3. Approves(o, a)
      <4>1. ~Possible(o)
        BY <2>1, <3>1, LInvParts, PossibleIsGood
      <4>2. PICK b \in Apps : Approves(o, b)
        BY <3>2, <4>1 DEF Can
      <4>3. a = b
        BY <2>1, <3>1, <4>2, LInvParts, ApprovalIsGood
      <4> QED
        BY <4>2, <4>3
    <3>4. CASE o = ApproveOnlyOp(a)
      BY <3>1, <3>3, <3>4, ApproveOnlyWrites DEF Approves
    <3>5. ASSUME NEW w \in Wallets, o = OpenOp(a, w)
          PROVE  DOMAIN o.posts = {}
      BY <3>5, OpenWrites
    <3>6. ASSUME NEW w \in Wallets, NEW p \in Wallets, ~Exists(w), Active(p),
                 Bal(p) >= db[a].deposit, o = OpenAndPayOp(a, w, p)
          PROVE  \A q \in DOMAIN o.posts :
                    o.posts[q].side = "debit" =>
                        /\ Active(q)
                        /\ Bal(q) >= db[a].deposit
                        /\ o.writes[q] = Moved(q, -db[a].deposit)
      <4>1. /\ DOMAIN o.posts = {w, p}
            /\ o.posts[w] = Posting(w, a, "credit", db[a].deposit)
            /\ o.writes[p] = Moved(p, -db[a].deposit)
        BY <3>6, OpenAndPayWrites
      <4>2. o.posts[w].side = "credit"
        BY <4>1 DEF Posting
      <4>3. ASSUME NEW q \in DOMAIN o.posts, o.posts[q].side = "debit"
            PROVE  q = p
        BY <4>1, <4>2, <4>3
      <4> QED
        BY <3>6, <4>1, <4>3
    <3> QED
      BY <3>1, <3>3, <3>4, <3>5, <3>6 DEF Approves
  <2> QED
    BY <2>1 DEF ApprovalsStillPossible
<1> QED
  BY LifeInvariant, <1>1, PTL

\* A wallet closed by its user holds no money, then and later, unless it changed
\* while it was closed, the user had no other wallet, or an administrator set
\* its status again (closeWallet).
THEOREM ClosedStaysEmpty == LifeSpec => []ClosedIsEmpty
<1>1. LInv => ClosedIsEmpty
  BY DEF LInv, ShutStays, Shut, ClosedIsEmpty
<1> QED
  BY LifeInvariant, <1>1, PTL

\* Of a set whose members are all equal there is none or one.
LEMMA AtMostOneCounts ==
    ASSUME NEW S, AtMostOne(S)
    PROVE  Cardinality(S) = IF S = {} THEN 0 ELSE 1
<1>1. CASE S = {}
  BY <1>1, FS_EmptySet
<1>2. CASE S # {}
  <2>1. PICK i : i \in S
    BY <1>2
  <2>2. S = {i}
    BY <2>1 DEF AtMostOne
  <2> QED
    BY <1>2, <2>2, FS_Singleton
<1> QED
  BY <1>1, <1>2

\* However many administrators approve an application at once, it is paid for at
\* most once, with a debit and a credit, and not at all when it was refused
\* before it was approved (approveApplication, rejectApplication,
\* cancelApplication).
THEOREM ApplicationPaidOnce == LifeSpec => []PaidOncePerApplication
<1>1. LInv => PaidOncePerApplication
  <2> SUFFICES ASSUME LInv, NEW a \in Apps
               PROVE  /\ Cardinality(Payments(a, "debit")) <= 1
                      /\ Cardinality(Payments(a, "credit")) = Cardinality(Payments(a, "debit"))
                      /\ Payments(a, "debit") # {} => Is(a, "approved") \/ a \in stale
    BY DEF PaidOncePerApplication
  <2>1. /\ AtMostOne(Payments(a, "debit")) /\ AtMostOne(Payments(a, "credit"))
        /\ Payments(a, "debit") = {} <=> Payments(a, "credit") = {}
        /\ Payments(a, "debit") # {} => Is(a, "approved") \/ a \in stale
    BY DEF LInv, PaymentsTell
  <2>2. /\ Cardinality(Payments(a, "debit")) = IF Payments(a, "debit") = {} THEN 0 ELSE 1
        /\ Cardinality(Payments(a, "credit")) = IF Payments(a, "credit") = {} THEN 0 ELSE 1
    BY <2>1, AtMostOneCounts
  <2> QED
    BY <2>1, <2>2
<1> QED
  BY LifeInvariant, <1>1, PTL

----------------------------------------------------------------------------
(***************************************************************************)
(* Money.  The sums of ClosingConserves are rewritten as the ones of       *)
(* BankProofs, for which there are lemmas; an operation moves a balance    *)
(* and its ledger together, a payment of a closing adds to the surplus     *)
(* what it adds to what closings have paid, and its last save takes the    *)
(* same from both.                                                         *)
(***************************************************************************)

\* What a balance has beyond its ledger.
Surplus(w) == Bal(w) - LedgerSum(ledger[w])

\* It is the Gap of WalletLifecycle, a sum the library writes.
LEMMA GapIsSurplus ==
    ASSUME BankTypeOK, NEW w \in Wallets
    PROVE  Gap(w) = Surplus(w)
<1> DEFINE S == 1..Len(ledger[w])
           f == [i \in S |-> Signed(ledger[w][i])]
           P(g) == g = [U \in SUBSET S |->
                          IF U = {} THEN 0
                          ELSE Signed(ledger[w][CHOOSE x \in U : TRUE])
                               + g[U \ {CHOOSE x \in U : TRUE}]]
<1>1. ASSUME NEW g PROVE P(g) <=> Sums(g, f, S)
  <2>1. [U \in SUBSET S |-> IF U = {} THEN 0
                            ELSE Signed(ledger[w][CHOOSE x \in U : TRUE])
                                 + g[U \ {CHOOSE x \in U : TRUE}]]
        = [U \in SUBSET S |-> IF U = {} THEN 0
                              ELSE f[CHOOSE x \in U : TRUE]
                                   + g[U \ {CHOOSE x \in U : TRUE}]]
    OBVIOUS
  <2> HIDE DEF f, S
  <2> QED
    BY <2>1, Zenon DEF Sums, Pick, Minus
<1>2. Gap(w) = Bal(w) - (CHOOSE g : P(g))[S]
  BY Zenon DEF Gap, MapThenSumSet, MapThenFoldSet
<1>3. IsFiniteSet(S)
  BY FS_Interval DEF BankTypeOK
<1>4. Surplus(w) = Bal(w) - Total(f, S)
  BY DEF Surplus, LedgerSum
<1> HIDE DEF P, f, S
<1>5. PICK h : h = CHOOSE g : P(g)
  OBVIOUS
<1>6. Sums(h, f, S)
  BY <1>1, <1>3, <1>5, SumsExist
<1>7. Total(f, S) = h[S]
  BY <1>3, <1>6, TotalSums
<1> QED
  BY <1>2, <1>4, <1>5, <1>7

LEMMA SurplusType ==
    ASSUME BankTypeOK, NEW w \in Wallets
    PROVE  Surplus(w) \in Int
<1>1. LedgerSum(ledger[w]) \in Int
  BY LedgerSumType DEF BankTypeOK
<1> QED
  BY <1>1, MovedIsWallet DEF Surplus

\* The surplus of all wallets, and what the closings under way have paid and not
\* yet taken.
AllSurplus == Total([w \in Wallets |-> Surplus(w)], Wallets)
AllPaid == Total([c \in Paid |-> closing[c].seen.bal], Paid)

LEMMA GapsAreSurplus ==
    ASSUME BankTypeOK
    PROVE  MapThenSumSet(Gap, Wallets) = AllSurplus
<1> DEFINE S == Wallets
           f == [w \in S |-> Surplus(w)]
           P(g) == g = [U \in SUBSET S |->
                          IF U = {} THEN 0
                          ELSE Gap(CHOOSE x \in U : TRUE) + g[U \ {CHOOSE x \in U : TRUE}]]
<1>1. ASSUME NEW g PROVE P(g) <=> Sums(g, f, S)
  <2>1. [U \in SUBSET S |-> IF U = {} THEN 0
                            ELSE Gap(CHOOSE x \in U : TRUE) + g[U \ {CHOOSE x \in U : TRUE}]]
        = [U \in SUBSET S |-> IF U = {} THEN 0
                              ELSE f[CHOOSE x \in U : TRUE] + g[U \ {CHOOSE x \in U : TRUE}]]
    BY GapIsSurplus
  <2> HIDE DEF f, S
  <2> QED
    BY <2>1, Zenon DEF Sums, Pick, Minus
<1>2. MapThenSumSet(Gap, Wallets) = (CHOOSE g : P(g))[S]
  BY Zenon DEF MapThenSumSet, MapThenFoldSet
<1>3. AllSurplus = Total(f, S) /\ IsFiniteSet(S)
  BY FinitenessAssumption DEF AllSurplus
<1> HIDE DEF P, f, S
<1>4. PICK h : h = CHOOSE g : P(g)
  OBVIOUS
<1>5. Sums(h, f, S)
  BY <1>1, <1>3, <1>4, SumsExist
<1>6. Total(f, S) = h[S]
  BY <1>3, <1>5, TotalSums
<1> QED
  BY <1>2, <1>3, <1>4, <1>6

LEMMA PaidIsFinite == IsFiniteSet(Paid)
  BY FinitenessAssumption, FS_Subset DEF Paid

LEMMA SeenArePaid ==
    MapThenSumSet(LAMBDA c : closing[c].seen.bal, Paid) = AllPaid
<1> DEFINE S == Paid
           f == [c \in S |-> closing[c].seen.bal]
           P(g) == g = [U \in SUBSET S |->
                          IF U = {} THEN 0
                          ELSE closing[CHOOSE x \in U : TRUE].seen.bal
                               + g[U \ {CHOOSE x \in U : TRUE}]]
<1>1. ASSUME NEW g PROVE P(g) <=> Sums(g, f, S)
  <2>1. [U \in SUBSET S |-> IF U = {} THEN 0
                            ELSE closing[CHOOSE x \in U : TRUE].seen.bal
                                 + g[U \ {CHOOSE x \in U : TRUE}]]
        = [U \in SUBSET S |-> IF U = {} THEN 0
                              ELSE f[CHOOSE x \in U : TRUE] + g[U \ {CHOOSE x \in U : TRUE}]]
    OBVIOUS
  <2> HIDE DEF f, S
  <2> QED
    BY <2>1, Zenon DEF Sums, Pick, Minus
<1>2. MapThenSumSet(LAMBDA c : closing[c].seen.bal, Paid) = (CHOOSE g : P(g))[S]
  BY Zenon DEF MapThenSumSet, MapThenFoldSet
<1>3. AllPaid = Total(f, S) /\ IsFiniteSet(S)
  BY PaidIsFinite DEF AllPaid
<1> HIDE DEF P, f, S
<1>4. PICK h : h = CHOOSE g : P(g)
  OBVIOUS
<1>5. Sums(h, f, S)
  BY <1>1, <1>3, <1>4, SumsExist
<1>6. Total(f, S) = h[S]
  BY <1>3, <1>5, TotalSums
<1> QED
  BY <1>2, <1>3, <1>4, <1>6


----------------------------------------------------------------------------
(***************************************************************************)
(* The sums through the steps.                                             *)
(***************************************************************************)
LEMMA SurplusTypeNext ==
    ASSUME BankTypeOK', NEW w \in Wallets
    PROVE  Surplus(w)' \in Int /\ Bal(w)' \in Int
<1>1. LedgerSum(ledger'[w]) \in Int
  BY LedgerSumType DEF BankTypeOK
<1>2. Bal(w)' \in Int
  BY DEF BankTypeOK, Bal, Wallet
<1> QED
  BY <1>1, <1>2 DEF Surplus

LEMMA AllSurplusStays ==
    ASSUME \A w \in Wallets : Surplus(w)' = Surplus(w)
    PROVE  AllSurplus' = AllSurplus
<1>1. [w \in Wallets |-> Surplus(w)'] = [w \in Wallets |-> Surplus(w)]
  OBVIOUS
<1> QED
  BY <1>1 DEF AllSurplus

LEMMA AllSurplusMoves ==
    ASSUME BankTypeOK, BankTypeOK', NEW w \in Wallets,
           \A x \in Wallets \ {w} : Surplus(x)' = Surplus(x)
    PROVE  AllSurplus' = AllSurplus + (Surplus(w)' - Surplus(w))
<1> DEFINE f == [x \in Wallets |-> Surplus(x)]
           g == [x \in Wallets |-> Surplus(x)']
<1>1. AllSurplus = Total(f, Wallets) /\ AllSurplus' = Total(g, Wallets)
  BY DEF AllSurplus
<1>2. /\ \A x \in Wallets : f[x] \in Int /\ g[x] \in Int
      /\ \A x \in Wallets \ {w} : f[x] = g[x]
      /\ f[w] = Surplus(w) /\ g[w] = Surplus(w)'
  BY SurplusType, SurplusTypeNext
<1>3. IsFiniteSet(Wallets)
  BY FinitenessAssumption
<1> HIDE DEF f, g
<1>4. Total(g, Wallets) = Total(f, Wallets) + (g[w] - f[w])
  BY <1>2, <1>3, TotalChanges
<1> QED
  BY <1>1, <1>2, <1>4

LEMMA AllSurplusType ==
    ASSUME BankTypeOK
    PROVE  AllSurplus \in Int
<1> DEFINE f == [x \in Wallets |-> Surplus(x)]
<1>1. \A x \in Wallets : f[x] \in Int
  BY SurplusType
<1>2. IsFiniteSet(Wallets)
  BY FinitenessAssumption
<1> HIDE DEF f
<1>3. Total(f, Wallets) \in Int
  BY <1>1, <1>2, TotalType
<1> QED
  BY <1>3 DEF AllSurplus, f

LEMMA AllPaidStays ==
    ASSUME NEW c \in Closers, \A d \in Closers \ {c} : closing'[d] = closing[d],
           c \notin Paid, c \notin Paid'
    PROVE  AllPaid' = AllPaid
<1>1. Paid' = Paid
  BY DEF Paid
<1>2. [d \in Paid' |-> closing'[d].seen.bal] = [d \in Paid |-> closing[d].seen.bal]
  BY <1>1 DEF Paid
<1> QED
  BY <1>1, <1>2 DEF AllPaid

LEMMA PaidTypes ==
    ASSUME CallsOK, NEW c \in Paid
    PROVE  closing[c].seen.bal \in Int
<1>1. closing[c] \in Closing /\ closing[c].step = "paid"
  BY DEF CallsOK, Paid
<1>2. closing[c] \notin {Idle, Done}
  BY <1>1 DEF Idle, Done
<1>3. closing[c].seen \in Wallet
  BY <1>1, <1>2, CopiedRecords
<1> QED
  BY <1>3 DEF Wallet

LEMMA AllPaidType ==
    ASSUME CallsOK
    PROVE  AllPaid \in Int
<1> DEFINE f == [c \in Paid |-> closing[c].seen.bal]
<1>1. \A c \in Paid : f[c] \in Int
  BY PaidTypes
<1> HIDE DEF f
<1>2. Total(f, Paid) \in Int
  BY <1>1, PaidIsFinite, TotalType
<1> QED
  BY <1>2 DEF AllPaid, f

LEMMA AllPaidTypeNext ==
    ASSUME CallsOK'
    PROVE  AllPaid' \in Int
<1> DEFINE f == [c \in Paid' |-> closing'[c].seen.bal]
<1>1. ASSUME NEW c \in Paid'
      PROVE  closing'[c].seen.bal \in Int
  <2>1. closing'[c] \in Closing /\ closing'[c].step = "paid"
    BY DEF CallsOK, Paid
  <2>2. closing'[c] \notin {Idle, Done}
    BY <2>1 DEF Idle, Done
  <2>3. closing'[c].seen \in Wallet
    BY <2>1, <2>2, CopiedRecords
  <2> QED
    BY <2>3 DEF Wallet
<1>2. \A c \in Paid' : f[c] \in Int
  BY <1>1
<1>3. IsFiniteSet(Paid')
  <2>1. Paid' \subseteq Closers
    BY DEF Paid
  <2> QED
    BY <2>1, FinitenessAssumption, FS_Subset
<1> HIDE DEF f
<1>4. Total(f, Paid') \in Int
  BY <1>2, <1>3, TotalType
<1> QED
  BY <1>4 DEF AllPaid, f

\* A closing that has not paid leaves what the others have; one that has is
\* one member of the sum.
LEMMA AllPaidTakes ==
    ASSUME CallsOK, NEW c \in Paid, \A d \in Closers \ {c} : closing'[d] = closing[d],
           c \notin Paid'
    PROVE  AllPaid = closing[c].seen.bal + AllPaid'
<1> DEFINE f == [d \in Paid |-> closing[d].seen.bal]
           g == [d \in Paid' |-> closing'[d].seen.bal]
<1>1. Paid' = Paid \ {c}
  BY DEF Paid
<1>2. /\ \A d \in Paid : f[d] \in Int
      /\ \A d \in Paid' : f[d] = g[d]
      /\ f[c] = closing[c].seen.bal
  BY <1>1, PaidTypes DEF Paid
<1>3. AllPaid = Total(f, Paid) /\ AllPaid' = Total(g, Paid')
  BY DEF AllPaid
<1>4. IsFiniteSet(Paid) /\ IsFiniteSet(Paid')
  BY <1>1, PaidIsFinite, FS_Subset
<1> HIDE DEF f, g
<1>5. Total(f, Paid) = f[c] + Total(f, Paid \ {c})
  BY <1>2, <1>4, TotalSplit
<1>6. Total(f, Paid') = Total(g, Paid')
  BY <1>2, <1>4, TotalSame
<1> QED
  BY <1>1, <1>2, <1>3, <1>5, <1>6

LEMMA AllPaidPays ==
    ASSUME CallsOK, CallsOK', NEW c \in Closers, c \notin Paid, c \in Paid',
           \A d \in Closers \ {c} : closing'[d] = closing[d]
    PROVE  AllPaid' = closing'[c].seen.bal + AllPaid
<1> DEFINE f == [d \in Paid |-> closing[d].seen.bal]
           g == [d \in Paid' |-> closing'[d].seen.bal]
<1>1. Paid = Paid' \ {c}
  BY DEF Paid
<1>2. /\ \A d \in Paid : f[d] = g[d] /\ f[d] \in Int
      /\ g[c] = closing'[c].seen.bal
  BY <1>1, PaidTypes DEF Paid
<1>3. AllPaid = Total(f, Paid) /\ AllPaid' = Total(g, Paid')
  BY DEF AllPaid
<1>4. IsFiniteSet(Paid')
  <2>1. Paid' \subseteq Closers
    BY DEF Paid
  <2> QED
    BY <2>1, FinitenessAssumption, FS_Subset
<1>5. g[c] \in Int
  <2>1. closing'[c] \in Closing /\ closing'[c].step = "paid"
    BY DEF CallsOK, Paid
  <2>2. closing'[c] \notin {Idle, Done}
    BY <2>1 DEF Idle, Done
  <2>3. closing'[c].seen \in Wallet
    BY <2>1, <2>2, CopiedRecords
  <2> QED
    BY <1>2, <2>3 DEF Wallet
<1>6. \A d \in Paid' : g[d] \in Int
  BY <1>1, <1>2, <1>5
<1>7. IsFiniteSet(Paid)
  BY PaidIsFinite
<1> HIDE DEF f, g
<1>8. Total(g, Paid') = g[c] + Total(g, Paid' \ {c})
  BY <1>4, <1>6, TotalSplit
<1>9. Total(f, Paid) = Total(g, Paid)
  BY <1>2, <1>7, TotalSame
<1> QED
  BY <1>1, <1>2, <1>3, <1>8, <1>9

\* A closing that is about to pay knows the balance of the successor, unless it
\* has missed a change of it.
SuccessorsRead ==
    \A c \in Closers :
        (closing[c].step = "paying" /\ <<c, closing[c].to>> \notin missed)
            => Bal(closing[c].to) = closing[c].toBal

NothingLost == stale \cap Wallets = {} /\ torn = {}

Conserves == NothingLost => AllSurplus = AllPaid

\* With LInv, the invariant behind ClosingConserves.
CInv == SuccessorsRead /\ Conserves

\* What is read of a successor stays read while its wallet does not change.
LEMMA SuccessorsReadStay ==
    ASSUME LInv, SuccessorsRead, Notice,
           NEW C, \A c \in Closers \ C : closing'[c] = closing[c],
           \A c \in Closers \cap C :
              (closing'[c].step = "paying" /\ <<c, closing'[c].to>> \notin missed')
                  => Bal(closing[c].to)' = closing'[c].toBal
    PROVE  SuccessorsRead'
<1>1. ASSUME NEW c \in Closers, closing'[c].step = "paying", <<c, closing'[c].to>> \notin missed'
      PROVE  Bal(closing[c].to)' = closing'[c].toBal
  <2>1. CASE c \in C
    BY <1>1, <2>1
  <2>2. CASE c \notin C
    <3>1. closing'[c] = closing[c] /\ closing[c] \in Closing
      BY <2>2, LInvParts DEF CallsOK
    <3>2. PICK x : x = closing[c].to
      OBVIOUS
    <3>3. closing[c] \notin {Idle, Done}
      BY <1>1, <3>1 DEF Idle, Done
    <3>4. x \in Wallets /\ x \in Copied(closing[c])
      BY <1>1, <3>1, <3>2, <3>3, CopiedRecords
    <3>5. <<c, x>> \notin missed /\ db'[x] = db[x]
      BY <1>1, <3>1, <3>2, <3>4, NoticeTells
    <3>6. Bal(x) = closing[c].toBal
      BY <1>1, <3>1, <3>2, <3>5 DEF SuccessorsRead
    <3> QED
      BY <3>1, <3>2, <3>5, <3>6 DEF Bal
  <2> QED
    BY <2>1, <2>2
<1> QED
  BY <1>1 DEF SuccessorsRead, Bal

\* A step that leaves the closings and what each wallet has beyond its ledger.
LEMMA OthersConserve ==
    ASSUME LInv, CInv, Notice, closing' = closing, stale \subseteq stale', torn' = torn,
           \A w \in Wallets : Surplus(w)' = Surplus(w)
    PROVE  CInv'
<1> DEFINE C == {}
<1>1. /\ \A c \in Closers \ C : closing'[c] = closing[c]
      /\ \A c \in Closers \cap C :
            (closing'[c].step = "paying" /\ <<c, closing'[c].to>> \notin missed')
                => Bal(closing[c].to)' = closing'[c].toBal
  OBVIOUS
<1> HIDE DEF C
<1>2. SuccessorsRead'
  BY <1>1, SuccessorsReadStay DEF CInv
<1>3. AllSurplus' = AllSurplus
  BY AllSurplusStays
<1>4. AllPaid' = AllPaid
  BY DEF AllPaid, Paid
<1>5. NothingLost' => NothingLost
  BY DEF NothingLost
<1>6. Conserves'
  BY <1>3, <1>4, <1>5 DEF CInv, Conserves
<1> QED
  BY <1>2, <1>6 DEF CInv

LEMMA SurplusKept ==
    ASSUME ledger' = ledger, \A w \in Wallets : Bal(w)' = Bal(w)
    PROVE  \A w \in Wallets : Surplus(w)' = Surplus(w)
  BY DEF Surplus

\* A step of call c that is neither its payment nor its last save.
LEMMA ReadingConserves ==
    ASSUME LInv, CInv, Notice, NEW c \in Closers, NEW r, Put(c, r),
           UNCHANGED <<bankVars, stale>>, torn \subseteq torn',
           r.step # "paid", closing[c].step # "paid" \/ torn' # {},
           (r.step = "paying" /\ <<c, r.to>> \notin missed') => Bal(r.to) = r.toBal
    PROVE  CInv'
<1>1. /\ closing'[c] = r
      /\ \A d \in Closers \ {c} : closing'[d] = closing[d]
  BY LInvParts DEF CallsOK, Put
<1>2. db' = db /\ ledger' = ledger
  BY DEF bankVars
<1> DEFINE C == {c}
<1>3. /\ \A d \in Closers \ C : closing'[d] = closing[d]
      /\ \A d \in Closers \cap C :
            (closing'[d].step = "paying" /\ <<d, closing'[d].to>> \notin missed')
                => Bal(closing[d].to)' = closing'[d].toBal
  BY <1>1, <1>2 DEF Bal
<1> HIDE DEF C
<1>4. SuccessorsRead'
  BY <1>3, SuccessorsReadStay DEF CInv
<1>5. Conserves'
  <2>1. CASE torn' # {}
    BY <2>1 DEF Conserves, NothingLost
  <2>2. CASE closing[c].step # "paid"
    <3>1. c \notin Paid /\ c \notin Paid'
      BY <1>1, <2>2 DEF Paid
    <3>2. AllPaid' = AllPaid
      BY <1>1, <3>1, AllPaidStays
    <3>3. AllSurplus' = AllSurplus
      <4>1. \A w \in Wallets : Surplus(w)' = Surplus(w)
        BY <1>2, SurplusKept DEF Bal
      <4> QED
        BY <4>1, AllSurplusStays
    <3>4. NothingLost' => NothingLost
      BY DEF NothingLost
    <3> QED
      BY <3>2, <3>3, <3>4 DEF CInv, Conserves
  <2> QED
    BY <2>1, <2>2
<1> QED
  BY <1>4, <1>5 DEF CInv

\* An approval posts what it writes, as the operations of the users do.
LEMMA CanIsBalanced ==
    ASSUME BankTypeOK, NEW o, Can(o)
    PROVE  Balanced(o)
<1>1. CASE Possible(o)
  BY <1>1, PossibleIsOp
<1>2. ASSUME NEW a \in Apps, Approves(o, a)
      PROVE  Balanced(o)
  <2>0. a \notin Wallets /\ db[a].deposit \in Int
    BY <1>2, PendingApplication DEF Approves
  <2>1. CASE o = ApproveOnlyOp(a)
    BY <2>0, <2>1, ApproveOnlyWrites DEF Balanced
  <2>2. ASSUME NEW w \in Wallets, o = OpenOp(a, w)
        PROVE  Balanced(o)
    <3>1. /\ DOMAIN o.writes = {a, w} /\ DOMAIN o.posts = {}
          /\ o.writes[w] = Moved(w, 0)
      BY <2>2, OpenWrites
    <3>2. Moved(w, 0).bal = Bal(w)
      BY MovedIsWallet
    <3> QED
      BY <2>0, <3>1, <3>2 DEF Balanced
  <2>3. ASSUME NEW w \in Wallets, NEW p \in Wallets, ~Exists(w), Active(p),
               o = OpenAndPayOp(a, w, p)
        PROVE  Balanced(o)
    <3>1. PICK n : n = db[a].deposit
      OBVIOUS
    <3>2. /\ DOMAIN o.writes = {a, w, p} /\ a # w /\ a # p /\ w # p
          /\ o.writes[w] = Moved(w, n)
          /\ o.writes[p] = Moved(p, -n)
          /\ DOMAIN o.posts = {w, p}
          /\ o.posts[w] = Posting(w, a, "credit", n)
          /\ o.posts[p] = Posting(p, a, "debit", n)
      BY <2>3, <3>1, OpenAndPayWrites
    <3>3. n \in Int /\ -n \in Int
      BY <2>0, <3>1
    <3>4. /\ Moved(w, n).bal = Bal(w) + n /\ Moved(p, -n).bal = Bal(p) + (-n)
          /\ Bal(w) \in Int /\ Bal(p) \in Int
      BY <3>3, MovedIsWallet
    <3>5. /\ Posting(w, a, "credit", n).bal = Bal(w) + n
          /\ Signed(Posting(w, a, "credit", n)) = n
          /\ Posting(p, a, "debit", n).bal = Bal(p) + (-n)
          /\ Signed(Posting(p, a, "debit", n)) = -n
      BY <3>3, <3>4 DEF Posting, Signed
    <3> QED
      BY <2>0, <3>2, <3>4, <3>5 DEF Balanced
  <2> QED
    BY <1>2, <2>1, <2>2, <2>3 DEF Approves
<1> QED
  BY <1>1, <1>2 DEF Can

\* A commit moves balances and ledgers together.
LEMMA CommitConserves ==
    ASSUME LInv, CInv, Notice, NEW s \in Sessions, CommitWallets(s)
    PROVE  CInv'
<1>1. PICK o : o = op[s]
  OBVIOUS
<1>2. Can(o) /\ Apply(o) /\ IsOp(o) /\ Balanced(o)
  <2>1. Can(o)
    BY <1>1 DEF CommitWallets, Commit, Open, LInv, LifeOpsPossible
  <2> QED
    BY <1>1, <2>1, LInvParts, CanIsGood, CanIsBalanced DEF CommitWallets, Commit, GoodOp
<1>3. ASSUME NEW w \in Wallets
      PROVE  Surplus(w)' = Surplus(w)
  <2>1. CASE w \in DOMAIN o.posts
    <3>1. /\ Bal(w)' = Bal(w) + Signed(o.posts[w])
          /\ ledger'[w] = Append(ledger[w], o.posts[w])
      BY <1>2, <2>1, LInvParts, BalanceAfter DEF Balanced
    <3>2. o.posts[w] \in Entry /\ ledger[w] \in Seq(Entry) /\ Bal(w) \in Int
      BY <1>2, <2>1, LInvParts, MovedIsWallet DEF IsOp, BankTypeOK
    <3>3. LedgerSum(ledger'[w]) = LedgerSum(ledger[w]) + Signed(o.posts[w])
      BY <3>1, <3>2, LedgerSumGrows
    <3>4. LedgerSum(ledger[w]) \in Int /\ Signed(o.posts[w]) \in Int
      BY <3>2, LedgerSumType, SignedIsInt
    <3>5. \A b, l, e \in Int : (b + e) - (l + e) = b - l
      OBVIOUS
    <3> QED
      BY <3>1, <3>2, <3>3, <3>4, <3>5 DEF Surplus
  <2>2. CASE w \notin DOMAIN o.posts
    BY <1>2, <2>2, LInvParts, BalanceAfter DEF Surplus
  <2> QED
    BY <2>1, <2>2
<1>4. closing' = closing /\ stale \subseteq stale' /\ torn' = torn
  BY DEF CommitWallets
<1> QED
  BY <1>3, <1>4, OthersConserve

\* The successor is read as it is.
LEMMA ChooseConserves ==
    ASSUME LInv, CInv, Notice, NEW c \in Closers, NEW x \in Wallets, CloseChoose(c, x)
    PROVE  CInv'
<1>1. PICK q : q = [step |-> "paying", wallet |-> closing[c].wallet,
                    seen |-> closing[c].seen, to |-> x, toBal |-> Bal(x)]
  OBVIOUS
<1>2. /\ q.step = "paying" /\ q.to = x /\ q.toBal = Bal(x)
      /\ closing[c].step = "choosing"
      /\ Put(c, q) /\ UNCHANGED <<bankVars, stale>> /\ torn' = torn
  BY <1>1 DEF CloseChoose
<1> QED
  BY <1>2, ReadingConserves

\* The other steps of a closing that save no wallet.
LEMMA OtherReadsConserve ==
    ASSUME LInv, CInv, Notice, NEW c \in Closers,
           \/ \E w \in Wallets : CloseRead(c, w)
           \/ CloseCount(c)
           \/ CloseAlone(c)
           \/ CloseLost(c)
    PROVE  CInv'
<1>1. ASSUME NEW w \in Wallets, CloseRead(c, w)
      PROVE  CInv'
  <2>1. PICK q : q = [step |-> "counting", wallet |-> w, seen |-> db[w]]
    OBVIOUS
  <2>2. /\ q.step = "counting" /\ closing[c].step # "paid"
        /\ Put(c, q) /\ UNCHANGED <<bankVars, stale>> /\ torn' = torn
    BY <1>1, <2>1 DEF CloseRead, Idle
  <2> QED
    BY <2>2, ReadingConserves
<1>2. CASE CloseCount(c)
  <2>1. closing[c].step = "counting" /\ UNCHANGED <<bankVars, stale>> /\ torn' = torn
    BY <1>2 DEF CloseCount
  <2>2. PICK q : q = [closing[c] EXCEPT !.step = "choosing"]
    OBVIOUS
  <2>3. Put(c, Done) \/ Put(c, q)
    BY <1>2, <2>2 DEF CloseCount
  <2>4. Done.step = "done"
    BY DEF Done
  <2>5. q.step = "choosing"
    <3>1. closing[c] \in [step : {"counting", "choosing", "closing"}, wallet : Wallets,
                          seen : Wallet]
      <4>1. closing[c] \in Closing /\ closing[c] \notin {Idle, Done}
        BY <2>1, ClosingTells
      <4> QED
        BY <2>1, <4>1, CopiedRecords
    <3> QED
      BY <2>2, <3>1
  <2> QED
    BY <2>1, <2>3, <2>4, <2>5, ReadingConserves
<1>3. CASE CloseAlone(c)
  <2>1. closing[c].step = "choosing" /\ UNCHANGED <<bankVars, stale>> /\ torn' = torn
    BY <1>3 DEF CloseAlone
  <2>2. PICK q : q = [closing[c] EXCEPT !.step = "closing"]
    OBVIOUS
  <2>3. Put(c, q)
    BY <1>3, <2>2 DEF CloseAlone
  <2>4. q.step = "closing"
    <3>1. closing[c] \in [step : {"counting", "choosing", "closing"}, wallet : Wallets,
                          seen : Wallet]
      <4>1. closing[c] \in Closing /\ closing[c] \notin {Idle, Done}
        BY <2>1, ClosingTells
      <4> QED
        BY <2>1, <4>1, CopiedRecords
    <3> QED
      BY <2>2, <3>1
  <2> QED
    BY <2>1, <2>3, <2>4, ReadingConserves
<1>4. CASE CloseLost(c)
  <2>1. /\ Put(c, Done) /\ UNCHANGED <<bankVars, stale>> /\ torn \subseteq torn'
        /\ closing[c].step # "paid" \/ torn' # {}
    BY <1>4 DEF CloseLost
  <2>2. Done.step = "done"
    BY DEF Done
  <2> QED
    BY <2>1, <2>2, ReadingConserves
<1> QED
  BY <1>1, <1>2, <1>3, <1>4

\* The payment: the successor has more by what the closing now owes.
LEMMA PayConserves ==
    ASSUME LInv, LInv', CInv, Notice, NEW c \in Closers, ClosePay(c)
    PROVE  CInv'
<1>1. PICK r, x, n, q : /\ r = closing[c] /\ x = r.to /\ n = r.seen.bal
                        /\ q = [r EXCEPT !.step = "paid"]
  OBVIOUS
<1>2. /\ r.step = "paying" /\ Put(c, q)
      /\ UNCHANGED <<ledger, torn>>
      /\ n > 0 => /\ db' = [db EXCEPT ![x].bal = r.toBal + n]
                  /\ stale' = IF <<c, x>> \in missed THEN stale \cup {x} ELSE stale
      /\ ~(n > 0) => db' = db /\ stale' = stale
  BY <1>1 DEF ClosePay
<1>3. r \in Closing /\ r \notin {Idle, Done} /\ Tells(c)
  BY <1>1, <1>2, ClosingTells
<1>4. /\ r \in [step : {"paying", "paid"}, wallet : Wallets, seen : Wallet,
                to : Wallets, toBal : Int]
      /\ x \in Wallets /\ n \in Int /\ r.toBal \in Int
  <2>1. r \in [step : {"paying", "paid"}, wallet : Wallets, seen : Wallet,
               to : Wallets, toBal : Int]
    BY <1>2, <1>3, CopiedRecords
  <2> QED
    BY <1>1, <2>1 DEF Wallet
<1>5. q.step = "paid" /\ q.seen = r.seen
  BY <1>1, <1>4
<1>6. /\ closing'[c] = q
      /\ \A d \in Closers \ {c} : closing'[d] = closing[d]
  BY <1>2, LInvParts DEF CallsOK, Put
<1>7. c \notin Paid /\ (c \in Paid' <=> n > 0)
  BY <1>1, <1>2, <1>5, <1>6 DEF Paid
<1>8. SuccessorsRead'
  <2> DEFINE C == {c}
  <2>1. /\ \A d \in Closers \ C : closing'[d] = closing[d]
        /\ \A d \in Closers \cap C :
              (closing'[d].step = "paying" /\ <<d, closing'[d].to>> \notin missed')
                  => Bal(closing[d].to)' = closing'[d].toBal
    BY <1>5, <1>6
  <2> HIDE DEF C
  <2> QED
    BY <2>1, SuccessorsReadStay DEF CInv
<1>9. Conserves'
  <2>1. SUFFICES ASSUME NothingLost' PROVE AllSurplus' = AllPaid'
    BY DEF Conserves
  <2>2. NothingLost /\ AllSurplus = AllPaid
    <3>1. stale \subseteq stale'
      BY <1>2
    <3> QED
      BY <1>2, <2>1, <3>1 DEF NothingLost, CInv, Conserves
  <2>3. CASE ~(n > 0)
    <3>1. \A w \in Wallets : Surplus(w)' = Surplus(w)
      BY <1>2, <2>3, SurplusKept DEF Bal
    <3>2. AllPaid' = AllPaid
      BY <1>6, <1>7, <2>3, AllPaidStays
    <3> QED
      BY <2>2, <3>1, <3>2, AllSurplusStays
  <2>4. CASE n > 0
    <3>1. <<c, x>> \notin missed
      BY <1>2, <1>4, <2>1, <2>4 DEF NothingLost
    <3>2. Bal(x) = r.toBal
      BY <1>1, <1>2, <3>1 DEF CInv, SuccessorsRead
    <3>3. /\ x \in Docs /\ db[x] \in Wallet
      BY <1>1, <1>2, <1>3, <1>4, LInvParts DEF Docs, Tells, BankTypeOK, Exists
    <3>4. Bal(x)' = r.toBal + n /\ \A w \in Wallets \ {x} : Bal(w)' = Bal(w)
      <4>1. PICK row : row = [db[x] EXCEPT !.bal = r.toBal + n]
        OBVIOUS
      <4>2. /\ db' = [db EXCEPT ![x] = row]
            /\ db \in [Docs -> Wallet \cup Tx \cup OtherRows \cup {Absent}]
        BY <1>2, <2>4, <4>1, LInvParts DEF BankTypeOK
      <4>3. row.bal = r.toBal + n /\ row \in Wallet
        BY <1>4, <3>3, <4>1 DEF Wallet
      <4>4. db'[x] = row /\ row # Absent /\ \A w \in Wallets \ {x} : db'[w] = db[w]
        BY <3>3, <4>2, <4>3, AbsentAssumption DEF Docs
      <4> QED
        BY <4>3, <4>4 DEF Bal
    <3>5. LedgerSum(ledger[x]) \in Int
      BY <1>4, LInvParts, LedgerSumType DEF BankTypeOK
    <3>6. /\ Surplus(x)' - Surplus(x) = n
          /\ \A w \in Wallets \ {x} : Surplus(w)' = Surplus(w)
      BY <1>2, <1>4, <3>2, <3>4, <3>5 DEF Surplus
    <3>7. AllSurplus' = AllSurplus + n
      <4>1. BankTypeOK /\ BankTypeOK'
        BY LInvParts DEF LInv, LifeTypeOK, TypeOK
      <4> QED
        BY <1>4, <3>6, <4>1, AllSurplusMoves
    <3>8. AllPaid' = n + AllPaid
      <4>1. CallsOK /\ CallsOK'
        BY LInvParts DEF LInv, LifeTypeOK, CallsOK, Exists
      <4>2. c \notin Paid /\ c \in Paid' /\ closing'[c].seen.bal = n
        BY <1>1, <1>5, <1>6, <1>7, <2>4
      <4> QED
        BY <1>6, <4>1, <4>2, AllPaidPays
    <3>9. AllPaid \in Int
      BY LInvParts, AllPaidType
    <3> QED
      BY <1>4, <2>2, <3>7, <3>8, <3>9
  <2> QED
    BY <2>3, <2>4
<1> QED
  BY <1>8, <1>9 DEF CInv

\* The last save: what the wallet had is taken from it, and owed no more.
LEMMA SaveConserves ==
    ASSUME LInv, LInv', CInv, Notice, NEW c \in Closers, CloseSave(c)
    PROVE  CInv'
<1>1. PICK r, w, n : r = closing[c] /\ w = r.wallet /\ n = r.seen.bal
  OBVIOUS
<1> DEFINE status == IF r.seen.status = "closed" THEN db[w].status ELSE "closed"
           left == IF r.step = "paid" /\ n > 0 THEN 0 ELSE db[w].bal
<1>2. PICK st, m, row : /\ st = status /\ m = left
                        /\ row = [db[w] EXCEPT !.status = st, !.bal = m]
  OBVIOUS
<1>3. /\ r.step \in {"paid", "closing"} /\ Put(c, Done)
      /\ db' = [db EXCEPT ![w] = row]
      /\ stale' = IF <<c, w>> \in missed THEN stale \cup {w} ELSE stale
      /\ UNCHANGED <<ledger, torn>>
  <2>1. /\ r.step \in {"paid", "closing"} /\ Put(c, Done)
        /\ db' = [db EXCEPT
               ![w].status = IF r.seen.status = "closed" THEN @ ELSE "closed",
               ![w].bal = IF r.step = "paid" /\ n > 0 THEN 0 ELSE @]
        /\ stale' = IF <<c, w>> \in missed THEN stale \cup {w} ELSE stale
        /\ UNCHANGED <<ledger, torn>>
    BY <1>1 DEF CloseSave
  <2>2. db' = [db EXCEPT ![w] = row]
    BY <1>1, <1>2, <2>1
  <2> QED
    BY <2>1, <2>2
<1>4. /\ r \in Closing /\ r \notin {Idle, Done} /\ Tells(c)
      /\ w \in Wallets /\ Exists(w) /\ r.seen \in Wallet
  BY <1>1, <1>3, ClosingTells
<1>5. db[w] \in Wallet /\ w \in Docs /\ n \in Int
  BY <1>1, <1>4, LInvParts DEF BankTypeOK, Exists, Docs, Wallet
<1>6. /\ Bal(w)' = m /\ Bal(w) = db[w].bal
      /\ \A x \in Wallets \ {w} : Bal(x)' = Bal(x)
  <2>0. st \in WalletStatus /\ m \in Int
    BY <1>2, <1>5 DEF Wallet, WalletStatus
  <2>1. row.bal = m /\ row \in Wallet
    BY <1>2, <1>5, <2>0 DEF Wallet
  <2>2. db'[w] = row /\ row # Absent /\ \A x \in Wallets \ {w} : db'[x] = db[x]
    BY <1>3, <1>5, <2>1, LInvParts, AbsentAssumption DEF BankTypeOK, Docs
  <2> QED
    BY <1>4, <2>1, <2>2 DEF Bal, Exists
<1>7. /\ closing'[c] = Done
      /\ \A d \in Closers \ {c} : closing'[d] = closing[d]
  BY <1>3, LInvParts DEF CallsOK, Put
<1>8. Done.step = "done"
  BY DEF Done
<1>9. c \notin Paid' /\ (c \in Paid <=> r.step = "paid" /\ n > 0)
  BY <1>1, <1>7, <1>8 DEF Paid
<1>10. SuccessorsRead'
  <2> DEFINE C == {c}
  <2>1. /\ \A d \in Closers \ C : closing'[d] = closing[d]
        /\ \A d \in Closers \cap C :
              (closing'[d].step = "paying" /\ <<d, closing'[d].to>> \notin missed')
                  => Bal(closing[d].to)' = closing'[d].toBal
    BY <1>7, <1>8
  <2> HIDE DEF C
  <2> QED
    BY <2>1, SuccessorsReadStay DEF CInv
<1>11. Conserves'
  <2>1. SUFFICES ASSUME NothingLost' PROVE AllSurplus' = AllPaid'
    BY DEF Conserves
  <2>2. NothingLost /\ AllSurplus = AllPaid
    <3>1. stale \subseteq stale'
      BY <1>3
    <3> QED
      BY <1>3, <2>1, <3>1 DEF NothingLost, CInv, Conserves
  <2>3. CASE ~(r.step = "paid" /\ n > 0)
    <3>1. \A x \in Wallets : Bal(x)' = Bal(x)
      BY <1>2, <1>6, <2>3
    <3>2. \A x \in Wallets : Surplus(x)' = Surplus(x)
      BY <1>3, <3>1, SurplusKept
    <3>3. AllPaid' = AllPaid
      BY <1>7, <1>9, <2>3, AllPaidStays
    <3> QED
      BY <2>2, <3>2, <3>3, AllSurplusStays
  <2>4. CASE r.step = "paid" /\ n > 0
    <3>1. <<c, w>> \notin missed
      BY <1>3, <1>4, <2>1 DEF NothingLost
    <3>2. Bal(w) = n /\ Bal(w)' = 0
      BY <1>1, <1>2, <1>4, <1>6, <2>4, <3>1 DEF Tells
    <3>3. LedgerSum(ledger[w]) \in Int
      BY <1>4, LInvParts, LedgerSumType DEF BankTypeOK
    <3>4. /\ Surplus(w)' - Surplus(w) = -n
          /\ \A x \in Wallets \ {w} : Surplus(x)' = Surplus(x)
      BY <1>3, <1>5, <1>6, <3>2, <3>3 DEF Surplus
    <3>5. AllSurplus' = AllSurplus + (-n)
      <4>1. BankTypeOK /\ BankTypeOK'
        BY LInvParts DEF LInv, LifeTypeOK, TypeOK
      <4> QED
        BY <1>4, <3>4, <4>1, AllSurplusMoves
    <3>6. AllPaid = n + AllPaid'
      BY <1>1, <1>7, <1>9, <2>4, LInvParts, AllPaidTakes
    <3>7. AllPaid' \in Int
      <4>1. CallsOK'
        BY LInvParts DEF LInv, LifeTypeOK, CallsOK, Exists
      <4>2. AllPaid \in Int /\ AllSurplus \in Int
        BY LInvParts, AllPaidType, AllSurplusType
      <4> QED
        BY <4>1, AllPaidTypeNext
    <3>8. PICK p : p = AllPaid'
      OBVIOUS
    <3>9. p \in Int /\ AllSurplus' = (n + p) + (-n)
      BY <2>2, <3>5, <3>6, <3>7, <3>8
    <3>10. (n + p) + (-n) = p
      BY <1>5, <3>9
    <3> QED
      BY <3>8, <3>9, <3>10
  <2> QED
    BY <2>3, <2>4
<1> QED
  BY <1>10, <1>11 DEF CInv

\* The whole of a step.
LEMMA StepConserves ==
    ASSUME LInv, LInv', CInv, [LifeNext]_allVars
    PROVE  CInv'
<1>1. CASE LifeNext
  <2>0. Step /\ Notice
    BY <1>1 DEF LifeNext
  <2>1. ASSUME NEW s \in Sessions, CommitWallets(s)
        PROVE  CInv'
    BY <2>0, <2>1, CommitConserves
  <2>2. ASSUME closing' = closing, stale \subseteq stale', torn' = torn, ledger' = ledger,
               \A w \in Wallets : Bal(w)' = Bal(w)
        PROVE  CInv'
    BY <2>0, <2>2, SurplusKept, OthersConserve
  <2>3. ASSUME NEW s \in Sessions,
               \/ UserBeginPersonal(s)
               \/ \E a \in Apps : BeginApproval(s, a) /\ UNCHANGED lifeVars
               \/ Abort(s) /\ UNCHANGED lifeVars
        PROVE  CInv'
    <3>1. UNCHANGED <<db, ledger>> /\ UNCHANGED lifeVars
      BY <2>3 DEF UserBeginPersonal, UserBegin, BeginTransfer, BeginDeposit, BeginWithdraw,
                  BeginCancel, BeginApproval, Begin, Abort
    <3> QED
      BY <2>2, <3>1 DEF lifeVars, Bal
  <2>4. ASSUME NEW w \in Wallets, NEW st \in StatusUpdates, UpdateStatus(w, st)
        PROVE  CInv'
    <3>1. /\ closing' = closing /\ stale' = stale /\ torn' = torn /\ ledger' = ledger
          /\ SetStatus(w, st)
      BY <2>4 DEF UpdateStatus, UpdateWalletStatus, SetStatus
    <3>2. \A x \in Wallets : Bal(x)' = Bal(x)
      BY <3>1, LInvParts, SetStatusKeepsType
    <3> QED
      BY <2>2, <3>1, <3>2
  <2>5. ASSUME NEW a \in Apps, NEW u \in Users, NEW ty \in AccountTypes, NEW n \in Deposits,
               ApplyForAccount(a, u, ty, n)
        PROVE  CInv'
    <3>1. /\ UNCHANGED lifeVars /\ ledger' = ledger
          /\ \A w \in Wallets : db'[w] = db[w]
      BY <2>5, LInvParts, DocsDisjoint DEF ApplyForAccount, Apps, BankTypeOK, Docs
    <3> QED
      BY <2>2, <3>1 DEF lifeVars, Bal
  <2>6. ASSUME NEW h \in Refusers, NEW a \in Apps, NEW st \in {"rejected", "gone"},
               RefuseRead(h, a, st)
        PROVE  CInv'
    BY <2>2, <2>6 DEF RefuseRead, bankVars, Bal
  <2>7. ASSUME NEW h \in Refusers, RefuseWrite(h)
        PROVE  CInv'
    <3>1. refusing[h].app \in Apps
      <4>1. refusing[h].step = "read" /\ refusing[h] \in Refusing
        BY <2>7, LInvParts DEF RefuseWrite, CallsOK
      <4>2. refusing[h] \notin {Idle, Done}
        BY <4>1 DEF Idle, Done
      <4> QED
        BY <4>1, <4>2 DEF Refusing
    <3>2. /\ closing' = closing /\ stale \subseteq stale' /\ torn' = torn /\ ledger' = ledger
          /\ \A w \in Wallets : db'[w] = db[w]
      BY <2>7, <3>1, LInvParts, DocsDisjoint DEF RefuseWrite, Apps, BankTypeOK, Docs
    <3> QED
      BY <2>2, <3>2 DEF Bal
  <2>8. ASSUME NEW c \in Closers,
               \/ \E w \in Wallets : CloseRead(c, w)
               \/ CloseCount(c)
               \/ CloseAlone(c)
               \/ CloseLost(c)
        PROVE  CInv'
    BY <2>0, <2>8, OtherReadsConserve
  <2>9. ASSUME NEW c \in Closers, NEW x \in Wallets, CloseChoose(c, x)
        PROVE  CInv'
    BY <2>0, <2>9, ChooseConserves
  <2>10. ASSUME NEW c \in Closers, ClosePay(c)
         PROVE  CInv'
    BY <2>0, <2>10, PayConserves
  <2>11. ASSUME NEW c \in Closers, CloseSave(c)
         PROVE  CInv'
    BY <2>0, <2>11, SaveConserves
  <2> QED
    BY <2>0, <2>1, <2>3, <2>4, <2>5, <2>6, <2>7, <2>8, <2>9, <2>10, <2>11 DEF Step
<1>2. CASE UNCHANGED allVars
  <2>1. SuccessorsRead'
    BY <1>2 DEF CInv, SuccessorsRead, Bal, allVars
  <2>2. Conserves'
    <3>1. \A w \in Wallets : Surplus(w)' = Surplus(w)
      BY <1>2, SurplusKept DEF Bal, allVars
    <3>2. AllSurplus' = AllSurplus
      BY <3>1, AllSurplusStays
    <3>3. AllPaid' = AllPaid
      BY <1>2 DEF AllPaid, Paid, allVars
    <3> QED
      BY <1>2, <3>2, <3>3 DEF CInv, Conserves, NothingLost, allVars
  <2> QED
    BY <2>1, <2>2 DEF CInv
<1> QED
  BY <1>1, <1>2

\* At first no wallet has money, no ledger an entry, and no closing has paid.
LEMMA InitConserves == LifeInit => CInv
<1> SUFFICES ASSUME LifeInit
             PROVE  CInv
  OBVIOUS
<1>1. SuccessorsRead
  BY DEF LifeInit, SuccessorsRead, Idle
<1>2. ASSUME NEW w \in Wallets
      PROVE  Surplus(w) = 0
  <2>1. ledger[w] = <<>> /\ Bal(w) = 0
    BY AbsentAssumption DEF LifeInit, Init, BankInit, Bal, Docs
  <2>2. LedgerSum(<<>>) = 0
    <3>1. 1..Len(<<>>) = {}
      OBVIOUS
    <3> QED
      BY <3>1, TotalEmpty DEF LedgerSum
  <2> QED
    BY <2>1, <2>2 DEF Surplus
<1>3. AllSurplus = 0
  <2> DEFINE f == [w \in Wallets |-> Surplus(w)]
  <2>1. \A w \in Wallets : f[w] = 0
    BY <1>2
  <2> HIDE DEF f
  <2>2. Total(f, Wallets) = 0
    BY <2>1, FinitenessAssumption, TotalZero
  <2> QED
    BY <2>2 DEF AllSurplus, f
<1>4. Paid = {}
  BY DEF LifeInit, Paid, Idle
<1>5. AllPaid = 0
  BY <1>4, TotalEmpty DEF AllPaid
<1> QED
  BY <1>1, <1>3, <1>5 DEF CInv, Conserves

\* Closings neither make nor lose money: over all wallets, balances and ledgers
\* differ by what the closings under way have paid and not yet taken, unless a
\* save wrote over a movement it had not read or a closing died between its two
\* saves (closeWallet, which posts no ledger entry).
THEOREM ClosingsConserve == LifeSpec => []ClosingConserves
<1>1. LifeInit => CInv
  BY InitConserves
<1>2. LInv /\ LInv' /\ CInv /\ [LifeNext]_allVars => CInv'
  BY StepConserves
<1>3. LInv /\ CInv => ClosingConserves
  BY LInvParts, GapsAreSurplus, SeenArePaid
     DEF CInv, Conserves, NothingLost, ClosingConserves
<1> QED
  BY LifeInvariant, <1>1, <1>2, <1>3, PTL DEF LifeSpec
=============================================================================
