-------------------------- MODULE WalletLifecycle --------------------------
(***************************************************************************)
(* How wallets are opened and closed beside the operations of              *)
(* BankSessions: closeWallet of modules/accounts/wallet.service.ts, and    *)
(* the applications for accounts (account-applications.service.ts), which  *)
(* an administrator approves or rejects (admin/ops-wallet.service.ts).     *)
(*                                                                         *)
(* Approving runs in a database transaction.  Closing, cancelling and      *)
(* rejecting do not: they read documents one by one and save them one by   *)
(* one.  A save writes what was computed from the copy that was read;      *)
(* "missed" records which copies the document has left behind, and "stale" *)
(* which documents were saved from such a copy.  A closing                 *)
(* moves money without a ledger entry, so a wallet has a gap between its   *)
(* balance and the sum of its ledger; over all wallets the gaps add up to  *)
(* the money that was made or lost.                                        *)
(*                                                                         *)
(* Left out: confirmAccountDeletion of users-profile.service.ts, which     *)
(* sets the status of all wallets of a user to "closed" with one update.   *)
(***************************************************************************)
EXTENDS BankSessions, FiniteSetsExt

CONSTANTS
    Closers,      \* calls of closeWallet
    Refusers,     \* calls of cancelApplication and rejectApplication
    Deposits,     \* initial deposits applied for
    Type,         \* Type[w]: the walletType of wallet w
    AccountTypes  \* savings, current, fixed_deposit

VARIABLES
    primary,   \* wallets whose isPrimary is true
    deleted,   \* wallets whose isDeleted is true
    closing,   \* closing[c]: how far call c is and what it has read
    refusing,  \* refusing[h]: how far call h is and what it has read
    missed,    \* history: <<c, w>> such that w changed since call c read it
    stale,     \* history: documents saved over a change that was not read
    torn,      \* history: wallets whose closing died between its two saves
    stranded,  \* history: wallets closed without a successor
    reopened   \* history: closed wallets whose status was set again

lifeVars == <<primary, deleted, closing, refusing, stale, torn, stranded, reopened>>
allVars == <<db, ledger, op, doomed, primary, deleted, closing, refusing,
             missed, stale, torn, stranded, reopened>>

\* An AccountApplications document.  "gone" stands for a deleted document.
Apps == OtherDocs
Application == [user : Users, type : AccountTypes, deposit : Deposits,
                status : {"pending", "approved", "rejected", "gone"}]

ASSUME ApplicationRows == OtherRows = Application /\ Absent \notin Application
ASSUME DepositAssumption == Deposits \subseteq Int
ASSUME FinitenessAssumption == IsFiniteSet(Wallets) /\ IsFiniteSet(Closers)

Is(a, st) == db[a] # Absent /\ db[a].status = st
WithStatus(a, st) == [db[a] EXCEPT !.status = st]

----------------------------------------------------------------------------
(***************************************************************************)
(* Applications.                                                           *)
(***************************************************************************)

\* applyForAccount.
ApplyForAccount(a, u, ty, n) ==
    /\ db[a] = Absent
    /\ db' = [db EXCEPT ![a] = [user |-> u, type |-> ty, deposit |-> n,
                                status |-> "pending"]]
    /\ UNCHANGED <<ledger, sessionVars, lifeVars>>

\* Wallets.findOne({user, walletType, status: {$ne: 'closed'}}).
HasAccount(u, ty) ==
    \E w \in Wallets : /\ Owner[w] = u /\ Type[w] = ty
                       /\ db[w] # Absent /\ db[w].status # "closed"

\* The approval with no other wallet to open than w.
OpenOp(a, w) ==
    [writes |-> [d \in {a, w} |-> IF d = a THEN WithStatus(a, "approved") ELSE Moved(w, 0)],
     posts |-> <<>>]

\* The approval that pays the initial deposit from wallet p.  The entries name
\* the application as their transaction.
OpenAndPayOp(a, w, p) ==
    LET n == db[a].deposit
    IN  [writes |-> [d \in {a, w, p} |->
                        IF d = a THEN WithStatus(a, "approved")
                        ELSE IF d = p THEN Moved(p, -n)
                        ELSE Moved(w, n)],
         posts |-> [y \in {w, p} |-> IF y = p THEN Posting(p, a, "debit", n)
                                              ELSE Posting(w, a, "credit", n)]]

\* The approval that finds an account of that type.
ApproveOnlyOp(a) ==
    [writes |-> [d \in {a} |-> WithStatus(a, "approved")], posts |-> <<>>]

\* findOne({user, isPrimary: true, status: 'active'}); there may be several.
PayingWallets(u) == primary \cap ActiveWallets(u)

\* approveApplication: the operation session s buffers.
BeginApproval(s, a) ==
    /\ Is(a, "pending")
    /\ LET u == db[a].user
           ty == db[a].type
           n == db[a].deposit
       IN  IF HasAccount(u, ty)
           THEN Begin(s, ApproveOnlyOp(a))
           ELSE \E w \in Wallets :
                   /\ Owner[w] = u /\ Type[w] = ty /\ Fresh(w)
                   /\ \/ /\ \/ n <= 0
                            \/ PayingWallets(u) = {}
                            \/ \E p \in PayingWallets(u) : Bal(p) < n
                         /\ Begin(s, OpenOp(a, w))
                      \/ \E p \in PayingWallets(u) :
                            /\ n > 0 /\ Bal(p) >= n
                            /\ Begin(s, OpenAndPayOp(a, w, p))

\* A call before its first read, after its last save, and what it keeps from its
\* reads in between.
Idle == [step |-> "idle"]
Done == [step |-> "done"]
Refusing == {Idle, Done} \cup [step : {"read"}, app : Apps, as : {"rejected", "gone"}]
Closing ==
    {Idle, Done}
    \cup [step : {"counting", "choosing", "closing"}, wallet : Wallets, seen : Wallet]
    \cup [step : {"paying", "paid"}, wallet : Wallets, seen : Wallet,
          to : Wallets, toBal : Int]

\* cancelApplication and rejectApplication read a pending application ...
RefuseRead(h, a, st) ==
    /\ refusing[h] = Idle
    /\ Is(a, "pending")
    /\ refusing' = [refusing EXCEPT ![h] = [step |-> "read", app |-> a, as |-> st]]
    /\ UNCHANGED <<bankVars, sessionVars,
                   primary, deleted, closing, stale, torn, stranded, reopened>>

\* ... and delete or save it, whatever it has become.  To save a document that
\* is gone fails.
RefuseWrite(h) ==
    LET a == refusing[h].app
    IN  /\ refusing[h].step = "read"
        /\ db' = IF Is(a, "gone") THEN db ELSE [db EXCEPT ![a].status = refusing[h].as]
        /\ stale' = IF Is(a, "approved") THEN stale \cup {a} ELSE stale
        /\ doomed' = doomed \cup Writers({a})
        /\ refusing' = [refusing EXCEPT ![h] = Done]
        /\ UNCHANGED <<ledger, op, primary, deleted, closing, torn, stranded, reopened>>

----------------------------------------------------------------------------
(***************************************************************************)
(* Closing a wallet.                                                       *)
(***************************************************************************)
Put(c, record) == closing' = [closing EXCEPT ![c] = record]

\* The wallet is read; it must not be primary.
CloseRead(c, w) ==
    /\ closing[c] = Idle
    /\ db[w] # Absent
    /\ w \notin primary \cup deleted
    /\ Put(c, [step |-> "counting", wallet |-> w, seen |-> db[w]])
    /\ UNCHANGED <<bankVars, sessionVars,
                   primary, deleted, refusing, stale, torn, stranded, reopened>>

\* A closing that does not count them.
CloseCountSkipped(c) ==
    /\ closing[c].step = "counting"
    /\ Put(c, [closing[c] EXCEPT !.step = "choosing"])
    /\ UNCHANGED <<bankVars, sessionVars,
                   primary, deleted, refusing, stale, torn, stranded, reopened>>

\* Its pending transactions are counted; with one, the closing is refused.
CloseCount(c) ==
    LET w == closing[c].wallet
    IN  /\ closing[c].step = "counting"
        /\ Put(c, IF \E t \in Txs : Is(t, "pending") /\ db[t].wallet = w
                  THEN Done
                  ELSE [closing[c] EXCEPT !.step = "choosing"])
        /\ UNCHANGED <<bankVars, sessionVars,
                       primary, deleted, refusing, stale, torn, stranded, reopened>>

\* The wallets that can take the money: another primary one, or else another
\* active one.
Successors(w) ==
    LET others == {x \in Wallets \ (deleted \cup {w}) : Owner[x] = Owner[w] /\ db[x] # Absent}
    IN  IF others \cap primary # {} THEN others \cap primary ELSE {x \in others : Active(x)}

\* The successor is read.
CloseChoose(c, x) ==
    /\ closing[c].step = "choosing"
    /\ x \in Successors(closing[c].wallet)
    /\ Put(c, [step |-> "paying", wallet |-> closing[c].wallet,
               seen |-> closing[c].seen, to |-> x, toBal |-> Bal(x)])
    /\ UNCHANGED <<bankVars, sessionVars,
                   primary, deleted, refusing, stale, torn, stranded, reopened>>

\* No successor: the money stays.
CloseAlone(c) ==
    /\ closing[c].step = "choosing"
    /\ Successors(closing[c].wallet) = {}
    /\ Put(c, [closing[c] EXCEPT !.step = "closing"])
    /\ stranded' = stranded \cup {closing[c].wallet}
    /\ UNCHANGED <<bankVars, sessionVars,
                   primary, deleted, refusing, stale, torn, reopened>>

\* A successor saved without its transactions in progress noticing.
ClosePayUnseen(c) ==
    LET r == closing[c]
    IN  /\ r.step = "paying"
        /\ db' = IF r.seen.bal > 0
                 THEN [db EXCEPT ![r.to].bal = r.toBal + r.seen.bal] ELSE db
        /\ stale' = IF <<c, r.to>> \in missed THEN stale \cup {r.to} ELSE stale
        /\ Put(c, [r EXCEPT !.step = "paid"])
        /\ UNCHANGED <<ledger, op, doomed, primary, deleted, refusing, torn, stranded, reopened>>

\* successor.save(): its balance as read, and the balance of the wallet as read.
ClosePay(c) ==
    LET r == closing[c]
    IN  /\ r.step = "paying"
        /\ IF r.seen.bal > 0
           THEN /\ db' = [db EXCEPT ![r.to].bal = r.toBal + r.seen.bal]
                /\ stale' = IF <<c, r.to>> \in missed THEN stale \cup {r.to} ELSE stale
           ELSE UNCHANGED <<db, stale>>
        /\ doomed' = doomed \cup Writers({r.to})
        /\ Put(c, [r EXCEPT !.step = "paid"])
        /\ UNCHANGED <<ledger, op, primary, deleted, refusing, torn, stranded, reopened>>

\* A wallet that is closed with the balance it had.
CloseSaveFull(c) ==
    LET r == closing[c]
        w == r.wallet
    IN  /\ r.step \in {"paid", "closing"}
        /\ db' = [db EXCEPT ![w].status = IF r.seen.status = "closed" THEN @ ELSE "closed"]
        /\ deleted' = deleted \cup {w}
        /\ stale' = IF <<c, w>> \in missed THEN stale \cup {w} ELSE stale
        /\ doomed' = doomed \cup Writers({w})
        /\ Put(c, Done)
        /\ UNCHANGED <<ledger, op, primary, refusing, torn, stranded, reopened>>

\* wallet.save(): closed and deleted, and empty if the money was moved.  A status
\* that was closed already is no change to save.
CloseSave(c) ==
    LET r == closing[c]
        w == r.wallet
    IN  /\ r.step \in {"paid", "closing"}
        /\ db' = [db EXCEPT
               ![w].status = IF r.seen.status = "closed" THEN @ ELSE "closed",
               ![w].bal = IF r.step = "paid" /\ r.seen.bal > 0 THEN 0 ELSE @]
        /\ deleted' = deleted \cup {w}
        /\ stale' = IF <<c, w>> \in missed THEN stale \cup {w} ELSE stale
        /\ doomed' = doomed \cup Writers({w})
        /\ Put(c, Done)
        /\ UNCHANGED <<ledger, op, primary, refusing, torn, stranded, reopened>>

\* The handler fails or dies between two of its steps.
CloseLost(c) ==
    /\ closing[c] \notin {Idle, Done}
    /\ torn' = IF closing[c].step = "paid" THEN torn \cup {closing[c].wallet} ELSE torn
    /\ Put(c, Done)
    /\ UNCHANGED <<bankVars, sessionVars,
                   primary, deleted, refusing, stale, stranded, reopened>>

----------------------------------------------------------------------------
\* The status of any wallet is set by an administrator, closed ones included.
UpdateStatus(w, st) ==
    /\ UpdateWalletStatus(w, st)
    /\ reopened' = reopened \cup ({w} \cap deleted)
    /\ UNCHANGED <<primary, deleted, closing, refusing, stale, torn, stranded>>

\* Wallets the commit of o creates.
Created(o) == {w \in DOMAIN o.writes \cap Wallets : db[w] = Absent}

\* A deposit creates its wallet with isPrimary true, a transfer and an approval
\* with isPrimary false.
CommitWallets(s) ==
    /\ Commit(s)
    /\ primary' = primary \cup
          {w \in Created(op[s]) : \E t \in DOMAIN op[s].writes \cap Txs :
                                     op[s].writes[t].type = "deposit"}
    /\ UNCHANGED <<deleted, closing, refusing, stale, torn, stranded, reopened>>

\* The operations of a user create wallets of the default type only.
UserBeginPersonal(s) ==
    /\ UserBegin(s)
    /\ \A w \in Created(op'[s]) : Type[w] \notin AccountTypes
    /\ UNCHANGED lifeVars

Step ==
    \/ \E s \in Sessions :
          \/ UserBeginPersonal(s)
          \/ \E a \in Apps : BeginApproval(s, a) /\ UNCHANGED lifeVars
          \/ CommitWallets(s)
          \/ Abort(s) /\ UNCHANGED lifeVars
    \/ \E w \in Wallets, st \in StatusUpdates : UpdateStatus(w, st)
    \/ \E a \in Apps, u \in Users, ty \in AccountTypes, n \in Deposits :
          ApplyForAccount(a, u, ty, n)
    \/ \E h \in Refusers :
          \/ \E a \in Apps, st \in {"rejected", "gone"} : RefuseRead(h, a, st)
          \/ RefuseWrite(h)
    \/ \E c \in Closers :
          \/ \E w \in Wallets : CloseRead(c, w)
          \/ CloseCount(c)
          \/ \E x \in Wallets : CloseChoose(c, x)
          \/ CloseAlone(c)
          \/ ClosePay(c)
          \/ CloseSave(c)
          \/ CloseLost(c)

\* The wallets a call that keeps r holds a copy of.
Copied(r) ==
    CASE r \in {Idle, Done} -> {}
      [] r.step \in {"paying", "paid"} -> {r.wallet, r.to}
      [] OTHER -> {r.wallet}

\* The history beside a step: copies that are still held and whose wallet the
\* step, or one before it, has changed.
Notice ==
    missed' = {m \in Closers \X Wallets :
                 /\ m[2] \in Copied(closing[m[1]]) \cap Copied(closing'[m[1]])
                 /\ m \in missed \/ db'[m[2]] # db[m[2]]}

LifeNext == Step /\ Notice

\* Some of the wallets that exist are primary.
LifeInit ==
    /\ Init
    /\ primary \in SUBSET {w \in Wallets : db[w] # Absent}
    /\ closing = [c \in Closers |-> Idle]
    /\ refusing = [h \in Refusers |-> Idle]
    /\ deleted = {}
    /\ missed = {} /\ stale = {} /\ torn = {} /\ stranded = {} /\ reopened = {}

LifeSpec == LifeInit /\ [][LifeNext]_allVars

----------------------------------------------------------------------------
LifeTypeOK ==
    /\ TypeOK
    /\ closing \in [Closers -> Closing]
    /\ refusing \in [Refusers -> Refusing]
    /\ \A h \in Refusers : refusing[h] \notin {Idle, Done} =>
                               db[refusing[h].app] # Absent
    /\ primary \cup deleted \cup torn \cup stranded \cup reopened \subseteq Wallets
    /\ stale \subseteq Docs
    /\ \A m \in missed : m \in Closers \X Wallets /\ m[2] \in Copied(closing[m[1]])

\* What the ledger of w does not explain of its balance.
Gap(w) ==
    LET amount(i) == Signed(ledger[w][i])
    IN  Bal(w) - MapThenSumSet(amount, 1..Len(ledger[w]))

\* Closings that have paid the successor and not yet emptied their wallet.
Paid == {c \in Closers : closing[c].step = "paid" /\ closing[c].seen.bal > 0}

\* closeWallet neither makes nor loses money: over all wallets, balances and
\* ledgers differ by what the closings under way have paid and not yet taken,
\* unless a save wrote over a movement it had not read or a closing died
\* between its two saves.
ClosingConserves ==
    (stale \cap Wallets = {} /\ torn = {}) =>
        MapThenSumSet(Gap, Wallets)
            = MapThenSumSet(LAMBDA c : closing[c].seen.bal, Paid)

\* "Transfers remaining balance": a wallet closed by its user holds no money,
\* then and later, unless it changed while it was closed, the user had no other
\* wallet, or an administrator opened it again.  A late refund, deposit or second
\* closing would leave some.  This is about closeWallet.  A user who deletes the
\* account closes all wallets at once, whatever they hold, and without isDeleted
\* (confirmAccountDeletion, users-profile.service.ts:398), which is not in "deleted".
ClosedIsEmpty ==
    \A w \in deleted \ (stale \cup stranded \cup reopened) :
        db[w].status = "closed" /\ Bal(w) <= 0

\* The ledger entries of one side that name application a.
Payments(a, side) == UNION {{w} \X Entries(w, a, side) : w \in Wallets}

\* An application is paid for at most once, debit and credit together, and not
\* at all when it was cancelled or rejected, unless that refusal had read it
\* before it was approved, however many administrators approve it at once.
PaidOncePerApplication ==
    \A a \in Apps :
        /\ Cardinality(Payments(a, "debit")) <= 1
        /\ Cardinality(Payments(a, "credit")) = Cardinality(Payments(a, "debit"))
        /\ Payments(a, "debit") # {} => Is(a, "approved") \/ a \in stale

\* An approval that can still commit is of an application that is pending now,
\* and the wallet it pays from is active and has the money now: no refusal,
\* closing or movement has come between.
ApprovalsStillPossible ==
    \A s \in Open \ doomed, a \in Apps :
        a \in DOMAIN op[s].writes =>
            /\ Is(a, "pending")
            /\ \A p \in DOMAIN op[s].posts :
                  op[s].posts[p].side = "debit" =>
                      /\ Active(p)
                      /\ Bal(p) >= db[a].deposit
                      /\ op[s].writes[p] = Moved(p, -db[a].deposit)

=============================================================================
