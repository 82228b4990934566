---------------------------- MODULE BankSessions ----------------------------
(***************************************************************************)
(* How the operations of Bank run: each in a MongoDB transaction on a      *)
(* session of its own, many at a time, in every Node process of the        *)
(* backend.                                                                *)
(*                                                                         *)
(* A transaction reads from the snapshot taken when it starts and buffers  *)
(* its writes.  What it will write is therefore known from the snapshot:   *)
(* op[s] holds it from Begin on.  The code assigns absolute balances       *)
(* (balances.set(currency, current + n)), so the buffered rows hide what   *)
(* others commit in the meantime; only the write conflict of the database  *)
(* keeps such a session from committing.  WiredTiger raises it at the      *)
(* write; here the session is marked "doomed" at the conflicting commit    *)
(* and may only abort, which permits the same committed states.  Nothing   *)
(* in the code retries an aborted transaction.                             *)
(***************************************************************************)
EXTENDS Bank

CONSTANTS Sessions   \* client sessions

VARIABLES
    op,      \* op[s]: what session s will write, or Absent when s is idle
    doomed   \* open sessions that can only abort: in a write conflict, or failed

sessionVars == <<op, doomed>>

\* What a session writes: the rows of some documents, and one entry for each of
\* some wallets.
Operation == [writes : UNION {[D -> Wallet \cup Tx \cup OtherRows] : D \in SUBSET Docs},
              posts : UNION {[D -> Entry] : D \in SUBSET Wallets}]

ASSUME OperationAssumption == Absent \notin Operation
vars == <<db, ledger, op, doomed>>

Open == {s \in Sessions : op[s] # Absent}

\* Identities generated for new documents do not collide: a session picks one
\* no document has and no open session picked.
Fresh(d) == /\ db[d] = Absent
            /\ \A s \in Open : d \notin DOMAIN op[s].writes

\* Wallets.findOne({user: u, status: "active"}); the user may have several.
ActiveWallets(u) == {w \in Wallets : Owner[w] = u /\ Active(w)}

\* The wallet money for u goes to: an active one, or a new one if u has none.
ReceivingWallets(u) ==
    IF ActiveWallets(u) # {} THEN ActiveWallets(u)
    ELSE {w \in Wallets : Owner[w] = u /\ Fresh(w)}

Begin(s, o) ==
    /\ op[s] = Absent
    /\ op' = [op EXCEPT ![s] = o]
    /\ UNCHANGED <<db, ledger, doomed>>

BeginTransfer(s, u, v, a) ==
    /\ u # v
    /\ \E w \in ActiveWallets(u), x \in ReceivingWallets(v), t \in Txs :
          /\ Fresh(t)
          /\ CanTransfer(w, x, a, t)
          /\ Begin(s, TransferOp(w, x, a, t))

BeginDeposit(s, u, a) ==
    \E w \in ReceivingWallets(u), t \in Txs :
        /\ Fresh(t)
        /\ CanDeposit(w, t)
        /\ Begin(s, DepositOp(w, a, t))

BeginWithdraw(s, u, a) ==
    \E w \in ActiveWallets(u), t \in Txs :
        /\ Fresh(t)
        /\ CanWithdraw(w, a, t)
        /\ Begin(s, WithdrawOp(w, a, t))

\* findOne({_id, initiatedBy: u, status: "pending"}): the initiator of a
\* transaction is the owner of its wallet.
BeginCancel(s, u) ==
    \E t \in Txs :
        /\ CanCancel(t)
        /\ Owner[db[t].wallet] = u
        /\ Begin(s, CancelOp(t))

\* The open sessions that write a document of D.
Writers(D) == {s \in Open : DOMAIN op[s].writes \cap D # {}}

\* A commit that the database lets through although another session changed
\* one of the documents since the snapshot.
CommitUnchecked(s) ==
    /\ op[s] # Absent
    /\ Apply(op[s])
    /\ op' = [op EXCEPT ![s] = Absent]
    /\ doomed' = (doomed \cup Writers(DOMAIN op[s].writes)) \ {s}

\* A commit after which the committed session is still marked.
CommitKeepsMark(s) ==
    /\ op[s] # Absent
    /\ s \notin doomed
    /\ Apply(op[s])
    /\ op' = [op EXCEPT ![s] = Absent]
    /\ doomed' = doomed \cup Writers(DOMAIN op[s].writes)

\* session.commitTransaction().
Commit(s) ==
    /\ op[s] # Absent
    /\ s \notin doomed
    /\ Apply(op[s])
    /\ op' = [op EXCEPT ![s] = Absent]
    /\ doomed' = (doomed \cup Writers(DOMAIN op[s].writes)) \ {s}

\* session.abortTransaction() in the catch, or the death of the process: a
\* write conflict, a validation error, Kafka refusing the event published
\* before the wallet is saved, a lost connection.
Abort(s) ==
    /\ op[s] # Absent
    /\ op' = [op EXCEPT ![s] = Absent]
    /\ doomed' = doomed \ {s}
    /\ UNCHANGED <<db, ledger>>

\* A status update that open transactions do not notice.
UpdateWalletStatusUnseen(w, st) ==
    /\ SetStatus(w, st)
    /\ UNCHANGED sessionVars

\* An administrator's findByIdAndUpdate, outside any transaction.
UpdateWalletStatus(w, st) ==
    /\ SetStatus(w, st)
    /\ doomed' = doomed \cup Writers({w})
    /\ UNCHANGED op

Init ==
    /\ BankInit
    /\ op = [s \in Sessions |-> Absent]
    /\ doomed = {}

\* A request of a user reaches a handler.
UserBegin(s) ==
    \/ \E u, v \in Users, a \in Amounts : BeginTransfer(s, u, v, a)
    \/ \E u \in Users, a \in Amounts : BeginDeposit(s, u, a)
    \/ \E u \in Users, a \in Amounts : BeginWithdraw(s, u, a)
    \/ \E u \in Users : BeginCancel(s, u)

Next ==
    \/ \E s \in Sessions : UserBegin(s) \/ Commit(s) \/ Abort(s)
    \/ \E w \in Wallets, st \in StatusUpdates : UpdateWalletStatus(w, st)

Spec == Init /\ [][Next]_vars

----------------------------------------------------------------------------
\* What an operation may write: to each document a row of its collection, and
\* ledger entries of wallets it also updates.
IsOp(o) ==
    /\ DOMAIN o.writes \subseteq Docs
    /\ \A d \in DOMAIN o.writes : /\ d \in Wallets => o.writes[d] \in Wallet
                                  /\ d \in Txs => o.writes[d] \in Tx
                                  /\ d \in OtherDocs => o.writes[d] \in OtherRows
    /\ DOMAIN o.posts \subseteq Wallets \cap DOMAIN o.writes
    /\ \A w \in DOMAIN o.posts : o.posts[w] \in Entry

\* Documents, ledgers and buffered writes keep their form, and only an open
\* session is in conflict: one that ended starts its next transaction clean.
TypeOK ==
    /\ BankTypeOK
    /\ DOMAIN op = Sessions
    /\ \A s \in Open : IsOp(op[s])
    /\ doomed \subseteq Open

\* A session that can still commit holds an operation that is possible now: no
\* commit since its snapshot has changed what its checks and its new balances
\* were computed from.
OpenOpsStillPossible == \A s \in Open \ doomed : Possible(op[s])
=============================================================================
