------------------------- MODULE MCWalletLifecycle --------------------------
(* WalletLifecycle for TLC: one user with two wallets, each with a deposit *)
(* of two dollars, the first primary and active or frozen, or not primary, *)
(* who may get a savings account; two sessions, two closings, one refusal. *)
EXTENDS WalletLifecycle, TLC

CONSTANTS u1, w1, w2, w3, w4, t1, t2, t3, a1, s1, s2, c1, c2, h1

MCUsers == {u1}
MCWallets == {w1, w2, w3, w4}
MCTxs == {t1, t2, t3}
MCApps == {a1}
MCSessions == {s1, s2}
MCClosers == {c1, c2}
MCRefusers == {h1}
MCOwner == [w \in MCWallets |-> u1]
MCType == [w \in MCWallets |-> IF w \in {w3, w4} THEN "savings" ELSE "personal"]
MCAccountTypes == {"savings"}
MCAmounts == {10000}
MCStatusUpdates == {"active"}

Deposited(w) == [type |-> "deposit", status |-> "completed", wallet |-> w, to |-> Absent,
                 amount |-> 20000, fee |-> 0]
Credit(t) == [tx |-> t, side |-> "credit", amount |-> 20000, bal |-> 20000]

AfterDeposits ==
    /\ \E st \in {"active", "frozen"} :
          db = [d \in Docs |->
                  CASE d = w1 -> [status |-> st, bal |-> 20000]
                    [] d = w2 -> [status |-> "active", bal |-> 20000]
                    [] d = t1 -> Deposited(w1)
                    [] d = t2 -> Deposited(w2)
                    [] OTHER -> Absent]
    /\ primary = {w1} \/ (primary = {} /\ Active(w1))
    /\ ledger = [w \in Wallets |->
                   CASE w = w1 -> <<Credit(t1)>>
                     [] w = w2 -> <<Credit(t2)>>
                     [] OTHER -> <<>>]
    /\ op = [s \in Sessions |-> Absent]
    /\ doomed = {}
    /\ deleted = {}
    /\ closing = [c \in Closers |-> Idle]
    /\ refusing = [h \in Refusers |-> Idle]
    /\ missed = {} /\ stale = {} /\ torn = {} /\ stranded = {} /\ reopened = {}

MCSpec == AfterDeposits /\ [][LifeNext]_allVars

\* A session in a write conflict can only abort: of what it buffered, only the
\* identities it took still matter.
BufferSeen == [s \in Sessions |->
                 IF s \in doomed \cap Open THEN DOMAIN op[s].writes ELSE op[s]]
View == <<db, ledger, BufferSeen, doomed, primary, deleted, closing, refusing,
          missed, stale, torn, stranded, reopened>>

Symmetry == Permutations({w3, w4}) \cup Permutations(MCSessions)
                \cup Permutations(MCClosers)
=============================================================================
