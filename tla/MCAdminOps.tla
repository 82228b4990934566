----------------------------- MODULE MCAdminOps -----------------------------
(* AdminOps for TLC: two users with a wallet each, two sessions, one       *)
(* rejection at a time.                                                    *)
EXTENDS AdminOps, TLC

CONSTANTS u1, u2, w1, w2, t1, t2, t3, s1, s2, c1

MCUsers == {u1, u2}
MCWallets == {w1, w2}
MCTxs == {t1, t2, t3}
MCSessions == {s1, s2}
MCCallers == {c1}
MCOwner == (w1 :> u1) @@ (w2 :> u2)
MCAmounts == {20000}
MCStatusUpdates == {"active"}
MCNewStatus == {"failed"}
NoRows == {}

\* The runs start after a deposit of six dollars.
AfterDeposit ==
    /\ db = [d \in Docs |->
               IF d = w1 THEN [status |-> "active", bal |-> 60000]
               ELSE IF d = w2 THEN [status |-> "active", bal |-> 0]
               ELSE IF d = t1 THEN TxRow("deposit", "completed", w1, Absent, 60000, 0)
               ELSE Absent]
    /\ ledger = [w \in Wallets |->
                   IF w = w1 THEN <<[tx |-> t1, side |-> "credit", amount |-> 60000,
                                     bal |-> 60000]>>
                   ELSE <<>>]
    /\ op = [s \in Sessions |-> Absent]
    /\ doomed = {}
    /\ action = [s \in Sessions |-> Absent]
    /\ audit = {}
    /\ rejecting = [c \in Callers |-> Absent]

MCSpec == AfterDeposit /\ [][AdminNext]_allVars

\* A session in a write conflict can only abort: of what it buffered, only the
\* identities it took still matter.
BufferSeen == [s \in Sessions |->
                 IF s \in doomed THEN DOMAIN op[s].writes ELSE op[s]]
View == <<db, ledger, BufferSeen, doomed, action, audit, rejecting>>

Symmetry == Permutations({t2, t3}) \cup Permutations(MCSessions)
=============================================================================
