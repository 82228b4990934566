------------------------- MODULE MCSecureTransfers --------------------------
(* SecureTransfers for TLC.  The runs start after a deposit of twelve       *)
(* dollars, which pay for a secure transfer of ten and its tax of two; the *)
(* recipient may have a wallet or not.  One more transaction, two sessions *)
(* and two code requests at a time.                                        *)
EXTENDS SecureTransfers, TLC

CONSTANTS u1, u2, w1, w2, t1, t2, v1, s1, s2, c1, c2

MCUsers == {u1, u2}
MCWallets == {w1, w2}
MCTxs == {t1, t2}
MCVerifs == {v1}
MCSessions == {s1, s2}
MCCallers == {c1, c2}
MCOwner == (w1 :> u1) @@ (w2 :> u2)

MCAmounts == {100000}
MCStatusUpdates == {}

AfterDeposit ==
    /\ \E open \in {{w1}, {w1, w2}} :
          db = [d \in Docs |->
                  IF d = w1 THEN [status |-> "active", bal |-> 120000]
                  ELSE IF d \in open THEN [status |-> "active", bal |-> 0]
                  ELSE IF d = t1 THEN [type |-> "deposit", status |-> "completed",
                                       wallet |-> w1, to |-> Absent,
                                       amount |-> 120000, fee |-> 0]
                  ELSE Absent]
    /\ ledger = [w \in Wallets |->
                  IF w = w1 THEN <<[tx |-> t1, side |-> "credit", amount |-> 120000,
                                    bal |-> 120000]>>
                  ELSE <<>>]
    /\ op = [s \in Sessions |-> Absent]
    /\ doomed = {}
    /\ asking = [c \in Callers |-> Absent]
    /\ late = {} /\ stale = {} /\ known = {} /\ gone = {}

MCSpec == AfterDeposit /\ [][SecureNext]_allVars

\* A doomed session can only abort: of what it buffered, only the identities it
\* took still matter.
BufferSeen == [s \in Sessions |->
                 IF s \in doomed THEN DOMAIN op[s].writes ELSE op[s]]
View == <<db, ledger, BufferSeen, doomed, asking, late, stale, known, gone>>

Symmetry == Permutations(MCSessions)
                \cup Permutations(MCCallers)
=============================================================================
