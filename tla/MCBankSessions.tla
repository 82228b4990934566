--------------------------- MODULE MCBankSessions ---------------------------
(* BankSessions for TLC: two users, one wallet each or two for the first,  *)
(* three transactions, two sessions at a time.                             *)
EXTENDS BankSessions, TLC

CONSTANTS u1, u2, w1, w2, w3, t1, t2, t3, s1, s2

MCUsers == {u1, u2}
MCWallets == {w1, w2, w3}
MCTxs == {t1, t2, t3}
MCSessions == {s1, s2}
MCOwner == (w1 :> u1) @@ (w2 :> u2) @@ (w3 :> u2)

\* One dollar and a half: enough for a withdrawal of half a dollar and its
\* fee, and for a transfer whose fee is not covered.
MCAmounts == {5000, 15000}
MCStatusUpdates == {"active", "frozen"}
NoRows == {}

Symmetry == Permutations(MCTxs) \cup Permutations(MCSessions)
=============================================================================
