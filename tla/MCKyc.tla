------------------------------- MODULE MCKyc -------------------------------
(* Kyc for TLC: two documents of identity and two requests at a time.  A     *)
(* second document is there only while no status is cached or on its way to  *)
(* the cache.                                                                *)
EXTENDS Kyc, FiniteSets, TLC

CONSTANTS c1, c2, f1, f2, id

MCCalls == {c1, c2}
MCFiles == {f1, f2}
MCKinds == {id}
MCKind == [f \in MCFiles |-> id]

InUse == (stored \cup saved \cup edited \cup {named[k] : k \in Kinds}) \ {None}
NoCaching == cache = None /\ \A c \in Calls : call[c].step \notin {"missed", "filling"}

MCNext == Next /\ (Cardinality(InUse) <= 1 \/ NoCaching)'
MCSpec == Init /\ [][MCNext]_vars

Symmetry == Permutations(MCCalls) \cup Permutations(MCFiles)
=============================================================================
