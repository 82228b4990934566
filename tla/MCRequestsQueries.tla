------------------------- MODULE MCRequestsQueries --------------------------
(* Requests and QueryCache for TLC.  They share no state, so a behaviour     *)
(* moves one of them.  Two processes and four requests, three of which share *)
(* a key; three calls of cacheQuery.                                         *)
EXTENDS Requests, QueryCache

CONSTANTS r1, r2, r3, r4, k1, p1, p2, c1, c2, c3

MCRequestSet == {r1, r2, r3, r4}
MCKeys == {k1}
MCProcesses == {p1, p2}
MCKey == [r \in MCRequestSet |-> IF r = r4 THEN NoKey ELSE k1]
MCCalls == {c1, c2, c3}

VARIABLE about

RequestsQueriesInit ==
    /\ about \in {"requests", "queries"}
    /\ RequestsInit
    /\ about = "queries" => at = [r \in Requests |-> p1]
    /\ QueryInit

RequestsQueriesNext ==
    /\ \/ about = "requests" /\ RequestsNext /\ UNCHANGED queryVars
       \/ about = "queries" /\ QueryNext /\ UNCHANGED requestVars
    /\ UNCHANGED about

RequestsQueriesSpec ==
    /\ RequestsQueriesInit
    /\ [][RequestsQueriesNext]_<<about, requestVars, queryVars>>
    /\ QueryFairness
=============================================================================
