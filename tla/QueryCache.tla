----------------------------- MODULE QueryCache -----------------------------
(***************************************************************************)
(* The query cache of services/query-cache.service.ts, which keeps the     *)
(* dashboard and the platform statistics in Redis: cacheQuery, for one key *)
(* in one process, and the invalidations that follow writes anywhere.      *)
(*                                                                         *)
(* Calls that miss the cache share one database query, the leader's,       *)
(* through the map inFlightQueries.  The entry of the map is deleted by    *)
(* key, so an error of any call, or the end of a query whose entry is gone *)
(* already, deletes the entry of a query that still runs.  Nothing is      *)
(* shared after an error: each call that hears of it, the followers of a   *)
(* query that failed too, queries the database itself.                     *)
(***************************************************************************)
EXTENDS Naturals, Sequences, FiniteSets

CONSTANTS
    Calls,      \* calls of cacheQuery at the same time
    None,       \* nothing in the cache, the map or a variable
    MaxWrites,  \* bound: writes to the data
    MaxStrays,  \* bound: entries deleted while their query runs
    MaxStores   \* bound: SETEX commands on their way

ASSUME CallsAssumption == IsFiniteSet(Calls)
ASSUME NoneAssumption == None \notin Calls /\ None \notin Nat

VARIABLES
    pc,        \* pc[c]: what call c waits for
    leader,    \* leader[c]: the call whose query c shares, or None
    read,      \* read[c]: the version the query of c has read, or None
    inFlight,  \* the call whose query is in inFlightQueries, or None
    cached,    \* the version of the copy in Redis, or None
    storing,   \* versions in the SETEX commands on their way, oldest first
    version,   \* the version of the data in the database
    dels,      \* invalidations that have not reached Redis yet
    strays,    \* history: entries deleted by a call whose query they were not
    trouble    \* history: since the process was last at rest, a call has met
               \* an error or has had no client

queryVars ==
    <<pc, leader, read, inFlight, cached, storing, version, dels, strays, trouble>>

Goto(C, p) == pc' = [c \in Calls |-> IF c \in C THEN p ELSE pc[c]]

QueryInit ==
    /\ pc = [c \in Calls |-> "idle"]
    /\ leader = [c \in Calls |-> None]
    /\ read = [c \in Calls |-> None]
    /\ inFlight = None
    /\ cached = None
    /\ storing = <<>>
    /\ version = 0
    /\ dels = 0
    /\ strays = 0
    /\ trouble = FALSE

\* A call reaches redis.get(cacheKey).
Ask(c) ==
    /\ pc[c] = "idle"
    /\ Goto({c}, "asking")
    /\ trouble' = (trouble /\ \E d \in Calls : pc[d] # "idle")
    /\ UNCHANGED <<leader, read, inFlight, cached, storing, version, dels, strays>>

\* No client: the query runs beside the map.
NoClient(c) ==
    /\ pc[c] = "asking"
    /\ Goto({c}, "direct")
    /\ trouble' = TRUE
    /\ UNCHANGED <<leader, read, inFlight, cached, storing, version, dels, strays>>

Hit(c) ==
    /\ pc[c] = "asking"
    /\ cached # None
    /\ Goto({c}, "idle")
    /\ UNCHANGED <<leader, read, inFlight, cached, storing, version, dels, strays, trouble>>

\* A miss that does not look for a query under way.
MissAlone(c) ==
    /\ pc[c] = "asking"
    /\ cached = None
    /\ Goto({c}, "leading")
    /\ inFlight' = c
    /\ UNCHANGED <<leader, read, cached, storing, version, dels, strays, trouble>>

\* A miss: share the query in flight, or start one.
Miss(c) ==
    /\ pc[c] = "asking"
    /\ cached = None
    /\ IF inFlight # None
       THEN /\ Goto({c}, "following")
            /\ leader' = [leader EXCEPT ![c] = inFlight]
            /\ UNCHANGED inFlight
       ELSE /\ Goto({c}, "leading")
            /\ inFlight' = c
            /\ UNCHANGED leader
    /\ UNCHANGED <<read, cached, storing, version, dels, strays, trouble>>

\* The catch: the entry of the key is deleted, whosever query it is, and the
\* call queries the database itself.
Degrade(c) ==
    /\ inFlight # None => strays < MaxStrays
    /\ inFlight' = None
    /\ strays' = IF inFlight # None THEN strays + 1 ELSE strays
    /\ Goto({c}, "fallback")
    /\ trouble' = TRUE
    /\ UNCHANGED <<leader, read, cached, storing, version, dels>>

GetError(c) == pc[c] = "asking" /\ Degrade(c)
DirectError(c) == pc[c] = "direct" /\ Degrade(c)

\* queryFn, as far as it reads the database.
Read(c) ==
    /\ pc[c] = "leading"
    /\ read[c] = None
    /\ read' = [read EXCEPT ![c] = version]
    /\ UNCHANGED <<pc, leader, inFlight, cached, storing, version, dels, strays, trouble>>

Followers(c) == {d \in Calls : leader[d] = c}

\* The promise of the query of c is settled for all who wait for it.
Settle(C, p) ==
    /\ Goto(C, p)
    /\ leader' = [d \in Calls |-> IF d \in C THEN None ELSE leader[d]]
    /\ read' = [d \in Calls |-> IF d \in C THEN None ELSE read[d]]

\* A query that ends and stays in the map.
EndQueryKept(c) ==
    /\ pc[c] = "leading"
    /\ read[c] # None
    /\ Len(storing) < MaxStores
    /\ storing' = Append(storing, read[c])
    /\ Settle({c} \cup Followers(c), "idle")
    /\ UNCHANGED <<inFlight, cached, version, dels, strays, trouble>>

\* The query returns: SETEX is sent and not awaited, the entry deleted.
EndQuery(c) ==
    /\ pc[c] = "leading"
    /\ read[c] # None
    /\ Len(storing) < MaxStores
    /\ storing' = Append(storing, read[c])
    /\ inFlight' = None
    /\ Settle({c} \cup Followers(c), "idle")
    /\ UNCHANGED <<cached, version, dels, strays, trouble>>

\* An error that only the leader hears of.
FailQueryAlone(c) ==
    /\ pc[c] = "leading"
    /\ inFlight' = None
    /\ Settle({c}, "retrying")
    /\ trouble' = TRUE
    /\ UNCHANGED <<cached, storing, version, dels, strays>>

\* The query throws: its followers fall back on queries of their own too.
\* Their catches follow in the same turn of the event loop, and delete nothing
\* more.
FailQuery(c) ==
    /\ pc[c] = "leading"
    /\ inFlight' = None
    /\ Settle({c} \cup Followers(c), "retrying")
    /\ trouble' = TRUE
    /\ UNCHANGED <<cached, storing, version, dels, strays>>

\* A call's own query returns, or, in the catch, throws to the caller.
EndDirect(c) ==
    /\ pc[c] \in {"direct", "fallback", "retrying"}
    /\ Goto({c}, "idle")
    /\ UNCHANGED <<leader, read, inFlight, cached, storing, version, dels, strays, trouble>>

\* SETEX reaches Redis, or is lost with its error logged.
Store ==
    /\ storing # <<>>
    /\ cached' \in {cached, Head(storing)}
    /\ storing' = Tail(storing)
    /\ UNCHANGED <<pc, leader, read, inFlight, version, dels, strays, trouble>>

\* A copy that was stored without a time to live.
ExpireNever == UNCHANGED queryVars

\* The time to live is over.
Expire ==
    /\ cached # None
    /\ cached' = None
    /\ UNCHANGED <<pc, leader, read, inFlight, storing, version, dels, strays, trouble>>

\* A transaction or a user is written, by any process; onTransactionWrite or
\* onUserWrite comes next.
Write ==
    /\ version < MaxWrites
    /\ version' = version + 1
    /\ dels' = dels + 1
    /\ UNCHANGED <<pc, leader, read, inFlight, cached, storing, strays, trouble>>

\* invalidateCache.  Its errors are dropped, and its process may die before it.
Invalidate ==
    /\ dels > 0
    /\ dels' = dels - 1
    /\ cached' \in {cached, None}
    /\ UNCHANGED <<pc, leader, read, inFlight, storing, version, strays, trouble>>

Step(c) ==
    \/ NoClient(c) \/ Hit(c) \/ Miss(c) \/ GetError(c)
    \/ Read(c) \/ EndQuery(c) \/ FailQuery(c)
    \/ EndDirect(c) \/ DirectError(c)

QueryNext ==
    \/ \E c \in Calls : Ask(c) \/ Step(c)
    \/ Store
    \/ Expire
    \/ Write
    \/ Invalidate

QuerySpec == QueryInit /\ [][QueryNext]_queryVars

\* Redis and the database answer or the client throws, and Redis expires keys.
QueryFairness == (\A c \in Calls : WF_queryVars(Step(c))) /\ WF_queryVars(Expire)

FairQuerySpec == QuerySpec /\ QueryFairness

----------------------------------------------------------------------------
\* Types: the query in the map is running, a call that shares a query shares
\* one that is running, and only a running query has read anything.
QueryTypeOK ==
    /\ pc \in [Calls -> {"idle", "asking", "direct", "leading", "following",
                    "fallback", "retrying"}]
    /\ leader \in [Calls -> Calls \cup {None}]
    /\ read \in [Calls -> Nat \cup {None}]
    /\ inFlight \in Calls \cup {None}
    /\ cached \in Nat \cup {None}
    /\ storing \in Seq(Nat)
    /\ version \in Nat /\ dels \in Nat /\ strays \in Nat /\ trouble \in BOOLEAN
    /\ inFlight # None => pc[inFlight] = "leading"
    /\ \A c \in Calls :
          /\ (leader[c] # None) = (pc[c] = "following")
          /\ leader[c] # None => pc[leader[c]] = "leading"
          /\ read[c] # None => pc[c] = "leading"

Leading == {c \in Calls : pc[c] = "leading"}
Running == {c \in Calls : pc[c] \in {"leading", "direct", "fallback", "retrying"}}

\* How far cacheQuery keeps calls that miss the cache from querying all at once.
\* Of the queries that are meant to be shared, one runs, and at most one more for
\* each entry that an error deleted while its query ran: a query that lost its
\* entry deletes the entry of the next one when it ends, and that adds nothing.
\* Of all queries, the unshared ones of the catch and of a process without a
\* client too, one runs as long as no call has met an error since the process
\* was last at rest, whatever was deleted before.  After an error nothing
\* bounds them but the number of calls, see MissesShareOneQuery.
QueriesBounded ==
    /\ Cardinality(Leading) <= 1 + strays
    /\ ~trouble => Cardinality(Running) <= 1

\* What the comment of cacheQuery claims (query-cache.service.ts:39): "single-flight
\* request coalescing", which "Protects MongoDB against cache stampede / thundering
\* herd under concurrency".  Here only for the calls whose query has failed, and
\* but for entries deleted: they too should not query all at once.  They do, the
\* catch sends each of them to the database itself (line 98).
MissesShareOneQuery ==
    Cardinality({c \in Calls : pc[c] = "retrying"}) <= 1 + strays

\* Every call is answered, the ones that wait for the query of another too,
\* although that query may fail, or have lost its place in the map.
EveryAnswerComes == \A c \in Calls : pc[c] = "asking" ~> pc[c] = "idle"

\* An outdated copy goes away, although a query that read before a write may
\* store it after the invalidation, and the invalidation itself may be lost.
StaleCopyGoes ==
    (cached # None /\ cached # version) ~> (cached = None \/ cached = version)
=============================================================================
