------------------------------ MODULE DescCaches ------------------------------
(***************************************************************************)
(* The maps of metric descriptors that collectors fill while they send.    *)
(* All scrapes share one instance of a collector (CollectorRegistry), so   *)
(* overlapping Updates use one map.  Go ends the program when it notices   *)
(* an access to a map during a write; it need not notice.                  *)
(*                                                                         *)
(* netdev and ethtool take a mutex around the lookup and the insertion;    *)
(* netclass, meminfo_numa and zoneinfo have none.                          *)
(***************************************************************************)
EXTENDS Naturals

CONSTANTS
    Updates,    \* the Updates that overlap
    Unlocked,   \* collectors whose map has no mutex
    Locked,     \* collectors whose map has one
    DescKeys    \* bound: the descriptors an Update needs

VARIABLES
    cacheOf,    \* whose map it is
    metricDescs,\* the keys it has
    cacheHolder,\* the Update that holds the mutex, or Free
    access,     \* what each Update does to the map
    needs,      \* the keys each Update still needs
    crashed

cacheVars == <<cacheOf, metricDescs, cacheHolder, access, needs, crashed>>

Free == "free"

ASSUME CacheAssumption == Free \notin Updates

CacheInit ==
    /\ cacheOf \in Locked \cup Unlocked
    /\ metricDescs = {}
    /\ cacheHolder = Free
    /\ access = [u \in Updates |-> "none"]
    /\ needs = [u \in Updates |-> DescKeys]
    /\ crashed = FALSE

\* The accesses an access of this kind must not overlap with.
Conflicts(kind) == IF kind = "write" THEN {"read", "write"} ELSE {"write"}

Access(u, kind) ==
    /\ access' = [access EXCEPT ![u] = kind]
    /\ \E noticed \in BOOLEAN :
         crashed' = (noticed /\ \E v \in Updates \ {u} : access[v] \in Conflicts(kind))

\* Mutant: the mutex is not taken.
MayAlwaysEnter(u) == TRUE
MayEnter(u) == cacheOf \in Locked => cacheHolder = Free
Holder(u) == IF cacheOf \in Locked THEN u ELSE Free

Lookup(u) ==
    /\ ~crashed
    /\ access[u] = "none"
    /\ needs[u] # {}
    /\ MayEnter(u)
    /\ cacheHolder' = Holder(u)
    /\ Access(u, "read")
    /\ UNCHANGED <<cacheOf, metricDescs, needs>>

\* The lookup has ended: found, or the descriptor is made and inserted.
Found(u) ==
    /\ ~crashed
    /\ access[u] = "read"
    /\ \E k \in needs[u] \cap metricDescs : needs' = [needs EXCEPT ![u] = @ \ {k}]
    /\ access' = [access EXCEPT ![u] = "none"]
    /\ cacheHolder' = Free
    /\ UNCHANGED <<cacheOf, metricDescs, crashed>>

Missing(u) ==
    /\ ~crashed
    /\ access[u] = "read"
    /\ needs[u] \ metricDescs # {}
    /\ Access(u, "write")
    /\ UNCHANGED <<cacheOf, metricDescs, cacheHolder, needs>>

Inserted(u) ==
    /\ ~crashed
    /\ access[u] = "write"
    /\ \E k \in needs[u] :
         /\ metricDescs' = metricDescs \cup {k}
         /\ needs' = [needs EXCEPT ![u] = @ \ {k}]
    /\ access' = [access EXCEPT ![u] = "none"]
    /\ cacheHolder' = Free
    /\ UNCHANGED <<cacheOf, crashed>>

CacheNext == \E u \in Updates : Lookup(u) \/ Found(u) \/ Missing(u) \/ Inserted(u)

CacheSpec == CacheInit /\ [][CacheNext]_cacheVars
-----------------------------------------------------------------------------
\* The mutex keeps the accesses of overlapping Updates apart: only a map
\* without one can end the agent.
MutexSuffices == crashed => cacheOf \in Unlocked
=============================================================================
