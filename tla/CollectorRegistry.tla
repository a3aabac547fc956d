------------------------- MODULE CollectorRegistry -------------------------
(***************************************************************************)
(* The registry of collectors in src/src/metrics/collector/collector.go:   *)
(* registration and flags at start-up, then calls of NewNodeCollector,     *)
(* which check their filters without the mutex and, under                  *)
(* initiatedCollectorsMtx, walk the enabled collectors in a random order   *)
(* and build the ones no earlier call has built.  A factory may fail, and  *)
(* the call with it.                                                       *)
(*                                                                         *)
(* An instance is the number of its factory's successful call; 0 is none.  *)
(***************************************************************************)
EXTENDS Naturals, Sequences, FiniteSets

CONSTANTS
    Calls,        \* slots for NewNodeCollector calls and what they returned
    Nobody,       \* no slot: the holder of the free mutex
    Names,        \* registered collectors
    Default,      \* those registered with defaultEnabled
    FilterLists,  \* argument lists of NewNodeCollector
    Faulty        \* collectors whose factory may fail

ASSUME RegistryAssumption ==
    /\ Nobody \notin Calls
    /\ Default \subseteq Names
    /\ <<>> \in FilterLists
    /\ Faulty \subseteq Names

VARIABLES
    enabled,    \* the names collectorState maps to true
    forced,     \* forcedCollectors
    initiated,  \* initiatedCollectors
    built,      \* how often each factory has succeeded
    holder,     \* who holds initiatedCollectorsMtx
    phase,      \* where each call is
    filters,    \* its argument list
    left,       \* names its walk has not visited
    collectors, \* the map it fills and returns
    serving     \* start-up is over: a handler has been asked for

vars == <<serving, enabled, forced, initiated, built, holder, phase, filters, left, collectors>>
flags == <<serving, enabled, forced>>

Elements(list) == {list[i] : i \in 1 .. Len(list)}
NoInstance == [c \in Names |-> 0]

Init ==
    /\ enabled = Default
    /\ forced = {}
    /\ initiated = NoInstance
    /\ built = NoInstance
    /\ holder = Nobody
    /\ phase = [h \in Calls |-> "idle"]
    /\ filters = [h \in Calls |-> <<>>]
    /\ left = [h \in Calls |-> {}]
    /\ collectors = [h \in Calls |-> NoInstance]
    /\ serving = FALSE
-----------------------------------------------------------------------------
\* The action of collector c's flag; flags are parsed before any handler is made.
FlagAction(c) ==
    /\ ~serving
    /\ forced' = forced \cup {c}
    /\ UNCHANGED <<serving, enabled, initiated, built, holder, phase, filters, left, collectors>>

DisableDefaultCollectors ==
    /\ ~serving
    /\ enabled' = enabled \cap forced
    /\ UNCHANGED <<serving, forced, initiated, built, holder, phase, filters, left, collectors>>
-----------------------------------------------------------------------------
\* A filter names a collector that is missing or disabled.
Rejected(list) == ~(Elements(list) \subseteq enabled)

\* NewNodeCollector is called and its filters pass.
Call(h) ==
    /\ phase[h] = "idle"
    /\ \E list \in FilterLists :
         /\ ~Rejected(list)
         /\ filters' = [filters EXCEPT ![h] = list]
    /\ phase' = [phase EXCEPT ![h] = "lock"]
    /\ serving' = TRUE
    /\ UNCHANGED <<enabled, forced, initiated, built, holder, left, collectors>>

\* NewNodeCollector is called with a filter it refuses: an error, no change.
CallRejected(h) ==
    /\ phase[h] = "idle"
    /\ \E list \in FilterLists : Rejected(list)
    /\ serving' = TRUE
    /\ UNCHANGED <<enabled, forced, initiated, built, holder, phase, filters, left, collectors>>

Lock(h) ==
    /\ phase[h] = "lock"
    /\ holder = Nobody
    /\ holder' = h
    /\ phase' = [phase EXCEPT ![h] = "walk"]
    /\ left' = [left EXCEPT ![h] = Names]
    /\ UNCHANGED <<flags, initiated, built, filters, collectors>>

\* Mutant: without filters nothing is asked for.
AskedByFilter(h, c) == c \in enabled /\ c \in Elements(filters[h])
Asked(h, c) == c \in enabled /\ (filters[h] # <<>> => c \in Elements(filters[h]))

Visit(h, c) ==
    /\ phase[h] = "walk"
    /\ c \in left[h]
    /\ left' = [left EXCEPT ![h] = @ \ {c}]

\* The collector is disabled or filtered out.
Skip(h, c) ==
    /\ Visit(h, c)
    /\ ~Asked(h, c)
    /\ UNCHANGED <<flags, initiated, built, holder, phase, filters, collectors>>

\* An earlier call has built it.
Reuse(h, c) ==
    /\ Visit(h, c)
    /\ Asked(h, c)
    /\ initiated[c] # 0
    /\ collectors' = [collectors EXCEPT ![h][c] = initiated[c]]
    /\ UNCHANGED <<flags, initiated, built, holder, phase, filters>>

\* Mutant: a new instance is not put into initiatedCollectors.
Forgotten(c, instance) == initiated
Remembered(c, instance) == [initiated EXCEPT ![c] = instance]

Build(h, c) ==
    /\ Visit(h, c)
    /\ Asked(h, c)
    /\ initiated[c] = 0
    /\ built' = [built EXCEPT ![c] = @ + 1]
    /\ collectors' = [collectors EXCEPT ![h][c] = built[c] + 1]
    /\ initiated' = Remembered(c, built[c] + 1)
    /\ UNCHANGED <<flags, holder, phase, filters>>

\* Mutant: the mutex is not released when a factory fails.
StillHeld(h) == h
Released(h) == Nobody

\* The factory fails: the call returns its error; what was built stays.
BuildFails(h, c) ==
    /\ phase[h] = "walk"
    /\ c \in left[h] \cap Faulty
    /\ Asked(h, c)
    /\ initiated[c] = 0
    /\ phase' = [phase EXCEPT ![h] = "failed"]
    /\ holder' = Released(h)
    /\ left' = [left EXCEPT ![h] = {}]
    /\ collectors' = [collectors EXCEPT ![h] = NoInstance]
    /\ UNCHANGED <<flags, initiated, built, filters>>

Return(h) ==
    /\ phase[h] = "walk"
    /\ left[h] = {}
    /\ phase' = [phase EXCEPT ![h] = "returned"]
    /\ holder' = Nobody
    /\ UNCHANGED <<flags, initiated, built, filters, left, collectors>>

\* The caller drops what it got, and may call again.
Drop(h) ==
    /\ phase[h] \in {"returned", "failed"}
    /\ phase' = [phase EXCEPT ![h] = "idle"]
    /\ filters' = [filters EXCEPT ![h] = <<>>]
    /\ collectors' = [collectors EXCEPT ![h] = NoInstance]
    /\ UNCHANGED <<flags, initiated, built, holder, left>>

Walk(h) ==
    \/ Return(h)
    \/ \E c \in Names : Skip(h, c) \/ Reuse(h, c) \/ Build(h, c) \/ BuildFails(h, c)

Next ==
    \/ DisableDefaultCollectors
    \/ \E c \in Names : FlagAction(c)
    \/ \E h \in Calls :
         Call(h) \/ CallRejected(h) \/ Lock(h) \/ Walk(h) \/ Drop(h)

Spec == Init /\ [][Next]_vars

\* Factories return, and the mutex starves no one.
FairSpec == Spec /\ \A h \in Calls : WF_vars(Walk(h)) /\ SF_vars(Lock(h))
-----------------------------------------------------------------------------
(***************************************************************************)
(* Type invariant; the mutex is held exactly by the call that walks.       *)
(***************************************************************************)
TypeOK ==
    /\ enabled \subseteq Names
    /\ forced \subseteq Names
    /\ serving \in BOOLEAN
    /\ initiated \in [Names -> Nat]
    /\ built \in [Names -> Nat]
    /\ holder \in Calls \cup {Nobody}
    /\ phase \in [Calls -> {"idle", "lock", "walk", "returned", "failed"}]
    /\ filters \in [Calls -> FilterLists]
    /\ left \in [Calls -> SUBSET Names]
    /\ collectors \in [Calls -> [Names -> Nat]]
    /\ \A h \in Calls : phase[h] = "walk" <=> holder = h

(***************************************************************************)
(* All NodeCollectors share one instance of each collector, however calls  *)
(* overlap, repeat or fail part-way: collectors keep caches that must not  *)
(* be split (collector.go:118-134).                                        *)
(***************************************************************************)
SharedInstance ==
    \A g, h \in Calls, c \in Names :
        collectors[g][c] # 0 /\ collectors[h][c] # 0
            => collectors[g][c] = collectors[h][c]

(***************************************************************************)
(* A call that returns no error returns exactly the enabled collectors its *)
(* filters name, or all enabled ones without filters, also after calls     *)
(* that failed (collector.go:107-135).                                     *)
(***************************************************************************)
ExactlyAsked ==
    \A h \in Calls, c \in Names : phase[h] = "returned" =>
        (collectors[h][c] # 0
           <=> c \in enabled /\ (filters[h] = <<>> \/ \E i \in 1 .. Len(filters[h]) : filters[h][i] = c))

(***************************************************************************)
(* Every call returns, whether factories fail or not: the mutex is always  *)
(* released (collector.go:118-119).                                        *)
(***************************************************************************)
CallReturns ==
    \A h \in Calls : phase[h] = "lock" ~> phase[h] \in {"returned", "failed"}
=============================================================================
