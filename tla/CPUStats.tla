----------------------------- MODULE CPUStats -----------------------------
(***************************************************************************)
(* The cache of CPU counters of src/src/metrics/collector/cpu_linux.go.    *)
(*                                                                         *)
(* updateStat reads /proc/stat, merges the reading into cpuStats under     *)
(* cpuStatsMutex, releases the mutex, and takes it again to expose what is *)
(* then cached.  Scrapes overlap, so a reading may be merged after a later *)
(* one.  idle is told apart from the other nine counters, which are all    *)
(* treated alike; seconds are natural numbers.                             *)
(***************************************************************************)
EXTENDS Naturals, Sequences, FiniteSets

CONSTANTS
    Scrapes,     \* slots for concurrent updateStat calls
    CPUs,        \* CPU numbers
    Active,      \* the CPUs whose counters advance (a bound; CPUs in general)
    Fields,      \* the counters other than idle
    JumpBack,    \* jumpBackSeconds
    Jitter,      \* how far an idle reading may fall behind the kernel's count
    MaxCount,    \* bound on the kernel's counters
    MaxEpoch     \* bound on the number of times a CPU comes back online

ASSUME CPUAssumption ==
    /\ IsFiniteSet(CPUs)
    /\ Active \subseteq CPUs
    /\ JumpBack \in Nat \ {0}
    /\ Jitter \in Nat
    /\ MaxCount \in Nat
    /\ MaxEpoch \in Nat

VARIABLES
    cpuStats,  \* the cache: a function from CPUs to counters
    phase,     \* where each updateStat call is
    snap,      \* what each call read from /proc/stat
    online,    \* environment: the CPUs /proc/stat lists
    kernel,    \* environment: the counters, and how often each CPU came online
    last,      \* history: the reading merged last
    order,     \* history: calls that have read and not merged, oldest first
    outrun     \* history: those whose reading is older than one already merged

vars == <<cpuStats, phase, snap, online, kernel, last, order, outrun>>
env == <<online, kernel>>

Count == 0 .. MaxCount
Counters == [idle : Count, rest : [Fields -> Count], epoch : 0 .. MaxEpoch]
ZeroIn(e) == [idle |-> 0, rest |-> [f \in Fields |-> 0], epoch |-> e]
Zero == ZeroIn(0)
\* Functions from a set of CPUs to counters: the type of the Go maps.
Readings == UNION {[D -> Counters] : D \in SUBSET CPUs}
Empty == [c \in {} |-> Zero]

AtLeastSummed(a, b) == a + b
AtLeast(a, b) == IF a >= b THEN a ELSE b
-----------------------------------------------------------------------------
(***************************************************************************)
(* updateCPUStats.  A map without the key yields the zero counters.  The   *)
(* epoch is not in the code: it tells which life of the CPU the cached     *)
(* idle time is of.                                                        *)
(***************************************************************************)
JumpedBackAtAll(old, n) == old.idle > n.idle
JumpedBackNever(old, n) == FALSE
JumpedBack(old, n) == old.idle >= n.idle + JumpBack

\* The counters the reading is merged into.
BaseIdleReset(old, n) == IF JumpedBack(old, n) THEN [old EXCEPT !.idle = 0] ELSE old
Base(old, n) == IF JumpedBack(old, n) THEN Zero ELSE old

Merge(old, n) ==
    LET base == Base(old, n)
    IN  [idle |-> AtLeast(n.idle, base.idle),
         rest |-> [f \in Fields |-> AtLeast(n.rest[f], base.rest[f])],
         epoch |-> IF n.idle >= base.idle THEN n.epoch ELSE base.epoch]

Merged(cache, new) ==
    [c \in DOMAIN cache \cup DOMAIN new |->
       IF c \in DOMAIN new
         THEN Merge(IF c \in DOMAIN cache THEN cache[c] ELSE Zero, new[c])
         ELSE cache[c]]

\* Mutant: the sizes are compared before the new CPUs are added.
PrunedTooSoon(cache, new) ==
    IF Cardinality(DOMAIN new) # Cardinality(DOMAIN cache)
      THEN [c \in DOMAIN new |-> Merged(cache, new)[c]]
      ELSE Merged(cache, new)

\* Offline CPUs are removed, only when the sizes differ.
Updated(cache, new) ==
    LET all == Merged(cache, new) IN
    IF Cardinality(DOMAIN new) # Cardinality(DOMAIN all)
      THEN [c \in DOMAIN new |-> all[c]]
      ELSE all
-----------------------------------------------------------------------------
Init ==
    /\ cpuStats = Empty
    /\ phase = [s \in Scrapes |-> "idle"]
    /\ snap = [s \in Scrapes |-> Empty]
    /\ online = CPUs
    /\ kernel = [c \in CPUs |-> Zero]
    /\ last = Empty
    /\ order = <<>>
    /\ outrun = {}

\* c.fs.Stat: an idle reading may lag behind by Jitter, the rest is exact.
Read(s) ==
    /\ phase[s] = "idle"
    /\ \E lag \in [online -> {0, Jitter}] :
         snap' = [snap EXCEPT ![s] = [c \in online |->
                    [kernel[c] EXCEPT !.idle = IF @ >= lag[c] THEN @ - lag[c] ELSE 0]]]
    /\ phase' = [phase EXCEPT ![s] = "read"]
    /\ order' = Append(order, s)
    /\ UNCHANGED <<cpuStats, env, last, outrun>>

\* c.fs.Stat fails: the error is returned and nothing is exposed.
ReadFails(s) ==
    /\ phase[s] = "idle"
    /\ UNCHANGED vars

\* updateCPUStats, one critical section.
UpdateCPUStats(s) ==
    /\ phase[s] = "read"
    /\ cpuStats' = Updated(cpuStats, snap[s])
    /\ last' = snap[s]
    /\ phase' = [phase EXCEPT ![s] = "updated"]
    /\ snap' = [snap EXCEPT ![s] = Empty]
    /\ \E k \in 1 .. Len(order) :
         /\ order[k] = s
         /\ order' = SubSeq(order, 1, k - 1) \o SubSeq(order, k + 1, Len(order))
         /\ outrun' = (outrun \cup {order[j] : j \in 1 .. k - 1}) \ {s}
    /\ UNCHANGED env

\* The second critical section exposes the whole cache as it is now.
Emit(s) ==
    /\ phase[s] = "updated"
    /\ phase' = [phase EXCEPT ![s] = "idle"]
    /\ UNCHANGED <<cpuStats, snap, env, last, order, outrun>>

\* Environment: an online CPU spends a second idle, or doing something else.
Tick(c) ==
    /\ c \in online \cap Active
    /\ \/ /\ kernel[c].idle < MaxCount
          /\ kernel' = [kernel EXCEPT ![c].idle = @ + 1]
       \/ \E f \in Fields :
            /\ kernel[c].rest[f] < MaxCount
            /\ kernel' = [kernel EXCEPT ![c].rest[f] = @ + 1]
    /\ UNCHANGED <<cpuStats, phase, snap, online, last, order, outrun>>

\* Environment: a CPU goes offline.
Offline(c) ==
    /\ c \in online
    /\ online' = online \ {c}
    /\ UNCHANGED <<cpuStats, phase, snap, kernel, last, order, outrun>>

\* Environment: a CPU comes online, with its counters reset or not.
Online(c) ==
    /\ c \notin online
    /\ kernel[c].epoch < MaxEpoch
    /\ LET e == kernel[c].epoch + 1 IN
       kernel' \in {[kernel EXCEPT ![c].epoch = e], [kernel EXCEPT ![c] = ZeroIn(e)]}
    /\ online' = online \cup {c}
    /\ UNCHANGED <<cpuStats, phase, snap, last, order, outrun>>

Next ==
    \/ \E s \in Scrapes : Read(s) \/ ReadFails(s) \/ UpdateCPUStats(s) \/ Emit(s)
    \/ \E c \in CPUs : Tick(c) \/ Offline(c) \/ Online(c)

Spec == Init /\ [][Next]_vars
-----------------------------------------------------------------------------
(***************************************************************************)
(* Type invariant: every variable has its type, and the cache and the      *)
(* readings are maps from CPUs to counters.                                *)
(***************************************************************************)
TypeOK ==
    /\ cpuStats \in Readings
    /\ phase \in [Scrapes -> {"idle", "read", "updated"}]
    /\ snap \in [Scrapes -> Readings]
    /\ online \in SUBSET CPUs
    /\ kernel \in [CPUs -> Counters]
    /\ last \in Readings
    /\ order \in Seq(Scrapes)
    /\ outrun \subseteq Scrapes

(***************************************************************************)
(* The cache lists exactly the CPUs of the reading merged last, although   *)
(* the code removes offline ones only when two sizes differ                *)
(* (cpu_linux.go:451-457).                                                 *)
(***************************************************************************)
CacheMatchesReading == DOMAIN cpuStats = DOMAIN last

(***************************************************************************)
(* The cached idle time is never behind the last reading, nor ahead of it  *)
(* by JumpBack or more: a backward jump is smoothed over or reset, never   *)
(* frozen out (cpu_linux.go:382-392).                                      *)
(***************************************************************************)
IdleLeadBounded ==
    \A c \in DOMAIN cpuStats \cap DOMAIN last :
        /\ cpuStats[c].idle >= last[c].idle
        /\ cpuStats[c].idle < last[c].idle + JumpBack

\* Some exposed counter of CPU c falls in this step.
Falls(c) ==
    /\ c \in DOMAIN cpuStats \cap DOMAIN cpuStats'
    /\ \/ cpuStats'[c].idle < cpuStats[c].idle
       \/ \E f \in Fields : cpuStats'[c].rest[f] < cpuStats[c].rest[f]

(***************************************************************************)
(* As long as idle readings fall back by less than JumpBack, a cached      *)
(* counter of a CPU falls only if the cached idle time was of an earlier   *)
(* life of the CPU, or if the merging scrape was overtaken by one that     *)
(* read later (cpu_linux.go:342-347, 382-386).                             *)
(***************************************************************************)
NoSpuriousReset ==
    [][\A c \in CPUs : Falls(c) =>
         \/ cpuStats'[c].epoch # cpuStats[c].epoch
         \/ \E s \in outrun : phase[s] = "read" /\ phase'[s] = "updated"]_vars

(***************************************************************************)
(* What cpu_linux.go:382 takes for granted: "If idle jumps backwards by    *)
(* more than X seconds, assume we had a hotplug event and reset the stats  *)
(* for this CPU".  A cached counter falls only because of a hotplug.       *)
(***************************************************************************)
ResetMeansHotplug ==
    [][\A c \in CPUs : Falls(c) => cpuStats'[c].epoch # cpuStats[c].epoch]_vars

(***************************************************************************)
(* Whenever a counter falls, the CPU's whole record is replaced by the     *)
(* reading: resets do not mix counters of two lives of a CPU               *)
(* (cpu_linux.go:383-447).                                                 *)
(***************************************************************************)
ResetIsWhole ==
    [][\A c \in CPUs : Falls(c) => cpuStats'[c] = last'[c]]_vars
=============================================================================
