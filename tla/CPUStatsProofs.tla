-------------------------- MODULE CPUStatsProofs --------------------------
(***************************************************************************)
(* Proofs about CPUStats, for any set of CPUs and scrapes, any limit and   *)
(* any jitter.                                                             *)
(***************************************************************************)
EXTENDS CPUStats, FiniteSetTheorems, SequenceTheorems, TLAPS

(***************************************************************************)
(* A map from CPUs to counters has a set of CPUs as its domain.            *)
(***************************************************************************)
LEMMA ReadingType ==
    ASSUME NEW x
    PROVE  x \in Readings <=> /\ x = [c \in DOMAIN x |-> x[c]]
                              /\ DOMAIN x \subseteq CPUs
                              /\ \A c \in DOMAIN x : x[c] \in Counters
  BY DEF Readings

LEMMA ZeroType == \A e \in 0 .. MaxEpoch : ZeroIn(e) \in Counters
  BY CPUAssumption DEF CPUAssumption, ZeroIn, Counters, Count

LEMMA EmptyType == Empty \in Readings /\ DOMAIN Empty = {}
<1>1. DOMAIN Empty = {} /\ Empty = [c \in DOMAIN Empty |-> Empty[c]]
  BY DEF Empty
<1> QED
  BY <1>1, ReadingType

(***************************************************************************)
(* Merging one CPU's counters: typed, at or above the reading, and its     *)
(* idle time less than JumpBack above it.                                  *)
(***************************************************************************)
LEMMA MergeBounds ==
    ASSUME NEW old \in Counters, NEW n \in Counters
    PROVE  /\ Merge(old, n) \in Counters
           /\ Merge(old, n).idle >= n.idle
           /\ Merge(old, n).idle < n.idle + JumpBack
<1>1. Base(old, n) \in Counters
  BY ZeroType, CPUAssumption DEF CPUAssumption, Base, Zero
<1>2. Base(old, n).idle < n.idle + JumpBack
  BY CPUAssumption DEF CPUAssumption, Base, Zero, ZeroIn, JumpedBack, Counters, Count
<1>3. \A a, b \in Count : AtLeast(a, b) \in Count /\ AtLeast(a, b) >= a
                          /\ AtLeast(a, b) \in {a, b}
  BY CPUAssumption DEF CPUAssumption, AtLeast, Count
<1>4. [f \in Fields |-> AtLeast(n.rest[f], Base(old, n).rest[f])] \in [Fields -> Count]
  BY <1>1, <1>3 DEF Counters
<1>5. AtLeast(n.idle, Base(old, n).idle) \in Count
      /\ AtLeast(n.idle, Base(old, n).idle) >= n.idle
      /\ AtLeast(n.idle, Base(old, n).idle) \in {n.idle, Base(old, n).idle}
  BY <1>1, <1>3 DEF Counters
<1>6. n.idle < n.idle + JumpBack
  BY CPUAssumption DEF CPUAssumption, Counters, Count
<1> QED
  BY <1>1, <1>2, <1>4, <1>5, <1>6 DEF Merge, Counters

(***************************************************************************)
(* If merging lowers any counter, the result is the reading itself.        *)
(***************************************************************************)
LEMMA MergeFalls ==
    ASSUME NEW old \in Counters, NEW n \in Counters,
           \/ Merge(old, n).idle < old.idle
           \/ \E f \in Fields : Merge(old, n).rest[f] < old.rest[f]
    PROVE  JumpedBack(old, n) /\ Merge(old, n) = n
<1>1. \A a, b \in Count : AtLeast(a, b) >= b
  BY CPUAssumption DEF CPUAssumption, AtLeast, Count
<1>2. JumpedBack(old, n)
  <2> SUFFICES ASSUME ~JumpedBack(old, n) PROVE FALSE
    OBVIOUS
  <2>1. Base(old, n) = old
    BY DEF Base
  <2>2. Merge(old, n).idle >= old.idle
    BY <1>1, <2>1 DEF Merge, Counters
  <2>3. \A f \in Fields : Merge(old, n).rest[f] >= old.rest[f]
    BY <1>1, <2>1 DEF Merge, Counters
  <2>4. /\ Merge(old, n).idle \in Nat /\ old.idle \in Nat
        /\ \A f \in Fields : Merge(old, n).rest[f] \in Nat /\ old.rest[f] \in Nat
    BY MergeBounds DEF Counters, Count
  <2> QED
    BY <2>2, <2>3, <2>4
<1>3. Base(old, n) = Zero
  BY <1>2 DEF Base
<1>4. \A a \in Count : AtLeast(a, 0) = a
  BY CPUAssumption DEF CPUAssumption, AtLeast, Count
<1>5. AtLeast(n.idle, Zero.idle) = n.idle /\ n.idle >= Zero.idle
  BY <1>4, CPUAssumption DEF CPUAssumption, Zero, ZeroIn, Counters, Count
<1>6. [f \in Fields |-> AtLeast(n.rest[f], Zero.rest[f])] = n.rest
  BY <1>4 DEF Zero, ZeroIn, Counters
<1> QED
  BY <1>2, <1>3, <1>5, <1>6 DEF Merge, Counters

(***************************************************************************)
(* Comparing two sizes is enough to keep the online CPUs and no others,    *)
(* because the merged map has every CPU of the reading.                    *)
(***************************************************************************)
LEMMA UpdatedDomain ==
    ASSUME NEW cache \in Readings, NEW new \in Readings
    PROVE  /\ DOMAIN Updated(cache, new) = DOMAIN new
           /\ \A c \in DOMAIN new : Updated(cache, new)[c] =
                Merge(IF c \in DOMAIN cache THEN cache[c] ELSE Zero, new[c])
<1> DEFINE all == Merged(cache, new)
<1>1. DOMAIN all = DOMAIN cache \cup DOMAIN new
  BY DEF Merged
<1>2. \A c \in DOMAIN new : all[c] =
        Merge(IF c \in DOMAIN cache THEN cache[c] ELSE Zero, new[c])
  BY DEF Merged
<1>3. IsFiniteSet(DOMAIN all)
  <2>1. DOMAIN all \subseteq CPUs
    BY <1>1, ReadingType
  <2> QED
    BY <2>1, FS_Subset, CPUAssumption DEF CPUAssumption
<1>4. CASE Cardinality(DOMAIN new) # Cardinality(DOMAIN all)
  BY <1>2, <1>4 DEF Updated
<1>5. CASE Cardinality(DOMAIN new) = Cardinality(DOMAIN all)
  <2>1. DOMAIN new \subseteq DOMAIN all
    BY <1>1
  <2>2. DOMAIN new = DOMAIN all
    BY <1>3, <1>5, <2>1, FS_Subset
  <2>3. Updated(cache, new) = all
    BY <1>5 DEF Updated
  <2> QED
    BY <1>2, <2>2, <2>3
<1> QED
  BY <1>4, <1>5

LEMMA UpdatedType ==
    ASSUME NEW cache \in Readings, NEW new \in Readings
    PROVE  Updated(cache, new) \in Readings
<1>1. DOMAIN Updated(cache, new) = DOMAIN new
  BY UpdatedDomain
<1>2. \A c \in DOMAIN new : Updated(cache, new)[c] \in Counters
  <2> SUFFICES ASSUME NEW c \in DOMAIN new
               PROVE  Updated(cache, new)[c] \in Counters
    OBVIOUS
  <2>1. (IF c \in DOMAIN cache THEN cache[c] ELSE Zero) \in Counters /\ new[c] \in Counters
    BY ReadingType, ZeroType, CPUAssumption DEF CPUAssumption, Zero
  <2> QED
    BY <2>1, MergeBounds, UpdatedDomain
<1>3. Updated(cache, new) =
        [c \in DOMAIN Updated(cache, new) |-> Updated(cache, new)[c]]
  BY DEF Updated, Merged
<1> QED
  BY <1>1, <1>2, <1>3, ReadingType
-----------------------------------------------------------------------------
IInv == TypeOK /\ CacheMatchesReading /\ IdleLeadBounded

(***************************************************************************)
(* Nothing is cached or read initially.                                    *)
(***************************************************************************)
LEMMA InitIInv == Init => IInv
<1> SUFFICES ASSUME Init PROVE IInv
  OBVIOUS
<1>1. TypeOK
  BY EmptyType, ZeroType, CPUAssumption DEF CPUAssumption, Init, TypeOK, Zero
<1>2. CacheMatchesReading /\ IdleLeadBounded
  BY EmptyType DEF Init, CacheMatchesReading, IdleLeadBounded
<1> QED
  BY <1>1, <1>2 DEF IInv

(***************************************************************************)
(* updateCPUStats establishes the bounds whatever it is given.             *)
(***************************************************************************)
LEMMA UpdateInv ==
    ASSUME IInv, NEW s \in Scrapes, UpdateCPUStats(s)
    PROVE  IInv'
<1>1. cpuStats \in Readings /\ snap[s] \in Readings
  BY DEF IInv, TypeOK
<1>2. cpuStats' = Updated(cpuStats, snap[s]) /\ last' = snap[s]
  BY DEF UpdateCPUStats
<1>3. TypeOK'
  <2>1. order' \in Seq(Scrapes) /\ outrun' \subseteq Scrapes
    BY DEF UpdateCPUStats, IInv, TypeOK
  <2>2. cpuStats' \in Readings /\ last' \in Readings
    BY <1>1, <1>2, UpdatedType
  <2> QED
    BY <2>1, <2>2, EmptyType DEF UpdateCPUStats, IInv, TypeOK, env
<1>4. CacheMatchesReading'
  BY <1>1, <1>2, UpdatedDomain DEF CacheMatchesReading
<1>5. IdleLeadBounded'
  <2> SUFFICES ASSUME NEW c \in DOMAIN snap[s]
               PROVE  /\ cpuStats'[c].idle >= last'[c].idle
                      /\ cpuStats'[c].idle < last'[c].idle + JumpBack
    BY <1>1, <1>2, UpdatedDomain DEF IdleLeadBounded
  <2>1. (IF c \in DOMAIN cpuStats THEN cpuStats[c] ELSE Zero) \in Counters
        /\ snap[s][c] \in Counters
    BY <1>1, ReadingType, ZeroType, CPUAssumption DEF CPUAssumption, Zero
  <2> QED
    BY <1>1, <1>2, <2>1, UpdatedDomain, MergeBounds
<1> QED
  BY <1>3, <1>4, <1>5 DEF IInv

(***************************************************************************)
(* Every step keeps the invariant; only updateCPUStats touches the cache.  *)
(***************************************************************************)
LEMMA NextIInv == IInv /\ [Next]_vars => IInv'
<1> SUFFICES ASSUME IInv, [Next]_vars PROVE IInv'
  OBVIOUS
<1>1. ASSUME TypeOK', UNCHANGED <<cpuStats, last>> PROVE IInv'
  BY <1>1 DEF IInv, CacheMatchesReading, IdleLeadBounded
<1>2. ASSUME NEW s \in Scrapes, Read(s) PROVE IInv'
  <2>1. PICK lag \in [online -> {0, Jitter}] :
          snap' = [snap EXCEPT ![s] = [c \in online |->
                    [kernel[c] EXCEPT !.idle = IF @ >= lag[c] THEN @ - lag[c] ELSE 0]]]
    BY <1>2 DEF Read
  <2>2. ASSUME NEW c \in online
        PROVE  [kernel[c] EXCEPT !.idle = IF @ >= lag[c] THEN @ - lag[c] ELSE 0] \in Counters
    <3>1. kernel[c] \in Counters /\ lag[c] \in Nat
      BY CPUAssumption DEF CPUAssumption, IInv, TypeOK
    <3>2. (IF kernel[c].idle >= lag[c] THEN kernel[c].idle - lag[c] ELSE 0) \in Count
      BY <3>1, CPUAssumption DEF CPUAssumption, Counters, Count
    <3> QED
      BY <3>1, <3>2 DEF Counters
  <2>3. [c \in online |-> [kernel[c] EXCEPT !.idle = IF @ >= lag[c] THEN @ - lag[c] ELSE 0]]
          \in Readings
    BY <2>2 DEF Readings, IInv, TypeOK
  <2>4. TypeOK'
    BY <1>2, <2>1, <2>3, SMTT(30) DEF Read, IInv, TypeOK, env
  <2> QED
    BY <1>1, <1>2, <2>4 DEF Read
<1>3. ASSUME NEW s \in Scrapes, ReadFails(s) PROVE IInv'
  <2>1. TypeOK'
    BY <1>3 DEF ReadFails, vars, IInv, TypeOK
  <2> QED
    BY <1>1, <1>3, <2>1 DEF ReadFails, vars
<1>4. ASSUME NEW s \in Scrapes, UpdateCPUStats(s) PROVE IInv'
  BY <1>4, UpdateInv
<1>5. ASSUME NEW s \in Scrapes, Emit(s) PROVE IInv'
  <2>1. TypeOK'
    BY <1>5 DEF Emit, env, IInv, TypeOK
  <2> QED
    BY <1>1, <1>5, <2>1 DEF Emit
<1>6. ASSUME NEW c \in CPUs, Tick(c) PROVE IInv'
  <2>1. kernel' \in [CPUs -> Counters]
    <3>1. kernel[c] \in Counters
      BY DEF IInv, TypeOK
    <3>2. CASE /\ kernel[c].idle < MaxCount
               /\ kernel' = [kernel EXCEPT ![c].idle = @ + 1]
      <4>1. kernel[c].idle + 1 \in Count
        BY <3>1, <3>2, CPUAssumption DEF CPUAssumption, Counters, Count
      <4>2. [kernel[c] EXCEPT !.idle = @ + 1] \in Counters
        BY <3>1, <4>1 DEF Counters
      <4> QED
        BY <3>2, <4>2 DEF IInv, TypeOK
    <3>3. ASSUME NEW f \in Fields, kernel[c].rest[f] < MaxCount,
                 kernel' = [kernel EXCEPT ![c].rest[f] = @ + 1]
          PROVE  kernel' \in [CPUs -> Counters]
      <4>1. kernel[c].rest[f] + 1 \in Count
        BY <3>1, <3>3, CPUAssumption DEF CPUAssumption, Counters, Count
      <4>2. [kernel[c] EXCEPT !.rest[f] = @ + 1] \in Counters
        BY <3>1, <4>1 DEF Counters
      <4> QED
        BY <3>3, <4>2 DEF IInv, TypeOK
    <3> QED
      BY <1>6, <3>2, <3>3 DEF Tick
  <2>2. TypeOK'
    BY <1>6, <2>1 DEF Tick, IInv, TypeOK
  <2> QED
    BY <1>1, <1>6, <2>2 DEF Tick
<1>7. ASSUME NEW c \in CPUs, Offline(c) PROVE IInv'
  <2>1. TypeOK'
    BY <1>7 DEF Offline, IInv, TypeOK
  <2> QED
    BY <1>1, <1>7, <2>1 DEF Offline
<1>8. ASSUME NEW c \in CPUs, Online(c) PROVE IInv'
  <2>1. kernel' \in [CPUs -> Counters]
    <3>1. kernel[c] \in Counters /\ kernel[c].epoch + 1 \in 0 .. MaxEpoch
      BY <1>8, CPUAssumption DEF CPUAssumption, Online, IInv, TypeOK, Counters
    <3>2. [kernel[c] EXCEPT !.epoch = kernel[c].epoch + 1] \in Counters
      BY <3>1 DEF Counters
    <3>3. ZeroIn(kernel[c].epoch + 1) \in Counters
      BY <3>1, ZeroType
    <3> QED
      BY <1>8, <3>2, <3>3 DEF Online, IInv, TypeOK
  <2>2. TypeOK'
    BY <1>8, <2>1 DEF Online, IInv, TypeOK
  <2> QED
    BY <1>1, <1>8, <2>2 DEF Online
<1>9. CASE UNCHANGED vars
  <2>1. TypeOK'
    BY <1>9 DEF vars, IInv, TypeOK
  <2> QED
    BY <1>1, <1>9, <2>1 DEF vars
<1> QED
  BY <1>2, <1>3, <1>4, <1>5, <1>6, <1>7, <1>8, <1>9 DEF Next

(***************************************************************************)
(* IInv is an inductive invariant of the specification.                    *)
(***************************************************************************)
THEOREM Inductive == Spec => []IInv
  BY InitIInv, NextIInv, PTL DEF Spec

(***************************************************************************)
(* The cache and the readings are always maps from CPUs to counters.       *)
(***************************************************************************)
THEOREM TypeCorrect == Spec => []TypeOK
<1>1. IInv => TypeOK
  BY DEF IInv
<1> QED
  BY Inductive, <1>1, PTL

(***************************************************************************)
(* The cached CPUs are those of the last merged reading: removing offline  *)
(* CPUs only when the two sizes differ forgets none.                       *)
(***************************************************************************)
THEOREM CacheIsOfReading == Spec => []CacheMatchesReading
<1>1. IInv => CacheMatchesReading
  BY DEF IInv
<1> QED
  BY Inductive, <1>1, PTL

(***************************************************************************)
(* The cached idle time lies at the last reading or less than JumpBack     *)
(* above it, for any interleaving of scrapes and any hotplug.              *)
(***************************************************************************)
THEOREM IdleLead == Spec => []IdleLeadBounded
<1>1. IInv => IdleLeadBounded
  BY DEF IInv
<1> QED
  BY Inductive, <1>1, PTL

(***************************************************************************)
(* Only a step of updateCPUStats lowers a counter, when the reading jumped *)
(* back, and then it replaces the CPU's record by the reading.             *)
(***************************************************************************)
LEMMA StepFalls ==
    ASSUME IInv, Next, NEW c \in CPUs, Falls(c)
    PROVE  \E s \in Scrapes :
             /\ UpdateCPUStats(s)
             /\ c \in DOMAIN cpuStats \cap DOMAIN snap[s]
             /\ JumpedBack(cpuStats[c], snap[s][c])
             /\ cpuStats'[c] = snap[s][c]
<1>1. cpuStats' # cpuStats
  <2> SUFFICES ASSUME cpuStats' = cpuStats PROVE FALSE
    OBVIOUS
  <2>1. cpuStats[c] \in Counters
    BY ReadingType DEF Falls, IInv, TypeOK
  <2>2. cpuStats[c].idle \in Nat /\ \A f \in Fields : cpuStats[c].rest[f] \in Nat
    BY <2>1 DEF Counters, Count
  <2> QED
    BY <2>2 DEF Falls
<1>2. PICK s \in Scrapes : UpdateCPUStats(s)
  BY <1>1 DEF Next, Read, ReadFails, Emit, Tick, Offline, Online, vars
<1>3. cpuStats \in Readings /\ snap[s] \in Readings
  BY DEF IInv, TypeOK
<1>4. cpuStats' = Updated(cpuStats, snap[s])
  BY <1>2 DEF UpdateCPUStats
<1>5. c \in DOMAIN cpuStats /\ c \in DOMAIN snap[s]
  BY <1>3, <1>4, UpdatedDomain DEF Falls
<1>6. cpuStats'[c] = Merge(cpuStats[c], snap[s][c])
  BY <1>3, <1>4, <1>5, UpdatedDomain
<1>7. cpuStats[c] \in Counters /\ snap[s][c] \in Counters
  BY <1>3, <1>5, ReadingType
<1> QED
  BY <1>2, <1>5, <1>6, <1>7, MergeFalls DEF Falls

(***************************************************************************)
(* Resets never mix the counters of two lives of a CPU.                    *)
(***************************************************************************)
THEOREM ResetsAreWhole == Spec => ResetIsWhole
<1>1. ASSUME IInv, Next, NEW c \in CPUs, Falls(c) PROVE cpuStats'[c] = last'[c]
  BY <1>1, StepFalls DEF UpdateCPUStats
<1>2. IInv /\ [Next]_vars => [\A c \in CPUs : Falls(c) => cpuStats'[c] = last'[c]]_vars
  BY <1>1
<1> QED
  BY Inductive, <1>2, PTL DEF Spec, ResetIsWhole
-----------------------------------------------------------------------------
(***************************************************************************)
(* Why a cached counter does not fall without a cause.  a was read before  *)
(* b: in one life of a CPU its idle time is ahead of b's by Jitter at most.*)
(***************************************************************************)
Precedes(a, b) ==
    \A c \in DOMAIN a \cap DOMAIN b :
        /\ a[c].epoch <= b[c].epoch
        /\ a[c].epoch = b[c].epoch => a[c].idle <= b[c].idle + Jitter

\* Nothing in a is ahead of the counts k of the kernel.
Covers(k, a) ==
    \A c \in DOMAIN a :
        /\ a[c].epoch <= k[c].epoch
        /\ a[c].epoch = k[c].epoch => a[c].idle <= k[c].idle

\* order lists the calls that have read, each once.
Listed ==
    /\ \A i, j \in 1 .. Len(order) : order[i] = order[j] => i = j
    /\ \A s \in Scrapes : phase[s] = "read" <=> \E i \in 1 .. Len(order) : order[i] = s

InKernel == Covers(kernel, cpuStats) /\ \A s \in Scrapes : Covers(kernel, snap[s])

InOrder == \A i, j \in 1 .. Len(order) : i < j => Precedes(snap[order[i]], snap[order[j]])

\* A reading that was not overtaken was read after everything cached.
Behind == \A s \in Scrapes \ outrun : phase[s] = "read" => Precedes(cpuStats, snap[s])

Chronology == Listed /\ InKernel /\ InOrder /\ Behind

(***************************************************************************)
(* Where a cached idle time comes from: the reading just merged, or the    *)
(* cache.                                                                  *)
(***************************************************************************)
LEMMA UpdatedOrigin ==
    ASSUME NEW cache \in Readings, NEW new \in Readings, NEW c \in DOMAIN new
    PROVE  LET u == Updated(cache, new)[c] IN
           \/ u.idle = new[c].idle /\ u.epoch = new[c].epoch
           \/ c \in DOMAIN cache /\ u.idle = cache[c].idle /\ u.epoch = cache[c].epoch
<1> DEFINE old == IF c \in DOMAIN cache THEN cache[c] ELSE Zero
<1>1. Updated(cache, new)[c] = Merge(old, new[c])
  BY UpdatedDomain
<1>2. old \in Counters /\ new[c] \in Counters
  BY ReadingType, ZeroType, CPUAssumption DEF CPUAssumption, Zero
<1>3. old.idle \in Nat /\ new[c].idle \in Nat
  BY <1>2 DEF Counters, Count
<1>4. Zero.idle = 0
  BY DEF Zero, ZeroIn
<1>5. CASE new[c].idle >= Base(old, new[c]).idle
  BY <1>1, <1>5 DEF Merge, AtLeast
<1>6. CASE ~(new[c].idle >= Base(old, new[c]).idle)
  <2>1. Base(old, new[c]) # Zero
    BY <1>3, <1>4, <1>6
  <2>2. Base(old, new[c]) = old
    BY <2>1 DEF Base
  <2>3. c \in DOMAIN cache
    BY <2>1, <2>2
  <2> QED
    BY <1>1, <1>6, <2>2, <2>3 DEF Merge, AtLeast
<1> QED
  BY <1>5, <1>6

(***************************************************************************)
(* So the merged cache is ahead of nothing that neither was ahead of.      *)
(***************************************************************************)
LEMMA UpdatedInKernel ==
    ASSUME NEW cache \in Readings, NEW new \in Readings, NEW k,
           Covers(k, cache), Covers(k, new)
    PROVE  Covers(k, Updated(cache, new))
  BY UpdatedDomain, UpdatedOrigin DEF Covers

LEMMA UpdatedPrecedes ==
    ASSUME NEW cache \in Readings, NEW new \in Readings, NEW x,
           Precedes(cache, x), Precedes(new, x)
    PROVE  Precedes(Updated(cache, new), x)
  BY UpdatedDomain, UpdatedOrigin DEF Precedes

(***************************************************************************)
(* The kernel's counts grow, or a new life of the CPU begins.              *)
(***************************************************************************)
Grown(k, l) ==
    \A c \in CPUs :
        /\ k[c].epoch <= l[c].epoch
        /\ k[c].epoch = l[c].epoch => k[c].idle <= l[c].idle

LEMMA StillCovered ==
    ASSUME NEW k \in [CPUs -> Counters], NEW l \in [CPUs -> Counters], Grown(k, l),
           NEW a \in Readings, Covers(k, a)
    PROVE  Covers(l, a)
<1> SUFFICES ASSUME NEW c \in DOMAIN a
             PROVE  /\ a[c].epoch <= l[c].epoch
                    /\ a[c].epoch = l[c].epoch => a[c].idle <= l[c].idle
  BY DEF Covers
<1>1. c \in CPUs /\ a[c] \in Counters
  BY ReadingType
<1>2. k[c] \in Counters /\ l[c] \in Counters
  BY <1>1
<1>3. /\ a[c].epoch \in Nat /\ k[c].epoch \in Nat /\ l[c].epoch \in Nat
      /\ a[c].idle \in Nat /\ k[c].idle \in Nat /\ l[c].idle \in Nat
  BY <1>1, <1>2, CPUAssumption DEF CPUAssumption, Counters, Count
<1>4. /\ a[c].epoch <= k[c].epoch /\ (a[c].epoch = k[c].epoch => a[c].idle <= k[c].idle)
      /\ k[c].epoch <= l[c].epoch /\ (k[c].epoch = l[c].epoch => k[c].idle <= l[c].idle)
  BY <1>1 DEF Covers, Grown
<1> QED
  BY <1>3, <1>4

LEMMA KernelGrows ==
    ASSUME IInv, IInv', Next
    PROVE  Grown(kernel, kernel')
<1>1. kernel \in [CPUs -> Counters] /\ kernel' \in [CPUs -> Counters]
  BY DEF IInv, TypeOK
<1>2. \A c \in CPUs : kernel[c].epoch \in Nat /\ kernel[c].idle \in Nat
  BY <1>1, CPUAssumption DEF CPUAssumption, Counters, Count
<1>3. CASE kernel' = kernel
  BY <1>2, <1>3 DEF Grown
<1>4. ASSUME NEW c \in CPUs, Tick(c) PROVE Grown(kernel, kernel')
  <2>1. CASE kernel' = [kernel EXCEPT ![c].idle = @ + 1]
    <3>1. \A d \in CPUs \ {c} : kernel'[d] = kernel[d]
      BY <1>1, <2>1
    <3>2. kernel'[c] = [kernel[c] EXCEPT !.idle = @ + 1]
      BY <1>1, <2>1
    <3>3. kernel[c] \in Counters
      BY <1>1
    <3>4. kernel'[c].idle = kernel[c].idle + 1 /\ kernel'[c].epoch = kernel[c].epoch
      BY <3>2, <3>3 DEF Counters
    <3> QED
      BY <1>2, <3>1, <3>4 DEF Grown
  <2>2. ASSUME NEW f \in Fields, kernel' = [kernel EXCEPT ![c].rest[f] = @ + 1]
        PROVE  Grown(kernel, kernel')
    <3>1. \A d \in CPUs \ {c} : kernel'[d] = kernel[d]
      BY <1>1, <2>2
    <3>2. kernel'[c] = [kernel[c] EXCEPT !.rest[f] = @ + 1]
      BY <1>1, <2>2
    <3>3. kernel[c] \in Counters
      BY <1>1
    <3>4. kernel'[c].idle = kernel[c].idle /\ kernel'[c].epoch = kernel[c].epoch
      BY <3>2, <3>3 DEF Counters
    <3> QED
      BY <1>2, <3>1, <3>4 DEF Grown
  <2> QED
    BY <1>4, <2>1, <2>2 DEF Tick
<1>5. ASSUME NEW c \in CPUs, Online(c) PROVE Grown(kernel, kernel')
  <2>1. kernel' \in {[kernel EXCEPT ![c].epoch = kernel[c].epoch + 1],
                     [kernel EXCEPT ![c] = ZeroIn(kernel[c].epoch + 1)]}
    BY <1>5 DEF Online
  <2>2. \A d \in CPUs \ {c} : kernel'[d] = kernel[d]
    BY <1>1, <2>1
  <2>3. kernel'[c].epoch = kernel[c].epoch + 1
    <3>1. kernel[c] \in Counters
      BY <1>1
    <3> QED
      BY <1>1, <2>1, <3>1 DEF ZeroIn, Counters
  <2> QED
    BY <1>2, <2>2, <2>3 DEF Grown
<1> QED
  BY <1>3, <1>4, <1>5 DEF Next, Read, ReadFails, UpdateCPUStats, Emit, Offline, vars, env

(***************************************************************************)
(* The sequence without its k-th element.                                  *)
(***************************************************************************)
LEMMA RemoveAt ==
    ASSUME NEW S, NEW q \in Seq(S), NEW k \in 1 .. Len(q)
    PROVE  LET r == SubSeq(q, 1, k - 1) \o SubSeq(q, k + 1, Len(q)) IN
           /\ Len(r) = Len(q) - 1
           /\ \A i \in 1 .. Len(q) - 1 : r[i] = IF i < k THEN q[i] ELSE q[i + 1]
<1> DEFINE a == SubSeq(q, 1, k - 1)
           b == SubSeq(q, k + 1, Len(q))
<1>1. a \in Seq(S) /\ Len(a) = k - 1 /\ \A i \in 1 .. k - 1 : a[i] = q[i]
  OBVIOUS
<1>2. b \in Seq(S) /\ Len(b) = Len(q) - k /\ \A i \in 1 .. Len(q) - k : b[i] = q[i + k]
  OBVIOUS
<1> HIDE DEF a, b
<1>a. Len(q) \in Nat
  OBVIOUS
<1>b. /\ Len(a \o b) = Len(a) + Len(b)
      /\ \A i \in 1 .. Len(a) + Len(b) : (a \o b)[i] = IF i <= Len(a) THEN a[i] ELSE b[i - Len(a)]
  BY <1>1, <1>2, ConcatProperties
<1>3. Len(a \o b) = Len(q) - 1
  BY <1>a, <1>b, <1>1, <1>2
<1>4. ASSUME NEW i \in 1 .. Len(q) - 1
      PROVE  (a \o b)[i] = IF i < k THEN q[i] ELSE q[i + 1]
  <2>1. CASE i < k
    BY <1>a, <1>b, <1>1, <1>2, <2>1
  <2>2. CASE i >= k
    <3>1. (a \o b)[i] = b[i - (k - 1)]
      BY <1>a, <1>b, <1>1, <1>2, <2>2
    <3>2. i - (k - 1) \in 1 .. Len(q) - k /\ i - (k - 1) + k = i + 1
      BY <1>a, <2>2
    <3> QED
      BY <1>2, <2>2, <3>1, <3>2
  <2>3. i < k \/ i >= k
    BY <1>a
  <2> QED
    BY <2>1, <2>2, <2>3
<1> QED
  BY <1>3, <1>4 DEF a, b

(***************************************************************************)
(* What is read is in the kernel, and is later than what was in it before. *)
(***************************************************************************)
LEMMA ReadIsLatest ==
    ASSUME TypeOK, NEW lag \in [online -> {0, Jitter}], NEW x,
           x = [c \in online |-> [kernel[c] EXCEPT !.idle = IF @ >= lag[c] THEN @ - lag[c] ELSE 0]]
    PROVE  /\ Covers(kernel, x)
           /\ \A a \in Readings : Covers(kernel, a) => Precedes(a, x)
<1>1. DOMAIN x = online /\ online \subseteq CPUs
  BY DEF TypeOK
<1>2. ASSUME NEW c \in online
      PROVE  /\ x[c].epoch = kernel[c].epoch
             /\ x[c].idle <= kernel[c].idle
             /\ kernel[c].idle <= x[c].idle + Jitter
             /\ kernel[c].epoch \in Nat /\ kernel[c].idle \in Nat /\ x[c].idle \in Nat
  <2>1. kernel[c] \in Counters /\ lag[c] \in {0, Jitter}
    BY DEF TypeOK
  <2>2. x[c].epoch = kernel[c].epoch
        /\ x[c].idle = IF kernel[c].idle >= lag[c] THEN kernel[c].idle - lag[c] ELSE 0
    BY <1>1, <2>1 DEF Counters
  <2>3. kernel[c].epoch \in Nat /\ kernel[c].idle \in Nat
    BY <2>1, CPUAssumption DEF CPUAssumption, Counters, Count
  <2> QED
    BY <2>1, <2>2, <2>3, CPUAssumption DEF CPUAssumption
<1>3. Covers(kernel, x)
  BY <1>1, <1>2 DEF Covers
<1>4. ASSUME NEW a \in Readings, Covers(kernel, a) PROVE Precedes(a, x)
  <2> SUFFICES ASSUME NEW c \in DOMAIN a \cap DOMAIN x
               PROVE  /\ a[c].epoch <= x[c].epoch
                      /\ a[c].epoch = x[c].epoch => a[c].idle <= x[c].idle + Jitter
    BY DEF Precedes
  <2>1. a[c] \in Counters
    BY ReadingType
  <2>2. a[c].idle \in Nat
    BY <2>1, CPUAssumption DEF CPUAssumption, Counters, Count
  <2>3. a[c].epoch <= kernel[c].epoch /\ (a[c].epoch = kernel[c].epoch => a[c].idle <= kernel[c].idle)
    BY <1>4 DEF Covers
  <2> QED
    BY <1>1, <1>2, <2>2, <2>3, CPUAssumption DEF CPUAssumption
<1> QED
  BY <1>3, <1>4

(***************************************************************************)
(* Every step keeps the readings in the order in which they were taken.    *)
(***************************************************************************)
LEMMA ReadChronology ==
    ASSUME IInv, Chronology, NEW s \in Scrapes, Read(s)
    PROVE  Chronology'
<1>1. PICK lag \in [online -> {0, Jitter}] :
        snap' = [snap EXCEPT ![s] = [c \in online |->
                  [kernel[c] EXCEPT !.idle = IF @ >= lag[c] THEN @ - lag[c] ELSE 0]]]
  BY DEF Read
<1> DEFINE x == [c \in online |-> [kernel[c] EXCEPT !.idle = IF @ >= lag[c] THEN @ - lag[c] ELSE 0]]
<1>2. Covers(kernel, x) /\ \A a \in Readings : Covers(kernel, a) => Precedes(a, x)
  BY ReadIsLatest DEF IInv
<1>3. snap'[s] = x /\ \A t \in Scrapes \ {s} : snap'[t] = snap[t]
  BY <1>1 DEF IInv, TypeOK
<1> HIDE DEF x
<1>4. cpuStats \in Readings /\ \A t \in Scrapes : snap[t] \in Readings
  BY DEF IInv, TypeOK
<1>5. phase' = [phase EXCEPT ![s] = "read"] /\ order' = Append(order, s) /\ phase[s] = "idle"
      /\ UNCHANGED <<cpuStats, kernel, outrun>>
  BY DEF Read, env
<1>6. order \in Seq(Scrapes) /\ phase \in [Scrapes -> {"idle", "read", "updated"}]
  BY DEF IInv, TypeOK
<1>7. /\ Len(order) \in Nat /\ Len(order') = Len(order) + 1
      /\ order'[Len(order) + 1] = s
      /\ \A i \in 1 .. Len(order) : order'[i] = order[i] /\ order[i] \in Scrapes
  BY <1>5, <1>6
<1>8. \A i \in 1 .. Len(order) : order[i] # s
  BY <1>5 DEF Chronology, Listed
<1>9. \A i \in 1 .. Len(order') : i \in 1 .. Len(order) \/ i = Len(order) + 1
  BY <1>7
<1>10. Listed'
  <2>1. \A i, j \in 1 .. Len(order') : order'[i] = order'[j] => i = j
    BY <1>7, <1>8, <1>9 DEF Chronology, Listed
  <2>2. ASSUME NEW t \in Scrapes, phase'[t] = "read"
        PROVE  \E i \in 1 .. Len(order') : order'[i] = t
    <3>1. CASE t = s
      BY <1>7, <3>1
    <3>2. CASE t # s
      <4>1. PICK i \in 1 .. Len(order) : order[i] = t
        BY <1>5, <1>6, <2>2, <3>2 DEF Chronology, Listed
      <4>2. i \in 1 .. Len(order')
        BY <1>7
      <4> QED
        BY <1>7, <4>1, <4>2
    <3> QED
      BY <3>1, <3>2
  <2>3. ASSUME NEW i \in 1 .. Len(order') PROVE phase'[order'[i]] = "read"
    <3>1. CASE i \in 1 .. Len(order)
      <4>1. phase[order[i]] = "read"
        BY <1>7, <3>1 DEF Chronology, Listed
      <4> QED
        BY <1>5, <1>6, <1>7, <3>1, <4>1
    <3>2. CASE i = Len(order) + 1
      BY <1>5, <1>6, <1>7, <3>2
    <3> QED
      BY <1>9, <3>1, <3>2
  <2> QED
    BY <2>1, <2>2, <2>3 DEF Listed
<1>11. InKernel'
  BY <1>2, <1>3, <1>5 DEF InKernel, Chronology
<1>12. InOrder'
  <2> SUFFICES ASSUME NEW i \in 1 .. Len(order'), NEW j \in 1 .. Len(order'), i < j
               PROVE  Precedes(snap'[order'[i]], snap'[order'[j]])
    BY DEF InOrder
  <2>1. i \in 1 .. Len(order) /\ order'[i] = order[i] /\ order[i] # s
    BY <1>7, <1>8, <1>9
  <2>2. CASE j \in 1 .. Len(order)
    BY <1>3, <1>7, <1>8, <2>1, <2>2 DEF InOrder, Chronology
  <2>3. CASE j = Len(order) + 1
    BY <1>2, <1>3, <1>4, <1>7, <2>1, <2>3 DEF InKernel, Chronology
  <2> QED
    BY <1>9, <2>2, <2>3
<1>13. Behind'
  <2> SUFFICES ASSUME NEW t \in Scrapes \ outrun, phase'[t] = "read"
               PROVE  Precedes(cpuStats, snap'[t])
    BY <1>5 DEF Behind
  <2>1. CASE t = s
    BY <1>2, <1>3, <1>4, <2>1 DEF InKernel, Chronology
  <2>2. CASE t # s
    BY <1>3, <1>5, <1>6, <2>2 DEF Behind, Chronology
  <2> QED
    BY <2>1, <2>2
<1> QED
  BY <1>10, <1>11, <1>12, <1>13 DEF Chronology

LEMMA UpdateChronology ==
    ASSUME IInv, Chronology, NEW s \in Scrapes, UpdateCPUStats(s)
    PROVE  Chronology'
<1>1. PICK k \in 1 .. Len(order) :
        /\ order[k] = s
        /\ order' = SubSeq(order, 1, k - 1) \o SubSeq(order, k + 1, Len(order))
        /\ outrun' = (outrun \cup {order[j] : j \in 1 .. k - 1}) \ {s}
  BY DEF UpdateCPUStats
<1>2. order \in Seq(Scrapes) /\ phase \in [Scrapes -> {"idle", "read", "updated"}]
      /\ Len(order) \in Nat /\ snap \in [Scrapes -> Readings] /\ cpuStats \in Readings
  BY DEF IInv, TypeOK
<1>3. /\ Len(order') = Len(order) - 1
      /\ \A i \in 1 .. Len(order) - 1 : order'[i] = IF i < k THEN order[i] ELSE order[i + 1]
  BY <1>1, <1>2, RemoveAt
<1> DEFINE at(i) == IF i < k THEN i ELSE i + 1
<1>4. \A i \in 1 .. Len(order') : at(i) \in 1 .. Len(order) /\ at(i) # k
  BY <1>2, <1>3
<1>5. \A i, j \in 1 .. Len(order') : (i < j => at(i) < at(j)) /\ (at(i) = at(j) => i = j)
  BY <1>2, <1>3
<1>6. \A i \in 1 .. Len(order') : order'[i] = order[at(i)] /\ order[at(i)] \in Scrapes
  BY <1>2, <1>3, <1>4
<1>7. \A j \in 1 .. Len(order) : j # k => \E i \in 1 .. Len(order') : at(i) = j
  <2> SUFFICES ASSUME NEW j \in 1 .. Len(order), j # k
               PROVE  \E i \in 1 .. Len(order') : at(i) = j
    OBVIOUS
  <2>1. CASE j < k
    <3>1. j \in 1 .. Len(order') /\ at(j) = j
      BY <1>2, <1>3, <2>1
    <3> QED
      BY <3>1
  <2>2. CASE j > k
    <3>1. j - 1 \in 1 .. Len(order') /\ at(j - 1) = j
      BY <1>2, <1>3, <2>2
    <3> QED
      BY <3>1
  <2> QED
    BY <1>2, <2>1, <2>2
<1> HIDE DEF at
<1>8. \A i \in 1 .. Len(order') : order[at(i)] # s
  BY <1>1, <1>4 DEF Chronology, Listed
<1>9. /\ cpuStats' = Updated(cpuStats, snap[s])
      /\ phase' = [phase EXCEPT ![s] = "updated"] /\ phase[s] = "read"
      /\ snap' = [snap EXCEPT ![s] = Empty] /\ kernel' = kernel
  BY DEF UpdateCPUStats, env
<1>10. Listed'
  <2>1. \A i, j \in 1 .. Len(order') : order'[i] = order'[j] => i = j
    BY <1>4, <1>5, <1>6 DEF Chronology, Listed
  <2>2. ASSUME NEW t \in Scrapes, phase'[t] = "read"
        PROVE  \E i \in 1 .. Len(order') : order'[i] = t
    <3>1. t # s /\ phase[t] = "read"
      BY <1>2, <1>9, <2>2
    <3>2. PICK j \in 1 .. Len(order) : order[j] = t
      BY <3>1 DEF Chronology, Listed
    <3>3. PICK i \in 1 .. Len(order') : at(i) = j
      BY <1>1, <1>7, <3>1, <3>2
    <3> QED
      BY <1>6, <3>2, <3>3
  <2>3. ASSUME NEW i \in 1 .. Len(order') PROVE phase'[order'[i]] = "read"
    <3>1. phase[order[at(i)]] = "read"
      BY <1>4, <1>6 DEF Chronology, Listed
    <3> QED
      BY <1>2, <1>6, <1>8, <1>9, <3>1
  <2> QED
    BY <2>1, <2>2, <2>3 DEF Listed
<1>11. InKernel'
  <2>1. Covers(kernel, Updated(cpuStats, snap[s]))
    BY <1>2, UpdatedInKernel DEF Chronology, InKernel
  <2>2. Covers(kernel, Empty)
    BY EmptyType DEF Covers
  <2> QED
    BY <1>2, <1>9, <2>1, <2>2 DEF Chronology, InKernel
<1>12. InOrder'
  BY <1>2, <1>4, <1>5, <1>6, <1>8, <1>9 DEF Chronology, InOrder
<1>13. Behind'
  <2> SUFFICES ASSUME NEW t \in Scrapes \ outrun', phase'[t] = "read"
               PROVE  Precedes(cpuStats', snap'[t])
    BY DEF Behind
  <2>1. t # s /\ phase[t] = "read" /\ snap'[t] = snap[t]
    BY <1>2, <1>9
  <2>2. t \notin outrun
    BY <1>1, <2>1
  <2>3. Precedes(cpuStats, snap[t])
    BY <2>1, <2>2 DEF Chronology, Behind
  <2>4. PICK j \in 1 .. Len(order) : order[j] = t
    BY <2>1 DEF Chronology, Listed
  <2>5. j \notin 1 .. k - 1 /\ j # k
    BY <1>1, <2>1, <2>4
  <2>6. k < j
    BY <1>2, <2>5
  <2>7. Precedes(snap[s], snap[t])
    BY <1>1, <2>4, <2>6 DEF Chronology, InOrder
  <2> QED
    BY <1>2, <1>9, <2>1, <2>3, <2>7, UpdatedPrecedes
<1> QED
  BY <1>10, <1>11, <1>12, <1>13 DEF Chronology

LEMMA NextChronology ==
    ASSUME IInv, IInv', Chronology, [Next]_vars
    PROVE  Chronology'
<1>1. ASSUME NEW s \in Scrapes, Read(s) PROVE Chronology'
  BY <1>1, ReadChronology
<1>2. ASSUME NEW s \in Scrapes, UpdateCPUStats(s) PROVE Chronology'
  BY <1>2, UpdateChronology
<1>3. ASSUME UNCHANGED <<cpuStats, phase, snap, order, outrun>>, Grown(kernel, kernel')
      PROVE  Chronology'
  <2>1. /\ kernel \in [CPUs -> Counters] /\ kernel' \in [CPUs -> Counters]
        /\ cpuStats \in Readings /\ snap \in [Scrapes -> Readings]
    BY DEF IInv, TypeOK
  <2>2. Covers(kernel', cpuStats) /\ \A s \in Scrapes : Covers(kernel', snap[s])
    BY <1>3, <2>1, StillCovered DEF Chronology, InKernel
  <2> QED
    BY <1>3, <2>2 DEF Chronology, Listed, InKernel, InOrder, Behind
<1>4. ASSUME NEW c \in CPUs, Tick(c) \/ Offline(c) \/ Online(c) PROVE Chronology'
  <2>1. Next
    BY <1>4 DEF Next
  <2> QED
    BY <1>3, <1>4, <2>1, KernelGrows DEF Tick, Offline, Online
<1>5. ASSUME NEW s \in Scrapes, Emit(s) PROVE Chronology'
  <2>1. UNCHANGED <<cpuStats, snap, kernel, order, outrun>>
    BY <1>5 DEF Emit, env
  <2>2. \A t \in Scrapes : phase'[t] = "read" <=> phase[t] = "read"
    BY <1>5 DEF Emit, IInv, TypeOK
  <2> QED
    BY <2>1, <2>2 DEF Chronology, Listed, InKernel, InOrder, Behind
<1>6. CASE UNCHANGED vars
  BY <1>6 DEF vars, Chronology, Listed, InKernel, InOrder, Behind
<1> QED
  BY <1>1, <1>2, <1>4, <1>5, <1>6 DEF Next, ReadFails

LEMMA InitChronology == Init => Chronology
<1> SUFFICES ASSUME Init PROVE Chronology
  OBVIOUS
<1>1. Len(order) = 0 /\ 1 .. 0 = {}
  BY DEF Init
<1>2. \A k : Covers(k, Empty)
  BY EmptyType DEF Covers
<1>3. InKernel
  BY <1>2 DEF Init, InKernel
<1>4. \A s \in Scrapes : phase[s] # "read"
  BY DEF Init
<1> QED
  BY <1>1, <1>3, <1>4 DEF Chronology, Listed, InOrder, Behind

(***************************************************************************)
(* Readings are merged in the order they were taken, but for those that    *)
(* outrun records.                                                         *)
(***************************************************************************)
THEOREM InChronology == Spec => []Chronology
<1>1. IInv /\ IInv' /\ Chronology /\ [Next]_vars => Chronology'
  BY NextChronology
<1> QED
  BY InitChronology, Inductive, <1>1, PTL DEF Spec

(***************************************************************************)
(* A counter falls only where the reading lies JumpBack or more behind the *)
(* cached idle time, and then it is of another life or was overtaken.      *)
(***************************************************************************)
LEMMA StepFallsForCause ==
    ASSUME Jitter < JumpBack, IInv, Chronology, Next, NEW c \in CPUs, Falls(c)
    PROVE  \/ cpuStats'[c].epoch # cpuStats[c].epoch
           \/ \E s \in outrun : phase[s] = "read" /\ phase'[s] = "updated"
<1>1. PICK s \in Scrapes :
        /\ UpdateCPUStats(s)
        /\ c \in DOMAIN cpuStats \cap DOMAIN snap[s]
        /\ JumpedBack(cpuStats[c], snap[s][c])
        /\ cpuStats'[c] = snap[s][c]
  BY StepFalls
<1>2. /\ cpuStats \in Readings /\ snap[s] \in Readings
      /\ phase[s] = "read" /\ phase'[s] = "updated"
  BY <1>1 DEF IInv, TypeOK, UpdateCPUStats
<1>3. SUFFICES ASSUME s \notin outrun, snap[s][c].epoch = cpuStats[c].epoch
               PROVE  FALSE
  BY <1>1, <1>2
<1>4. cpuStats[c].idle <= snap[s][c].idle + Jitter
  BY <1>1, <1>2, <1>3 DEF Chronology, Behind, Precedes
<1>5. cpuStats[c] \in Counters /\ snap[s][c] \in Counters
  BY <1>1, <1>2, ReadingType
<1>6. cpuStats[c].idle \in Nat /\ snap[s][c].idle \in Nat
  BY <1>5, CPUAssumption DEF CPUAssumption, Counters, Count
<1>7. cpuStats[c].idle >= snap[s][c].idle + JumpBack
  BY <1>1 DEF JumpedBack
<1> QED
  BY <1>4, <1>6, <1>7, CPUAssumption DEF CPUAssumption

(***************************************************************************)
(* If idle readings fall back by less than JumpBack, an exposed counter    *)
(* falls only because the CPU came online again or a scrape was overtaken. *)
(***************************************************************************)
THEOREM FallsHaveCauses == ASSUME Jitter < JumpBack PROVE Spec => NoSpuriousReset
<1>1. IInv /\ Chronology /\ [Next]_vars
        => [\A c \in CPUs : Falls(c) =>
              \/ cpuStats'[c].epoch # cpuStats[c].epoch
              \/ \E s \in outrun : phase[s] = "read" /\ phase'[s] = "updated"]_vars
  BY StepFallsForCause
<1> QED
  BY Inductive, InChronology, <1>1, PTL DEF Spec, NoSpuriousReset
=============================================================================
