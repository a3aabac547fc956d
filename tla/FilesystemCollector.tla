----------------------- MODULE FilesystemCollector -----------------------
(***************************************************************************)
(* The filesystem collector of src/src/metrics/collector/                  *)
(* filesystem_linux.go and filesystem_common.go.                           *)
(*                                                                         *)
(* One GetStats call runs four kinds of goroutine: the caller, which       *)
(* drains statChan ("main"); the dispatcher, which walks the mount table;  *)
(* stat workers, which call statfs; and one stuckMountWatcher per statfs   *)
(* call.  GetStats calls of different HTTP requests run at the same time   *)
(* and share stuckMounts and its mutex.                                    *)
(*                                                                         *)
(* Workers are anonymous: a line of the mount table that a worker has      *)
(* taken and not yet handed over occupies one.  Every critical section is  *)
(* one action except the dispatcher's, whose append to the slice `stats`   *)
(* races with main's: there both appends are a load and a store.           *)
(***************************************************************************)
EXTENDS Naturals, Sequences, FiniteSets

CONSTANTS
    Scrapes,              \* slots for concurrent GetStats calls
    Nobody,               \* no slot: holder of the free mutex
    Labels,               \* filesystemLabels that a mount table may list
    MountTables,          \* contents /proc/1/mounts or /proc/mounts may have
    MaxLines,             \* bound on the length of a mount table
    ExcludedMountPoints,  \* mount points excludedMountPointsPattern matches
    ExcludedFSTypes,      \* types excludedFSTypesPattern matches
    StatWorkers,          \* statWorkerCount
    Flaky                 \* mount points whose statfs may be slow, hang or
                          \* fail; the others answer within mountTimeout

ASSUME FSAssumption ==
    /\ Nobody \notin Scrapes
    /\ MaxLines \in Nat \ {0}
    /\ StatWorkers \in Nat
    /\ MountTables \subseteq Seq(Labels)
    /\ \A t \in MountTables : Len(t) <= MaxLines

VARIABLES
    main,      \* the goroutine that called GetStats
    disp,      \* the dispatcher goroutine
    pos,       \* the line the dispatcher is at
    mps,       \* the mount table read by this call
    job,       \* what became of each line
    result,    \* what statfs answered for each line
    watcher,   \* the stuckMountWatcher of each line
    stats,     \* the slice main and the dispatcher both append to
    loadedM,   \* main's copy of `stats` between the load and the store
    loadedD,   \* the dispatcher's copy
    incoming,  \* the element main has just received from statChan
    holder,    \* who holds stuckMountsMtx across steps
    stuck,     \* stuckMounts
    hung       \* environment: mount points not answering statfs now

vars == <<main, disp, pos, mps, job, result, watcher, stats, loadedM, loadedD,
          incoming, holder, stuck, hung>>
call == <<main, disp, pos, mps, job, result, watcher>>
data == <<stats, loadedM, loadedD, incoming>>

Lines == 1 .. MaxLines
MountPoints == {l.mountPoint : l \in Labels}
Busy == {"statting", "returned", "finished"}
StatErrors == {"none", "statfs"}
Entries == [line : Lines, err : StatErrors \cup {"timeout"}]
NoEntry == [line |-> 1, err |-> "none"]

WorkersUnclamped == StatWorkers
Workers == IF StatWorkers < 1 THEN 1 ELSE StatWorkers
MP(s, i) == mps[s][i].mountPoint
\* The key of line i is in stuckMounts.
IsStuckNever(s, i) == FALSE
IsStuck(s, i) == MP(s, i) \in stuck
\* stuckMounts after a statfs on line i timed out.
MarkedByDevice(s, i) == stuck \cup {mps[s][i].device}
Marked(s, i) == stuck \cup {MP(s, i)}
\* stuckMounts after a statfs on line i came back.
KeptMarked(s, i) == stuck
Unmarked(s, i) == stuck \ {MP(s, i)}
\* close(success) happens at StatFinish; the watcher re-checks it.
SuccessUnseen(s, i) == FALSE
SuccessClosed(s, i) == job[s][i] \in {"finished", "sent"}

Watching(s, i) == watcher[s][i] \in {"waiting", "fired"}

Excluded(l) == l.mountPoint \in ExcludedMountPoints \/ l.fsType \in ExcludedFSTypes
-----------------------------------------------------------------------------
Init ==
    /\ main = [s \in Scrapes |-> "idle"]
    /\ disp = [s \in Scrapes |-> "off"]
    /\ pos = [s \in Scrapes |-> 1]
    /\ mps = [s \in Scrapes |-> <<>>]
    /\ job = [s \in Scrapes |-> [i \in Lines |-> "pending"]]
    /\ result = [s \in Scrapes |-> [i \in Lines |-> "none"]]
    /\ watcher = [s \in Scrapes |-> [i \in Lines |-> "off"]]
    /\ stats = [s \in Scrapes |-> <<>>]
    /\ loadedM = [s \in Scrapes |-> <<>>]
    /\ loadedD = [s \in Scrapes |-> <<>>]
    /\ incoming = [s \in Scrapes |-> NoEntry]
    /\ holder = Nobody
    /\ stuck = {}
    /\ hung = {}

(***************************************************************************)
(* mountPointDetails: opening /proc/1/mounts falls back to /proc/mounts    *)
(* only when the first does not exist; any other failure, and a malformed  *)
(* line in the file that was opened, is the call's error.                  *)
(***************************************************************************)
OpenResults == [kind : {"table"}, mps : MountTables]
                 \cup [kind : {"notExist", "failed", "malformed"}, mps : {<<>>}]

MountPointDetails(first, fallback) ==
    IF first.kind = "notExist" THEN fallback ELSE first

\* A slot is reused once its watchers are gone; a real call has fresh ones.
SlotFree(s) ==
    /\ main[s] = "idle"
    /\ \A i \in Lines : ~Watching(s, i)

\* Update is called and GetStats starts its dispatcher and workers.
Begin(s) ==
    /\ SlotFree(s)
    /\ \E first, fallback \in OpenResults :
         LET read == MountPointDetails(first, fallback) IN
         /\ read.kind = "table"
         /\ mps' = [mps EXCEPT ![s] = read.mps]
    /\ main' = [main EXCEPT ![s] = "recv"]
    /\ disp' = [disp EXCEPT ![s] = "scan"]
    /\ job' = [job EXCEPT ![s] = [i \in Lines |-> "pending"]]
    /\ watcher' = [watcher EXCEPT ![s] = [i \in Lines |-> "off"]]
    /\ UNCHANGED <<pos, result, stats, loadedM, loadedD, incoming, holder, stuck, hung>>

\* mountPointDetails fails: Update returns its error and changes nothing.
BeginFails(s) ==
    /\ SlotFree(s)
    /\ \E first, fallback \in OpenResults :
         MountPointDetails(first, fallback).kind # "table"
    /\ UNCHANGED vars
-----------------------------------------------------------------------------
AtLine(s) == disp[s] = "scan" /\ pos[s] <= Len(mps[s])

\* The line matches an exclusion pattern.
DispSkip(s) ==
    /\ AtLine(s)
    /\ Excluded(mps[s][pos[s]])
    /\ job' = [job EXCEPT ![s][pos[s]] = "skipped"]
    /\ pos' = [pos EXCEPT ![s] = @ + 1]
    /\ UNCHANGED <<main, disp, mps, result, watcher, data, holder, stuck, hung>>

\* stuckMountsMtx.Lock and the mount point is not stuck: unlock, then send.
DispCheck(s) ==
    /\ AtLine(s)
    /\ ~Excluded(mps[s][pos[s]])
    /\ holder = Nobody
    /\ ~IsStuck(s, pos[s])
    /\ disp' = [disp EXCEPT ![s] = "send"]
    /\ UNCHANGED <<main, pos, mps, job, result, watcher, data, holder, stuck, hung>>

\* The mount point is stuck: the append begins, with the mutex held.
DispListLoad(s) ==
    /\ AtLine(s)
    /\ ~Excluded(mps[s][pos[s]])
    /\ holder = Nobody
    /\ IsStuck(s, pos[s])
    /\ holder' = s
    /\ loadedD' = [loadedD EXCEPT ![s] = stats[s]]
    /\ disp' = [disp EXCEPT ![s] = "append"]
    /\ UNCHANGED <<main, pos, mps, job, result, watcher, stats, loadedM,
                   incoming, stuck, hung>>

(***************************************************************************)
(* What `stats = append(stats, x)` may leave behind when it loaded the     *)
(* slice `loaded` and the slice is `now` at the store.  Without a          *)
(* concurrent append it is loaded with x at its end.  Otherwise the other  *)
(* append's element at that index may be the one that stays, if both wrote *)
(* to the same backing array; the stored length forgets the rest.          *)
(***************************************************************************)
AppendOutcomes(loaded, now, x) ==
    {Append(loaded, x)} \cup
      IF Len(now) > Len(loaded) THEN {SubSeq(now, 1, Len(loaded) + 1)} ELSE {}

\* Mutant: the `continue` after the append is missing.
DispListStoreFallsThrough(s) ==
    /\ disp[s] = "append"
    /\ stats' = [stats EXCEPT ![s] =
                   Append(loadedD[s], [line |-> pos[s], err |-> "timeout"])]
    /\ disp' = [disp EXCEPT ![s] = "send"]
    /\ loadedD' = [loadedD EXCEPT ![s] = <<>>]
    /\ holder' = Nobody
    /\ UNCHANGED <<main, pos, mps, job, result, watcher, loadedM, incoming, stuck, hung>>

DispListStore(s) ==
    /\ disp[s] = "append"
    /\ \E new \in AppendOutcomes(loadedD[s], stats[s],
                                 [line |-> pos[s], err |-> "timeout"]) :
         stats' = [stats EXCEPT ![s] = new]
    /\ job' = [job EXCEPT ![s][pos[s]] = "listed"]
    /\ pos' = [pos EXCEPT ![s] = @ + 1]
    /\ disp' = [disp EXCEPT ![s] = "scan"]
    /\ loadedD' = [loadedD EXCEPT ![s] = <<>>]
    /\ holder' = Nobody
    /\ UNCHANGED <<main, mps, result, watcher, loadedM, incoming, stuck, hung>>

\* labelChan <- labels meets a free worker, which starts the watcher and statfs.
DispSend(s) ==
    /\ disp[s] = "send"
    /\ Cardinality({i \in Lines : job[s][i] \in Busy}) < Workers
    /\ job' = [job EXCEPT ![s][pos[s]] = "statting"]
    /\ watcher' = [watcher EXCEPT ![s][pos[s]] = "waiting"]
    /\ pos' = [pos EXCEPT ![s] = @ + 1]
    /\ disp' = [disp EXCEPT ![s] = "scan"]
    /\ UNCHANGED <<main, mps, result, data, holder, stuck, hung>>

\* close(labelChan)
DispCloseLabels(s) ==
    /\ disp[s] = "scan"
    /\ pos[s] > Len(mps[s])
    /\ disp' = [disp EXCEPT ![s] = "wait"]
    /\ UNCHANGED <<main, pos, mps, job, result, watcher, data, holder, stuck, hung>>

\* wg.Wait returns once every worker has handed over its last result.
WorkersNotStatting(s) == \A i \in Lines : job[s][i] \notin {"statting", "returned"}
WorkersDone(s) == \A i \in Lines : job[s][i] \notin Busy

DispCloseStats(s) ==
    /\ disp[s] = "wait"
    /\ WorkersDone(s)
    /\ disp' = [disp EXCEPT ![s] = "closed"]
    /\ UNCHANGED <<main, pos, mps, job, result, watcher, data, holder, stuck, hung>>
-----------------------------------------------------------------------------
\* The statfs system call returns.
StatReturn(s, i) ==
    /\ job[s][i] = "statting"
    /\ MP(s, i) \notin hung
    /\ \E e \in IF MP(s, i) \in Flaky THEN StatErrors ELSE {"none"} :
         result' = [result EXCEPT ![s][i] = e]
    /\ job' = [job EXCEPT ![s][i] = "returned"]
    /\ UNCHANGED <<main, disp, pos, mps, watcher, data, holder, stuck, hung>>

\* Under the mutex: close(success), and unmark the mount point.
StatFinish(s, i) ==
    /\ job[s][i] = "returned"
    /\ holder = Nobody
    /\ job' = [job EXCEPT ![s][i] = "finished"]
    /\ stuck' = Unmarked(s, i)
    /\ UNCHANGED <<main, disp, pos, mps, result, watcher, data, holder, hung>>

\* The watcher's select takes the success case.
WatcherSuccess(s, i) ==
    /\ watcher[s][i] = "waiting"
    /\ SuccessClosed(s, i)
    /\ watcher' = [watcher EXCEPT ![s][i] = "off"]
    /\ UNCHANGED <<main, disp, pos, mps, job, result, data, holder, stuck, hung>>

\* The watcher's select takes the timer case; both may be ready.
WatcherTimer(s, i) ==
    /\ watcher[s][i] = "waiting"
    /\ MP(s, i) \in Flaky
    /\ watcher' = [watcher EXCEPT ![s][i] = "fired"]
    /\ UNCHANGED <<main, disp, pos, mps, job, result, data, holder, stuck, hung>>

\* Under the mutex the watcher looks at success again before it marks.
WatcherLock(s, i) ==
    /\ watcher[s][i] = "fired"
    /\ holder = Nobody
    /\ IF SuccessClosed(s, i)
         THEN /\ watcher' = [watcher EXCEPT ![s][i] = "off"]
              /\ UNCHANGED stuck
         ELSE /\ watcher' = [watcher EXCEPT ![s][i] = "marked"]
              /\ stuck' = Marked(s, i)
    /\ UNCHANGED <<main, disp, pos, mps, job, result, data, holder, hung>>
-----------------------------------------------------------------------------
\* for stat := range statChan: receive, and the append's load.
MainRecv(s, i) ==
    /\ main[s] = "recv"
    /\ job[s][i] = "finished"
    /\ job' = [job EXCEPT ![s][i] = "sent"]
    /\ incoming' = [incoming EXCEPT ![s] = [line |-> i, err |-> result[s][i]]]
    /\ loadedM' = [loadedM EXCEPT ![s] = stats[s]]
    /\ main' = [main EXCEPT ![s] = "append"]
    /\ UNCHANGED <<disp, pos, mps, result, watcher, stats, loadedD,
                   holder, stuck, hung>>

MainStore(s) ==
    /\ main[s] = "append"
    /\ \E new \in AppendOutcomes(loadedM[s], stats[s], incoming[s]) :
         stats' = [stats EXCEPT ![s] = new]
    /\ loadedM' = [loadedM EXCEPT ![s] = <<>>]
    /\ incoming' = [incoming EXCEPT ![s] = NoEntry]
    /\ main' = [main EXCEPT ![s] = "recv"]
    /\ UNCHANGED <<disp, pos, mps, job, result, watcher, loadedD,
                   holder, stuck, hung>>

(***************************************************************************)
(* Update: `seen` is keyed by the whole filesystemLabels value, options    *)
(* and deviceError included; a series carries the labels without options.  *)
(* device_error and readonly stand for one series each; the five sizes,    *)
(* sent together and only without an error, for one ("sizes").             *)
(***************************************************************************)
SeenKeyPerLine(table, e) == e
SeenKey(table, e) == <<table[e.line], e.err>>

FirstSeen(table, st) ==
    {k \in 1 .. Len(st) : \A j \in 1 .. k - 1 : SeenKey(table, st[j]) # SeenKey(table, st[k])}

\* What is sent for which entry of `stats`, and the series it belongs to.
Exposure(table, st) ==
    {m \in [entry : FirstSeen(table, st), name : {"device_error", "readonly", "sizes"}] :
       m.name = "sizes" => st[m.entry].err = "none"}

Series(table, st, m) ==
    LET l == table[st[m.entry].line] IN
    [name |-> m.name, device |-> l.device, mountPoint |-> l.mountPoint,
     fsType |-> l.fsType, deviceError |-> st[m.entry].err]

\* statChan is closed and drained: GetStats returns and Update sends the series.
Returning(s) == main[s] = "recv" /\ disp[s] = "closed"
Exposed(s) == Exposure(mps[s], stats[s])
SeriesOf(s, m) == Series(mps[s], stats[s], m)

\* The locals go out of scope; watchers and their closed channels may outlive them.
MainReturn(s) ==
    /\ Returning(s)
    /\ main' = [main EXCEPT ![s] = "idle"]
    /\ disp' = [disp EXCEPT ![s] = "off"]
    /\ pos' = [pos EXCEPT ![s] = 1]
    /\ job' = [job EXCEPT ![s] = [i \in Lines |->
                 IF Watching(s, i) THEN @[i] ELSE "pending"]]
    /\ watcher' = [watcher EXCEPT ![s] = [i \in Lines |->
                     IF Watching(s, i) THEN @[i] ELSE "off"]]
    /\ result' = [result EXCEPT ![s] = [i \in Lines |-> "none"]]
    /\ stats' = [stats EXCEPT ![s] = <<>>]
    /\ UNCHANGED <<mps, loadedM, loadedD, incoming, holder, stuck, hung>>
-----------------------------------------------------------------------------
\* Environment: a mount point stops answering statfs, or answers again.
Hang(m) ==
    /\ m \notin hung
    /\ hung' = hung \cup {m}
    /\ UNCHANGED <<call, data, holder, stuck>>

Recover(m) ==
    /\ m \in hung
    /\ hung' = hung \ {m}
    /\ UNCHANGED <<call, data, holder, stuck>>

Dispatcher(s) ==
    \/ DispSkip(s)
    \/ DispCheck(s)
    \/ DispListLoad(s)
    \/ DispListStore(s)
    \/ DispSend(s)
    \/ DispCloseLabels(s)
    \/ DispCloseStats(s)

Next ==
    \/ \E s \in Scrapes :
         \/ Begin(s)
         \/ BeginFails(s)
         \/ Dispatcher(s)
         \/ MainStore(s)
         \/ MainReturn(s)
         \/ \E i \in Lines :
              \/ StatReturn(s, i)
              \/ StatFinish(s, i)
              \/ WatcherSuccess(s, i)
              \/ WatcherTimer(s, i)
              \/ WatcherLock(s, i)
              \/ MainRecv(s, i)
    \/ \E m \in Flaky : Hang(m) \/ Recover(m)

Spec == Init /\ [][Next]_vars

(***************************************************************************)
(* Fairness.  The Go scheduler runs every runnable goroutine, timers fire  *)
(* and statfs on an answering mount returns: weak fairness.  A             *)
(* sync.Mutex in starvation mode hands over to the longest waiter: strong  *)
(* fairness of the actions that lock.  For the lines of a call together:   *)
(* each makes each of its steps once.  Nothing makes anyone scrape again   *)
(* (Begin), a mount hang or recover.                                       *)
(***************************************************************************)
Fairness ==
    \A s \in Scrapes :
        /\ WF_vars(DispSkip(s) \/ DispListStore(s) \/ DispSend(s)
                    \/ DispCloseLabels(s) \/ DispCloseStats(s))
        /\ SF_vars(DispCheck(s) \/ DispListLoad(s))
        /\ WF_vars(MainStore(s) \/ MainReturn(s) \/ \E i \in Lines : MainRecv(s, i))
        /\ WF_vars(\E i \in Lines : StatReturn(s, i))
        /\ SF_vars(\E i \in Lines : StatFinish(s, i))
        /\ WF_vars(\E i \in Lines : WatcherSuccess(s, i) \/ WatcherTimer(s, i))
        /\ SF_vars(\E i \in Lines : WatcherLock(s, i))

FairSpec == Spec /\ Fairness
-----------------------------------------------------------------------------
(***************************************************************************)
(* Type invariant: every variable of the module has its type.              *)
(***************************************************************************)
TypeOK ==
    /\ main \in [Scrapes -> {"idle", "recv", "append"}]
    /\ disp \in [Scrapes -> {"off", "scan", "append", "send", "wait", "closed"}]
    /\ pos \in [Scrapes -> 1 .. MaxLines + 1]
    /\ mps \in [Scrapes -> MountTables \cup {<<>>}]
    /\ job \in [Scrapes -> [Lines -> {"pending", "skipped", "listed", "statting",
                                      "returned", "finished", "sent"}]]
    /\ result \in [Scrapes -> [Lines -> StatErrors]]
    /\ watcher \in [Scrapes -> [Lines -> {"off", "waiting", "fired", "marked"}]]
    /\ stats \in [Scrapes -> Seq(Entries)]
    /\ loadedM \in [Scrapes -> Seq(Entries)]
    /\ loadedD \in [Scrapes -> Seq(Entries)]
    /\ incoming \in [Scrapes -> Entries]
    /\ holder \in Scrapes \cup {Nobody}
    /\ stuck \subseteq MountPoints
    /\ hung \subseteq Flaky

(***************************************************************************)
(* A mount point is in stuckMounts only while a statfs call on it that its *)
(* watcher timed out has not been dealt with: nothing is left marked after *)
(* every call on it has come back, so monitoring always can resume         *)
(* (filesystem_linux.go:128-136 against 174-180).                          *)
(***************************************************************************)
StuckOutstanding ==
    \A m \in stuck : \E s \in Scrapes, i \in Lines :
        /\ job[s][i] \in {"statting", "returned"}
        /\ watcher[s][i] = "marked"
        /\ MP(s, i) = m

\* The lines `stats` of slot s reports.
Reported(s) == [k \in 1 .. Len(stats[s]) |-> stats[s][k].line]

(***************************************************************************)
(* No line of the mount table enters `stats` twice, whichever goroutine    *)
(* appends it, so a line is either timed out or measured                   *)
(* (filesystem_linux.go:90-103, 110-112).                                  *)
(***************************************************************************)
NoLineTwice ==
    \A s \in Scrapes : \A j, k \in 1 .. Len(stats[s]) :
        Reported(s)[j] = Reported(s)[k] => j = k

Included(s) == {i \in 1 .. Len(mps[s]) : ~Excluded(mps[s][i])}
\* The same mount reported under the same labels but for the options.
SameSeries(a, b) ==
    <<a.device, a.mountPoint, a.fsType>> = <<b.device, b.mountPoint, b.fsType>>

(***************************************************************************)
(* A GetStats call that found no mount stuck reports every included line:  *)
(* the workers' results all reach `stats` before statChan is closed        *)
(* (filesystem_linux.go:105-113).                                          *)
(***************************************************************************)
CompleteWithoutStuck ==
    \A s \in Scrapes :
        Returning(s) /\ (\A i \in Lines : job[s][i] # "listed")
            => Included(s) = {Reported(s)[k] : k \in 1 .. Len(stats[s])}

(***************************************************************************)
(* Update sends no series twice, so Gather does not reject the scrape,     *)
(* unless the table lists one mount with two sets of options               *)
(* (filesystem_common.go:169-175).                                         *)
(***************************************************************************)
SeriesUnique ==
    \A s \in Scrapes :
        Returning(s)
          /\ (\A i, j \in Included(s) : SameSeries(mps[s][i], mps[s][j])
                                          => mps[s][i] = mps[s][j])
        => \A m, n \in Exposed(s) : SeriesOf(s, m) = SeriesOf(s, n) => m = n

(***************************************************************************)
(* What filesystem_common.go:169 says without condition: "Make sure we     *)
(* expose a metric once, even if there are multiple mounts".               *)
(***************************************************************************)
ExposedOnce ==
    \A s \in Scrapes : Returning(s) =>
        \A m, n \in Exposed(s) : SeriesOf(s, m) = SeriesOf(s, n) => m = n

(***************************************************************************)
(* What GetStats, "returns filesystem stats" (filesystem_linux.go:53), and *)
(* the help of device_error, "Whether an error occurred while getting      *)
(* statistics for the given device" (filesystem_common.go:146), promise:   *)
(* every included line is reported, stuck mounts or not.                   *)
(***************************************************************************)
EveryMountReported ==
    \A s \in Scrapes :
        Returning(s) => Included(s) = {Reported(s)[k] : k \in 1 .. Len(stats[s])}

JustBegun(s) == main[s] = "recv" /\ disp[s] = "scan" /\ pos[s] = 1

(***************************************************************************)
(* The purpose of stuckMounts: a scrape that begins when every hung mount  *)
(* is marked returns, although nothing recovers, unless the set of hung    *)
(* mounts changes or a late statfs unmarks one (filesystem_linux.go:89-103).*)
(***************************************************************************)
HungMountsSkipped ==
    \A s \in Scrapes, h \in SUBSET Flaky :
        (JustBegun(s) /\ hung = h /\ h \subseteq stuck)
            ~> (main[s] = "idle" \/ hung # h \/ ~(h \subseteq stuck))

(***************************************************************************)
(* A stuck mount that answers again is unmarked, unless it stops answering *)
(* once more (filesystem_linux.go:131-135).                                *)
(***************************************************************************)
StuckMountResumes ==
    \A m \in Flaky :
        (m \in stuck /\ m \notin hung) ~> (m \notin stuck \/ m \in hung)

(***************************************************************************)
(* If from some time on every mount answers, every scrape returns: main,   *)
(* the dispatcher and the workers never wait for each other in a circle,   *)
(* for any number of workers, 0 included (filesystem_linux.go:64-113).     *)
(***************************************************************************)
ScrapeReturns ==
    <>[](hung = {}) => \A s \in Scrapes : main[s] # "idle" ~> main[s] = "idle"
=============================================================================
