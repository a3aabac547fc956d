# A TLA+ model of infra-pulse

infra-pulse is a Go service that exposes host metrics over HTTP: a `/metrics`
endpoint, served by a set of collectors derived from the Prometheus
node_exporter, and a library that inventories the host's processes and the
ports they listen on.  This directory holds TLA+ modules of the parts whose
behaviour depends on interleavings, on the order of events or on failures, and
a catalogue of every Linux collector's `Update`; TLC configurations that check
them on small instances; and theorems about every part, proved with TLAPS for
all values of their constants.  Of the catalogue TLC checks a discipline, once
and without running anything; that an `Update` that keeps it sends what it
should, and panics at the named unchecked accesses only, is proved for loops of any length.

All paths below are relative to the repository root; `collector/` stands for
`src/metrics/collector/`.

## 1. Inventory

| Part | State it keeps | Operations | What is hard about it |
|---|---|---|---|
| Scrape path: `src/metrics/node_export.go`, `collector/collector.go` | per request: a WaitGroup, one goroutine per collector, a metrics channel; process-wide: requests in flight | `Handler.Metrics`, `NodeCollector.Collect`, `execute` | every request runs every collector in its own goroutine, on the same collector instances; a hung or panicking `Update` |
| Collector registry: `collector/collector.go` | `factories`, `collectorState`, `forcedCollectors`, `initiatedCollectors` | `registerCollector`, `DisableDefaultCollectors`, `NewNodeCollector` | a factory that fails part-way; a map read outside the mutex |
| Filesystem collector: `collector/filesystem_{common,linux}.go` | `stuckMounts` with its mutex, shared by all scrapes; per call: a slice, two channels, a WaitGroup | `Update`, `GetStats`, `processStat`, `stuckMountWatcher` | five kinds of goroutine, timeouts that race late answers, hung system calls, two unsynchronised appends |
| CPU collector: `collector/cpu_linux.go` | `cpuStats`, a cache that makes counters monotonic | `updateStat`, `updateCPUStats`, and stateless `updateInfo`, `updateThermalThrottle`, `updateIsolated` | readings merged in another order than they were read; hotplug |
| OS release collector: `collector/os_release.go` | the parsed file, keyed by name and mtime | `UpdateStruct`, `Update` | check and refill are two critical sections; readers take no lock; a parse that fails after the key was written |
| Maps of metric descriptors: `collector/netdev_common.go`, `collector/ethtool_linux.go`, `collector/netclass_linux.go`, `collector/meminfo_numa_linux.go`, `collector/zoneinfo_linux.go` | one map per collector, shared by all scrapes; netdev and ethtool have a mutex for it, the others none | lookup, and insertion when missing | overlapping scrapes fill one map |
| Textfile collector: `collector/textfile.go` | nothing between scrapes; per call: the help text of each metric, the mtimes, the error flag | `Update`, `processFile`, `convertMetricFamily` | the order of files decides which help text is kept |
| Systemd collector: `collector/systemd_linux.go` | nothing between scrapes; per call: up to five goroutines on one D-Bus connection | `Update` | order of deferred calls; a captured variable written by all of them |
| NTP collector: `collector/ntp.go` | `leapMidnight` with its mutex, shared by all scrapes | `Update` | a cached flag that widens a tolerance; replies judged out of order |
| The other collectors on Linux: `collector/*_linux.go`, `collector/*_common.go`, runit, supervisord | nothing but the above | `Update` | which failure is an error, "no data" or a skipped item; what was sent by then; labels that are not unique; results used after a read that failed |
| Netstat utility and host inventory: `src/utils/netstat`, `src/vm` | nothing | `doNetstat`, `extractProcInfo`, `GetProcessesState`, ... | several snapshots of `/proc` joined while processes come and go |
| HTTP server, routes, command line, models, version | configuration only | start-up | none; the listener ends the process on error |

How they interact: `main` builds one `Handler` (`src/server/router/v1/metrics.go`,
limit 40), which builds one `NodeCollector` from the registry.  Each HTTP
request makes the Prometheus registry call `Collect`, which starts a goroutine
per collector; each calls `Update` of the shared collector instance, which
sends samples on the request's channel.  So all collectors of a request run
concurrently, and so do the same collector's `Update`s of two requests: every
state that outlives a scrape is shared memory.  Collectors do not call each
other.

What makes each part correct:

* scrape path: nothing is sent on a closed channel, every request that is
  answered carries one verdict per collector, one request's hang does not hold
  up another;
* registry: all requests use one instance of each collector, and a call returns
  what its filters ask for, whatever failed before;
* filesystem: a mount is treated as stuck only while a `statfs` on it has not
  come back, hung mounts are skipped, recovered mounts come back, each mounted
  filesystem is reported, and once;
* CPU: an exposed counter falls only when the CPU's counters restarted; offline
  CPUs disappear;
* inventory: no socket is listed under a process that did not hold it, none that
  is held throughout is missed;
* OS release: what is exposed is one file's content, and the current one;
* textfile: a metric has one help text, and a dropped family is reported;
* NTP: near an announced leap second, and only there, the wider tolerance holds;
* systemd: no goroutine outlives the connection or the scrape's channel;
* every `Update`: only values that were read are sent, no name and labels
  twice, nothing by a call that fails, and no panic.

## 2. Modules

| Module | Models |
|---|---|
| `NodeCollector` | one goroutine per request and collector, from admission to the answer |
| `ScrapeService` | the abstract service `NodeCollector` implements |
| `NodeCollectorProofs` | their theorems |
| `CollectorRegistry` | registration, flags, and overlapping calls of `NewNodeCollector` |
| `FilesystemCollector` | `GetStats` and its goroutines, several calls at a time |
| `FilesystemProofs` | its theorems |
| `CPUStats` | the CPU cache under overlapping scrapes and hotplug |
| `CPUStatsProofs` | its theorems |
| `OSRelease` | the os-release cache under overlapping scrapes and changing files |
| `OSReleaseProofs` | its theorems |
| `ProcessSockets` | sockets, `/proc` and processes read one after the other on a changing host |
| `SocketsProofs` | its theorems |
| `Steps` | the vocabulary in which an `Update` is written down |
| `CollectorUpdate` | the meaning of a sequence of steps: one `Update` |
| `CollectorUpdateProofs` | its types |
| `Discipline` | what the steps of an `Update` keep among themselves |
| `DisciplineProofs` | what follows from it |
| `KernelCollectors`, `NetCollectors`, `StorageCollectors`, `HardwareCollectors`, `ServiceCollectors` | the steps of 69 `Update`s |
| `Textfile` | files of metrics with reconciled help texts |
| `NtpLeap` | the leap midnight under overlapping scrapes |
| `SystemdUpdate` | the goroutines of the systemd collector |
| `DescCaches` | the maps of descriptors under overlapping scrapes |
| `CollectorPartsProofs` | theorems of the last four and of `CollectorRegistry` |
| `MC*` | constants for TLC |

### 2.1 `NodeCollector` and `ScrapeService`

`request[r]` is where an HTTP request is: `collecting` while `Collect` is in
`wg.Wait`, `collected` when it has returned, `served` when the registry has
closed the channel.  `goroutine[r][c]` is the goroutine of collector `c`:
in `Update`, about to send the duration, the success sample, or to call
`wg.Done`.  `pending[r]` is the WaitGroup's counter, `scrape` the
`scrape_collector_*` samples received.  An `Update` returns `nil`, `ErrNoData`
or an error; collectors in `Hanging` may never return and those in `Panicking`
may end the process, because no goroutine recovers.  promhttp's admission by
`MaxRequestsInFlight` and the registry's closing of the channel are external
and modelled as the code relies on them.

`ScrapeService` knows requests and verdicts only: a request is refused or
admitted, each collector reports one verdict, the answer goes out after the
last, a crash ends everything.  `NodeCollector` refines it (`ImplementsService`):
a request is its status, a success sample its verdict.

### 2.2 `FilesystemCollector`

Per call slot `s`: `main[s]` is the goroutine that called `GetStats`, `disp[s]`
the dispatcher, `pos[s]` its line in the mount table `mps[s]`, `job[s][i]` what
became of line `i` (pending, skipped, listed as stuck, with a worker in one of
three states, or sent), `watcher[s][i]` its `stuckMountWatcher`.  `stuck` is
`stuckMounts`, `holder` its mutex where it is held across steps.

A worker is not a process of its own: a line between `DispSend` and `MainRecv`
occupies one of `Workers`, and the unbuffered send on `labelChan` is enabled
when one is free.  Each critical section is one action, except the
dispatcher's append, which races with the caller's: both are a load and a
store, and `AppendOutcomes` lists what the slice can hold after two of them
overlap.  A mount point in `Flaky` may be slow, fail or hang (`hung`, moved by
the environment); the others answer within the timeout.

`Update` goes through `stats` once: `FirstSeen` are the entries that `seen` does
not suppress, `Exposure` what is sent for them, `Series` the labels it is sent
under.  The five size series are sent together and are one.

### 2.3 `CPUStats`

`cpuStats` is the cache, `snap[s]` the reading a scrape holds between
`fs.Stat` and the mutex, `kernel` the real counters.  A reading's idle value may
lag behind by `Jitter` (the kernel's idle accounting is not monotonic: the
reason the cache exists).  `JumpBack` is `jumpBackSeconds`.  The nine other
counters are `Fields`; one stands for all since the code treats each alike and
independently.  `epoch` is a ghost: it tells which life of a CPU a value is of.
`order` and `outrun` are history: the order of reading, and which calls were
overtaken.  Floating-point seconds are natural numbers.

### 2.4 `OSRelease`

A content is the pair of a file and an mtime.  `key` is `osFilename`/`osMtime`;
`os`, `version`, `supportEnd` name the content each field was parsed from.
`UpdateStruct` writes them one by one under the write lock, `Update` reads them
one by one under none.  Files are replaced, rewritten in place or removed at
any time.  `Malformed`, `Dated` and `BadDate` say which contents do not parse,
have `SUPPORT_END`, or have one that is no date.

### 2.5 `CollectorRegistry`

`Init` is the program after its `init` functions have called
`registerCollector`.  `enabled` is `collectorState`, `forced` is
`forcedCollectors`, `initiated` is `initiatedCollectors`; an instance is the
number of the factory's call that made it.  A call of `NewNodeCollector` checks
its filters without the mutex, waits for it, and visits the names one at a time
in any order, as Go ranges over a map; `left` is what it has not visited.  A
factory in `Faulty` may fail, which ends the call but keeps what it has built.
`FlagAction` and `DisableDefaultCollectors` have no caller in the repository;
they are what a command line would do before the first handler is made
(`serving`), so they do not race with `NewNodeCollector`.

### 2.6 `ProcessSockets`

The host is `alive` (process ids in use) and `fd` (what each descriptor holds);
`Fork`, `Exit`, `Listen` and `Close` change it between any two steps of a call,
and a process id is used again after `Exit`.  A call is one of the functions of
`src/vm/os_linux.go` with its argument.  `pc` is the read it is about to make:
the socket table, the listing of `/proc`, a process's fd directory, the next
link, the process's `stat`, the list of processes.  `socks` and `owner` are the
entries and their `Process`; `Sktab` is the part `iterFdDir` sees, since IPv4
and IPv6 tables are scanned one after the other, each with its own pass over
`/proc`.  `dirs`, `dir`, `fds`, `known` and `match` are the loops of
`extractProcInfo` and `iterFdDir`.  `GetProcessesByName` makes a whole scan for
each process it keeps, so it goes back to `table`.

Every read may fail.  A failed table or process list fails the call; a failed
listing of `/proc` or of an fd directory is swallowed, and a failed `stat`
leaves the process with whatever is left of it unread.  `GetProcesses` reads
eight attributes of each process and goes on to the next process, without an
error, when any of them fails, which may be so although the process lives: the
`Username` of a user id that has no name.  A process that is gone
fails its reads; `blind` remembers those that were there and failed.  `ever`,
`always` and `quiet` are history: who held what at some time and all the time,
and whether anything changed.  Names, addresses and attributes are left out,
but not the control that depends on them: which processes a filter keeps, and
of which an attribute cannot be read, is any choice.  One table, and one directory, is read in one step.

### 2.7 `Steps`, `CollectorUpdate` and the catalogue

Sixty-nine `Update`s differ in what they read and in what they make of a
failure, so each is a value, the sequence of its steps, and `CollectorUpdate`
runs whichever it is given.  The steps of a collector stand in the order of its
code; its constructor's reads come first.  A *source* is a file, a system
call, a number to parse, or a condition on the data.  A *read* may obtain its
source, find it missing (`fs.ErrNotExist`) or fail, and carries a *reaction* for
each of the latter two: go on, skip the item, leave the loop, return `nil`,
`ErrNoData` or another error, fail the constructor, or go on and return the
error at the end.  `Must`, `Data`, `Try`, `OrSkip` and `Build` are the
combinations the code uses.  `If` is a condition on data, `Flag` one that stays
as it is for the whole `Update` (a flag, the platform), `Each` a loop whose
items a label tells apart, `Alike` one whose items may agree in their labels,
`Once` a check for labels already met, `Call` a helper whose error the caller
handles, `Deref` an access that panics unless its source is there - through a
pointer, to an element, to a type that is asserted - and `Send` a group of
samples with their labels and the source of their values.  `Unchecked` is an
access that no check stands before: its source may be there or not, and the
`Deref` follows in either case.

`frames` is the stack: the `Update`'s body, the current item of each loop, each
helper.  A frame remembers what it obtained and what it was denied, so a source
asked for twice answers the same.  `verdict` is how the `Update` ended, `cause`
the source that ended it, which is the access if it panicked.  `watched` is one of the samples sent, any of them:
a repetition of it is found in some behaviour whenever one exists, and the
states need not hold all samples.  `seen` is what was noticed of samples: that
there was one, that one repeated the watched one, that one had a value nobody
read.

`Outside` and `Inside` are the steps that stand outside every loop and helper,
and in one.  `ScriptAssumption` says of them what Go's compiler requires of a
function's body: a `break` is in a loop, a loop ranges over something, and the
reaction to a helper's error stands where its call does.  `MCCollectorUpdate`
computes both sets from the catalogue, so that TLC evaluates the assumption on
all 69 `Update`s.

`Discipline` is about the text of a script, not its runs.  A *judgement* stands
at a place in a block - the `Update`, an item of a loop, a helper - and says
which sources were obtained there for certain, which were lost for certain,
whether something may have been sent by then, and whether the block sends
anything.  `Premises` are the judgements that one step leads to, `Permits` what
the next step needs: a `Deref` and a `Send` that their source was obtained - a
`Deref` that `MayPanic` names for its collector excepted -, an
end by an error or by no data that nothing was sent.  `Flags` and `Judged` are a
certificate: the flags of each script and a set of judgements that contains
where it begins and is closed under `Premises`.  `MCCollectorUpdate` computes
both from the catalogue; `DisciplineAssumption` only checks them, so a wrong
certificate is refused and nothing depends on how it was found.

Flags have their package defaults where the code has no way to change them:
the command-line flags of the original are commented out, and collectors that
are off by default are modelled as they would run.

### 2.8 `Textfile`

One metric name is followed through the files; families of other names do not
meet it.  `helpTexts` is `metricsNamesToHelpTexts[name]`, a pair: the text that
is kept and the one that disagreed; `firstHelp` is history, the first text met.
A file may be rejected (unreadable, not parsed, or with timestamps), give the
family with a help text or with none, and may then fail its `stat`.  The agent
leaves the directory unset; the tests set it, and the model does both.

### 2.9 `NtpLeap`

Time counts quarters of a day.  The server's leap flag is up on the day before
the leap and down at midnight.  The latter is an assumption: the code expects it
"right after midnight", and a reply that still has the flag then would put the
cached midnight a day later.  A reply carries the server's time and the flag; up
to two replies are on their way and are judged in any order.  The mutex makes the update of
`leapMidnight` and the judgement one step.  The other conditions of the sanity
verdict are comparisons and are in the catalogue.

### 2.10 `SystemdUpdate`

`main` is where `Update` is, `workers` the units each goroutine has still to do,
`deferred` the stack of deferred calls.  `Close` is deferred after the
connection is open, `wg.Wait` after the units are listed, so that it runs
first.  Two of the five goroutines are behind flags that are off, one behind
the systemd version.

### 2.11 `DescCaches`

An access to a map begins and ends in two steps, `access[u]` is the one that an
`Update` is in.  Go stops the program when it notices that a write overlaps
another access, which it may or may not: `crashed` is a choice.  `cacheOf` is
the collector whose map it is.

### 2.12 `MCCollectorUpdate`

An `Update` is a behaviour of its own whatever the collector, so one run does
all: `part` says which of the five modules the behaviour is about, and the
variables of the others keep their initial values.  It also computes what the
assumptions about scripts speak of: `Outside`, `Inside`, `Flags`, `Judged`.

## 3. Runs

| Run | Configuration | Shows |
|---|---|---|
| `fs_safety` | two overlapping calls, tables of two lines, with a mount point listed twice or a line that is excluded, two workers, symmetric slots | types; a stuck mark stands for an outstanding `statfs`; no line twice; without stuck mounts every included line is reported; without shadowed mounts of differing options no series twice |
| `fs_live` | two overlapping calls on a table of one line, or one call at a time on tables of three lines; worker count 0 (clamped to one) | a call that meets only marked mounts ends though they hang; a marked mount whose `statfs` can return is unmarked; `GetStats` returns unless a mount hangs for good |
| `fs_race` (violation) | one call | finding 1 |
| `fs_options` (violation) | one call | finding 2 |
| `cpu_safety` | two scrapes, two CPUs, one active, counters to 2, jump 2, jitter 1, one re-plug per CPU | the cache lists the CPUs read last; its idle lead is bounded; counters fall only for a new life of the CPU or an overtaken scrape, and then all together |
| `cpu_overlap` (violation) | one CPU, no jitter | finding 3 |
| `os_safety` | two scrapes, two files, two mtimes each | the cache is of one content; torn expositions only from overlaps; the cache settles on the current file |
| `os_stale` (violation) | one scrape at a time | finding 4 |
| `node_collector` | three requests for two slots, one sound and one hanging, panicking collector | no send after close, one result per collector, answers unless blocked by an own hang, refinement of `ScrapeService` |
| `registry` | two overlapping calls, three names: one disabled, one whose factory may fail; filter lists that are empty, valid, disabled or unknown | instances are shared by all calls; a call that succeeds returns what was asked; the mutex is released on every path |
| `inventory` | two process ids, the larger listed first as in `/proc`, two descriptors each, a socket in each table, both on one port; all hosts; two changes during calls | no socket under a stranger, none missed, a process that holds a socket alone is listed with it; a quiet host is reported exactly: if all of it could be read, each socket, a shared one under its last holder, and in the list of processes all but those of which an attribute could not be read |
| `collectors` | every `Update` of the catalogue, loops of two items; four files with three help texts or none; a leap second with replies half a week around it; three units; three `Update`s on one map with two keys | what an `Update` sends was read, is not repeated and is nothing when it fails; it panics nowhere but at 26 accesses listed one by one; a metric keeps its first help text; the wider tolerance is granted near the leap only; the systemd connection and the channel outlive the goroutines; the mutex of a map suffices |

Why the bounds suffice.  Two calls are enough for every race here: each race is
between one writer and one reader or writer of a shared cell, and slots are
reused, so a third call adds no new pair.  Two lines let one mount point occur
twice and let the dispatcher and a worker be at different lines; three lines
are used where only progress is asked.  Counters up to 2 with a jump of 2 reach
each side of the comparison `>=`.  Two files reach the fallback, two mtimes the
reload.  In the inventory, two changes are what reusing a
process id takes, two descriptors let one match after another, and every host
is an initial state, so nothing needs to happen before a call.  Three requests
and a limit of two reach refusal while two compete.

In `collectors`, a loop runs over no item or over `MaxItems`, two: what an item
leaves behind for the next shows with two, and a repetition needs no more;
leaving a loop at its first item is there by `break`.  Four files let two help
texts disagree, a third family meet them and one follow.  The leap is two days after the
start and time ends more than a day after it, so every comparison of the
tolerance is reached from both sides, and two replies can be exchanged.  Three `Update`s
let a reader, a writer and one that waits meet on a map; with two
keys a map is neither empty nor complete when they do.

Deadlock is checked in every run but two.  In `node_collector` a panic ends the
process, and nothing happens after it; in `collectors` a behaviour is one
`Update`, which ends.

### What the collectors do not keep

The invariants of `collectors` hold for the collectors, and `NoPanic` for the
accesses, outside the sets that `MCCollectorUpdate` lists, which say what the
code does.  No property covers what is in them, and the hazards there say so:

* `SendWhileReading`: 25 collectors send while they read, so that an error comes
  after some samples.  All others that fail have sent nothing.
* `NoDataAfterSamples`: conntrack and rapl can end with `ErrNoData` after
  samples, which `execute` logs as "collector returned no data".
* `AmbiguousLabels`: network_route and hwmon can repeat a sample.  Routes may
  differ in what is no label; two hwmon chips may have one device.
* `Unguarded`: 26 accesses of 13 collectors have no check before them.  Each is
  named with its collector, so that the other accesses of the same collector
  are still checked; leave one out, and `DisciplineAssumption` is false.  They
  are pointers that procfs, sysfs or netlink leave nil (fibrechannel, pressure,
  netclass, network_route), the words or characters of a line that is too short
  (meminfo, meminfo_numa, vmstat, netstat, tcpstat, zfs, drbd), and the types of what
  another program answers (supervisord, systemd).
* `LookedUpBySanitizedName`: ethtool looks its values up by the sanitized name
  in a map whose keys are the raw ones; a renamed statistic is exposed as 0.

### Fairness

* Goroutines that can run do run, timers fire, channel hand-overs happen: weak
  fairness per goroutine.
* The lines of one `GetStats` call make progress together: as long as some line
  can go on, one does.  Weaker than fairness of each line and enough, since a
  line takes finitely many steps.
* `sync.Mutex` hands over to the longest waiter once one has waited for a
  millisecond, and `sync.RWMutex` starves neither side: strong fairness of the
  steps that lock.
* A `statfs` on a mount that answers returns; one on a mount that hangs does
  not until the environment lets it.  An `Update` outside `Hanging` returns.
* Nobody is assumed to scrape, to change files or to repair mounts.

## 4. Findings

1. `fs_race`: `GetStats` appends to `stats` in the dispatcher
   (`collector/filesystem_linux.go:93`, under the mutex) and in the caller
   (`:111`, without it).  An entry can vanish.
2. `fs_options`: `seen` is keyed by the options too
   (`collector/filesystem_common.go:172`), so mounts that differ in options
   alone become the same series twice.
3. `cpu_overlap`: a scrape that reads early and merges late resets the CPU's
   counters to its old reading (`collector/cpu_linux.go:383`): counters fall
   without a hotplug.
4. `os_stale`: name and mtime are recorded before the parse
   (`collector/os_release.go:155`), so a failed load counts as up to date at
   the next scrape.

Other observations, made while reading the code for the models.  No document or
test of the repository says otherwise, or no run is about them:

* netclass, meminfo_numa and zoneinfo fill a map that all scrapes share without
  a mutex (`DescCaches`, `MutexSuffices`).
* `collector/textfile.go:222`: after two different help texts, a family without
  one ends the agent (`Textfile`, step `panic`).  `:252`: a family without help
  that precedes one with help leaves the metric with two help texts.
* `collector/ntp.go:61`: `ntpMaxDistance` is initialised from `maxDistance`,
  which `init` sets only afterwards (`:74`), and stays 0.
* `collector/ethtool_linux.go:360`: link modes are tested in a `uint32`, so the
  modes numbered 32 and above are never seen.
* `collector/systemd_linux.go:222`: the goroutines and `Update` assign one
  captured `begin` without synchronisation; it is only logged.
* `collector/mountstats_linux.go:529`: mounts and their statistics come from two
  files and are paired by their index.
* `collector/supervisord.go:120`: `info` is declared outside the loop, so a field that a
  reply lacks keeps the value of the process before.  In the model the members
  of one reply are one source, so `OnlyWhatWasRead` does not see it.
* `collector/pressure_linux.go:106`: `vals.Some` and `vals.Full` are pointers,
  which procfs leaves nil when the file has no such line; their totals are read
  without a check.
* `collector/drbd_linux.go:249`: the second half of a pair that has no "/".
* `collector/netclass_rtnl_linux.go:71` and `network_route_linux.go:85`: the name
  of a link without attributes, which `netdev_linux.go:58` skips.
* `collector/vmstat_linux.go`, `meminfo_linux.go`, `meminfo_numa_linux.go`,
  `netstat_linux.go`, `tcpstat_linux.go`, `zfs_linux.go`: words and characters of
  a line are indexed without a look at their number.  The code
  relies on the kernel to write none that is shorter.
* `collector/supervisord.go:140`, `systemd_linux.go:282`: types are asserted of
  what another program answers, in the form that panics.
* `src/utils/netstat/netstat_linux.go:218`: the `stat` line is split at spaces
  before the name's parentheses are looked for.
* `collector/zfs_linux.go:82`: a file that vanishes ends the `Update`, though
  the comment there calls the race harmless.

## 5. Theorems

Every safety property of a passing run is a theorem but `SentOnce`.  The
pattern is the same everywhere: an invariant that is inductive, a lemma per
group of actions that they keep it, the property from the invariant.  The
invariants were checked by TLC on the instance of the run before they were
proved, except those of `DisciplineProofs`: they quantify over judgements of a
whole stack, so only the properties, `TypeOK` and the assumption were checked.

`FilesystemProofs`, for every set of slots, labels and tables, and every worker
count:

* `Inductive`, `TypeCorrect`.  `TypeOK` alone is not inductive:
  the element the dispatcher appends must be a line of the table, so `IInv`
  adds that positions stay within the table, that lines with a worker or in
  `stats` are lines of the table, and where the dispatcher may be when the
  mutex is held.
* `StuckIsOutstanding`.  The argument is the watcher's second look at
  `success`: marking and `close(success)` exclude each other by the mutex, and
  `StatFinish` unmarks.
* `LinesOnce`, `ReportsAll`.  `SliceInv` relates the slice and the two copies
  that an append in progress has loaded to what became of each line: each of
  the three reports a line once, and only lines that are listed as stuck or
  sent (`Once`); the dispatcher passes no line by and skips the excluded ones
  only (`Walked`); and unless the dispatcher has listed a line, every line sent is in
  the slice or in the append that is going on (`Whole`).  `OutcomeLines` says
  what an append may leave when it overlaps another: nothing new but its
  element.
* `SeriesOnce`, from `LinesOnce`: two entries with the same labels are of lines
  with the same labels, and `seen` lets the first through.

`CPUStatsProofs`, for every finite set of CPUs, every set of fields, every
jump and jitter:

* `Inductive`, `TypeCorrect`: types, and that cache and last reading have the
  same domain with idle values within the jump.  That the code removes offline
  CPUs only when two sizes differ is where finiteness is used: the merged cache
  contains the reading's CPUs, and two finite sets, one within the other, of
  equal size are equal.
* `CacheIsOfReading`, `IdleLead`, `ResetsAreWhole`: the run's properties.
* `InChronology`: `order` lists the calls that have read, each once
  (`Listed`); no reading and nothing cached is ahead of the kernel (`InKernel`);
  of two readings the earlier `Precedes` the later, that is, in one life of a
  CPU its idle time is ahead by the jitter at most (`InOrder`); and what is
  cached precedes every reading that was not overtaken (`Behind`).
* `FallsHaveCauses`: `NoSpuriousReset` if `Jitter < JumpBack`, as the code takes
  for granted: with a jitter of `JumpBack` a late idle count is taken for a
  hotplug, and the property is about what happens otherwise.  Then a reading
  that lies `JumpBack` behind the cached idle time does not follow it in the
  chronology, or is of another life.

`NodeCollectorProofs`, for every finite set of requests and collectors and every
limit, and whichever collectors hang or panic:

* `Inductive`, `TypeCorrect`: types; that the WaitGroup's counter is the number
  of goroutines that have not called `wg.Done` (`Counted`); which goroutines
  there are while `Collect` waits and after it (`Placed`); what each has sent
  (`Sampled`).
* `NothingSentAfterClose`: `Collect` returns at a counter of 0, and then the set
  counted is empty.
* `OneVerdictEach`: a goroutine that has exited has sent one sample of each kind.
* `GoroutinesImplementService`: `Spec => ImplementsService`, the refinement.
  The mapping of a request to a status and of samples to verdicts takes each
  step to a step of `ScrapeService` or to a stutter: `wg.Done` and the samples
  of the duration are stutters, the success sample is the verdict.

`OSReleaseProofs`, for every set of scrapes and any files, mtimes and contents:

* `Inductive`, `TypeCorrect`: types; that the call which fills the fields holds
  the write lock (`Locked`), and what it has filled in (`Filled`); that whoever
  exposes meanwhile is marked as disturbed (`Noticed`); and that what the others
  have sent so far is the content in the cache (`Shown`).
* `CacheIsCoherent`, `OnlyOverlapTears`: the run's properties.

`SocketsProofs`, for every set of process ids, descriptors and sockets and
any number of changes:

* `Inductive`, `TypeCorrect`: types, and that a call is open exactly while it
  is at some place.
* `NoStranger`: the invariant adds that history knows
  every present holder, and that an entry's process, or the one about to
  become it, is in that history.
* `NothingMissed`.  The invariant `Chase` says
  for each socket held throughout where it can still be found: its entry has a
  process, or the holder's directory is still to be read, or the descriptor is
  still to be read in it, or its `stat` is.  Each step of the scan takes the
  socket to the next of these, or makes the holder blind.
* `SoleHoldersListed`.  What was found has an owner in history, and a sole
  holder is the only one there, so the socket is among the holder's own
  (`SoleFound`); `AnswerInv` follows it into the answer.
* `QuietHostsExact`.  While nothing changes and everything can be read,
  directories are read in order (`InRankOrder`), so that each holder of a socket
  is still to be read or comes no later than the socket's owner (`Halfway`);
  when a table ends, the owner is the last holder (`EndOfTable`).
  Process ids have different names, so there is one (`EntriesExact`), and
  `AnswerExact` says that the answer so far is right for the processes done.
  For the list of processes `ListExact` says which of the processes done are in
  it, those that are not blind, whatever failed: the argument does not assume that
  everything can be read.

`CollectorUpdateProofs`, for every catalogue of steps that `ScriptAssumption`
admits, and any number of items of a loop:

* `TypeCorrect`.  `TypeOK` is not inductive.  A frame that obtained a source and
  lost it too would come from the merge of a helper's frame into its caller's,
  so the invariant says that no source is obtained in one frame and lost in
  another (`Apart`); that holds since a read looks through the whole stack.
  And a running `Update` would be without frames if a `break` or the end of a
  loop popped the outermost one, so the invariant says which frames may stand
  where, and that the steps each has left belong there (`FrameFits`).
  `Nearest`: the helper that an error returns from is well defined, because a
  set of numbers that is not empty has a least one.

`DisciplineProofs`, for every catalogue that keeps `DisciplineAssumption`, and
any number of items of a loop:

* `SendsOnlyWhatWasRead`, `NeverPanics`.  `KnownInv` says that the judgements at
  the present places hold: for the flags that the `Update` may still turn out to
  have, each frame on the stack, counted from the outermost, is at a place
  judged, what the judgement takes as obtained was obtained there or in a frame
  around it, and the frame around it is at a place to return to with what the
  inner one may have done (`Resumes`), also by its error (`Recovers`).  An item
  begins where the first item of its loop began, for nothing that an item read
  is kept for the next, and the judgement of an item allows for samples of the
  items before (`Repeats`): this is why one judgement does for all items.  Then
  a sample's source is judged obtained, so it was obtained.
* `FailuresSendNothing` adds `LateInv`: only the collectors of `Incremental` put
  an error off to the end, so where another one ends by an error or by no data,
  the judgement at that place says that nothing was sent.

`SendsOnlyWhatWasRead` and `FailuresSendNothing` say nothing of a collector in the
set of exceptions of their property (section 3), `NeverPanics` nothing of an
access that `Unguarded` names; nor do the runs.  TLC evaluates the assumption on the
catalogue; the theorems then cover loops of any length, where the run has none
or two items.  A change of the catalogue that breaks one of the properties fails
the assumption before any state is reached: so does a systemd timer that is sent
although its property could not be read, a connection state that is sent before
the IPv6 sockets are dumped, or a perf counter that is used without a test for
nil.  The mutants of the three properties are therefore bugs of the interpreter:
an error that is not checked or comes too late, a condition that is not tested.

`CollectorPartsProofs`, for any number of `Update`s, units, replies, files, and
any keys and help texts:

* `MutexIsEnough`: whoever is in a map that has a mutex holds it.
* `GoroutinesAreAwaited`: `SystemdInv` says which deferred calls are on the stack
  where; the connection is open as long as `Close` is one of them, and
  goroutines have work only while `Wait` is above it.
* `LeapIsTolerated`: `leapMidnight` is the leap once a flagged reply was judged
  and 0 before, because the midnight after any time of the day before the leap is the
  leap (`MidnightIsLeap`).
* `HelpsAreReconciled`: the help text kept is the first one met (`FirstKept`),
  each family that has a help text has it (`KeptHelps`), and a conflict sets
  the error flag.

`CollectorPartsProofs`, about the registry, for every set of calls, names,
filter lists and faulty factories:

* `RegistryInductive`, `RegistryTypeCorrect`: types, that the mutex is held
  exactly by the call that walks, that every instance in a result is the one in `initiated`, and
  that the part of the walk that is done has collected what was asked of it.
  The last part is why instances are never replaced: `initiated` changes only
  from none.
* `InstancesShared`, `AnswersExact`: the run's safety properties.

Assumptions are the named `ASSUME`s of the component modules: the types of the
constants, that names for "nobody" and "nothing" are no members, that a leap
second is at a midnight, where steps may stand in an `Update`, and that the
scripts keep the discipline of section 2.7; and `Jitter < JumpBack` in the one
theorem that says so.

Only model-checked:

* everything temporal (`HungMountsSkipped`, `StuckMountResumes`,
  `ScrapeReturns`, `SettlesOnDisk`, `AnsweredUnlessBlocked`, `CallReturns`),
  since liveness under fairness and `ENABLED` are out of the prover's reach;
* `SentOnce`.  That two samples differ depends on which items the loops around
  them are at, and on what the `Once` of an earlier item has remembered, which
  no judgement about one place says.

## 6. Plan

What is left is `SentOnce` for loops of any length.  It needs a second
certificate: for each block the series it sends and the loops whose items label
them, such that no series is sent from two places of one item, that the items of
the loops left out of the labels do not send it twice, and that what `Alike`
items send stands behind a `Once` of its labels.  TLC would evaluate it on the
catalogue, as it does the discipline.

## 7. Not modelled

* The contents of `/proc` and `/sys` files and their parsing: a reading is a
  value the collector was given.
* Logging, help texts and descriptor construction, unless a property is about
  them.
* Collectors of other operating systems.  At this commit those of Darwin, FreeBSD,
  DragonFly, OpenBSD and Solaris do not compile: their files use a logger that
  the constructors no longer receive (`collector/thermal_darwin.go:59`,
  `memory_bsd.go:61`, `netdev_bsd.go:50`, `netdev_openbsd_amd64.go:54`,
  `zfs_solaris.go:56`).  NetBSD has no such use, but no target in the makefiles.
* `collector/watchdog.go`, which is commented out as a whole.
* The Windows half of `src/utils/netstat` and `src/vm`: calls of system
  libraries and the parsing of their buffers.
* Functions of `src/vm` that copy facts of the host or of one process
  (`GetInfo`, `GetNetWorks`, `GetMainIp`, `GetLastBootTime`, `ReleaseInfo`,
  `GetProcessesById`): none relates two readings or keeps state.
* The HTTP server's start-up, the command line, the data models and the version:
  no concurrency and no state that outlives start-up.
