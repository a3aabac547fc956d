----------------------------- MODULE OSRelease -----------------------------
(***************************************************************************)
(* The os collector of src/src/metrics/collector/os_release.go: a cache of *)
(* the parsed os-release file, keyed by the file's name and mtime.         *)
(*                                                                         *)
(* UpdateStruct compares name and mtime under osMutex.RLock, releases it,  *)
(* and fills the fields one after the other under osMutex.Lock.  Update    *)
(* then reads the fields without the mutex, so each field it writes and    *)
(* each it reads is a step.  A content is known by the file it was in and  *)
(* the mtime it had, <<i, t>>; Unset stands for Go's zero values.  The     *)
(* twelve labels of the info metric are read in one step.                  *)
(***************************************************************************)
EXTENDS Naturals, Sequences, FiniteSets

CONSTANTS
    Scrapes,     \* slots for concurrent Update calls
    Nobody,      \* no slot: the holder of the free mutex
    Filenames,   \* how many files osReleaseFilenames lists
    MaxMtime,    \* bound on a file's modification time
    Malformed,   \* contents that do not parse
    Dated,       \* contents with SUPPORT_END
    BadDate      \* those whose SUPPORT_END is not a date

Files == 1 .. Filenames
Mtimes == 1 .. MaxMtime
Contents == Files \X Mtimes
Unset == <<0, 0>>
Absent == 0

ASSUME OSAssumption ==
    /\ Nobody \notin Scrapes
    /\ Filenames \in Nat \ {0}
    /\ MaxMtime \in Nat \ {0}
    /\ Malformed \subseteq Contents
    /\ Dated \subseteq Contents
    /\ BadDate \subseteq Dated

VARIABLES
    phase,      \* where each Update call is
    file,       \* the index in osReleaseFilenames each call is at
    handle,     \* the content each call opened
    shown,      \* what each call has sent to the metrics channel
    key,        \* osFilename and osMtime
    os,         \* the content c.os was parsed from
    version,    \* the content c.version was parsed from
    supportEnd, \* the content c.supportEnd was parsed from
    writer,     \* who holds osMutex for writing
    disk,       \* environment: the mtime of each file, or Absent
    newest,     \* environment: the latest mtime each file ever had
    disturbed   \* history: calls during whose exposition someone wrote

vars == <<phase, file, handle, shown, key, os, version, supportEnd, writer,
          disk, newest, disturbed>>
cache == <<key, os, version, supportEnd, writer>>

Nothing == [info |-> Unset, version |-> Unset, supportEnd |-> Unset]
Good(c) == c \notin Malformed \cup BadDate
Exposing == {"info", "version", "supportEnd"}

Init ==
    /\ phase = [s \in Scrapes |-> "idle"]
    /\ file = [s \in Scrapes |-> 1]
    /\ handle = [s \in Scrapes |-> Unset]
    /\ shown = [s \in Scrapes |-> Nothing]
    /\ key = Unset
    /\ os = Unset
    /\ version = Unset
    /\ supportEnd = Unset
    /\ writer = Nobody
    /\ disk \in [Files -> {Absent, 1}]
    /\ newest = disk
    /\ disturbed = {}

\* The call ends, or a slot starts afresh.
Finished(s) ==
    /\ phase' = [phase EXCEPT ![s] = "idle"]
    /\ file' = [file EXCEPT ![s] = 1]
    /\ handle' = [handle EXCEPT ![s] = Unset]
    /\ shown' = [shown EXCEPT ![s] = Nothing]
    /\ disturbed' = disturbed \ {s}
-----------------------------------------------------------------------------
Begin(s) ==
    /\ phase[s] = "idle"
    /\ phase' = [phase EXCEPT ![s] = "open"]
    /\ UNCHANGED <<file, handle, shown, cache, disk, newest, disturbed>>

\* os.Open and Stat: the content and the mtime as of now.
Open(s) ==
    /\ phase[s] = "open"
    /\ disk[file[s]] # Absent
    /\ handle' = [handle EXCEPT ![s] = <<file[s], disk[file[s]]>>]
    /\ phase' = [phase EXCEPT ![s] = "check"]
    /\ UNCHANGED <<file, shown, cache, disk, newest, disturbed>>

\* i >= len(osReleaseFilenames)-1
IsLastOffByOne(s) == file[s] > Filenames
IsLast(s) == file[s] >= Filenames

\* os.ErrNotExist: the next file; after the last one Update returns ErrNoData.
OpenMissing(s) ==
    /\ phase[s] = "open"
    /\ disk[file[s]] = Absent
    /\ \/ /\ ~IsLast(s)
          /\ file' = [file EXCEPT ![s] = @ + 1]
          /\ UNCHANGED <<phase, handle, shown, disturbed>>
       \/ /\ IsLast(s)
          /\ Finished(s)
    /\ UNCHANGED <<cache, disk, newest>>

\* Any other error of os.Open ends Update.
OpenFails(s) ==
    /\ phase[s] = "open"
    /\ Finished(s)
    /\ UNCHANGED <<cache, disk, newest>>

UpToDateByMtime(s) == handle[s][2] = key[2]
UpToDate(s) == handle[s] = key

\* The comparison under RLock, which waits for a writer.
Check(s) ==
    /\ phase[s] = "check"
    /\ writer = Nobody
    /\ phase' = [phase EXCEPT ![s] = IF UpToDate(s) THEN "info" ELSE "lock"]
    /\ UNCHANGED <<file, handle, shown, cache, disk, newest, disturbed>>
-----------------------------------------------------------------------------
\* Calls whose exposition a write of s overlaps.
Disturbs(s) == disturbed' = disturbed \cup {t \in Scrapes \ {s} : phase[t] \in Exposing}

\* osMutex.Lock, then osFilename and osMtime.
WriteKey(s) ==
    /\ phase[s] = "lock"
    /\ writer = Nobody
    /\ writer' = s
    /\ key' = handle[s]
    /\ phase' = [phase EXCEPT ![s] = "os"]
    /\ Disturbs(s)
    /\ UNCHANGED <<file, handle, shown, os, version, supportEnd, disk, newest>>

(***************************************************************************)
(* c.os, err = parseOSRelease(releaseFile): the content opened, or, if the *)
(* file is rewritten in place, the one it has now.  c.os is assigned even  *)
(* when the parse fails; the error unlocks and ends Update.                *)
(***************************************************************************)
WriteOS(s) ==
    /\ phase[s] = "os"
    /\ \E c \in {handle[s], <<file[s], disk[file[s]]>>} \cap Contents :
         /\ os' = c
         /\ \/ /\ c \in Malformed
               /\ Finished(s)
               /\ writer' = Nobody
            \/ /\ c \notin Malformed
               /\ phase' = [phase EXCEPT ![s] = "writeVersion"]
               /\ Disturbs(s)
               /\ UNCHANGED <<file, handle, shown, writer>>
    /\ UNCHANGED <<key, version, supportEnd, disk, newest>>

NewVersionOnce == IF version = Unset THEN os ELSE version
NewVersion == os

\* c.version; a VERSION_ID the regexp accepts always parses as a float.
WriteVersion(s) ==
    /\ phase[s] = "writeVersion"
    /\ version' = NewVersion
    /\ phase' = [phase EXCEPT ![s] = "writeEnd"]
    /\ Disturbs(s)
    /\ UNCHANGED <<file, handle, shown, key, os, supportEnd, writer, disk, newest>>

\* Mutant: c.supportEnd is filled only the first time.
WriteEndOnce(s) ==
    /\ phase[s] = "writeEnd"
    /\ supportEnd' = IF os \in Dated /\ supportEnd = Unset THEN os ELSE supportEnd
    /\ writer' = Nobody
    /\ phase' = [phase EXCEPT ![s] = "info"]
    /\ Disturbs(s)
    /\ UNCHANGED <<file, handle, shown, key, os, version, disk, newest>>

\* c.supportEnd, only if there is one; a bad date ends Update with its error.
WriteEnd(s) ==
    /\ phase[s] = "writeEnd"
    /\ supportEnd' = IF os \in Dated THEN os ELSE supportEnd
    /\ writer' = Nobody
    /\ \/ /\ os \in BadDate
          /\ Finished(s)
       \/ /\ os \notin BadDate
          /\ phase' = [phase EXCEPT ![s] = "info"]
          /\ Disturbs(s)
          /\ UNCHANGED <<file, handle, shown>>
    /\ UNCHANGED <<key, os, version, disk, newest>>
-----------------------------------------------------------------------------
\* The metrics are sent from the fields as they are now, without the mutex.
ExposeInfo(s) ==
    /\ phase[s] = "info"
    /\ shown' = [shown EXCEPT ![s].info = os]
    /\ phase' = [phase EXCEPT ![s] = "version"]
    /\ UNCHANGED <<file, handle, cache, disk, newest, disturbed>>

ExposeVersion(s) ==
    /\ phase[s] = "version"
    /\ shown' = [shown EXCEPT ![s].version = version]
    /\ phase' = [phase EXCEPT ![s] = "supportEnd"]
    /\ UNCHANGED <<file, handle, cache, disk, newest, disturbed>>

ExposeEnd(s) ==
    /\ phase[s] = "supportEnd"
    /\ shown' = [shown EXCEPT ![s].supportEnd = IF os \in Dated THEN supportEnd ELSE Unset]
    /\ phase' = [phase EXCEPT ![s] = "sent"]
    /\ UNCHANGED <<file, handle, cache, disk, newest, disturbed>>

\* Update returns nil.
Return(s) ==
    /\ phase[s] = "sent"
    /\ Finished(s)
    /\ UNCHANGED <<cache, disk, newest>>

\* Environment: a file is written or replaced, at a new mtime, or removed.
Write(i) ==
    /\ newest[i] < MaxMtime
    /\ disk' = [disk EXCEPT ![i] = newest[i] + 1]
    /\ newest' = [newest EXCEPT ![i] = @ + 1]
    /\ UNCHANGED <<phase, file, handle, shown, cache, disturbed>>

Remove(i) ==
    /\ disk[i] # Absent
    /\ disk' = [disk EXCEPT ![i] = Absent]
    /\ UNCHANGED <<phase, file, handle, shown, cache, newest, disturbed>>

UpdateStep(s) ==
    \/ Open(s) \/ OpenMissing(s)
    \/ WriteOS(s) \/ WriteVersion(s) \/ WriteEnd(s)
    \/ ExposeInfo(s) \/ ExposeVersion(s) \/ ExposeEnd(s) \/ Return(s)

Next ==
    \/ \E s \in Scrapes :
         \/ Begin(s) \/ UpdateStep(s) \/ OpenFails(s)
         \/ Check(s) \/ WriteKey(s)
    \/ \E i \in Files : Write(i) \/ Remove(i)

Spec == Init /\ [][Next]_vars

\* Goroutines run, and sync.RWMutex starves neither its readers nor its writers.
FairSpec ==
    /\ Spec
    /\ \A s \in Scrapes :
         WF_vars(UpdateStep(s)) /\ SF_vars(Check(s)) /\ SF_vars(WriteKey(s))
-----------------------------------------------------------------------------
(***************************************************************************)
(* Type invariant: every variable of the module has its type.              *)
(***************************************************************************)
TypeOK ==
    /\ phase \in [Scrapes -> {"idle", "open", "check", "lock", "os", "writeVersion",
                              "writeEnd", "info", "version", "supportEnd", "sent"}]
    /\ file \in [Scrapes -> Files]
    /\ handle \in [Scrapes -> Contents \cup {Unset}]
    /\ shown \in [Scrapes -> [info : Contents \cup {Unset},
                              version : Contents \cup {Unset},
                              supportEnd : Contents \cup {Unset}]]
    /\ {key, os, version, supportEnd} \subseteq Contents \cup {Unset}
    /\ writer \in Scrapes \cup {Nobody}
    /\ disk \in [Files -> Mtimes \cup {Absent}]
    /\ newest \in [Files -> Mtimes \cup {Absent}]
    /\ disturbed \subseteq Scrapes

(***************************************************************************)
(* Whenever no one is writing, the cached fields are of one content,       *)
(* unless the last one loaded did not parse (os_release.go:150-186).       *)
(***************************************************************************)
CacheCoherent ==
    writer = Nobody /\ os \notin Malformed
        => /\ version = os
           /\ os \in Dated => supportEnd = os

Torn(x) == x.version # x.info \/ (x.info \in Dated /\ x.supportEnd # x.info)

(***************************************************************************)
(* A scrape exposes fields of different contents only if another scrape    *)
(* reloaded the cache while it was exposing, or the content did not load   *)
(* (os_release.go:191-220 reads what 150-186 writes).                      *)
(***************************************************************************)
TornOnlyByOverlap ==
    \A s \in Scrapes :
        phase[s] = "sent" /\ Good(shown[s].info) /\ Torn(shown[s]) => s \in disturbed

\* The content a scrape alone would expose.
Present == {i \in Files : disk[i] # Absent}
Current ==
    IF Present = {} THEN Unset
    ELSE LET i == CHOOSE i \in Present : \A j \in Present : i <= j
         IN  <<i, disk[i]>>

(***************************************************************************)
(* When the files stop changing and scrapes go on succeeding, the cache    *)
(* ends up holding the current content for good, although a call that      *)
(* opened an older file may overwrite a newer one, and unless the current  *)
(* content does not load (os_release.go:128-186).                          *)
(***************************************************************************)
SettlesOnDisk ==
    <>[][FALSE]_disk /\ []<>(\E s \in Scrapes : phase[s] = "sent")
        => <>[](Good(Current) => os = Current /\ version = Current)

(***************************************************************************)
(* What os_release.go:145 says: "osReleaseCollector struct is already      *)
(* up-to-date."  A scrape that alone takes that branch, and every scrape   *)
(* that succeeds alone, exposes a content that was loaded without error.   *)
(***************************************************************************)
UpToDateWasLoaded ==
    \A s \in Scrapes : phase[s] = "sent" /\ s \notin disturbed => Good(shown[s].info)
=============================================================================
