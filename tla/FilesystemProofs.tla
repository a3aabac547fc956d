------------------------- MODULE FilesystemProofs -------------------------
(***************************************************************************)
(* Proofs about FilesystemCollector, for any number of scrapes, lines,     *)
(* workers and mounts.                                                     *)
(***************************************************************************)
EXTENDS FilesystemCollector, TLAPS

(***************************************************************************)
(* What one GetStats call keeps true of its own goroutines.                *)
(***************************************************************************)
Orderly(s) ==
    /\ main[s] = "idle" => disp[s] = "off"
    /\ disp[s] \in {"off", "closed"} => \A i \in Lines : job[s][i] \notin Busy
    /\ disp[s] \in {"send", "append"} => pos[s] \in 1 .. Len(mps[s])
    /\ disp[s] \in {"scan", "send", "append"} =>
         \A i \in Lines : i >= pos[s] => job[s][i] = "pending"
    /\ \A i \in Lines : job[s][i] # "pending" => i \in 1 .. Len(mps[s])
    /\ \A i \in Lines : watcher[s][i] # "off" =>
         job[s][i] \in {"statting", "returned", "finished", "sent"}

SlotInv == \A s \in Scrapes : Orderly(s)

Inv == TypeOK /\ SlotInv
IInv == Inv /\ StuckOutstanding
-----------------------------------------------------------------------------
(***************************************************************************)
(* A mount table the program reads is a sequence of labels that fits.      *)
(***************************************************************************)
LEMMA TableType ==
    ASSUME NEW t \in MountTables \cup {<<>>}
    PROVE  /\ t \in Seq(Labels)
           /\ Len(t) \in 0 .. MaxLines
           /\ \A i \in 1 .. Len(t) : t[i].mountPoint \in MountPoints
<1>1. t \in Seq(Labels) /\ Len(t) <= MaxLines
  <2>1. CASE t \in MountTables
    BY <2>1, FSAssumption DEF FSAssumption
  <2>2. CASE t = <<>>
    BY <2>2, FSAssumption DEF FSAssumption
  <2> QED
    BY <2>1, <2>2
<1>2. \A i \in 1 .. Len(t) : t[i] \in Labels
  BY <1>1
<1>3. \A i \in 1 .. Len(t) : t[i].mountPoint \in MountPoints
  BY <1>2 DEF MountPoints
<1> QED
  BY <1>1, <1>3, FSAssumption DEF FSAssumption

(***************************************************************************)
(* Whatever the race leaves in the slice, it is a slice of entries.        *)
(***************************************************************************)
LEMMA AppendType ==
    ASSUME NEW loaded \in Seq(Entries), NEW now \in Seq(Entries),
           NEW x \in Entries,
           NEW new \in AppendOutcomes(loaded, now, x)
    PROVE  new \in Seq(Entries)
<1>1. CASE new = Append(loaded, x)
  BY <1>1
<1>2. CASE /\ Len(now) > Len(loaded)
           /\ new = SubSeq(now, 1, Len(loaded) + 1)
  <2>1. \A k \in 1 .. Len(loaded) + 1 : now[k] \in Entries
    BY <1>2
  <2> QED
    BY <1>2, <2>1
<1> QED
  BY <1>1, <1>2 DEF AppendOutcomes

(***************************************************************************)
(* The initial state is typed, orderly and marks nothing.                  *)
(***************************************************************************)
LEMMA InitIInv == Init => IInv
  BY FSAssumption DEF FSAssumption, Init, IInv, Inv, TypeOK, SlotInv, Orderly, StuckOutstanding,
     Lines, Entries, NoEntry, StatErrors, Busy

(***************************************************************************)
(* The dispatcher works on lines of the table, and what is not pending is  *)
(* one, so its mount point is known.                                       *)
(***************************************************************************)
LEMMA InTable ==
    ASSUME Inv, NEW s \in Scrapes
    PROVE  /\ disp[s] \in {"send", "append"} \/ AtLine(s) => pos[s] \in Lines
           /\ \A i \in Lines : job[s][i] # "pending" => MP(s, i) \in MountPoints
<1>1. mps[s] \in MountTables \cup {<<>>}
  BY DEF Inv, TypeOK
<1>2. Len(mps[s]) \in 0 .. MaxLines
  BY <1>1, TableType
<1>3. \A i \in 1 .. Len(mps[s]) : mps[s][i].mountPoint \in MountPoints
  BY <1>1, TableType
<1>4. disp[s] \in {"send", "append"} \/ AtLine(s) => pos[s] \in Lines
  BY <1>2, FSAssumption DEF FSAssumption, Inv, TypeOK, SlotInv, Orderly, AtLine, Lines
<1>5. ASSUME NEW i \in Lines, job[s][i] # "pending" PROVE MP(s, i) \in MountPoints
  BY <1>3, <1>5 DEF Inv, SlotInv, Orderly, MP
<1> QED
  BY <1>4, <1>5

-----------------------------------------------------------------------------
(***************************************************************************)
(* Every step keeps the variables typed and each call orderly.             *)
(***************************************************************************)
LEMMA NextInv == Inv /\ [Next]_vars => Inv'
<1> SUFFICES ASSUME Inv, [Next]_vars PROVE Inv'
  OBVIOUS
<1> USE FSAssumption DEF FSAssumption, Inv
<1>1. ASSUME NEW s \in Scrapes, Begin(s) PROVE Inv'
  <2>1. TypeOK'
    <3>1. PICK t \in MountTables : mps' = [mps EXCEPT ![s] = t]
      BY <1>1 DEF Begin, OpenResults, MountPointDetails
    <3> QED
      BY <1>1, <3>1 DEF Begin, TypeOK, Lines
  <2>2. SlotInv'
    <3> SUFFICES ASSUME NEW t \in Scrapes PROVE Orderly(t)'
      BY DEF SlotInv
    <3>1. CASE t = s
      <4>1. /\ main'[s] = "recv"
            /\ disp'[s] = "scan"
            /\ job'[s] = [i \in Lines |-> "pending"]
            /\ watcher'[s] = [i \in Lines |-> "off"]
        BY <1>1 DEF Begin, TypeOK
      <4> QED
        BY <3>1, <4>1 DEF Orderly, Busy
    <3>2. CASE t # s
      <4>1. /\ main'[t] = main[t] /\ disp'[t] = disp[t] /\ pos'[t] = pos[t]
            /\ mps'[t] = mps[t] /\ job'[t] = job[t] /\ watcher'[t] = watcher[t]
        BY <1>1, <3>2 DEF Begin, TypeOK
      <4> QED
        BY <4>1 DEF SlotInv, Orderly
    <3> QED
      BY <3>1, <3>2
  <2> QED
    BY <2>1, <2>2
<1>2. ASSUME NEW s \in Scrapes, BeginFails(s) PROVE Inv'
  <2>1. TypeOK'
    BY <1>2 DEF BeginFails, TypeOK, call, data, vars, Lines, Busy
  <2>2. SlotInv'
    BY <1>2 DEF BeginFails, TypeOK, SlotInv, Orderly, call, data, vars, Lines, Busy
  <2> QED
    BY <2>1, <2>2
<1>3. ASSUME NEW s \in Scrapes, DispSkip(s) PROVE Inv'
  <2>1. TypeOK'
    BY <1>3 DEF DispSkip, AtLine, TypeOK, call, data, vars, Lines, Busy
  <2>2. SlotInv'
    BY <1>3, SMTT(30) DEF DispSkip, AtLine, TypeOK, SlotInv, Orderly, call, data, vars, Lines, Busy
  <2> QED
    BY <2>1, <2>2
<1>4. ASSUME NEW s \in Scrapes, DispCheck(s) PROVE Inv'
  <2>1. TypeOK'
    BY <1>4 DEF DispCheck, AtLine, TypeOK, call, data, vars, Lines, Busy
  <2>2. SlotInv'
    BY <1>4 DEF DispCheck, AtLine, TypeOK, SlotInv, Orderly, call, data, vars, Lines, Busy
  <2> QED
    BY <2>1, <2>2
<1>5. ASSUME NEW s \in Scrapes, DispListLoad(s) PROVE Inv'
  <2>1. TypeOK'
    BY <1>5 DEF DispListLoad, AtLine, IsStuck, MP, TypeOK, call, data, vars, Lines, Busy
  <2>2. SlotInv'
    BY <1>5 DEF DispListLoad, AtLine, IsStuck, MP, TypeOK, SlotInv, Orderly, call, data, vars, Lines, Busy
  <2> QED
    BY <2>1, <2>2
<1>6. ASSUME NEW s \in Scrapes, DispListStore(s) PROVE Inv'
  <2>1. TypeOK'
    <3>1. [line |-> pos[s], err |-> "timeout"] \in Entries
      BY <1>6, InTable DEF DispListStore, Entries
    <3>2. PICK new \in Seq(Entries) : stats' = [stats EXCEPT ![s] = new]
      BY <1>6, <3>1, AppendType DEF DispListStore, TypeOK
    <3>3. pos[s] + 1 \in 1 .. MaxLines + 1
      BY <1>6, InTable DEF DispListStore, Lines
    <3>4. <<>> \in Seq(Entries)
      OBVIOUS
    <3> QED
      BY <1>6, <3>2, <3>3, <3>4 DEF DispListStore, TypeOK, Lines
  <2>2. SlotInv'
    <3>1. /\ disp[s] = "append"
          /\ job' = [job EXCEPT ![s][pos[s]] = "listed"]
          /\ pos' = [pos EXCEPT ![s] = @ + 1]
          /\ disp' = [disp EXCEPT ![s] = "scan"]
          /\ UNCHANGED <<main, mps, watcher>>
      BY <1>6 DEF DispListStore
    <3>2. pos[s] \in Lines /\ pos[s] \in 1 .. Len(mps[s])
      BY <3>1, InTable DEF SlotInv, Orderly
    <3>3. Orderly(s)'
      <4>1. /\ \A i \in Lines : job'[s][i] = IF i = pos[s] THEN "listed" ELSE job[s][i]
            /\ pos'[s] = pos[s] + 1 /\ disp'[s] = "scan"
            /\ main'[s] = main[s] /\ mps'[s] = mps[s] /\ watcher'[s] = watcher[s]
        BY <3>1, <3>2 DEF TypeOK
      <4>2. /\ main[s] # "idle"
            /\ job[s][pos[s]] = "pending" /\ watcher[s][pos[s]] = "off"
            /\ \A i \in Lines : i >= pos[s] => job[s][i] = "pending"
            /\ \A i \in Lines : job[s][i] # "pending" => i \in 1 .. Len(mps[s])
            /\ \A i \in Lines : watcher[s][i] # "off" =>
                 job[s][i] \in {"statting", "returned", "finished", "sent"}
        BY <3>1, <3>2 DEF SlotInv, Orderly, Lines
      <4>3. \A i \in Lines : i >= pos[s] + 1 => i >= pos[s] /\ i # pos[s]
        BY <3>2 DEF Lines
      <4> QED
        BY <3>2, <4>1, <4>2, <4>3 DEF Orderly
    <3>4. ASSUME NEW t \in Scrapes, t # s PROVE Orderly(t)'
      BY <3>1, <3>4, SMTT(30) DEF TypeOK, SlotInv, Orderly
    <3> QED
      BY <3>3, <3>4 DEF SlotInv
  <2> QED
    BY <2>1, <2>2
<1>7. ASSUME NEW s \in Scrapes, DispSend(s) PROVE Inv'
  <2>1. TypeOK'
    <3>1. pos[s] + 1 \in 1 .. MaxLines + 1
      BY <1>7, InTable DEF DispSend, Lines
    <3> QED
      BY <1>7, <3>1 DEF DispSend, TypeOK, data, Lines
  <2>2. SlotInv'
    BY <1>7 DEF DispSend, TypeOK, SlotInv, Orderly, call, data, vars, Lines, Busy
  <2> QED
    BY <2>1, <2>2
<1>8. ASSUME NEW s \in Scrapes, DispCloseLabels(s) PROVE Inv'
  <2>1. TypeOK'
    BY <1>8 DEF DispCloseLabels, TypeOK, call, data, vars, Lines, Busy
  <2>2. SlotInv'
    BY <1>8 DEF DispCloseLabels, TypeOK, SlotInv, Orderly, call, data, vars, Lines, Busy
  <2> QED
    BY <2>1, <2>2
<1>9. ASSUME NEW s \in Scrapes, DispCloseStats(s) PROVE Inv'
  <2>1. TypeOK'
    BY <1>9 DEF DispCloseStats, WorkersDone, TypeOK, call, data, vars, Lines, Busy
  <2>2. SlotInv'
    BY <1>9, SMTT(30) DEF DispCloseStats, WorkersDone, TypeOK, SlotInv, Orderly, call, data, vars, Lines, Busy
  <2> QED
    BY <2>1, <2>2
<1>10. ASSUME NEW s \in Scrapes, MainStore(s) PROVE Inv'
  <2>1. TypeOK'
    <3>1. PICK new \in Seq(Entries) : stats' = [stats EXCEPT ![s] = new]
      BY <1>10, AppendType DEF MainStore, TypeOK
    <3>2. <<>> \in Seq(Entries) /\ NoEntry \in Entries
      BY DEF NoEntry, Entries, StatErrors, Lines
    <3> QED
      BY <1>10, <3>1, <3>2 DEF MainStore, TypeOK
  <2>2. SlotInv'
    BY <1>10 DEF MainStore, TypeOK, SlotInv, Orderly, call, data, vars, Lines, Busy
  <2> QED
    BY <2>1, <2>2
<1>11. ASSUME NEW s \in Scrapes, MainReturn(s) PROVE Inv'
  <2>1. TypeOK'
    <3>1. job'[s] \in [Lines -> {"pending", "skipped", "listed", "statting",
                                 "returned", "finished", "sent"}]
      BY <1>11 DEF MainReturn, TypeOK
    <3>2. watcher'[s] \in [Lines -> {"off", "waiting", "fired", "marked"}]
      BY <1>11 DEF MainReturn, TypeOK
    <3>3. job' = [job EXCEPT ![s] = job'[s]] /\ watcher' = [watcher EXCEPT ![s] = watcher'[s]]
      BY <1>11 DEF MainReturn, TypeOK
    <3>4. result' = [result EXCEPT ![s] = [i \in Lines |-> "none"]]
      BY <1>11 DEF MainReturn
    <3> QED
      BY <1>11, <3>1, <3>2, <3>3, <3>4 DEF MainReturn, TypeOK, StatErrors
  <2>2. SlotInv'
    BY <1>11 DEF MainReturn, Returning, Watching, TypeOK, SlotInv, Orderly, call, data, vars, Lines, Busy
  <2> QED
    BY <2>1, <2>2
<1>12. ASSUME NEW s \in Scrapes, NEW i \in Lines, StatReturn(s, i) PROVE Inv'
  <2>1. TypeOK'
    <3>1. PICK e \in StatErrors : result' = [result EXCEPT ![s][i] = e]
      BY <1>12 DEF StatReturn, StatErrors
    <3> QED
      BY <1>12, <3>1 DEF StatReturn, TypeOK, data
  <2>2. SlotInv'
    BY <1>12, SMTT(30) DEF StatReturn, MP, TypeOK, SlotInv, Orderly, call, data, vars, Lines, Busy
  <2> QED
    BY <2>1, <2>2
<1>13. ASSUME NEW s \in Scrapes, NEW i \in Lines, StatFinish(s, i) PROVE Inv'
  <2>1. TypeOK'
    BY <1>13 DEF StatFinish, Unmarked, TypeOK, call, data, vars, Lines, Busy
  <2>2. SlotInv'
    BY <1>13 DEF StatFinish, Unmarked, TypeOK, SlotInv, Orderly, call, data, vars, Lines, Busy
  <2> QED
    BY <2>1, <2>2
<1>14. ASSUME NEW s \in Scrapes, NEW i \in Lines, WatcherSuccess(s, i) PROVE Inv'
  <2>1. TypeOK'
    BY <1>14 DEF WatcherSuccess, SuccessClosed, TypeOK, call, data, vars, Lines, Busy
  <2>2. SlotInv'
    BY <1>14, SMTT(30) DEF WatcherSuccess, SuccessClosed, TypeOK, SlotInv, Orderly, call, data, vars, Lines, Busy
  <2> QED
    BY <2>1, <2>2
<1>15. ASSUME NEW s \in Scrapes, NEW i \in Lines, WatcherTimer(s, i) PROVE Inv'
  <2>1. TypeOK'
    BY <1>15 DEF WatcherTimer, TypeOK, call, data, vars, Lines, Busy
  <2>2. SlotInv'
    BY <1>15, SMTT(30) DEF WatcherTimer, TypeOK, SlotInv, Orderly, call, data, vars, Lines, Busy
  <2> QED
    BY <2>1, <2>2
<1>16. ASSUME NEW s \in Scrapes, NEW i \in Lines, WatcherLock(s, i) PROVE Inv'
  <2>1. TypeOK'
    <3>1. job[s][i] # "pending"
      BY <1>16 DEF WatcherLock, SlotInv, Orderly
    <3>2. MP(s, i) \in MountPoints
      BY <3>1, InTable
    <3>3. PICK w \in {"off", "marked"} : watcher' = [watcher EXCEPT ![s][i] = w]
      BY <1>16 DEF WatcherLock
    <3>4. stuck' \subseteq MountPoints
      BY <1>16, <3>2 DEF WatcherLock, Marked, TypeOK
    <3> QED
      BY <1>16, <3>3, <3>4 DEF WatcherLock, TypeOK, data
  <2>2. SlotInv'
    <3>1. job[s][i] \in {"statting", "returned", "finished", "sent"}
      BY <1>16 DEF WatcherLock, SlotInv, Orderly
    <3>2. PICK w : watcher' = [watcher EXCEPT ![s][i] = w]
      BY <1>16 DEF WatcherLock
    <3> QED
      BY <1>16, <3>1, <3>2 DEF WatcherLock, TypeOK, SlotInv, Orderly, data
  <2> QED
    BY <2>1, <2>2
<1>17. ASSUME NEW s \in Scrapes, NEW i \in Lines, MainRecv(s, i) PROVE Inv'
  <2>1. TypeOK'
    <3>1. [line |-> i, err |-> result[s][i]] \in Entries
      BY DEF TypeOK, Entries
    <3> QED
      BY <1>17, <3>1 DEF MainRecv, TypeOK
  <2>2. SlotInv'
    BY <1>17, SMTT(30) DEF MainRecv, TypeOK, SlotInv, Orderly, call, data, vars, Lines, Busy
  <2> QED
    BY <2>1, <2>2
<1>18. ASSUME NEW m \in Flaky, Hang(m) PROVE Inv'
  <2>1. TypeOK'
    BY <1>18 DEF Hang, TypeOK, call, data, vars, Lines, Busy
  <2>2. SlotInv'
    BY <1>18 DEF Hang, TypeOK, SlotInv, Orderly, call, data, vars, Lines, Busy
  <2> QED
    BY <2>1, <2>2
<1>19. ASSUME NEW m \in Flaky, Recover(m) PROVE Inv'
  <2>1. TypeOK'
    BY <1>19 DEF Recover, TypeOK, call, data, vars, Lines, Busy
  <2>2. SlotInv'
    BY <1>19 DEF Recover, TypeOK, SlotInv, Orderly, call, data, vars, Lines, Busy
  <2> QED
    BY <2>1, <2>2
<1>20. CASE UNCHANGED vars
  BY <1>20 DEF TypeOK, SlotInv, Orderly, vars
<1> QED
  BY <1>1, <1>2, <1>3, <1>4, <1>5, <1>6, <1>7, <1>8, <1>9, <1>10, <1>11, <1>12, <1>13, <1>14, <1>15, <1>16, <1>17, <1>18, <1>19, <1>20 DEF Next, Dispatcher

-----------------------------------------------------------------------------
\* A statfs call on line i of slot s that its watcher marked is outstanding.
Outstanding(s, i) == job[s][i] \in {"statting", "returned"} /\ watcher[s][i] = "marked"

(***************************************************************************)
(* A step that leaves the marked outstanding calls, their mount points and *)
(* stuckMounts as they are keeps StuckOutstanding.                         *)
(***************************************************************************)
LEMMA StuckKept ==
    ASSUME StuckOutstanding, stuck' \subseteq stuck,
           \A s \in Scrapes, i \in Lines : Outstanding(s, i) /\ MP(s, i) \in stuck'
             => Outstanding(s, i)' /\ MP(s, i)' = MP(s, i)
    PROVE  StuckOutstanding'
<1> SUFFICES ASSUME NEW m \in stuck'
             PROVE  \E s \in Scrapes, i \in Lines : Outstanding(s, i)' /\ MP(s, i)' = m
  BY DEF StuckOutstanding, Outstanding
<1>1. PICK s \in Scrapes, i \in Lines : Outstanding(s, i) /\ MP(s, i) = m
  BY DEF StuckOutstanding, Outstanding
<1> QED
  BY <1>1

(***************************************************************************)
(* Every step keeps StuckOutstanding: the watcher marks only under the     *)
(* mutex and after looking at success again, and the worker that comes     *)
(* back unmarks under the mutex.                                           *)
(***************************************************************************)
LEMMA NextStuck == IInv /\ [Next]_vars => StuckOutstanding'
<1> SUFFICES ASSUME IInv, [Next]_vars PROVE StuckOutstanding'
  OBVIOUS
<1> USE DEF IInv, Inv
<1>1. ASSUME NEW s \in Scrapes, Begin(s) PROVE StuckOutstanding'
  BY <1>1, StuckKept DEF Begin, SlotFree, Watching, SlotInv, Orderly, Busy, Outstanding, MP, TypeOK, Lines
<1>2. ASSUME NEW s \in Scrapes, BeginFails(s) PROVE StuckOutstanding'
  BY <1>2, StuckKept DEF BeginFails, vars, Outstanding, MP, TypeOK, Lines
<1>3. ASSUME NEW s \in Scrapes, DispSkip(s) PROVE StuckOutstanding'
  BY <1>3, StuckKept, SMTT(30) DEF DispSkip, AtLine, SlotInv, Orderly, Outstanding, MP, TypeOK, Lines
<1>4. ASSUME NEW s \in Scrapes, DispCheck(s) PROVE StuckOutstanding'
  BY <1>4, StuckKept DEF DispCheck, Outstanding, MP, TypeOK, Lines
<1>5. ASSUME NEW s \in Scrapes, DispListLoad(s) PROVE StuckOutstanding'
  BY <1>5, StuckKept DEF DispListLoad, Outstanding, MP, TypeOK, Lines
<1>6. ASSUME NEW s \in Scrapes, DispListStore(s) PROVE StuckOutstanding'
  <2>1. /\ disp[s] = "append"
        /\ job' = [job EXCEPT ![s][pos[s]] = "listed"]
        /\ UNCHANGED <<mps, watcher, stuck>>
    BY <1>6 DEF DispListStore
  <2>2. pos[s] \in Lines /\ job[s][pos[s]] = "pending"
    BY <2>1, InTable DEF SlotInv, Orderly, Lines
  <2>3. \A t \in Scrapes, j \in Lines : Outstanding(t, j)
           => Outstanding(t, j)' /\ MP(t, j)' = MP(t, j)
    BY <2>1, <2>2 DEF Outstanding, MP, TypeOK
  <2> QED
    BY <2>1, <2>3, StuckKept
<1>7. ASSUME NEW s \in Scrapes, DispSend(s) PROVE StuckOutstanding'
  BY <1>7, StuckKept DEF DispSend, SlotInv, Orderly, Outstanding, MP, TypeOK, Lines
<1>8. ASSUME NEW s \in Scrapes, DispCloseLabels(s) PROVE StuckOutstanding'
  BY <1>8, StuckKept DEF DispCloseLabels, Outstanding, MP, TypeOK, Lines
<1>9. ASSUME NEW s \in Scrapes, DispCloseStats(s) PROVE StuckOutstanding'
  BY <1>9, StuckKept DEF DispCloseStats, Outstanding, MP, TypeOK, Lines
<1>10. ASSUME NEW s \in Scrapes, MainStore(s) PROVE StuckOutstanding'
  BY <1>10, StuckKept DEF MainStore, Outstanding, MP, TypeOK, Lines
<1>11. ASSUME NEW s \in Scrapes, MainReturn(s) PROVE StuckOutstanding'
  BY <1>11, StuckKept DEF MainReturn, Returning, SlotInv, Orderly, Busy, Outstanding, MP, TypeOK, Lines
<1>12. ASSUME NEW s \in Scrapes, NEW i \in Lines, StatReturn(s, i) PROVE StuckOutstanding'
  BY <1>12, StuckKept DEF StatReturn, Outstanding, MP, TypeOK, Lines
<1>13. ASSUME NEW s \in Scrapes, NEW i \in Lines, StatFinish(s, i) PROVE StuckOutstanding'
  BY <1>13, StuckKept DEF StatFinish, Unmarked, Outstanding, MP, TypeOK, Lines
<1>14. ASSUME NEW s \in Scrapes, NEW i \in Lines, WatcherSuccess(s, i) PROVE StuckOutstanding'
  BY <1>14, StuckKept DEF WatcherSuccess, SuccessClosed, Outstanding, MP, TypeOK, Lines
<1>15. ASSUME NEW s \in Scrapes, NEW i \in Lines, WatcherTimer(s, i) PROVE StuckOutstanding'
  BY <1>15, StuckKept DEF WatcherTimer, Outstanding, MP, TypeOK, Lines
<1>16. ASSUME NEW s \in Scrapes, NEW i \in Lines, WatcherLock(s, i) PROVE StuckOutstanding'
  <2>1. \A t \in Scrapes, j \in Lines : Outstanding(t, j)
           => Outstanding(t, j)' /\ MP(t, j)' = MP(t, j)
    <3>1. watcher[s][i] = "fired" /\ UNCHANGED <<job, mps>>
      BY <1>16 DEF WatcherLock
    <3>2. PICK w : watcher' = [watcher EXCEPT ![s][i] = w]
      BY <1>16 DEF WatcherLock
    <3> QED
      BY <3>1, <3>2 DEF Outstanding, MP, TypeOK
  <2>2. CASE SuccessClosed(s, i)
    <3>1. UNCHANGED stuck
      BY <1>16, <2>2 DEF WatcherLock
    <3> QED
      BY <2>1, <3>1, StuckKept
  <2>3. CASE ~SuccessClosed(s, i)
    <3>1. stuck' = stuck \cup {MP(s, i)}
      BY <1>16, <2>3 DEF WatcherLock, Marked
    <3>2. Outstanding(s, i)' /\ MP(s, i)' = MP(s, i)
      BY <1>16, <2>3 DEF WatcherLock, SuccessClosed, Outstanding, MP, TypeOK, SlotInv, Orderly
    <3>3. ASSUME NEW m \in stuck'
          PROVE  \E t \in Scrapes, j \in Lines : Outstanding(t, j)' /\ MP(t, j)' = m
      <4>1. CASE m = MP(s, i)
        BY <3>2, <4>1
      <4>2. CASE m \in stuck
        <5>1. PICK t \in Scrapes, j \in Lines : Outstanding(t, j) /\ MP(t, j) = m
          BY <4>2 DEF StuckOutstanding, Outstanding
        <5> QED
          BY <5>1, <2>1
      <4> QED
        BY <3>1, <3>3, <4>1, <4>2
    <3> QED
      BY <3>3 DEF StuckOutstanding, Outstanding
  <2> QED
    BY <2>2, <2>3
<1>17. ASSUME NEW s \in Scrapes, NEW i \in Lines, MainRecv(s, i) PROVE StuckOutstanding'
  BY <1>17, StuckKept DEF MainRecv, Outstanding, MP, TypeOK, Lines
<1>18. ASSUME NEW m \in Flaky, Hang(m) PROVE StuckOutstanding'
  BY <1>18, StuckKept DEF Hang, call, data, Outstanding, MP, TypeOK, Lines
<1>19. ASSUME NEW m \in Flaky, Recover(m) PROVE StuckOutstanding'
  BY <1>19, StuckKept DEF Recover, call, data, Outstanding, MP, TypeOK, Lines
<1>20. CASE UNCHANGED vars
  BY <1>20, StuckKept DEF vars, Outstanding, MP
<1> QED
  BY <1>1, <1>2, <1>3, <1>4, <1>5, <1>6, <1>7, <1>8, <1>9, <1>10, <1>11, <1>12, <1>13, <1>14, <1>15, <1>16, <1>17, <1>18, <1>19, <1>20 DEF Next, Dispatcher

(***************************************************************************)
(* IInv is an inductive invariant of the specification.                    *)
(***************************************************************************)
THEOREM Inductive == Spec => []IInv
<1>1. IInv /\ [Next]_vars => IInv'
  BY NextInv, NextStuck DEF IInv
<1> QED
  BY InitIInv, <1>1, PTL DEF Spec

(***************************************************************************)
(* Every variable keeps its type, whatever the appends to stats race.      *)
(***************************************************************************)
THEOREM TypeCorrect == Spec => []TypeOK
<1>1. IInv => TypeOK
  BY DEF IInv, Inv
<1> QED
  BY Inductive, <1>1, PTL

(***************************************************************************)
(* A mount point is marked as stuck only while a statfs call on it that    *)
(* timed out is outstanding: when all have come back, none is marked.      *)
(***************************************************************************)
THEOREM StuckIsOutstanding == Spec => []StuckOutstanding
<1>1. IInv => StuckOutstanding
  BY DEF IInv
<1> QED
  BY Inductive, <1>1, PTL
-----------------------------------------------------------------------------
(***************************************************************************)
(* What reaches the slice stats.  A line is dealt with once it is listed   *)
(* as stuck or its worker has handed it to main.                           *)
(***************************************************************************)
Dealt(s) == {i \in Lines : job[s][i] \in {"listed", "sent"}}
LinesOf(q) == {q[k].line : k \in 1 .. Len(q)}
Distinct(q) == \A j, k \in 1 .. Len(q) : q[j].line = q[k].line => j = k

\* The slice, and the copies an append works on, report lines once.
Once(s) ==
    /\ \A q \in {stats[s], loadedM[s], loadedD[s]} :
         /\ Distinct(q)
         /\ LinesOf(q) \subseteq Dealt(s)
         /\ main[s] = "append" => incoming[s].line \notin LinesOf(q)
    /\ main[s] = "append" => job[s][incoming[s].line] = "sent"
    /\ main[s] = "idle" => stats[s] = <<>> /\ pos[s] = 1
    /\ main[s] # "append" => loadedM[s] = <<>>
    /\ disp[s] # "append" => loadedD[s] = <<>>

\* The dispatcher passes no line by, and skips exactly the excluded ones.
Walked(s) ==
    main[s] # "idle" =>
        /\ disp[s] # "off"
        /\ \A i \in Lines : i < pos[s] => job[s][i] # "pending"
        /\ \A i \in Lines : job[s][i] = "skipped" => Excluded(mps[s][i])
        /\ \A i \in Lines : job[s][i] \notin {"pending", "skipped"} => ~Excluded(mps[s][i])
        /\ disp[s] \in {"send", "append"} => ~Excluded(mps[s][pos[s]])
        /\ disp[s] \in {"wait", "closed"} => pos[s] > Len(mps[s])

\* No append of the dispatcher has met one of main's.
Unraced(s) ==
    /\ main[s] # "idle" /\ disp[s] # "append"
    /\ \A i \in Lines : job[s][i] # "listed"

\* Then every line that was sent is in the slice, or about to be appended.
Whole(s) ==
    Unraced(s) =>
        /\ \A i \in Lines : job[s][i] = "sent" =>
             i \in LinesOf(stats[s]) \/ (main[s] = "append" /\ incoming[s].line = i)
        /\ main[s] = "append" => loadedM[s] = stats[s]

(***************************************************************************)
(* What an append leaves: nothing new but the element, and no line twice.  *)
(***************************************************************************)
LEMMA AppendLines ==
    ASSUME NEW q \in Seq(Entries), NEW x \in Entries, Distinct(q), x.line \notin LinesOf(q)
    PROVE  Distinct(Append(q, x)) /\ LinesOf(Append(q, x)) = LinesOf(q) \cup {x.line}
<1> DEFINE r == Append(q, x)
<1>1. /\ Len(q) \in Nat /\ Len(r) = Len(q) + 1 /\ r[Len(q) + 1] = x
      /\ \A k \in 1 .. Len(q) : r[k] = q[k]
  OBVIOUS
<1> HIDE DEF r
<1>2. \A k \in 1 .. Len(r) : k \in 1 .. Len(q) \/ k = Len(q) + 1
  BY <1>1
<1>3. \A k \in 1 .. Len(q) : k \in 1 .. Len(r) /\ k # Len(q) + 1
  BY <1>1
<1>4. Len(q) + 1 \in 1 .. Len(r)
  BY <1>1
<1>5. LinesOf(r) = LinesOf(q) \cup {x.line}
  BY <1>1, <1>2, <1>3, <1>4 DEF LinesOf
<1>6. Distinct(r)
  BY <1>1, <1>2, <1>3 DEF Distinct, LinesOf
<1> QED
  BY <1>5, <1>6 DEF r

LEMMA PrefixLines ==
    ASSUME NEW q \in Seq(Entries), NEW n \in 0 .. Len(q), Distinct(q)
    PROVE  Distinct(SubSeq(q, 1, n)) /\ LinesOf(SubSeq(q, 1, n)) \subseteq LinesOf(q)
<1>1. /\ Len(q) \in Nat /\ Len(SubSeq(q, 1, n)) = n
      /\ \A k \in 1 .. n : SubSeq(q, 1, n)[k] = q[k] /\ k \in 1 .. Len(q)
  OBVIOUS
<1> QED
  BY <1>1 DEF Distinct, LinesOf

LEMMA OutcomeLines ==
    ASSUME NEW loaded \in Seq(Entries), NEW now \in Seq(Entries), NEW x \in Entries,
           NEW new \in AppendOutcomes(loaded, now, x),
           Distinct(loaded), Distinct(now), x.line \notin LinesOf(loaded)
    PROVE  /\ Distinct(new)
           /\ LinesOf(new) \subseteq LinesOf(loaded) \cup LinesOf(now) \cup {x.line}
           /\ loaded = now => LinesOf(new) = LinesOf(now) \cup {x.line}
<1>1. Len(now) \in Nat /\ Len(loaded) \in Nat
  OBVIOUS
<1>2. CASE new = Append(loaded, x)
  BY <1>2, AppendLines
<1>3. CASE Len(now) > Len(loaded) /\ new = SubSeq(now, 1, Len(loaded) + 1)
  <2>1. Len(loaded) + 1 \in 0 .. Len(now) /\ loaded # now
    BY <1>1, <1>3
  <2> QED
    BY <1>3, <2>1, PrefixLines
<1> QED
  BY <1>2, <1>3 DEF AppendOutcomes

(***************************************************************************)
(* A step keeps what it does not touch: the locals of slot s here.         *)
(***************************************************************************)
Kept(s) ==
    /\ main'[s] = main[s] /\ disp'[s] = disp[s] /\ pos'[s] = pos[s]
    /\ mps'[s] = mps[s] /\ job'[s] = job[s]
    /\ stats'[s] = stats[s] /\ loadedM'[s] = loadedM[s] /\ loadedD'[s] = loadedD[s]
    /\ incoming'[s] = incoming[s]

SlotSlices(s) == Once(s) /\ Walked(s) /\ Whole(s)
SliceInv == \A s \in Scrapes : SlotSlices(s)

LEMMA KeptSlices ==
    ASSUME NEW s \in Scrapes, SlotSlices(s), Kept(s)
    PROVE  SlotSlices(s)'
<1>1. Once(s)'
  BY DEF SlotSlices, Kept, Once, Dealt
<1>2. Walked(s)'
  BY DEF SlotSlices, Kept, Walked
<1>3. Whole(s)'
  BY DEF SlotSlices, Kept, Whole, Unraced
<1> QED
  BY <1>1, <1>2, <1>3 DEF SlotSlices

(***************************************************************************)
(* A step of slot s touches the locals of no other slot.                   *)
(***************************************************************************)
SlotStep(s) ==
    \/ Begin(s) \/ BeginFails(s) \/ Dispatcher(s) \/ MainStore(s) \/ MainReturn(s)
    \/ \E i \in Lines :
         \/ StatReturn(s, i) \/ StatFinish(s, i) \/ WatcherSuccess(s, i)
         \/ WatcherTimer(s, i) \/ WatcherLock(s, i) \/ MainRecv(s, i)

LEMMA OthersKept ==
    ASSUME TypeOK, NEW s \in Scrapes, NEW t \in Scrapes, t # s, SlotStep(s)
    PROVE  Kept(t)
<1> USE DEF TypeOK, Kept, data, call
<1>1. CASE Begin(s) \/ BeginFails(s) \/ MainStore(s) \/ MainReturn(s)
  BY <1>1 DEF Begin, BeginFails, MainStore, MainReturn, vars
<1>2. CASE Dispatcher(s)
  BY <1>2 DEF Dispatcher, DispSkip, DispCheck, DispListLoad, DispListStore, DispSend,
     DispCloseLabels, DispCloseStats
<1>3. ASSUME NEW i \in Lines, StatReturn(s, i) \/ StatFinish(s, i) \/ MainRecv(s, i)
      PROVE  Kept(t)
  BY <1>3 DEF StatReturn, StatFinish, MainRecv
<1>4. ASSUME NEW i \in Lines, WatcherSuccess(s, i) \/ WatcherTimer(s, i) \/ WatcherLock(s, i)
      PROVE  Kept(t)
  BY <1>4 DEF WatcherSuccess, WatcherTimer, WatcherLock
<1> QED
  BY <1>1, <1>2, <1>3, <1>4 DEF SlotStep

(***************************************************************************)
(* What the slices of slot s are made of.                                  *)
(***************************************************************************)
LEMMA SlotTypes ==
    ASSUME TypeOK, NEW s \in Scrapes
    PROVE  /\ job[s] \in [Lines -> {"pending", "skipped", "listed", "statting",
                                    "returned", "finished", "sent"}]
           /\ stats[s] \in Seq(Entries) /\ loadedM[s] \in Seq(Entries)
           /\ loadedD[s] \in Seq(Entries) /\ incoming[s] \in Entries
           /\ incoming[s].line \in Lines
           /\ pos[s] \in Nat /\ Len(mps[s]) \in Nat
<1>1. mps[s] \in MountTables \cup {<<>>}
  BY DEF TypeOK
<1>2. Len(mps[s]) \in 0 .. MaxLines
  BY <1>1, TableType
<1>3. incoming[s] \in Entries
  BY DEF TypeOK
<1>4. incoming[s].line \in Lines
  BY <1>3 DEF Entries
<1>5. pos[s] \in Nat /\ Len(mps[s]) \in Nat
  BY <1>2, FSAssumption DEF TypeOK, FSAssumption
<1> QED
  BY <1>3, <1>4, <1>5 DEF TypeOK

LEMMA EmptyLines == Distinct(<<>>) /\ LinesOf(<<>>) = {}
<1>1. Len(<<>>) = 0 /\ 1 .. 0 = {}
  OBVIOUS
<1> QED
  BY <1>1 DEF Distinct, LinesOf

(***************************************************************************)
(* The job of one line changes, and nothing it is compared with.           *)
(***************************************************************************)
LEMMA BusyStep ==
    ASSUME Inv, NEW s \in Scrapes, SlotSlices(s), NEW i \in Lines,
           job[s][i] \in {"statting", "returned"}, NEW next \in {"returned", "finished"},
           job' = [job EXCEPT ![s][i] = next],
           UNCHANGED <<main, disp, pos, mps, data>>
    PROVE  SlotSlices(s)'
<1>1. \A k \in Lines : job'[s][k] = IF k = i THEN next ELSE job[s][k]
  BY DEF Inv, TypeOK
<1>2. Dealt(s)' = Dealt(s)
  BY <1>1 DEF Dealt
<1>3. incoming[s].line \in Lines
  BY SlotTypes DEF Inv
<1>4. Once(s)'
  BY <1>1, <1>2, <1>3 DEF SlotSlices, Once, data
<1>5. Walked(s)'
  BY <1>1 DEF SlotSlices, Walked
<1>6. Whole(s)'
  BY <1>1 DEF SlotSlices, Whole, Unraced, data
<1> QED
  BY <1>4, <1>5, <1>6 DEF SlotSlices

(***************************************************************************)
(* The dispatcher: what it passes by it skips, lists or sends.             *)
(***************************************************************************)
LEMMA DispatcherSlices ==
    ASSUME Inv, NEW s \in Scrapes, SlotSlices(s), Dispatcher(s)
    PROVE  SlotSlices(s)'
<1> USE DEF Inv
<1>a. /\ pos[s] \in Nat /\ Len(mps[s]) \in Nat /\ incoming[s].line \in Lines
      /\ incoming[s] \in Entries
      /\ stats[s] \in Seq(Entries) /\ loadedM[s] \in Seq(Entries) /\ loadedD[s] \in Seq(Entries)
  BY SlotTypes
<1>b. /\ disp[s] \in {"send", "append"} \/ AtLine(s) => pos[s] \in Lines
      /\ disp[s] \in {"scan", "send", "append"} =>
           main[s] # "idle" /\ \A i \in Lines : i >= pos[s] => job[s][i] = "pending"
  BY InTable DEF SlotInv, Orderly
<1>c. \A i \in Lines : i \in Nat
  BY FSAssumption DEF Lines, FSAssumption
<1>1. ASSUME NEW next \in {"skipped", "statting"}, pos[s] \in Lines,
             job' = [job EXCEPT ![s][pos[s]] = next], job[s][pos[s]] = "pending",
             pos' = [pos EXCEPT ![s] = @ + 1], disp' = [disp EXCEPT ![s] = "scan"],
             disp[s] \in {"scan", "send"},
             next = "skipped" <=> Excluded(mps[s][pos[s]]),
             UNCHANGED <<main, mps, data>>
      PROVE  SlotSlices(s)'
  <2>1. \A k \in Lines : job'[s][k] = IF k = pos[s] THEN next ELSE job[s][k]
    BY <1>1 DEF TypeOK
  <2>2. pos'[s] = pos[s] + 1 /\ disp'[s] = "scan" /\ main[s] # "idle"
    BY <1>1, <1>b DEF TypeOK
  <2>3. Dealt(s)' = Dealt(s)
    BY <1>1, <2>1 DEF Dealt
  <2>4. Once(s)'
    <3>1. main[s] = "append" => job'[s][incoming[s].line] = "sent"
      BY <1>1, <1>a, <2>1 DEF SlotSlices, Once
    <3> QED
      BY <1>1, <2>2, <2>3, <3>1 DEF SlotSlices, Once, data
  <2>5. Walked(s)'
    <3>1. \A i \in Lines : i < pos[s] + 1 => i < pos[s] \/ i = pos[s]
      BY <1>a, <1>c
    <3> QED
      BY <1>1, <2>1, <2>2, <3>1 DEF SlotSlices, Walked
  <2>6. Whole(s)'
    BY <1>1, <2>1, <2>2 DEF SlotSlices, Whole, Unraced, data
  <2> QED
    BY <2>4, <2>5, <2>6 DEF SlotSlices
<1>2. CASE DispSkip(s)
  <2>1. disp' = [disp EXCEPT ![s] = "scan"]
    BY <1>2 DEF DispSkip, AtLine, TypeOK
  <2>2. job[s][pos[s]] = "pending" /\ pos[s] \in Lines
    BY <1>2, <1>a, <1>b DEF DispSkip, AtLine
  <2> QED
    BY <1>1, <1>2, <2>1, <2>2 DEF DispSkip, AtLine
<1>3. CASE DispSend(s)
  <2>1. ~Excluded(mps[s][pos[s]])
    BY <1>3, <1>b DEF DispSend, SlotSlices, Walked
  <2>2. job[s][pos[s]] = "pending" /\ pos[s] \in Lines
    BY <1>3, <1>a, <1>b DEF DispSend
  <2> QED
    BY <1>1, <1>3, <2>1, <2>2 DEF DispSend
<1>4. ASSUME DispCheck(s) \/ DispCloseLabels(s) \/ DispCloseStats(s)
      PROVE  SlotSlices(s)'
  <2>1. /\ UNCHANGED <<main, pos, mps, job, data>>
        /\ disp[s] # "append" /\ disp'[s] \notin {"append", "off"}
        /\ disp[s] # "off"
        /\ disp'[s] = "send" => ~Excluded(mps[s][pos[s]])
        /\ disp'[s] \in {"wait", "closed"} => disp[s] \in {"wait", "closed"} \/ pos[s] > Len(mps[s])
    BY <1>4 DEF DispCheck, DispCloseLabels, DispCloseStats, AtLine, TypeOK
  <2>2. Once(s)'
    BY <2>1 DEF SlotSlices, Once, Dealt, data
  <2>3. Walked(s)'
    BY <2>1 DEF SlotSlices, Walked
  <2>4. Whole(s)'
    BY <2>1 DEF SlotSlices, Whole, Unraced, data
  <2> QED
    BY <2>2, <2>3, <2>4 DEF SlotSlices
<1>5. CASE DispListLoad(s)
  <2>1. /\ UNCHANGED <<main, pos, mps, job, stats, loadedM, incoming>>
        /\ disp[s] = "scan" /\ disp'[s] = "append" /\ loadedD'[s] = stats[s]
        /\ ~Excluded(mps[s][pos[s]])
    BY <1>5 DEF DispListLoad, AtLine, TypeOK
  <2>2. Once(s)'
    BY <2>1 DEF SlotSlices, Once, Dealt
  <2>3. Walked(s)'
    BY <2>1 DEF SlotSlices, Walked
  <2>4. Whole(s)'
    BY <2>1 DEF Whole, Unraced
  <2> QED
    BY <2>2, <2>3, <2>4 DEF SlotSlices
<1>6. CASE DispListStore(s)
  <2> DEFINE x == [line |-> pos[s], err |-> "timeout"]
  <2>1. PICK new \in AppendOutcomes(loadedD[s], stats[s], x) :
          stats' = [stats EXCEPT ![s] = new]
    BY <1>6 DEF DispListStore
  <2>2. /\ pos[s] \in Lines /\ job[s][pos[s]] = "pending" /\ main[s] # "idle" /\ disp[s] = "append"
    BY <1>6, <1>a, <1>b DEF DispListStore
  <2>3. x \in Entries /\ x.line = pos[s]
    BY <2>2 DEF Entries
  <2> HIDE DEF x
  <2>4. /\ stats'[s] = new /\ loadedD'[s] = <<>> /\ disp'[s] = "scan" /\ pos'[s] = pos[s] + 1
        /\ \A k \in Lines : job'[s][k] = IF k = pos[s] THEN "listed" ELSE job[s][k]
        /\ UNCHANGED <<main, mps, loadedM, incoming>>
    BY <1>6, <2>1 DEF DispListStore, TypeOK
  <2>5. pos[s] \notin Dealt(s) /\ Dealt(s)' = Dealt(s) \cup {pos[s]}
    BY <2>2, <2>4 DEF Dealt
  <2>6. /\ Distinct(loadedD[s]) /\ Distinct(stats[s])
        /\ LinesOf(loadedD[s]) \subseteq Dealt(s) /\ LinesOf(stats[s]) \subseteq Dealt(s)
    BY DEF SlotSlices, Once
  <2>7. /\ Distinct(new)
        /\ LinesOf(new) \subseteq LinesOf(loadedD[s]) \cup LinesOf(stats[s]) \cup {pos[s]}
    BY <1>a, <2>3, <2>5, <2>6, OutcomeLines
  <2>8. Once(s)'
    <3>1. \A q \in {stats[s], loadedM[s], loadedD[s]} :
            LinesOf(q) \subseteq Dealt(s) /\ (main[s] = "append" => incoming[s].line \notin LinesOf(q))
      BY DEF SlotSlices, Once
    <3>2. main[s] = "append" => job[s][incoming[s].line] = "sent"
      BY DEF SlotSlices, Once
    <3>3. main[s] = "append" => incoming[s].line # pos[s]
      BY <2>2, <3>2
    <3>4. \A q \in {stats'[s], loadedM'[s], loadedD'[s]} :
            /\ Distinct(q) /\ LinesOf(q) \subseteq Dealt(s)'
            /\ main'[s] = "append" => incoming'[s].line \notin LinesOf(q)
      BY <2>4, <2>5, <2>7, <3>1, <3>3, EmptyLines DEF SlotSlices, Once
    <3> QED
      BY <1>a, <2>2, <2>4, <3>2, <3>3, <3>4 DEF SlotSlices, Once
  <2>9. Walked(s)'
    <3>1. \A i \in Lines : i < pos[s] + 1 => i < pos[s] \/ i = pos[s]
      BY <1>a, <1>c
    <3> QED
      BY <2>2, <2>4, <3>1 DEF SlotSlices, Walked
  <2>10. Whole(s)'
    BY <2>2, <2>4 DEF Whole, Unraced
  <2> QED
    BY <2>8, <2>9, <2>10 DEF SlotSlices
<1> QED
  BY <1>2, <1>3, <1>4, <1>5, <1>6 DEF Dispatcher

(***************************************************************************)
(* The caller: it begins with nothing, appends what it receives and        *)
(* forgets it all when it returns.                                         *)
(***************************************************************************)
LEMMA MainSlices ==
    ASSUME Inv, NEW s \in Scrapes, SlotSlices(s),
           \/ Begin(s) \/ MainStore(s) \/ MainReturn(s)
           \/ \E i \in Lines : MainRecv(s, i)
    PROVE  SlotSlices(s)'
<1> USE DEF Inv
<1>a. /\ pos[s] \in Nat /\ Len(mps[s]) \in Nat /\ incoming[s].line \in Lines
      /\ incoming[s] \in Entries
      /\ stats[s] \in Seq(Entries) /\ loadedM[s] \in Seq(Entries) /\ loadedD[s] \in Seq(Entries)
  BY SlotTypes
<1>c. \A i \in Lines : i \in Nat /\ i >= 1
  BY FSAssumption DEF Lines, FSAssumption
<1>1. CASE Begin(s)
  <2>1. /\ main[s] = "idle" /\ disp[s] = "off" /\ main'[s] = "recv" /\ disp'[s] = "scan"
        /\ job'[s] = [i \in Lines |-> "pending"]
        /\ UNCHANGED <<pos, stats, loadedM, loadedD, incoming>>
    BY <1>1 DEF Begin, SlotFree, TypeOK, SlotInv, Orderly
  <2>2. stats[s] = <<>> /\ loadedM[s] = <<>> /\ loadedD[s] = <<>> /\ pos[s] = 1
    BY <2>1 DEF SlotSlices, Once
  <2>3. Once(s)'
    BY <2>1, <2>2, EmptyLines DEF Once
  <2>4. Walked(s)'
    BY <1>c, <2>1, <2>2 DEF Walked
  <2>5. Whole(s)'
    BY <2>1 DEF Whole
  <2> QED
    BY <2>3, <2>4, <2>5 DEF SlotSlices
<1>2. ASSUME NEW i \in Lines, MainRecv(s, i) PROVE SlotSlices(s)'
  <2>1. /\ main[s] = "recv" /\ main'[s] = "append" /\ job[s][i] = "finished"
        /\ \A k \in Lines : job'[s][k] = IF k = i THEN "sent" ELSE job[s][k]
        /\ incoming'[s].line = i /\ loadedM'[s] = stats[s]
        /\ UNCHANGED <<disp, pos, mps, stats, loadedD>>
    BY <1>2 DEF MainRecv, TypeOK
  <2>2. i \notin Dealt(s) /\ Dealt(s) \subseteq Dealt(s)'
    BY <2>1 DEF Dealt
  <2>3. Once(s)'
    BY <2>1, <2>2 DEF SlotSlices, Once
  <2>4. Walked(s)'
    BY <2>1 DEF SlotSlices, Walked
  <2>5. Whole(s)'
    BY <2>1 DEF SlotSlices, Whole, Unraced
  <2> QED
    BY <2>3, <2>4, <2>5 DEF SlotSlices
<1>3. CASE MainStore(s)
  <2>1. PICK new \in AppendOutcomes(loadedM[s], stats[s], incoming[s]) :
          stats' = [stats EXCEPT ![s] = new]
    BY <1>3 DEF MainStore
  <2>2. /\ main[s] = "append" /\ main'[s] = "recv" /\ stats'[s] = new /\ loadedM'[s] = <<>>
        /\ UNCHANGED <<disp, pos, mps, job, loadedD>>
    BY <1>3, <2>1 DEF MainStore, TypeOK
  <2>3. /\ \A q \in {stats[s], loadedM[s], loadedD[s]} :
              Distinct(q) /\ LinesOf(q) \subseteq Dealt(s) /\ incoming[s].line \notin LinesOf(q)
        /\ job[s][incoming[s].line] = "sent"
    BY <2>2 DEF SlotSlices, Once
  <2>4. /\ Distinct(new)
        /\ LinesOf(new) \subseteq LinesOf(loadedM[s]) \cup LinesOf(stats[s]) \cup {incoming[s].line}
        /\ loadedM[s] = stats[s] => LinesOf(new) = LinesOf(stats[s]) \cup {incoming[s].line}
    BY <1>a, <2>3, OutcomeLines
  <2>5. LinesOf(new) \subseteq Dealt(s) /\ Dealt(s)' = Dealt(s)
    BY <1>a, <2>2, <2>3, <2>4 DEF Dealt
  <2>6. Once(s)'
    BY <2>2, <2>3, <2>4, <2>5, EmptyLines DEF SlotSlices, Once
  <2>7. Walked(s)'
    BY <2>2 DEF SlotSlices, Walked
  <2>8. Whole(s)'
    BY <2>2, <2>4 DEF SlotSlices, Whole, Unraced
  <2> QED
    BY <2>6, <2>7, <2>8 DEF SlotSlices
<1>4. CASE MainReturn(s)
  <2>1. /\ main[s] = "recv" /\ disp[s] = "closed" /\ main'[s] = "idle" /\ disp'[s] = "off"
        /\ pos'[s] = 1 /\ stats'[s] = <<>>
        /\ UNCHANGED <<loadedM, loadedD>>
    BY <1>4 DEF MainReturn, Returning, TypeOK
  <2>2. loadedM[s] = <<>> /\ loadedD[s] = <<>>
    BY <2>1 DEF SlotSlices, Once
  <2>3. Once(s)'
    BY <2>1, <2>2, EmptyLines DEF Once
  <2> QED
    BY <2>1, <2>3 DEF SlotSlices, Walked, Whole, Unraced
<1> QED
  BY <1>1, <1>2, <1>3, <1>4

(***************************************************************************)
(* Workers and watchers do not touch the slice.                            *)
(***************************************************************************)
LEMMA WorkerSlices ==
    ASSUME Inv, NEW s \in Scrapes, SlotSlices(s), NEW i \in Lines,
           \/ StatReturn(s, i) \/ StatFinish(s, i)
           \/ WatcherSuccess(s, i) \/ WatcherTimer(s, i) \/ WatcherLock(s, i)
    PROVE  SlotSlices(s)'
<1>1. CASE StatReturn(s, i)
  BY <1>1, BusyStep DEF StatReturn
<1>2. CASE StatFinish(s, i)
  BY <1>2, BusyStep DEF StatFinish
<1>3. CASE WatcherSuccess(s, i) \/ WatcherTimer(s, i) \/ WatcherLock(s, i)
  <2>1. Kept(s)
    BY <1>3 DEF WatcherSuccess, WatcherTimer, WatcherLock, Kept, data
  <2> QED
    BY <2>1, KeptSlices
<1> QED
  BY <1>1, <1>2, <1>3

LEMMA NextSlices == Inv /\ SliceInv /\ [Next]_vars => SliceInv'
<1> SUFFICES ASSUME Inv, SliceInv, [Next]_vars, NEW t \in Scrapes PROVE SlotSlices(t)'
  BY DEF SliceInv
<1>0. SlotSlices(t)
  BY DEF SliceInv
<1>1. ASSUME NEW s \in Scrapes, SlotStep(s) PROVE SlotSlices(t)'
  <2>1. CASE s # t
    <3>1. Kept(t)
      BY <1>1, <2>1, OthersKept DEF Inv
    <3> QED
      BY <1>0, <3>1, KeptSlices
  <2>2. CASE s = t
    <3>1. CASE BeginFails(s)
      <4>1. Kept(t)
        BY <3>1 DEF BeginFails, vars, Kept
      <4> QED
        BY <1>0, <4>1, KeptSlices
    <3> QED
      BY <1>0, <1>1, <2>2, <3>1, DispatcherSlices, MainSlices, WorkerSlices DEF SlotStep
  <2> QED
    BY <2>1, <2>2
<1>2. CASE \E m \in Flaky : Hang(m) \/ Recover(m)
  <2>1. Kept(t)
    BY <1>2 DEF Hang, Recover, Kept, call, data
  <2> QED
    BY <1>0, <2>1, KeptSlices
<1>3. CASE UNCHANGED vars
  <2>1. Kept(t)
    BY <1>3 DEF vars, Kept
  <2> QED
    BY <1>0, <2>1, KeptSlices
<1> QED
  BY <1>1, <1>2, <1>3 DEF Next, SlotStep

LEMMA InitSlices == Init => SliceInv
<1> SUFFICES ASSUME Init, NEW s \in Scrapes PROVE SlotSlices(s)
  BY DEF SliceInv
<1>1. Once(s)
  BY EmptyLines DEF Init, Once
<1> QED
  BY <1>1 DEF Init, SlotSlices, Walked, Whole, Unraced

(***************************************************************************)
(* SliceInv holds in every behaviour.                                      *)
(***************************************************************************)
LEMMA SlicesInductive == Spec => []SliceInv
<1>1. IInv /\ SliceInv /\ [Next]_vars => SliceInv'
  BY NextSlices DEF IInv
<1> QED
  BY InitSlices, Inductive, <1>1, PTL DEF Spec

(***************************************************************************)
(* No line enters stats twice, however the two appends to it race: a line  *)
(* is either listed as stuck or measured.                                  *)
(***************************************************************************)
THEOREM LinesOnce == Spec => []NoLineTwice
<1>1. SliceInv => NoLineTwice
  BY DEF SliceInv, SlotSlices, Once, Distinct, NoLineTwice, Reported
<1> QED
  BY SlicesInductive, <1>1, PTL

(***************************************************************************)
(* A call that lists no mount as stuck reports every included line and no  *)
(* other, for any mount table and any number of workers.                   *)
(***************************************************************************)
THEOREM ReportsAll == Spec => []CompleteWithoutStuck
<1>1. IInv /\ SliceInv => CompleteWithoutStuck
  <2> SUFFICES ASSUME IInv, SliceInv, NEW s \in Scrapes, Returning(s),
                      \A i \in Lines : job[s][i] # "listed"
               PROVE  Included(s) = {Reported(s)[k] : k \in 1 .. Len(stats[s])}
    BY DEF CompleteWithoutStuck
  <2> DEFINE sent == {i \in Lines : job[s][i] = "sent"}
  <2>1. /\ main[s] = "recv" /\ disp[s] = "closed"
        /\ \A i \in Lines : job[s][i] \notin Busy
    BY DEF Returning, IInv, Inv, SlotInv, Orderly
  <2>2. job[s] \in [Lines -> {"pending", "skipped", "listed", "statting",
                              "returned", "finished", "sent"}]
        /\ pos[s] \in Nat /\ Len(mps[s]) \in Nat
    BY SlotTypes DEF IInv, Inv
  <2>3. SlotSlices(s)
    BY DEF SliceInv
  <2>4. LinesOf(stats[s]) = sent
    <3>1. LinesOf(stats[s]) \subseteq Dealt(s) /\ sent \subseteq LinesOf(stats[s])
      BY <2>1, <2>3 DEF SlotSlices, Once, Whole, Unraced
    <3> QED
      BY <3>1 DEF Dealt
  <2>5. \A i \in Lines : job[s][i] \in {"pending", "skipped", "sent"}
    BY <2>1, <2>2 DEF Busy
  <2>6. 1 .. Len(mps[s]) \subseteq Lines
    <3>1. mps[s] \in MountTables \cup {<<>>}
      BY DEF IInv, Inv, TypeOK
    <3>2. Len(mps[s]) \in 0 .. MaxLines
      BY <3>1, TableType
    <3> QED
      BY <3>2, FSAssumption DEF Lines, FSAssumption
  <2>7. \A i \in 1 .. Len(mps[s]) : i < pos[s]
    BY <2>1, <2>2, <2>3 DEF SlotSlices, Walked
  <2>8. Included(s) = sent
    <3>1. \A i \in sent : i \in 1 .. Len(mps[s]) /\ ~Excluded(mps[s][i])
      BY <2>1, <2>3 DEF SlotSlices, Walked, IInv, Inv, SlotInv, Orderly
    <3>2. \A i \in 1 .. Len(mps[s]) : ~Excluded(mps[s][i]) => i \in sent
      BY <2>1, <2>3, <2>5, <2>6, <2>7 DEF SlotSlices, Walked
    <3> QED
      BY <3>1, <3>2 DEF Included
  <2> QED
    BY <2>4, <2>8 DEF LinesOf, Reported
<1> QED
  BY Inductive, SlicesInductive, <1>1, PTL

(***************************************************************************)
(* Update sends no series twice, unless the table lists one mount with two *)
(* sets of options.                                                        *)
(***************************************************************************)
THEOREM SeriesOnce == Spec => []SeriesUnique
<1>1. IInv /\ SliceInv => SeriesUnique
  <2> SUFFICES ASSUME IInv, SliceInv, NEW s \in Scrapes, Returning(s),
                      \A i, j \in Included(s) : SameSeries(mps[s][i], mps[s][j])
                                                  => mps[s][i] = mps[s][j],
                      NEW m \in Exposed(s), NEW n \in Exposed(s),
                      SeriesOf(s, m) = SeriesOf(s, n)
               PROVE  m = n
    BY DEF SeriesUnique
  <2> DEFINE st == stats[s]
             a == st[m.entry]
             b == st[n.entry]
             names == {"device_error", "readonly", "sizes"}
  <2>1. /\ m \in [entry : FirstSeen(mps[s], st), name : names]
        /\ n \in [entry : FirstSeen(mps[s], st), name : names]
    BY DEF Exposed, Exposure
  <2>2. m.entry \in 1 .. Len(st) /\ n.entry \in 1 .. Len(st)
    BY <2>1 DEF FirstSeen
  <2>3. /\ m.name = n.name /\ a.err = b.err
        /\ SameSeries(mps[s][a.line], mps[s][b.line])
    BY DEF SeriesOf, Series, SameSeries
  <2>4. \A k \in 1 .. Len(st) : st[k].line \in Included(s)
    <3>1. main[s] = "recv" /\ SlotSlices(s)
      BY DEF Returning, SliceInv
    <3>2. LinesOf(st) \subseteq Dealt(s)
      BY <3>1 DEF SlotSlices, Once
    <3>3. \A i \in Dealt(s) : i \in 1 .. Len(mps[s]) /\ ~Excluded(mps[s][i])
      BY <3>1 DEF Dealt, SlotSlices, Walked, IInv, Inv, SlotInv, Orderly
    <3> QED
      BY <3>2, <3>3 DEF LinesOf, Included
  <2>5. mps[s][a.line] = mps[s][b.line]
    BY <2>2, <2>3, <2>4
  <2>6. SeenKey(mps[s], a) = SeenKey(mps[s], b)
    BY <2>3, <2>5 DEF SeenKey
  <2>7. m.entry = n.entry
    <3>1. /\ \A j \in 1 .. m.entry - 1 : SeenKey(mps[s], st[j]) # SeenKey(mps[s], a)
          /\ \A j \in 1 .. n.entry - 1 : SeenKey(mps[s], st[j]) # SeenKey(mps[s], b)
      BY <2>1 DEF FirstSeen
    <3>2. n.entry \notin 1 .. m.entry - 1 /\ m.entry \notin 1 .. n.entry - 1
      BY <2>6, <3>1
    <3> QED
      BY <2>2, <3>2
  <2> QED
    BY <2>1, <2>3, <2>7
<1> QED
  BY Inductive, SlicesInductive, <1>1, PTL
=============================================================================
