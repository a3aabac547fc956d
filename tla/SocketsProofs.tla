--------------------------- MODULE SocketsProofs ---------------------------
(***************************************************************************)
(* Proofs about ProcessSockets, for any process ids, descriptors, sockets  *)
(* and tables, and however the host changes during a call.                 *)
(***************************************************************************)
EXTENDS ProcessSockets, TLAPS

\* A call runs exactly when it is at some place; otherwise nothing is set.
CallOpen ==
    /\ call = Idle <=> pc = "idle"
    /\ call = Idle => result = {} /\ \A s \in Sockets : owner[s] = Nobody

\* PortsByPid is asked for a process.
CurKnown ==
    call.op = "GetProcessesByName" /\ pc \in {"table", "proc", "dir", "link", "stat"} => cur \in Pids

\* The descriptor that matched is an entry of the table being read.
MatchInTable == match # NoSocket => match \in Sktab

Types == TypeOK /\ CallOpen /\ CurKnown /\ MatchInTable

HeldEver ==
    call # Idle => \A p \in Pids, f \in Fds :
        fd[p][f] \in Sockets => <<p, fd[p][f]>> \in ever

OwnerEver == \A s \in Sockets : owner[s] # Nobody => <<owner[s], s>> \in ever
MatchEver == match # NoSocket => <<dir, match>> \in ever

IInv == Types /\ HeldEver /\ OwnerEver /\ MatchEver /\ OnlyHolders
-----------------------------------------------------------------------------
(***************************************************************************)
(* Held and the history it feeds have their types, and miss no holder.     *)
(***************************************************************************)
LEMMA HeldTypes ==
    ASSUME fd \in [Pids -> [Fds -> Sockets \cup {NoSocket}]]
    PROVE  /\ Held \subseteq Pids \X Fds \X Sockets
           /\ {<<h[1], h[3]>> : h \in Held} \subseteq Pids \X Sockets
           /\ \A p \in Pids, f \in Fds : fd[p][f] \in Sockets =>
                <<p, fd[p][f]>> \in {<<h[1], h[3]>> : h \in Held}
<1>1. Held \subseteq Pids \X Fds \X Sockets
  BY DEF Held
<1>2. {<<h[1], h[3]>> : h \in Held} \subseteq Pids \X Sockets
  BY <1>1
<1>3. ASSUME NEW p \in Pids, NEW f \in Fds, fd[p][f] \in Sockets
      PROVE  <<p, fd[p][f]>> \in {<<h[1], h[3]>> : h \in Held}
  <2> DEFINE h == <<p, f, fd[p][f]>>
  <2>1. h \in Held
    BY <1>3 DEF Held
  <2>2. <<p, fd[p][f]>> = <<h[1], h[3]>>
    OBVIOUS
  <2> QED
    BY <2>1, <2>2
<1> QED
  BY <1>1, <1>2, <1>3

(***************************************************************************)
(* Before the first call everything has its type and nothing is held       *)
(* against anyone.                                                         *)
(***************************************************************************)
LEMMA InitIInv == Init => IInv
<1> SUFFICES ASSUME Init PROVE IInv
  OBVIOUS
<1>1. TypeOK
  <2>1. known \in BOOLEAN /\ tcp6 \in BOOLEAN /\ quiet \in BOOLEAN
    BY Zenon DEF Init
  <2>2. /\ result \subseteq [pid : Pids, socks : SUBSET Sockets]
        /\ ever \subseteq Pids \X Sockets
        /\ always \subseteq Pids \X Fds \X Sockets
        /\ call \in Inputs \cup {Idle}
    BY Zenon DEF Init
  <2>3. /\ used \subseteq Sockets
        /\ owner \in [Sockets -> Pids \cup {Nobody}]
        /\ changes \in 0 .. MaxChanges
    BY SocketsAssumption DEF Init, SocketsAssumption, Listening
  <2> QED
    BY <2>1, <2>2, <2>3 DEF Init, TypeOK
<1>2. CallOpen /\ CurKnown /\ MatchInTable
  BY DEF Init, CallOpen, CurKnown, MatchInTable
<1>3. HeldEver /\ OwnerEver /\ MatchEver /\ OnlyHolders
  BY DEF Init, HeldEver, OwnerEver, MatchEver, OnlyHolders
<1> QED
  BY <1>1, <1>2, <1>3 DEF IInv, Types
-----------------------------------------------------------------------------
(***************************************************************************)
(* What a change of the host does.                                         *)
(***************************************************************************)
LEMMA HostStep ==
    ASSUME Types, Host
    PROVE  /\ Change
           /\ alive' \subseteq Pids /\ used' \subseteq Sockets
           /\ fd' \in [Pids -> [Fds -> Sockets \cup {NoSocket}]]
<1> DEFINE G == /\ Change
                /\ alive' \subseteq Pids /\ used' \subseteq Sockets
                /\ fd' \in [Pids -> [Fds -> Sockets \cup {NoSocket}]]
<1>1. ASSUME NEW p \in Pids, NEW q \in Pids, Fork(p, q) PROVE G
  BY <1>1 DEF Fork, Types, TypeOK
<1>2. ASSUME NEW p \in Pids, Exit(p) PROVE G
  BY <1>2 DEF Exit, Types, TypeOK, Closed
<1>3. ASSUME NEW p \in Pids, NEW f \in Fds, Close(p, f) PROVE G
  BY <1>3 DEF Close, Types, TypeOK
<1>4. ASSUME NEW p \in Pids, NEW f \in Fds, NEW s \in Sockets, Listen(p, f, s) PROVE G
  BY <1>4 DEF Listen, Types, TypeOK
<1> QED
  BY <1>1, <1>2, <1>3, <1>4 DEF Host

(***************************************************************************)
(* A change of the host keeps the invariant: history remembers every       *)
(* holder, and forgets those that have let go.                             *)
(***************************************************************************)
LEMMA HostIInv == IInv /\ Host => IInv'
<1> SUFFICES ASSUME IInv, Host PROVE IInv'
  OBVIOUS
<1>1. /\ Change
      /\ alive' \subseteq Pids /\ used' \subseteq Sockets
      /\ fd' \in [Pids -> [Fds -> Sockets \cup {NoSocket}]]
  BY HostStep DEF IInv
<1>2. /\ Held' \subseteq Pids \X Fds \X Sockets
      /\ {<<h[1], h[3]>> : h \in Held'} \subseteq Pids \X Sockets
      /\ \A p \in Pids, f \in Fds : fd'[p][f] \in Sockets =>
           <<p, fd'[p][f]>> \in {<<h[1], h[3]>> : h \in Held'}
  <2>1. Held' \subseteq Pids \X Fds \X Sockets
    BY DEF Held
  <2>2. ASSUME NEW p \in Pids, NEW f \in Fds, fd'[p][f] \in Sockets
        PROVE  <<p, fd'[p][f]>> \in {<<h[1], h[3]>> : h \in Held'}
    <3> DEFINE h == <<p, f, fd'[p][f]>>
    <3>1. h \in Held'
      BY <2>2 DEF Held
    <3> QED
      BY <3>1
  <2> QED
    BY <2>1, <2>2
<1>3. changes' \in 0 .. MaxChanges
  BY <1>1, SocketsAssumption DEF Change, IInv, Types, TypeOK, SocketsAssumption
<1>4. quiet' \in BOOLEAN
  BY <1>1, Zenon DEF Change
<1>5. TypeOK'
  BY <1>1, <1>2, <1>3, <1>4 DEF Change, IInv, Types, TypeOK, scan, answer
<1>6. CallOpen' /\ CurKnown' /\ MatchInTable'
  BY <1>1 DEF Change, IInv, Types, CallOpen, CurKnown, MatchInTable, Sktab, scan, answer
<1>7. HeldEver'
  BY <1>1, <1>2 DEF Change, HeldEver
<1>8. OwnerEver' /\ MatchEver' /\ OnlyHolders'
  BY <1>1 DEF Change, IInv, OwnerEver, MatchEver, OnlyHolders, scan, answer
<1> QED
  BY <1>5, <1>6, <1>7, <1>8 DEF IInv, Types
-----------------------------------------------------------------------------
(***************************************************************************)
(* doNetstat keeps the types.                                              *)
(***************************************************************************)
LEMMA NetstatTypes == Types /\ DoNetstat => Types'
<1> SUFFICES ASSUME Types, DoNetstat PROVE Types'
  OBVIOUS
<1> USE SocketsAssumption DEF SocketsAssumption, Types, TypeOK, CallOpen, CurKnown, MatchInTable, host, answer, history
<1>1. ASSUME ReadTable PROVE Types'
  BY <1>1 DEF ReadTable, Sktab, Listening
<1>2. ASSUME ReadTableFails PROVE Types'
  BY <1>2 DEF ReadTableFails, Fail, Sktab, scan
<1>3. ASSUME ReadProc PROVE Types'
  BY <1>3 DEF ReadProc, Sktab
<1>4. ASSUME ReadProcFails PROVE Types'
  BY <1>4 DEF ReadProcFails, Sktab
<1>5. ASSUME NEW p \in Pids, ReadFdDir(p) PROVE Types'
  BY <1>5 DEF ReadFdDir, NextDir, Sktab
<1>6. ASSUME NEW p \in Pids, ReadFdDirFails(p) PROVE Types'
  BY <1>6 DEF ReadFdDirFails, NextDir, Sktab
<1>7. ASSUME FdsDone PROVE Types'
  BY <1>7 DEF FdsDone, LeaveDir, Sktab
<1>8. ASSUME NEW f \in Fds, LinkOther(f) PROVE Types'
  BY <1>8 DEF LinkOther, Readlink, Sktab
<1>9. ASSUME NEW f \in Fds, LinkKnown(f) PROVE Types'
  BY <1>9 DEF LinkKnown, Readlink, Attach, Sktab
<1>10. ASSUME NEW f \in Fds, LinkFirst(f) PROVE Types'
  BY <1>10 DEF LinkFirst, Readlink, Sktab
<1>11. ASSUME ReadStat PROVE Types'
  BY <1>11 DEF ReadStat, Attach, Sktab
<1>12. ASSUME ReadStatFails PROVE Types'
  BY <1>12 DEF ReadStatFails, LeaveDir, Sktab
<1>13. ASSUME NextTable PROVE Types'
  BY <1>13 DEF NextTable, Sktab
<1> QED
  BY <1>1, <1>2, <1>3, <1>4, <1>5, <1>6, <1>7, <1>8, <1>9, <1>10, <1>11, <1>12, <1>13 DEF DoNetstat

(***************************************************************************)
(* So do the functions that call it.                                       *)
(***************************************************************************)
Serve ==
    \/ Begin
    \/ PortsReturns \/ PortsByPidReturns \/ ByPortFinds \/ ByPortFindsNone
    \/ ListProcesses \/ ListFails
    \/ \E p \in Pids : StateOf(p) \/ AttributesOf(p) \/ AttributesFail(p) \/ NameDiffers(p) \/ NameMatches(p) \/ FilterFails(p)
    \/ ProcessesReturn
    \/ Drop

LEMMA ServeTypes == Types /\ Serve => Types'
<1> SUFFICES ASSUME Types, Serve PROVE Types'
  OBVIOUS
<1> USE SocketsAssumption DEF SocketsAssumption, Types, TypeOK, CallOpen, CurKnown, MatchInTable, Sktab, host, scan, answer, history
<1>1. ASSUME Begin PROVE Types'
  <2>1. call' \in Inputs /\ call' # Idle
    BY <1>1 DEF Begin, Inputs, ByState, ByPort, Idle
  <2>2. pc' \in {"table", "list"} /\ (pc' = "table" => call'.op # "GetProcessesByName")
    BY <1>1 DEF Begin
  <2>3. ever' \subseteq Pids \X Sockets /\ always' \subseteq Pids \X Fds \X Sockets
    BY <1>1, HeldTypes DEF Begin, Types, TypeOK
  <2>4. tcp6' \in BOOLEAN /\ quiet' \in BOOLEAN
    BY <1>1, Zenon DEF Begin
  <2>5. pc = "idle" /\ blind' \subseteq Pids
    BY <1>1 DEF Begin, Types, CallOpen
  <2>6. UNCHANGED <<host, socks, owner, dirs, dir, fds, known, match, answer>>
    BY <1>1 DEF Begin
  <2>7. TypeOK'
    BY <2>1, <2>2, <2>3, <2>4, <2>5, <2>6 DEF Types, TypeOK, host, answer
  <2> QED
    BY <2>1, <2>2, <2>5, <2>6, <2>7 DEF Types, TypeOK, CallOpen, CurKnown, MatchInTable
<1>2. ASSUME PortsReturns PROVE Types'
  BY <1>2 DEF PortsReturns, Scanned
<1>3. ASSUME PortsByPidReturns PROVE Types'
  BY <1>3 DEF PortsByPidReturns, Scanned, Entry, Of
<1>4. ASSUME ByPortFinds PROVE Types'
  BY <1>4 DEF ByPortFinds, Scanned, Entry, OnPort, FirstOnPort
<1>5. ASSUME ByPortFindsNone PROVE Types'
  BY <1>5 DEF ByPortFindsNone, Scanned
<1>6. ASSUME ListProcesses PROVE Types'
  BY <1>6 DEF ListProcesses
<1>7. ASSUME ListFails PROVE Types'
  BY <1>7 DEF ListFails, Fail
<1>8. ASSUME NEW p \in Pids, StateOf(p) PROVE Types'
  BY <1>8 DEF StateOf, Entry, Of
<1>9. ASSUME NEW p \in Pids, AttributesOf(p) PROVE Types'
  BY <1>9 DEF AttributesOf, Entry
<1>10. ASSUME NEW p \in Pids, NameDiffers(p) PROVE Types'
  BY <1>10 DEF NameDiffers
<1>11. ASSUME NEW p \in Pids, NameMatches(p) PROVE Types'
  BY <1>11 DEF NameMatches
<1>12. ASSUME NEW p \in Pids, FilterFails(p) PROVE Types'
  BY <1>12 DEF FilterFails, Fail
<1>13. ASSUME ProcessesReturn PROVE Types'
  BY <1>13 DEF ProcessesReturn
<1>14. ASSUME Drop PROVE Types'
  BY <1>14 DEF Drop
<1>15. ASSUME NEW p \in Pids, AttributesFail(p) PROVE Types'
  BY <1>15 DEF AttributesFail
<1> QED
  BY <1>1, <1>2, <1>3, <1>4, <1>5, <1>6, <1>7, <1>8, <1>9, <1>10, <1>11, <1>12, <1>13, <1>14, <1>15 DEF Serve
-----------------------------------------------------------------------------
(***************************************************************************)
(* doNetstat names holders only: a link is read from the directory of a    *)
(* process that holds it at that time.                                     *)
(***************************************************************************)
TrueHolders == HeldEver /\ OwnerEver /\ MatchEver /\ OnlyHolders

LEMMA NetstatHolders == IInv /\ DoNetstat => TrueHolders'
<1> SUFFICES ASSUME IInv, DoNetstat PROVE TrueHolders'
  OBVIOUS
<1> USE SocketsAssumption DEF SocketsAssumption, IInv, Types, TypeOK, CallOpen, MatchInTable, TrueHolders, HeldEver, OwnerEver, MatchEver, OnlyHolders, host, answer, history
<1>1. ASSUME ReadTable PROVE TrueHolders'
  BY <1>1 DEF ReadTable, Sktab, Listening
<1>2. ASSUME ReadTableFails PROVE TrueHolders'
  BY <1>2 DEF ReadTableFails, Fail, scan
<1>3. ASSUME ReadProc PROVE TrueHolders'
  BY <1>3 DEF ReadProc
<1>4. ASSUME ReadProcFails PROVE TrueHolders'
  BY <1>4 DEF ReadProcFails
<1>5. ASSUME NEW p \in Pids, ReadFdDir(p) PROVE TrueHolders'
  BY <1>5 DEF ReadFdDir, NextDir
<1>6. ASSUME NEW p \in Pids, ReadFdDirFails(p) PROVE TrueHolders'
  BY <1>6 DEF ReadFdDirFails, NextDir
<1>7. ASSUME FdsDone PROVE TrueHolders'
  BY <1>7 DEF FdsDone, LeaveDir
<1>8. ASSUME NEW f \in Fds, LinkOther(f) PROVE TrueHolders'
  BY <1>8 DEF LinkOther, Readlink
<1>9. ASSUME NEW f \in Fds, LinkKnown(f) PROVE TrueHolders'
  BY <1>9 DEF LinkKnown, Readlink, Attach, Sktab
<1>10. ASSUME NEW f \in Fds, LinkFirst(f) PROVE TrueHolders'
  BY <1>10 DEF LinkFirst, Readlink, Sktab
<1>11. ASSUME ReadStat PROVE TrueHolders'
  BY <1>11 DEF ReadStat, Attach
<1>12. ASSUME ReadStatFails PROVE TrueHolders'
  BY <1>12 DEF ReadStatFails, LeaveDir
<1>13. ASSUME NextTable PROVE TrueHolders'
  BY <1>13 DEF NextTable
<1> QED
  BY <1>1, <1>2, <1>3, <1>4, <1>5, <1>6, <1>7, <1>8, <1>9, <1>10, <1>11, <1>12, <1>13 DEF DoNetstat

(***************************************************************************)
(* The functions that call it list an entry under its process only.        *)
(***************************************************************************)
LEMMA ServeHolders == IInv /\ Serve => TrueHolders'
<1> SUFFICES ASSUME IInv, Serve PROVE TrueHolders'
  OBVIOUS
<1> USE SocketsAssumption DEF SocketsAssumption, IInv, Types, TypeOK, CallOpen, CurKnown, TrueHolders, HeldEver, OwnerEver, MatchEver, OnlyHolders, host, scan, answer, history
<1>1. ASSUME PortsReturns PROVE TrueHolders'
  BY <1>1 DEF PortsReturns, Scanned
<1>2. ASSUME PortsByPidReturns PROVE TrueHolders'
  BY <1>2 DEF PortsByPidReturns, Scanned, Entry, Of
<1>3. ASSUME ByPortFinds PROVE TrueHolders'
  BY <1>3 DEF ByPortFinds, Scanned, Entry, OnPort, FirstOnPort
<1>4. ASSUME ByPortFindsNone PROVE TrueHolders'
  BY <1>4 DEF ByPortFindsNone, Scanned
<1>5. ASSUME ListProcesses PROVE TrueHolders'
  BY <1>5 DEF ListProcesses
<1>6. ASSUME ListFails PROVE TrueHolders'
  BY <1>6 DEF ListFails, Fail
<1>7. ASSUME NEW p \in Pids, StateOf(p) PROVE TrueHolders'
  BY <1>7 DEF StateOf, Entry, Of
<1>8. ASSUME NEW p \in Pids, AttributesOf(p) PROVE TrueHolders'
  <2>1. result' \subseteq result \cup {[pid |-> p, socks |-> {}]}
    BY <1>8 DEF AttributesOf, Entry
  <2>2. OnlyHolders'
    BY <1>8, <2>1 DEF AttributesOf
  <2> QED
    BY <1>8, <2>2 DEF AttributesOf
<1>9. ASSUME NEW p \in Pids, NameDiffers(p) PROVE TrueHolders'
  BY <1>9 DEF NameDiffers
<1>10. ASSUME NEW p \in Pids, NameMatches(p) PROVE TrueHolders'
  BY <1>10 DEF NameMatches
<1>11. ASSUME NEW p \in Pids, FilterFails(p) PROVE TrueHolders'
  BY <1>11 DEF FilterFails, Fail
<1>12. ASSUME ProcessesReturn PROVE TrueHolders'
  BY <1>12 DEF ProcessesReturn
<1>13. ASSUME Drop PROVE TrueHolders'
  BY <1>13 DEF Drop
<1>14. ASSUME Begin PROVE TrueHolders'
  <2>1. \A p \in Pids, f \in Fds : fd[p][f] \in Sockets => <<p, fd[p][f]>> \in ever'
    BY <1>14, HeldTypes DEF Begin, IInv, Types, TypeOK
  <2>2. /\ pc = "idle" /\ match = NoSocket /\ result = {}
        /\ \A s \in Sockets : owner[s] = Nobody
    BY <1>14 DEF Begin, IInv, Types, TypeOK, CallOpen
  <2>3. UNCHANGED <<host, owner, match, answer>>
    BY <1>14 DEF Begin
  <2> QED
    BY <2>1, <2>2, <2>3 DEF TrueHolders, HeldEver, OwnerEver, MatchEver, OnlyHolders, host, answer
<1>15. ASSUME NEW p \in Pids, AttributesFail(p) PROVE TrueHolders'
  BY <1>15 DEF AttributesFail
<1> QED
  BY <1>1, <1>2, <1>3, <1>4, <1>5, <1>6, <1>7, <1>8, <1>9, <1>10, <1>11, <1>12, <1>13, <1>14, <1>15 DEF Serve
-----------------------------------------------------------------------------
(***************************************************************************)
(* Every step, of the host, of a scan or of a caller, keeps the invariant. *)
(***************************************************************************)
LEMMA NextIInv == IInv /\ [Next]_vars => IInv'
<1> SUFFICES ASSUME IInv, [Next]_vars PROVE IInv'
  OBVIOUS
<1>1. CASE Host
  BY <1>1, HostIInv
<1>2. CASE DoNetstat
  BY <1>2, NetstatTypes, NetstatHolders DEF IInv, TrueHolders
<1>3. CASE Serve
  BY <1>3, ServeTypes, ServeHolders DEF IInv, TrueHolders
<1>4. CASE UNCHANGED vars
  BY <1>4 DEF vars, host, scan, answer, history, IInv, Types, TypeOK, CallOpen, CurKnown, MatchInTable, Sktab,
       HeldEver, OwnerEver, MatchEver, OnlyHolders
<1> QED
  BY <1>1, <1>2, <1>3, <1>4 DEF Next, Serve

(***************************************************************************)
(* The invariant holds for ever.                                           *)
(***************************************************************************)
THEOREM Inductive == Spec => []IInv
<1> QED
  BY InitIInv, NextIInv, PTL DEF Spec

(***************************************************************************)
(* Every variable has its type, and only entries have a process.           *)
(***************************************************************************)
THEOREM TypeCorrect == Spec => []TypeOK
<1>1. IInv => TypeOK
  BY DEF IInv, Types
<1> QED
  BY <1>1, Inductive, PTL

(***************************************************************************)
(* No socket is listed under a process id that did not hold it during the  *)
(* call, however processes come, go and reuse ids.                         *)
(***************************************************************************)
THEOREM NoStranger == Spec => []OnlyHolders
<1>1. IInv => OnlyHolders
  BY DEF IInv
<1> QED
  BY <1>1, Inductive, PTL
-----------------------------------------------------------------------------
(***************************************************************************)
(* Towards SteadyHolderFound.  What is always held is held now, by a       *)
(* process that is there.                                                  *)
(***************************************************************************)
AlwaysHeld ==
    /\ \A p \in Pids, f \in Fds : fd[p][f] \in Sockets => p \in alive
    /\ \A p \in Pids, f \in Fds, s \in Sockets : <<p, f, s>> \in always => fd[p][f] = s

\* Both tables have been scanned for the call's answer.
Answering ==
    pc \in {"list", "next", "done"} /\ call.op \in {"GetProcessesState", "GetProcessesByPort"}

Current(s) == s \in Tcp6 <=> tcp6
Scanning == pc \in {"table", "proc", "dir", "link", "stat"}
Found(s) == s \in socks /\ owner[s] # Nobody

\* How far the scan is from socket s, which p holds as f.
Chased(p, f, s) ==
    /\ Answering \/ (Scanning /\ tcp6 /\ s \notin Tcp6) => Found(s)
    /\ pc = "proc" /\ Current(s) => s \in socks
    /\ pc \in {"dir", "link", "stat"} /\ Current(s) =>
         /\ s \in socks
         /\ Found(s) \/ p \in dirs \/ (dir = p /\ (f \in fds \/ match = s))

Chase ==
    \A p \in Pids, f \in Fds, s \in Sockets :
        <<p, f, s>> \in always /\ p \notin blind => Chased(p, f, s)

Steady == IInv /\ AlwaysHeld /\ Chase

(***************************************************************************)
(* A step of doNetstat comes closer to every socket it has not found.      *)
(***************************************************************************)
LEMMA NetstatChases ==
    ASSUME Steady, DoNetstat, NEW p \in Pids, NEW f \in Fds, NEW s \in Sockets,
           <<p, f, s>> \in always, p \notin blind', blind \subseteq blind'
    PROVE  Chased(p, f, s)'
<1>0. Chased(p, f, s) /\ fd[p][f] = s /\ p \in alive /\ TypeOK /\ MatchInTable
  BY DEF Steady, Chase, AlwaysHeld, IInv, Types
<1> USE <1>0, SocketsAssumption DEF SocketsAssumption, Chased, Current, Scanning, Found, Answering,
      TypeOK, MatchInTable, host, answer, history
<1>1. ASSUME ReadTable PROVE Chased(p, f, s)'
  BY <1>1 DEF ReadTable, Sktab, Listening, Holders
<1>2. ASSUME ReadTableFails PROVE Chased(p, f, s)'
  BY <1>2 DEF ReadTableFails, Fail
<1>3. ASSUME ReadProc PROVE Chased(p, f, s)'
  BY <1>3 DEF ReadProc
<1>4. ASSUME ReadProcFails PROVE Chased(p, f, s)'
  BY <1>4 DEF ReadProcFails
<1>5. ASSUME NEW q \in Pids, ReadFdDir(q) PROVE Chased(p, f, s)'
  BY <1>5 DEF ReadFdDir, NextDir
<1>6. ASSUME NEW q \in Pids, ReadFdDirFails(q) PROVE Chased(p, f, s)'
  BY <1>6 DEF ReadFdDirFails, NextDir
<1>7. ASSUME FdsDone PROVE Chased(p, f, s)'
  BY <1>7 DEF FdsDone, LeaveDir
<1>8. ASSUME NEW g \in Fds, LinkOther(g) PROVE Chased(p, f, s)'
  BY <1>8 DEF LinkOther, Readlink, Sktab
<1>9. ASSUME NEW g \in Fds, LinkKnown(g) PROVE Chased(p, f, s)'
  BY <1>9 DEF LinkKnown, Readlink, Attach, Sktab
<1>10. ASSUME NEW g \in Fds, LinkFirst(g) PROVE Chased(p, f, s)'
  BY <1>10 DEF LinkFirst, Readlink, Sktab
<1>11. ASSUME ReadStat PROVE Chased(p, f, s)'
  BY <1>11 DEF ReadStat, Attach
<1>12. ASSUME ReadStatFails PROVE Chased(p, f, s)'
  BY <1>12 DEF ReadStatFails, LeaveDir
<1>13. ASSUME NextTable PROVE Chased(p, f, s)'
  BY <1>13 DEF NextTable
<1> QED
  BY <1>1, <1>2, <1>3, <1>4, <1>5, <1>6, <1>7, <1>8, <1>9, <1>10, <1>11, <1>12, <1>13 DEF DoNetstat

(***************************************************************************)
(* doNetstat changes neither the host nor what is held.                    *)
(***************************************************************************)
LEMMA NetstatSteady == Steady /\ DoNetstat => Steady'
<1> SUFFICES ASSUME Steady, DoNetstat PROVE Steady'
  OBVIOUS
<1>1. UNCHANGED <<host, history>> /\ blind \subseteq blind'
  BY DEF DoNetstat, ReadTable, ReadTableFails, Fail, ReadProc, ReadProcFails, ReadFdDir, ReadFdDirFails,
       FdsDone, LeaveDir, LinkOther, LinkKnown, LinkFirst, Readlink, ReadStat, ReadStatFails, NextTable,
       Steady, IInv, Types, TypeOK
<1>2. IInv'
  BY NetstatTypes, NetstatHolders DEF Steady, IInv, TrueHolders
<1>3. AlwaysHeld'
  BY <1>1 DEF Steady, AlwaysHeld, host, history
<1>4. Chase'
  BY <1>1, NetstatChases DEF Chase, history
<1> QED
  BY <1>2, <1>3, <1>4 DEF Steady

(***************************************************************************)
(* Outside doNetstat, what has been found stays found until the next scan. *)
(***************************************************************************)
LEMMA ServeSteady == Steady /\ Serve => Steady'
<1> SUFFICES ASSUME Steady, Serve PROVE Steady'
  OBVIOUS
<1> DEFINE G == AlwaysHeld' /\ Chase'
<1>0. IInv'
  BY ServeTypes, ServeHolders DEF Steady, IInv, TrueHolders
<1> USE SocketsAssumption DEF SocketsAssumption, Steady, IInv, Types, TypeOK, AlwaysHeld, Chase, Chased, Current,
      Scanning, Found, Answering, host, scan, answer, history
<1>1. ASSUME PortsReturns PROVE G
  BY <1>1 DEF PortsReturns, Scanned
<1>2. ASSUME PortsByPidReturns PROVE G
  BY <1>2 DEF PortsByPidReturns, Scanned
<1>3. ASSUME ByPortFinds PROVE G
  BY <1>3 DEF ByPortFinds, Scanned
<1>4. ASSUME ByPortFindsNone PROVE G
  BY <1>4 DEF ByPortFindsNone, Scanned
<1>5. ASSUME ListProcesses PROVE G
  BY <1>5 DEF ListProcesses
<1>6. ASSUME ListFails PROVE G
  BY <1>6 DEF ListFails, Fail
<1>7. ASSUME NEW q \in Pids, StateOf(q) PROVE G
  BY <1>7 DEF StateOf
<1>8. ASSUME NEW q \in Pids, AttributesOf(q) PROVE G
  BY <1>8 DEF AttributesOf
<1>9. ASSUME NEW q \in Pids, NameDiffers(q) PROVE G
  BY <1>9 DEF NameDiffers
<1>10. ASSUME NEW q \in Pids, NameMatches(q) PROVE G
  BY <1>10 DEF NameMatches
<1>11. ASSUME NEW q \in Pids, FilterFails(q) PROVE G
  BY <1>11 DEF FilterFails, Fail
<1>12. ASSUME ProcessesReturn PROVE G
  BY <1>12 DEF ProcessesReturn
<1>13. ASSUME Begin PROVE G
  BY <1>13 DEF Begin, Held
<1>14. ASSUME Drop PROVE G
  BY <1>14 DEF Drop
<1>15. ASSUME NEW q \in Pids, AttributesFail(q) PROVE G
  BY <1>15 DEF AttributesFail
<1> QED
  BY <1>0, <1>1, <1>2, <1>3, <1>4, <1>5, <1>6, <1>7, <1>8, <1>9, <1>10, <1>11, <1>12, <1>13, <1>14, <1>15 DEF Serve

(***************************************************************************)
(* A change of the host leaves the call alone, and nobody is held to a     *)
(* descriptor that was closed.                                             *)
(***************************************************************************)
LEMMA HostSteady == Steady /\ Host => Steady'
<1> SUFFICES ASSUME Steady, Host PROVE Steady'
  OBVIOUS
<1>1. IInv'
  BY HostIInv DEF Steady
<1>2. /\ Change /\ always' = always \cap Held'
      /\ UNCHANGED <<call, pc, scan, answer, blind>>
  BY HostStep DEF Steady, IInv, Change
<1>3. \A p \in Pids, f \in Fds : fd'[p][f] \in Sockets => p \in alive'
  <2> USE SocketsAssumption DEF SocketsAssumption, Steady, AlwaysHeld, IInv, Types, TypeOK, Closed
  <2>1. ASSUME NEW q \in Pids, NEW r \in Pids, Fork(q, r) PROVE <1>3
    BY <2>1 DEF Fork
  <2>2. ASSUME NEW q \in Pids, Exit(q) PROVE <1>3
    BY <2>2 DEF Exit
  <2>3. ASSUME NEW q \in Pids, NEW g \in Fds, Close(q, g) PROVE <1>3
    BY <2>3 DEF Close
  <2>4. ASSUME NEW q \in Pids, NEW g \in Fds, NEW s \in Sockets, Listen(q, g, s) PROVE <1>3
    BY <2>4 DEF Listen
  <2> QED
    BY <2>1, <2>2, <2>3, <2>4 DEF Host
<1>4. \A p \in Pids, f \in Fds, s \in Sockets : <<p, f, s>> \in always' => fd'[p][f] = s
  BY <1>2 DEF Held
<1>5. Chase'
  BY <1>2 DEF Steady, Chase, Chased, Current, Scanning, Found, Answering, scan, answer
<1> QED
  BY <1>1, <1>3, <1>4, <1>5 DEF Steady, AlwaysHeld

(***************************************************************************)
(* At first no call runs, and a process that is not there holds nothing.   *)
(***************************************************************************)
LEMMA InitSteady == Init => Steady
<1> SUFFICES ASSUME Init PROVE Steady
  OBVIOUS
<1>1. AlwaysHeld
  BY SocketsAssumption DEF Init, AlwaysHeld, Closed, SocketsAssumption
<1>2. Chase
  BY DEF Init, Chase
<1> QED
  BY <1>1, <1>2, InitIInv DEF Steady

(***************************************************************************)
(* Every step keeps the chase.                                             *)
(***************************************************************************)
LEMMA NextSteady == Steady /\ [Next]_vars => Steady'
<1> SUFFICES ASSUME Steady, [Next]_vars PROVE Steady'
  OBVIOUS
<1>1. CASE UNCHANGED vars
  <2>1. IInv'
    BY <1>1, NextIInv DEF Steady
  <2> QED
    BY <1>1, <2>1 DEF vars, host, scan, answer, history, Steady, AlwaysHeld, Chase, Chased, Current,
         Scanning, Found, Answering
<1> QED
  BY <1>1, HostSteady, NetstatSteady, ServeSteady DEF Next, Serve

(***************************************************************************)
(* When the scan of its table ends, there is no directory left in which a  *)
(* socket could still be found.                                            *)
(***************************************************************************)
LEMMA SteadyIsFound == Steady => SteadyHolderFound
<1> SUFFICES ASSUME Steady,
                    Scanned \/ (pc \in {"list", "done"} /\ call.op \in {"GetProcessesState", "GetProcessesByPort"}),
                    NEW h \in always, h[1] \notin blind
             PROVE  h[3] \in socks /\ owner[h[3]] # Nobody
  BY DEF SteadyHolderFound
<1>1. h[1] \in Pids /\ h[2] \in Fds /\ h[3] \in Sockets /\ h = <<h[1], h[2], h[3]>>
  BY DEF Steady, IInv, Types, TypeOK
<1>2. Chased(h[1], h[2], h[3])
  BY <1>1 DEF Steady, Chase
<1>3. pc = "dir" => dir = Nobody /\ match = NoSocket
  BY DEF Steady, IInv, Types, TypeOK
<1> QED
  BY <1>1, <1>2, <1>3, SocketsAssumption
    DEF Chased, Current, Scanning, Found, Answering, Scanned, SocketsAssumption

(***************************************************************************)
(* No socket that a readable process holds from before the call on is      *)
(* missed, whatever else happens to it and to others meanwhile.            *)
(***************************************************************************)
THEOREM NothingMissed == Spec => []SteadyHolderFound
<1>1. Spec => []Steady
  BY InitSteady, NextSteady, PTL DEF Spec
<1> QED
  BY <1>1, SteadyIsFound, PTL
-----------------------------------------------------------------------------
(***************************************************************************)
(* Towards SoleHolderListed.  What the answer says of p, which alone held  *)
(* socket s all the time and was readable.                                 *)
(***************************************************************************)
Sole(p, s) == p \notin blind /\ \A e \in ever : e[2] = s => e[1] = p

Answered(p, s) ==
    /\ call.op = "GetProcessesState" /\ pc \in {"next", "done"} =>
         p \in procs \/ \E e \in result : e.pid = p /\ s \in e.socks
    /\ call.op = "GetProcessesByName" => \A e \in result : e.pid = p => s \in e.socks
    /\ call.op = "GetProcessesByPort" /\ pc = "done" /\ call.port = Port[s] => result # {}

\* GetProcessesByPort lists no processes, and the others finish their list.
Listing ==
    /\ call.op = "GetProcessesByPort" => pc \notin {"list", "next"}
    /\ call.op \in {"GetProcessesState", "GetProcesses"} =>
         /\ pc = "done" => procs = {}
         /\ pc \in {"table", "proc", "dir", "link", "stat", "list"} => result = {}

AnswerInv ==
    /\ Listing
    /\ \A p \in Pids, f \in Fds, s \in Sockets :
         <<p, f, s>> \in always /\ Sole(p, s) => Answered(p, s)

(***************************************************************************)
(* Once its tables are read, such a process has the socket among its own.  *)
(***************************************************************************)
LEMMA SoleFound ==
    ASSUME Steady, NEW p \in Pids, NEW f \in Fds, NEW s \in Sockets,
           <<p, f, s>> \in always, Sole(p, s), Scanned \/ Answering
    PROVE  s \in Of(p)
<1>1. Chased(p, f, s) /\ OwnerEver /\ TypeOK
  BY DEF Steady, IInv, Types, Chase, Sole
<1>2. Found(s)
  BY <1>1, SocketsAssumption DEF Chased, Current, Scanning, Found, Scanned, TypeOK, SocketsAssumption
<1>3. owner[s] = p
  BY <1>1, <1>2 DEF Found, OwnerEver, Sole
<1> QED
  BY <1>2, <1>3 DEF Found, Of

(***************************************************************************)
(* A step that keeps the call, in which history and what could not be read *)
(* only grow, makes no process a sole holder that was none.                *)
(***************************************************************************)
LEMMA SoleBefore ==
    ASSUME AnswerInv, ever \subseteq ever', always' \subseteq always, blind \subseteq blind',
           NEW p \in Pids, NEW f \in Fds, NEW s \in Sockets, <<p, f, s>> \in always', Sole(p, s)'
    PROVE  <<p, f, s>> \in always /\ Sole(p, s) /\ Answered(p, s)
<1>1. <<p, f, s>> \in always /\ Sole(p, s)
  BY DEF Sole
<1> QED
  BY <1>1 DEF AnswerInv

(***************************************************************************)
(* The scan leaves the answer alone, or gives it up.                       *)
(***************************************************************************)
LEMMA NetstatAnswers == Steady /\ AnswerInv /\ DoNetstat => AnswerInv'
<1> SUFFICES ASSUME Steady, AnswerInv, DoNetstat PROVE AnswerInv'
  OBVIOUS
<1>1. /\ UNCHANGED <<call, procs, history>> /\ blind \subseteq blind'
      /\ result' = result \/ (result' = {} /\ pc' = "failed")
      /\ pc \in {"table", "proc", "dir", "link", "stat"}
      /\ pc' \in {"table", "proc", "dir", "link", "stat", "failed"}
  BY DEF DoNetstat, ReadTable, ReadTableFails, Fail, ReadProc, ReadProcFails, ReadFdDir, ReadFdDirFails,
       FdsDone, LeaveDir, LinkOther, LinkKnown, LinkFirst, Readlink, ReadStat, ReadStatFails, NextTable,
       Steady, IInv, Types, TypeOK, answer
<1>2. Listing'
  BY <1>1 DEF AnswerInv, Listing
<1>3. ASSUME NEW p \in Pids, NEW f \in Fds, NEW s \in Sockets, <<p, f, s>> \in always', Sole(p, s)'
      PROVE  Answered(p, s)'
  <2>1. Answered(p, s)
    BY <1>1, <1>3, SoleBefore DEF history
  <2> QED
    BY <1>1, <2>1 DEF Answered
<1> QED
  BY <1>2, <1>3 DEF AnswerInv

(***************************************************************************)
(* So does a change of the host.                                           *)
(***************************************************************************)
LEMMA HostAnswers == Steady /\ AnswerInv /\ Host => AnswerInv'
<1> SUFFICES ASSUME Steady, AnswerInv, Host PROVE AnswerInv'
  OBVIOUS
<1>1. /\ UNCHANGED <<call, pc, procs, result, blind>>
      /\ ever \subseteq ever' /\ always' \subseteq always
  BY HostStep DEF Steady, IInv, Change, answer
<1>2. Listing'
  BY <1>1 DEF AnswerInv, Listing
<1>3. ASSUME NEW p \in Pids, NEW f \in Fds, NEW s \in Sockets, <<p, f, s>> \in always', Sole(p, s)'
      PROVE  Answered(p, s)'
  <2>1. Answered(p, s)
    BY <1>1, <1>3, SoleBefore
  <2> QED
    BY <1>1, <2>1 DEF Answered
<1> QED
  BY <1>2, <1>3 DEF AnswerInv

(***************************************************************************)
(* A process gets its entry, with the socket in it, in the step that takes *)
(* it off the list.                                                        *)
(***************************************************************************)
LEMMA ServeAnswers == Steady /\ AnswerInv /\ Serve => AnswerInv'
<1> SUFFICES ASSUME Steady, AnswerInv, Serve PROVE AnswerInv'
  OBVIOUS
<1>1. CASE Begin
  <2>1. pc' \in {"table", "list"} /\ result' = {} /\ call' \in Inputs
        /\ (pc' = "list" => call'.op # "GetProcessesByPort")
    BY <1>1 DEF Begin, Steady, IInv, Types, CallOpen, answer
  <2> QED
    BY <2>1 DEF AnswerInv, Listing, Answered
<1>2. CASE Drop
  BY <1>2 DEF Drop, AnswerInv, Listing, Idle
<1>3. ASSUME ~Begin, ~Drop PROVE AnswerInv'
  <2>1. UNCHANGED <<call, history>> /\ blind \subseteq blind'
    BY <1>3 DEF Serve, PortsReturns, PortsByPidReturns, ByPortFinds, ByPortFindsNone, ListProcesses, ListFails,
         Fail, StateOf, AttributesOf, AttributesFail, NameDiffers, NameMatches, FilterFails, ProcessesReturn
  <2>2. Listing'
    <3> USE DEF AnswerInv, Listing
    <3>1. CASE PortsReturns \/ ByPortFinds \/ ByPortFindsNone \/ PortsByPidReturns
      BY <3>1 DEF PortsReturns, PortsByPidReturns, ByPortFinds, ByPortFindsNone, Scanned, answer
    <3>2. CASE ListProcesses \/ ListFails \/ ProcessesReturn
      BY <3>2 DEF ListProcesses, ListFails, Fail, ProcessesReturn, answer
    <3>3. ASSUME NEW q \in Pids,
                 StateOf(q) \/ AttributesOf(q) \/ AttributesFail(q) \/ NameDiffers(q) \/ NameMatches(q) \/ FilterFails(q)
          PROVE  Listing'
      BY <3>3 DEF StateOf, AttributesOf, AttributesFail, NameDiffers, NameMatches, FilterFails, Fail
    <3> QED
      BY <1>3, <3>1, <3>2, <3>3 DEF Serve
  <2>3. ASSUME NEW p \in Pids, NEW f \in Fds, NEW s \in Sockets, <<p, f, s>> \in always', Sole(p, s)'
        PROVE  Answered(p, s)'
    <3>1. <<p, f, s>> \in always /\ Sole(p, s) /\ Answered(p, s)
      BY <2>1, <2>3, SoleBefore DEF history
    <3>2. Scanned \/ Answering => s \in Of(p)
      BY <3>1, SoleFound
    <3>3. p \in alive /\ Listing
      BY <3>1 DEF Steady, AlwaysHeld, AnswerInv
    <3> USE DEF Answered
    <3>4. CASE PortsReturns
      BY <3>1, <3>4 DEF PortsReturns, answer
    <3>5. CASE PortsByPidReturns
      BY <3>1, <3>2, <3>5 DEF PortsByPidReturns, Entry
    <3>6. CASE ByPortFinds
      BY <3>1, <3>6 DEF ByPortFinds
    <3>7. CASE ByPortFindsNone
      <4>1. s \in Of(p) /\ p # Nobody
        BY <3>2, <3>7, SocketsAssumption DEF ByPortFindsNone, SocketsAssumption
      <4>2. call.port # Port[s]
        BY <3>7, <4>1 DEF ByPortFindsNone, OnPort, Of
      <4> QED
        BY <3>1, <3>7, <4>2 DEF ByPortFindsNone, answer
    <3>8. CASE ListProcesses
      BY <3>1, <3>3, <3>8 DEF ListProcesses
    <3>9. CASE ListFails
      BY <3>9 DEF ListFails, Fail
    <3>10. ASSUME NEW q \in Pids, StateOf(q) PROVE Answered(p, s)'
      <4>1. s \in Of(p)
        BY <3>2, <3>10 DEF StateOf, Answering
      <4>2. q = p => \E e \in result' : e.pid = p /\ s \in e.socks
        <5>1. SUFFICES ASSUME q = p PROVE \E e \in result' : e.pid = p /\ s \in e.socks
          OBVIOUS
        <5>2. Wanted(Of(p))
          BY <4>1 DEF Wanted
        <5>3. Entry(p, Of(p)) \in result'
          BY <3>10, <5>1, <5>2 DEF StateOf
        <5>4. Entry(p, Of(p)).pid = p /\ Entry(p, Of(p)).socks = Of(p)
          BY DEF Entry
        <5> QED
          BY <4>1, <5>3, <5>4
      <4>3. /\ call' = call /\ call.op = "GetProcessesState" /\ pc \in {"next", "done"}
            /\ procs' = procs \ {q} /\ result \subseteq result'
        BY <3>10 DEF StateOf
      <4>4. p \in procs \/ \E e \in result : e.pid = p /\ s \in e.socks
        BY <3>1, <4>3
      <4>5. p \in procs' \/ \E e \in result' : e.pid = p /\ s \in e.socks
        BY <4>2, <4>3, <4>4
      <4> QED
        BY <4>3, <4>5
    <3>11. ASSUME NEW q \in Pids,
                  AttributesOf(q) \/ AttributesFail(q) \/ NameDiffers(q) \/ NameMatches(q) \/ FilterFails(q)
           PROVE  Answered(p, s)'
      BY <3>1, <3>11 DEF AttributesOf, AttributesFail, NameDiffers, NameMatches, FilterFails, Fail
    <3>12. CASE ProcessesReturn
      BY <3>1, <3>3, <3>12 DEF ProcessesReturn, answer, Listing
    <3> QED
      BY <1>3, <3>4, <3>5, <3>6, <3>7, <3>8, <3>9, <3>10, <3>11, <3>12 DEF Serve
  <2> QED
    BY <2>2, <2>3 DEF AnswerInv
<1> QED
  BY <1>1, <1>2, <1>3

(***************************************************************************)
(* At the end every process has been taken off the list.                   *)
(***************************************************************************)
LEMMA AnswersList == Steady /\ AnswerInv => SoleHolderListed
<1> SUFFICES ASSUME Steady, AnswerInv, pc = "done", NEW h \in always, Alone(h)
             PROVE  /\ call.op = "GetProcessesState" =>
                         \E e \in result : e.pid = h[1] /\ h[3] \in e.socks
                    /\ call.op = "GetProcessesByName" =>
                         \A e \in result : e.pid = h[1] => h[3] \in e.socks
                    /\ call.op = "GetProcessesByPort" /\ call.port = Port[h[3]] => result # {}
  BY DEF SoleHolderListed
<1>1. h[1] \in Pids /\ h[2] \in Fds /\ h[3] \in Sockets /\ h = <<h[1], h[2], h[3]>>
  BY DEF Steady, IInv, Types, TypeOK
<1>2. Answered(h[1], h[3])
  BY <1>1 DEF AnswerInv, Alone, Sole
<1> QED
  BY <1>2 DEF Answered, AnswerInv, Listing

(***************************************************************************)
(* A socket that one readable process holds alone for the whole call is in *)
(* the answer, under that process.                                         *)
(***************************************************************************)
THEOREM SoleHoldersListed == Spec => []SoleHolderListed
<1>1. Spec => []Steady
  BY InitSteady, NextSteady, PTL DEF Spec
<1>2. Init => AnswerInv
  BY DEF Init, AnswerInv, Listing, Idle
<1>3. Steady /\ AnswerInv /\ [Next]_vars => AnswerInv'
  <2>1. ASSUME AnswerInv, UNCHANGED vars PROVE AnswerInv'
    BY <2>1 DEF vars, host, answer, history, AnswerInv, Listing, Answered, Sole
  <2> QED
    BY <2>1, HostAnswers, NetstatAnswers, ServeAnswers DEF Next, Serve
<1> QED
  BY <1>1, <1>2, <1>3, AnswersList, PTL DEF Spec
-----------------------------------------------------------------------------
(***************************************************************************)
(* Towards QuietHostExact.  p is the holder of s that /proc lists last.    *)
(***************************************************************************)
Last(p, s) == p \in Holders(s) /\ \A q \in Holders(s) : DirRank[q] <= DirRank[p]

\* The directories are read in order, and all of them are of live processes.
InRankOrder ==
    pc \in {"dir", "link", "stat"} =>
        /\ dirs \subseteq alive
        /\ \A q \in alive \ dirs, r \in dirs : DirRank[q] <= DirRank[r]
        /\ dir # Nobody => dir \in alive \ dirs /\ \A q \in alive \ dirs : DirRank[q] <= DirRank[dir]

\* Holder q of s is still to be read, or was read before the owner of s.
ToRead(q, s) == q \in dirs \/ (dir = q /\ \E f \in Fds : fd[q][f] = s /\ (f \in fds \/ match = s))

Halfway(s) ==
    /\ owner[s] # Nobody => owner[s] \in Holders(s) \ dirs
    /\ \A q \in Holders(s) : ToRead(q, s) \/ (owner[s] # Nobody /\ DirRank[q] <= DirRank[owner[s]])

\* The first table is done with, or both.
Settled(s) == (s \in socks <=> s \in Listening) /\ (s \in socks => Last(owner[s], s))

ScanExact ==
    /\ match # NoSocket => dir \in Holders(match)
    /\ pc = "table" /\ tcp6 => socks \cap Tcp6 = {}
    /\ pc \in {"proc", "dir", "link", "stat"} =>
         /\ ~tcp6 => socks \cap Tcp6 = {}
         /\ \A s \in Sockets : Current(s) =>
              /\ s \in socks <=> s \in Listening
              /\ pc = "proc" => owner[s] = Nobody
              /\ pc # "proc" => Halfway(s)
    /\ Scanning /\ tcp6 => \A s \in Sockets \ Tcp6 : Settled(s)
    /\ Answering => \A s \in Sockets : Settled(s)

AnswerExact ==
    /\ call.op = "GetProcessesState" /\ pc \in {"next", "done"} =>
         /\ procs \subseteq alive
         /\ result = {Entry(p, ListedUnder(p)) :
                        p \in {q \in alive \ procs : call.hasListenPort => ListedUnder(q) # {}}}
    /\ call.op = "GetProcessesByName" => \A e \in result : e.socks = ListedUnder(e.pid)
    /\ call.op = "GetProcessesByPort" => \A e \in result : e.socks \subseteq ListedUnder(e.pid)

QuietInv == quiet /\ blind = {} => InRankOrder /\ ScanExact /\ AnswerExact

\* GetProcesses scans nothing, and has listed or been refused each process it
\* has taken off its list.
ListExact ==
    call.op = "GetProcesses" =>
        /\ ~Scanning
        /\ pc = "list" => blind = {} /\ result = {}
        /\ quiet /\ pc \in {"next", "done"} =>
             /\ procs \subseteq alive \ blind
             /\ result = {Entry(p, {}) : p \in alive \ (procs \cup blind)}

(***************************************************************************)
(* The order of directories stays as long as the host does.                *)
(***************************************************************************)
LEMMA NetstatInOrder ==
    ASSUME Steady, InRankOrder, DoNetstat, blind' = {}
    PROVE  InRankOrder'
<1>0. TypeOK /\ UNCHANGED alive
  BY DEF Steady, IInv, Types, DoNetstat, ReadTable, ReadTableFails, Fail, ReadProc, ReadProcFails, ReadFdDir,
       ReadFdDirFails, FdsDone, LeaveDir, LinkOther, LinkKnown, LinkFirst, Readlink, ReadStat, ReadStatFails,
       NextTable, host
<1> USE <1>0, SocketsAssumption DEF SocketsAssumption, InRankOrder, TypeOK
<1>1. CASE ReadTable \/ ReadTableFails \/ NextTable
  BY <1>1 DEF ReadTable, ReadTableFails, Fail, NextTable
<1>2. CASE ReadProc
  BY <1>2 DEF ReadProc
<1>3. CASE ReadProcFails
  <2>1. alive = {}
    BY <1>3 DEF ReadProcFails
  <2> QED
    BY <1>3, <2>1 DEF ReadProcFails
<1>4. ASSUME NEW p \in Pids, ReadFdDir(p) PROVE InRankOrder'
  <2>1. \A q \in alive \ dirs' : DirRank[q] <= DirRank[p]
    BY <1>4 DEF ReadFdDir, NextDir
  <2> QED
    BY <1>4, <2>1 DEF ReadFdDir, NextDir
<1>5. ASSUME NEW p \in Pids, ReadFdDirFails(p) PROVE InRankOrder'
  <2>1. p \in dirs /\ p \notin alive
    BY <1>5 DEF ReadFdDirFails, NextDir
  <2> QED
    BY <1>5, <2>1 DEF ReadFdDirFails
<1>6. CASE FdsDone
  BY <1>6 DEF FdsDone, LeaveDir
<1>7. ASSUME NEW f \in Fds, LinkOther(f) \/ LinkKnown(f) \/ LinkFirst(f) PROVE InRankOrder'
  BY <1>7 DEF LinkOther, LinkKnown, LinkFirst, Readlink
<1>8. CASE ReadStat
  BY <1>8 DEF ReadStat
<1>9. CASE ReadStatFails
  BY <1>9 DEF ReadStatFails, LeaveDir
<1> QED
  BY <1>1, <1>2, <1>3, <1>4, <1>5, <1>6, <1>7, <1>8, <1>9 DEF DoNetstat

(***************************************************************************)
(* What a scan has found of socket s, the one part of ScanExact for it.    *)
(***************************************************************************)
ExactFor(s) ==
    /\ pc \in {"proc", "dir", "link", "stat"} /\ Current(s) =>
         /\ s \in socks <=> s \in Listening
         /\ pc = "proc" => owner[s] = Nobody
         /\ pc # "proc" => Halfway(s)
    /\ Scanning /\ tcp6 /\ s \notin Tcp6 => Settled(s)
    /\ Answering => Settled(s)

FirstTable ==
    /\ match # NoSocket => dir \in Holders(match)
    /\ pc = "table" /\ tcp6 => socks \cap Tcp6 = {}
    /\ pc \in {"proc", "dir", "link", "stat"} /\ ~tcp6 => socks \cap Tcp6 = {}

LEMMA ScanBySocket == ScanExact <=> FirstTable /\ \A s \in Sockets : ExactFor(s)
BY DEF ScanExact, FirstTable, ExactFor

(***************************************************************************)
(* Once the table of s is read, all that hold it have been, and the last   *)
(* of them is its process.                                                 *)
(***************************************************************************)
LEMMA EndOfTable ==
    ASSUME Steady, pc = "dir", dirs = {}, NEW s \in Sockets, Current(s), ExactFor(s)
    PROVE  Settled(s)
<1>1. dir = Nobody /\ Halfway(s) /\ (s \in socks <=> s \in Listening)
  BY DEF Steady, IInv, Types, TypeOK, ExactFor
<1>2. \A q \in Holders(s) : ~ToRead(q, s)
  BY <1>1, SocketsAssumption DEF ToRead, Holders, SocketsAssumption
<1>3. s \in socks => Last(owner[s], s)
  BY <1>1, <1>2 DEF Halfway, Last, Listening
<1> QED
  BY <1>1, <1>3 DEF Settled

(***************************************************************************)
(* The search for the last holder of s has not gone back.                  *)
(***************************************************************************)
LEMMA HalfwayStays ==
    ASSUME NEW s \in Sockets, Halfway(s), Holders(s)' = Holders(s), owner'[s] = owner[s], dirs' \subseteq dirs,
           \A q \in Holders(s) : ToRead(q, s) => ToRead(q, s)'
    PROVE  Halfway(s)'
<1>1. owner'[s] # Nobody => owner'[s] \in Holders(s)' \ dirs'
  BY DEF Halfway
<1>2. ASSUME NEW q \in Holders(s)'
      PROVE  ToRead(q, s)' \/ (owner'[s] # Nobody /\ DirRank[q] <= DirRank[owner'[s]])
  <2>1. CASE ToRead(q, s)
    BY <1>2, <2>1
  <2>2. CASE ~ToRead(q, s)
    BY <1>2, <2>2 DEF Halfway
  <2> QED
    BY <2>1, <2>2
<1> QED
  BY <1>1, <1>2 DEF Halfway

(***************************************************************************)
(* A link that is read brings s its process, or leaves s as it was.        *)
(***************************************************************************)
LEMMA LinkHalfway ==
    ASSUME Steady, InRankOrder, FirstTable, pc \in {"link", "stat"},
           NEW s \in Sockets, Halfway(s), s \in socks <=> s \in Listening, Current(s),
           UNCHANGED <<host, call, tcp6, socks, dirs, dir>>,
           NEW f \in Fds,
           \/ LinkOther(f)
           \/ LinkKnown(f)
           \/ LinkFirst(f)
    PROVE  Halfway(s)'
<1>1. TypeOK /\ dir \in alive \ dirs /\ \A q \in alive \ dirs : DirRank[q] <= DirRank[dir]
  BY DEF Steady, IInv, Types, TypeOK, InRankOrder
<1>2. /\ Holders(s)' = Holders(s) /\ Holders(s) \subseteq alive \cap Pids
      /\ \A q \in Pids, g \in Fds : fd'[q][g] = fd[q][g]
  BY DEF host, Holders, Steady, AlwaysHeld
<1>3. pc = "link" /\ match = NoSocket /\ fds' = fds \ {f} /\ f \in fds
  BY <1>1 DEF LinkOther, LinkKnown, LinkFirst, Readlink, TypeOK
<1>4. CASE fd[dir][f] = s
  <2>1. s \in Sktab /\ dir \in Holders(s)
    <3>1. dir \in Holders(s)
      BY <1>1, <1>4 DEF Holders, TypeOK
    <3>2. s \in socks
      BY <3>1 DEF Listening
    <3> QED
      BY <3>1, <3>2 DEF Sktab, Current
  <2>2. CASE LinkKnown(f)
    <3>1. owner'[s] = dir
      BY <1>1, <1>4, <2>2 DEF LinkKnown, Attach, TypeOK
    <3> QED
      <4>1. dir \in Pids /\ dir # Nobody /\ dirs' = dirs
        BY <1>1, SocketsAssumption DEF TypeOK, SocketsAssumption
      <4>2. owner'[s] \in Holders(s)' \ dirs'
        BY <1>1, <1>2, <2>1, <3>1, <4>1
      <4>3. ASSUME NEW q \in Holders(s), q \notin dirs PROVE DirRank[q] <= DirRank[dir]
        BY <1>1, <1>2, <4>3
      <4> QED
        BY <1>2, <3>1, <4>1, <4>2, <4>3 DEF Halfway, ToRead
  <2>3. CASE LinkFirst(f)
    <3>1. match' = s /\ owner' = owner
      BY <1>4, <2>3 DEF LinkFirst
    <3>2. ASSUME NEW q \in Holders(s), ToRead(q, s) PROVE ToRead(q, s)'
      BY <1>2, <1>3, <3>1, <3>2 DEF ToRead
    <3> QED
      BY <1>2, <3>1, <3>2, HalfwayStays
  <2> QED
    BY <1>4, <2>1, <2>2, <2>3 DEF LinkOther
<1>5. CASE fd[dir][f] # s
  <2>1. owner'[s] = owner[s]
    BY <1>1, <1>5 DEF LinkOther, LinkKnown, LinkFirst, Attach, TypeOK
  <2>2. ASSUME NEW q \in Holders(s), ToRead(q, s) PROVE ToRead(q, s)'
    BY <1>2, <1>3, <1>5, <2>2, SocketsAssumption DEF ToRead, SocketsAssumption
  <2> QED
    BY <1>2, <2>1, <2>2, HalfwayStays
<1> QED
  BY <1>4, <1>5

(***************************************************************************)
(* As long as the host stays as it is, and all of it can be read, a scan   *)
(* finds each socket's last holder.                                        *)
(***************************************************************************)
LEMMA NetstatExact ==
    ASSUME Steady, InRankOrder, ScanExact, DoNetstat, blind = {}, blind' = {}
    PROVE  ScanExact'
<1>1. /\ UNCHANGED <<host, call>> /\ pc \in {"table", "proc", "dir", "link", "stat"}
      /\ pc' \in {"table", "proc", "dir", "link", "stat", "failed"}
  BY DEF Steady, IInv, Types, DoNetstat, ReadTable, ReadTableFails, Fail, ReadProc, ReadProcFails, ReadFdDir,
       ReadFdDirFails, FdsDone, LeaveDir, LinkOther, LinkKnown, LinkFirst, Readlink, ReadStat, ReadStatFails,
       NextTable, host
<1>2. /\ TypeOK /\ MatchInTable /\ FirstTable /\ \A s \in Sockets : ExactFor(s)
      /\ dir # Nobody => dir \in alive \ dirs
      /\ pc \in {"dir", "link", "stat"} => dirs \subseteq alive
  BY ScanBySocket DEF Steady, IInv, Types, InRankOrder, TypeOK
<1>3. Listening' = Listening /\ \A s \in Sockets : Holders(s)' = Holders(s)
  BY <1>1 DEF host, Listening, Holders
<1>4. \A s \in Sockets : Holders(s) \subseteq alive \cap Pids
  BY DEF Holders, Steady, AlwaysHeld
<1>5. ~Answering'
  BY <1>1 DEF Answering
<1> DEFINE G == FirstTable' /\ \A s \in Sockets : ExactFor(s)'
<1>6. ASSUME ReadTable PROVE G
  <2>1. /\ socks' = IF tcp6 THEN socks \cup (Listening \cap Tcp6) ELSE Listening \ Tcp6
        /\ owner' = IF tcp6 THEN owner ELSE [s \in Sockets |-> Nobody]
        /\ tcp6' = tcp6 /\ pc' = "proc" /\ pc = "table" /\ match' = match /\ match = NoSocket
    BY <1>2, <1>6 DEF ReadTable, TypeOK
  <2>2. FirstTable'
    BY <1>2, <2>1 DEF FirstTable
  <2>3. ASSUME NEW s \in Sockets PROVE ExactFor(s)'
    <3>1. Current(s) => (s \in socks' <=> s \in Listening) /\ owner'[s] = Nobody
      BY <1>2, <2>1 DEF Current, FirstTable, TypeOK
    <3>2. tcp6 /\ s \notin Tcp6 => Settled(s)'
      BY <1>2, <1>3, <2>1 DEF ExactFor, Scanning, Settled, Last
    <3>3. Current(s)' <=> Current(s)
      BY <2>1 DEF Current
    <3> QED
      BY <1>3, <1>5, <2>1, <3>1, <3>2, <3>3 DEF ExactFor
  <2> QED
    BY <2>2, <2>3
<1>7. ASSUME ReadTableFails PROVE G
  BY <1>2, <1>7 DEF ReadTableFails, Fail, scan, TypeOK, FirstTable, ExactFor, Scanning, Answering
<1>8. ASSUME ReadProc PROVE G
  <2>1. /\ dirs' = alive /\ pc = "proc" /\ pc' = "dir" /\ match = NoSocket
        /\ UNCHANGED <<tcp6, socks, owner, match>>
    BY <1>2, <1>8 DEF ReadProc, TypeOK
  <2>2. FirstTable'
    BY <1>2, <2>1 DEF FirstTable
  <2>3. ASSUME NEW s \in Sockets PROVE ExactFor(s)'
    <3>1. owner[s] = Nobody => Halfway(s)'
      BY <1>3, <1>4, <2>1 DEF Halfway, ToRead
    <3>2. tcp6 /\ s \notin Tcp6 => Settled(s)'
      BY <1>2, <1>3, <2>1 DEF ExactFor, Scanning, Settled, Last
    <3> QED
      BY <1>2, <1>3, <1>5, <2>1, <3>1, <3>2 DEF ExactFor, Current
  <2> QED
    BY <2>2, <2>3
<1>9. ASSUME ReadProcFails PROVE G
  <2>1. /\ Pids = {} /\ pc = "proc" /\ pc' = "dir" /\ match = NoSocket
        /\ UNCHANGED <<tcp6, socks, owner, match>>
    BY <1>2, <1>9 DEF ReadProcFails, TypeOK
  <2>2. FirstTable'
    BY <1>2, <2>1 DEF FirstTable
  <2>3. ASSUME NEW s \in Sockets PROVE ExactFor(s)'
    <3>1. owner[s] = Nobody => Halfway(s)'
      BY <1>3, <1>4, <2>1 DEF Halfway, ToRead
    <3>2. tcp6 /\ s \notin Tcp6 => Settled(s)'
      BY <1>2, <1>3, <2>1 DEF ExactFor, Scanning, Settled, Last
    <3> QED
      BY <1>2, <1>3, <1>5, <2>1, <3>1, <3>2 DEF ExactFor, Current
  <2> QED
    BY <2>2, <2>3
<1>10. ASSUME NEW p \in Pids, ReadFdDir(p) PROVE G
  <2>1. /\ dirs' = dirs \ {p} /\ dir' = p /\ fds' = {f \in Fds : fd[p][f] # NoSocket}
        /\ pc = "dir" /\ pc' = "link" /\ dir = Nobody /\ match = NoSocket
        /\ UNCHANGED <<tcp6, socks, owner, match>> /\ fd' = fd
    BY <1>1, <1>2, <1>10 DEF ReadFdDir, TypeOK, host
  <2>2. FirstTable'
    BY <1>2, <2>1 DEF FirstTable
  <2>3. ASSUME NEW s \in Sockets PROVE ExactFor(s)'
    <3>1. ASSUME NEW q \in Holders(s), ToRead(q, s) PROVE ToRead(q, s)'
      BY <1>4, <2>1, <3>1, SocketsAssumption DEF ToRead, Holders, SocketsAssumption
    <3>2. Halfway(s) => Halfway(s)'
      BY <1>3, <2>1, <3>1, HalfwayStays
    <3>3. tcp6 /\ s \notin Tcp6 => Settled(s)'
      BY <1>2, <1>3, <2>1 DEF ExactFor, Scanning, Settled, Last
    <3> QED
      BY <1>2, <1>3, <1>5, <2>1, <3>2, <3>3 DEF ExactFor, Current
  <2> QED
    BY <2>2, <2>3
<1>11. ASSUME NEW p \in Pids, ReadFdDirFails(p) PROVE FALSE
  BY <1>2, <1>11 DEF ReadFdDirFails, NextDir
<1>12. ASSUME FdsDone PROVE G
  <2>1. /\ dirs' = dirs /\ dir' = Nobody /\ fds = {} /\ fd' = fd
        /\ pc = "link" /\ pc' = "dir" /\ match = NoSocket /\ match' = NoSocket
        /\ UNCHANGED <<tcp6, socks, owner>>
    BY <1>1, <1>2, <1>12 DEF FdsDone, LeaveDir, TypeOK, host
  <2>2. FirstTable'
    BY <1>2, <2>1 DEF FirstTable
  <2>3. ASSUME NEW s \in Sockets PROVE ExactFor(s)'
    <3>1. ASSUME NEW q \in Holders(s), ToRead(q, s) PROVE ToRead(q, s)'
      BY <1>4, <2>1, <3>1, SocketsAssumption DEF ToRead, SocketsAssumption
    <3>2. Halfway(s) => Halfway(s)'
      BY <1>3, <2>1, <3>1, HalfwayStays
    <3>3. tcp6 /\ s \notin Tcp6 => Settled(s)'
      BY <1>2, <1>3, <2>1 DEF ExactFor, Scanning, Settled, Last
    <3> QED
      BY <1>2, <1>3, <1>5, <2>1, <3>2, <3>3 DEF ExactFor, Current
  <2> QED
    BY <2>2, <2>3
<1>13. ASSUME NEW f \in Fds, LinkOther(f) \/ LinkKnown(f) \/ LinkFirst(f) PROVE G
  <2>1. /\ pc = "link" /\ pc' \in {"link", "stat"} /\ match = NoSocket /\ dir \in Pids
        /\ match' \in {NoSocket, fd[dir][f]}
        /\ UNCHANGED <<call, tcp6, socks, dirs, dir>>
    BY <1>1, <1>2, <1>13, SocketsAssumption
      DEF LinkOther, LinkKnown, LinkFirst, Readlink, TypeOK, SocketsAssumption
  <2>2. FirstTable'
    <3>1. match' # NoSocket => match' \in Sockets /\ dir \in Holders(match')
      BY <1>2, <2>1 DEF Holders, TypeOK
    <3> QED
      BY <1>2, <1>3, <2>1, <3>1 DEF FirstTable
  <2>3. ASSUME NEW s \in Sockets PROVE ExactFor(s)'
    <3>1. Current(s) => Halfway(s) /\ (s \in socks <=> s \in Listening)
      BY <1>2, <2>1 DEF ExactFor
    <3>2. Current(s) => Halfway(s)'
      BY <1>1, <1>2, <1>13, <2>1, <3>1, LinkHalfway
    <3>3. ~Current(s) => owner'[s] = owner[s]
      BY <1>2, <1>13 DEF LinkOther, LinkKnown, LinkFirst, Attach, Sktab, Current, TypeOK
    <3>4. tcp6 /\ s \notin Tcp6 => Settled(s)'
      BY <1>2, <1>3, <2>1, <3>3 DEF ExactFor, Scanning, Settled, Last, Current
    <3> QED
      BY <1>3, <1>5, <2>1, <3>1, <3>2, <3>4 DEF ExactFor, Current
  <2> QED
    BY <2>2, <2>3
<1>14. ASSUME ReadStat PROVE G
  <2>1. /\ pc = "stat" /\ pc' = "link" /\ match \in Sockets /\ match' = NoSocket
        /\ dir \in Pids /\ dir # Nobody /\ owner' = [owner EXCEPT ![match] = dir]
        /\ UNCHANGED <<tcp6, socks, dirs, dir, fds>> /\ fd' = fd
    BY <1>1, <1>2, <1>14, SocketsAssumption DEF ReadStat, Attach, TypeOK, host, SocketsAssumption
  <2>2. FirstTable'
    BY <1>2, <2>1 DEF FirstTable
  <2>3. ASSUME NEW s \in Sockets PROVE ExactFor(s)'
    <3>1. CASE s = match
      <4>1. Current(s) /\ dir \in Holders(s) \ dirs /\ owner'[s] = dir
        BY <1>2, <2>1, <3>1 DEF MatchInTable, FirstTable, Sktab, Current, TypeOK
      <4>2. \A q \in Holders(s) : q \in dirs \/ DirRank[q] <= DirRank[dir]
        BY <1>4, <2>1 DEF InRankOrder
      <4>3. Halfway(s)'
        BY <1>3, <2>1, <4>1, <4>2 DEF Halfway, ToRead
      <4> QED
        BY <1>2, <1>3, <1>5, <2>1, <4>1, <4>3 DEF ExactFor, Current
    <3>2. CASE s # match
      <4>1. owner'[s] = owner[s]
        BY <1>2, <2>1, <3>2 DEF TypeOK
      <4>2. ASSUME NEW q \in Holders(s), ToRead(q, s) PROVE ToRead(q, s)'
        BY <2>1, <3>2, <4>2 DEF ToRead
      <4>3. Halfway(s) => Halfway(s)'
        BY <1>3, <2>1, <4>1, <4>2, HalfwayStays
      <4>4. tcp6 /\ s \notin Tcp6 => Settled(s)'
        BY <1>2, <1>3, <2>1, <4>1 DEF ExactFor, Scanning, Settled, Last
      <4> QED
        BY <1>2, <1>3, <1>5, <2>1, <4>3, <4>4 DEF ExactFor, Current
    <3> QED
      BY <3>1, <3>2
  <2> QED
    BY <2>2, <2>3
<1>15. ASSUME ReadStatFails PROVE FALSE
  BY <1>2, <1>15 DEF ReadStatFails, TypeOK
<1>16. ASSUME NextTable PROVE G
  <2>1. /\ pc = "dir" /\ pc' = "table" /\ dirs = {} /\ ~tcp6 /\ tcp6' /\ match = NoSocket
        /\ UNCHANGED <<socks, owner, match>>
    BY <1>2, <1>16 DEF NextTable, TypeOK
  <2>2. FirstTable'
    BY <1>2, <2>1 DEF FirstTable
  <2>3. ASSUME NEW s \in Sockets PROVE ExactFor(s)'
    <3>1. s \notin Tcp6 => Settled(s)
      BY <1>2, <2>1, EndOfTable DEF Current
    <3>2. s \notin Tcp6 => Settled(s)'
      BY <1>3, <2>1, <3>1 DEF Settled, Last
    <3> QED
      BY <1>5, <2>1, <3>2 DEF ExactFor
  <2> QED
    BY <2>2, <2>3
<1>17. G
  BY <1>6, <1>7, <1>8, <1>9, <1>10, <1>11, <1>12, <1>13, <1>14, <1>15, <1>16 DEF DoNetstat
<1> QED
  BY <1>17 DEF ScanExact, FirstTable, ExactFor

(***************************************************************************)
(* When both tables are settled, a process's entries are the sockets whose *)
(* last holder it is; there is one last holder.                            *)
(***************************************************************************)
LEMMA EntriesExact ==
    ASSUME TypeOK, \A s \in Sockets : Settled(s)
    PROVE  /\ \A p \in Pids : Of(p) = ListedUnder(p)
           /\ \A s \in socks : s \in ListedUnder(owner[s])
<1>1. ASSUME NEW p \in Pids, NEW s \in Sockets, Last(p, s)
      PROVE  s \in socks /\ owner[s] = p
  <2>1. s \in socks /\ Last(owner[s], s)
    BY <1>1 DEF Settled, Last, Listening
  <2>2. DirRank[p] <= DirRank[owner[s]] /\ DirRank[owner[s]] <= DirRank[p] /\ owner[s] \in Pids
    BY <1>1, <2>1 DEF Last, Holders
  <2>3. DirRank[p] = DirRank[owner[s]]
    BY <2>2, SocketsAssumption DEF SocketsAssumption
  <2> QED
    BY <2>1, <2>2, <2>3, SocketsAssumption DEF SocketsAssumption
<1>2. \A s \in socks : s \in Sockets /\ Last(owner[s], s)
  BY DEF TypeOK, Settled
<1>3. \A p : ListedUnder(p) = {s \in Sockets : Last(p, s)}
  BY DEF ListedUnder, Last
<1> QED
  BY <1>1, <1>2, <1>3 DEF Of

(***************************************************************************)
(* A scan that ends has settled both.                                      *)
(***************************************************************************)
LEMMA ScanEnds ==
    ASSUME Steady, ScanExact, Scanned \/ Answering
    PROVE  \A s \in Sockets : Settled(s)
<1>1. CASE Answering
  BY <1>1 DEF ScanExact
<1>2. ASSUME Scanned, NEW s \in Sockets PROVE Settled(s)
  <2>1. ExactFor(s) /\ pc = "dir" /\ dirs = {} /\ tcp6
    BY <1>2, ScanBySocket DEF Scanned
  <2>2. CASE s \in Tcp6
    BY <2>1, <2>2, EndOfTable DEF Current
  <2>3. CASE s \notin Tcp6
    BY <2>1, <2>3 DEF ExactFor, Scanning
  <2> QED
    BY <2>2, <2>3
<1> QED
  BY <1>1, <1>2

(***************************************************************************)
(* A scan leaves the answer as it is.                                      *)
(***************************************************************************)
LEMMA NetstatQuiet == Steady /\ QuietInv /\ DoNetstat => QuietInv'
<1> SUFFICES ASSUME Steady, QuietInv, DoNetstat, quiet', blind' = {}
             PROVE  InRankOrder' /\ ScanExact' /\ AnswerExact'
  BY DEF QuietInv
<1>1. /\ UNCHANGED <<host, call, history>> /\ blind \subseteq blind'
      /\ result' = result \/ (result' = {} /\ pc' = "failed")
      /\ pc' \in {"table", "proc", "dir", "link", "stat", "failed"}
  BY DEF DoNetstat, ReadTable, ReadTableFails, Fail, ReadProc, ReadProcFails, ReadFdDir, ReadFdDirFails,
       FdsDone, LeaveDir, LinkOther, LinkKnown, LinkFirst, Readlink, ReadStat, ReadStatFails, NextTable,
       Steady, IInv, Types, TypeOK, answer
<1>2. blind = {} /\ InRankOrder /\ ScanExact /\ AnswerExact
  BY <1>1 DEF QuietInv, history
<1>3. \A p : ListedUnder(p)' = ListedUnder(p)
  BY <1>1 DEF ListedUnder, Holders, host
<1>4. AnswerExact'
  BY <1>1, <1>2, <1>3 DEF AnswerExact
<1> QED
  BY <1>2, <1>4, NetstatInOrder, NetstatExact

(***************************************************************************)
(* The functions that call it build the answer from settled tables.        *)
(***************************************************************************)
LEMMA ServeExact ==
    ASSUME Steady, QuietInv, Serve, quiet', blind' = {}
    PROVE  InRankOrder' /\ ScanExact'
<1>1. pc' \in {"table", "list", "next", "done", "failed", "idle"} /\ UNCHANGED host
  <2>1. CASE Begin \/ Drop
    BY <2>1 DEF Begin, Drop
  <2>2. ASSUME ~Begin, ~Drop PROVE <1>1
    BY <2>2 DEF Serve, PortsReturns, PortsByPidReturns, ByPortFinds, ByPortFindsNone, ListProcesses, ListFails,
         Fail, StateOf, AttributesOf, AttributesFail, NameDiffers, NameMatches, FilterFails, ProcessesReturn, Scanned,
         Steady, IInv, Types, TypeOK
  <2> QED
    BY <2>1, <2>2
<1>2. InRankOrder'
  BY <1>1 DEF InRankOrder
<1>3. TypeOK /\ Listening' = Listening /\ \A s \in Sockets : Holders(s)' = Holders(s)
  BY <1>1 DEF host, Listening, Holders, Steady, IInv, Types
<1>4. CASE Begin
  <2>1. pc = "idle" /\ pc' \in {"table", "list"} /\ ~tcp6' /\ UNCHANGED match
    BY <1>4 DEF Begin, Steady, IInv, Types, CallOpen
  <2>2. match' = NoSocket
    BY <1>3, <2>1 DEF TypeOK
  <2>3. ~Answering'
    BY <1>4 DEF Begin, Answering
  <2> QED
    BY <1>2, <2>1, <2>2, <2>3 DEF ScanExact, Scanning
<1>5. CASE Drop
  BY <1>2, <1>5 DEF Drop, ScanExact, Scanning, Answering
<1>6. ASSUME ~Begin, ~Drop PROVE ScanExact'
  <2>1. /\ UNCHANGED <<call, history, blind, socks, owner, match>>
        /\ pc' = "table" => tcp6' = FALSE
        /\ match = NoSocket
        /\ Answering' => Scanned \/ Answering
    <3> USE <1>3 DEF TypeOK, scan, Answering
    <3>1. CASE PortsReturns \/ PortsByPidReturns \/ ByPortFinds \/ ByPortFindsNone
      BY <3>1 DEF PortsReturns, PortsByPidReturns, ByPortFinds, ByPortFindsNone, Scanned
    <3>2. CASE ListProcesses \/ ListFails \/ ProcessesReturn
      BY <3>2 DEF ListProcesses, ListFails, Fail, ProcessesReturn
    <3>3. ASSUME NEW p \in Pids,
                 StateOf(p) \/ AttributesOf(p) \/ AttributesFail(p) \/ NameDiffers(p) \/ NameMatches(p) \/ FilterFails(p)
          PROVE  <2>1
      BY <3>3 DEF StateOf, AttributesOf, AttributesFail, NameDiffers, NameMatches, FilterFails, Fail
    <3> QED
      BY <1>6, <3>1, <3>2, <3>3 DEF Serve
  <2>2. ScanExact
    BY <2>1 DEF QuietInv, history
  <2>3. Answering' => \A s \in Sockets : Settled(s)'
    <3>1. Answering' => \A s \in Sockets : Settled(s)
      BY <2>1, <2>2, ScanEnds
    <3> QED
      BY <1>3, <2>1, <3>1 DEF Settled, Last
  <2> QED
    BY <1>1, <2>1, <2>3 DEF ScanExact, Scanning
<1> QED
  BY <1>2, <1>4, <1>5, <1>6

(***************************************************************************)
(* A process's entry is what the settled tables say of it.                 *)
(***************************************************************************)
LEMMA ServeAnswersExact ==
    ASSUME Steady, AnswerInv, QuietInv, Serve, quiet', blind' = {}
    PROVE  AnswerExact'
<1>1. CASE Begin
  <2>1. result' = {} /\ pc' \in {"table", "list"}
    BY <1>1 DEF Begin, Steady, IInv, Types, CallOpen, answer
  <2> QED
    BY <2>1 DEF AnswerExact
<1>2. CASE Drop
  BY <1>2 DEF Drop, AnswerExact, Idle
<1>3. ASSUME ~Begin, ~Drop PROVE AnswerExact'
  <2>1. UNCHANGED <<host, call, history, blind>>
    BY <1>3 DEF Serve, PortsReturns, PortsByPidReturns, ByPortFinds, ByPortFindsNone, ListProcesses, ListFails,
         Fail, StateOf, AttributesOf, AttributesFail, NameDiffers, NameMatches, FilterFails, ProcessesReturn
  <2>2. TypeOK /\ CurKnown /\ Listing /\ ScanExact /\ AnswerExact
    BY <2>1 DEF QuietInv, history, AnswerInv, Steady, IInv, Types
  <2>3. /\ alive' = alive
        /\ \A p : ListedUnder(p)' = ListedUnder(p)
    BY <2>1 DEF ListedUnder, Holders, host
  <2>4. Scanned \/ Answering =>
          /\ \A p \in Pids : Of(p) = ListedUnder(p)
          /\ \A s \in socks : s \in ListedUnder(owner[s])
    BY <2>2, ScanEnds, EntriesExact
  <2>5. CASE PortsReturns \/ ByPortFindsNone
    BY <2>1, <2>2, <2>3, <2>5 DEF PortsReturns, ByPortFindsNone, answer, Scanned, AnswerExact
  <2>6. CASE PortsByPidReturns
    <3>1. cur \in Pids /\ call.op = "GetProcessesByName" /\ result' = result \cup {Entry(cur, Of(cur))}
      BY <2>2, <2>6 DEF PortsByPidReturns, Scanned, CurKnown
    <3>2. Entry(cur, Of(cur)).socks = ListedUnder(Entry(cur, Of(cur)).pid)
      BY <2>4, <2>6, <3>1 DEF PortsByPidReturns, Entry
    <3> QED
      BY <2>1, <2>2, <2>3, <3>1, <3>2 DEF AnswerExact
  <2>7. CASE ByPortFinds
    <3>1. PICK s \in socks : result' = {Entry(owner[s], {s})}
      BY <2>7 DEF ByPortFinds, FirstOnPort, OnPort
    <3>2. {s} \subseteq ListedUnder(owner[s])
      BY <2>4, <2>7 DEF ByPortFinds
    <3>3. \A e \in result' : e.socks \subseteq ListedUnder(e.pid)
      BY <3>1, <3>2 DEF Entry
    <3> QED
      BY <2>1, <2>3, <2>7, <3>3 DEF AnswerExact, ByPortFinds
  <2>8. CASE ListProcesses
    <3>1. procs' = alive' /\ pc = "list" /\ result' = result /\ call' = call
      BY <2>1, <2>3, <2>8 DEF ListProcesses
    <3>2. call.op = "GetProcessesState" => result' = {}
      BY <2>2, <3>1 DEF Listing
    <3> QED
      BY <2>2, <2>3, <3>1, <3>2 DEF AnswerExact
  <2>9. CASE ListFails
    BY <2>9 DEF ListFails, Fail, AnswerExact
  <2>10. ASSUME NEW p \in Pids, StateOf(p) PROVE AnswerExact'
    <3> DEFINE Wants(q) == call.hasListenPort => ListedUnder(q) # {}
    <3>1. /\ p \in procs /\ procs' = procs \ {p} /\ procs \subseteq alive
          /\ call.op = "GetProcessesState" /\ call' = call /\ pc = "next" /\ pc' = "next"
          /\ result = {Entry(q, ListedUnder(q)) : q \in {r \in alive \ procs : Wants(r)}}
      BY <2>1, <2>2, <2>10 DEF StateOf, AnswerExact
    <3>2. result' = IF Wants(p) THEN result \cup {Entry(p, ListedUnder(p))} ELSE result
      BY <2>4, <2>10 DEF StateOf, Wanted, Answering
    <3>3. {r \in alive \ procs' : Wants(r)} =
            {r \in alive \ procs : Wants(r)} \cup (IF Wants(p) THEN {p} ELSE {})
      BY <3>1
    <3>4. result' = {Entry(q, ListedUnder(q)) : q \in {r \in alive \ procs' : Wants(r)}}
      BY <3>1, <3>2, <3>3
    <3> QED
      BY <2>3, <3>1, <3>4 DEF AnswerExact
  <2>11. ASSUME NEW p \in Pids, AttributesOf(p) \/ AttributesFail(p) PROVE AnswerExact'
    BY <2>11, <2>1 DEF AttributesOf, AttributesFail, AnswerExact
  <2>12. ASSUME NEW p \in Pids, NameDiffers(p) \/ NameMatches(p) PROVE AnswerExact'
    BY <2>1, <2>2, <2>3, <2>12 DEF NameDiffers, NameMatches, AnswerExact
  <2>13. ASSUME NEW p \in Pids, FilterFails(p) PROVE AnswerExact'
    BY <2>13 DEF FilterFails, Fail, AnswerExact
  <2>14. CASE ProcessesReturn
    BY <2>1, <2>2, <2>3, <2>14 DEF ProcessesReturn, answer, AnswerExact
  <2> QED
    BY <1>3, <2>5, <2>6, <2>7, <2>8, <2>9, <2>10, <2>11, <2>12, <2>13, <2>14 DEF Serve
<1> QED
  BY <1>1, <1>2, <1>3

(***************************************************************************)
(* A process that GetProcesses takes off its list is in the answer, or one *)
(* of its attributes could not be read.                                    *)
(***************************************************************************)
LEMMA NextListExact == Steady /\ AnswerInv /\ ListExact /\ [Next]_vars => ListExact'
<1> SUFFICES ASSUME Steady, AnswerInv, ListExact, [Next]_vars, (call.op = "GetProcesses")'
             PROVE  ListExact'
  BY DEF ListExact
<1>1. CASE UNCHANGED vars
  BY <1>1 DEF vars, host, scan, answer, history, ListExact, Scanning
<1>2. CASE Host
  <2>1. /\ UNCHANGED <<call, pc, result, blind>> /\ quiet' = FALSE
    BY <1>2, HostStep DEF Change, Steady, IInv, answer
  <2> QED
    BY <2>1 DEF ListExact, Scanning
<1>3. CASE DoNetstat
  <2>1. UNCHANGED call /\ pc \in {"table", "proc", "dir", "link", "stat"}
    BY <1>3 DEF DoNetstat, ReadTable, ReadTableFails, Fail, ReadProc, ReadProcFails, ReadFdDir, ReadFdDirFails,
         FdsDone, LeaveDir, LinkOther, LinkKnown, LinkFirst, Readlink, ReadStat, ReadStatFails, NextTable
  <2> QED
    BY <2>1 DEF ListExact, Scanning
<1>4. CASE Begin
  <2>1. pc' = "list" /\ blind' = {} /\ result' = {}
    BY <1>4 DEF Begin, Steady, IInv, Types, CallOpen, answer
  <2> QED
    BY <2>1 DEF ListExact, Scanning
<1>5. CASE Drop
  BY <1>5 DEF Drop, Idle
<1>6. CASE PortsReturns \/ PortsByPidReturns \/ ByPortFinds \/ ByPortFindsNone
  BY <1>6 DEF PortsReturns, PortsByPidReturns, ByPortFinds, ByPortFindsNone, Scanned, ListExact, Scanning
<1>7. CASE ListProcesses
  <2>1. pc' = "next" /\ procs' = alive /\ blind = {} /\ result = {} /\ UNCHANGED <<host, result, blind>>
    BY <1>7 DEF ListProcesses, ListExact
  <2>2. alive' = alive
    BY <2>1 DEF host
  <2> QED
    BY <2>1, <2>2 DEF ListExact, Scanning
<1>8. CASE ListFails
  BY <1>8 DEF ListFails, Fail, ListExact, Scanning
<1>9. ASSUME NEW p \in Pids, StateOf(p) \/ NameDiffers(p) \/ NameMatches(p) PROVE ListExact'
  BY <1>9 DEF StateOf, NameDiffers, NameMatches
<1>10. ASSUME NEW p \in Pids, FilterFails(p) PROVE ListExact'
  BY <1>10 DEF FilterFails, Fail
<1>11. ASSUME NEW p \in Pids, AttributesOf(p), quiet'
       PROVE  /\ (procs \subseteq alive \ blind)'
              /\ (result = {Entry(q, {}) : q \in alive \ (procs \cup blind)})'
  <2>1. /\ p \in procs /\ procs' = procs \ {p} /\ procs \subseteq alive \ blind
        /\ alive' = alive /\ blind' = blind
        /\ result = {Entry(q, {}) : q \in alive \ (procs \cup blind)}
        /\ result' = result \cup {Entry(p, {})}
    BY <1>11 DEF AttributesOf, ListExact, host, history
  <2>2. alive \ (procs' \cup blind) = (alive \ (procs \cup blind)) \cup {p}
    BY <2>1
  <2> QED
    BY <2>1, <2>2
<1>12. ASSUME NEW p \in Pids, AttributesFail(p), quiet'
       PROVE  /\ (procs \subseteq alive \ blind)'
              /\ (result = {Entry(q, {}) : q \in alive \ (procs \cup blind)})'
  <2>1. /\ p \in procs /\ procs' = procs \ {p} /\ procs \subseteq alive \ blind
        /\ alive' = alive /\ blind' = blind \cup ({p} \cap alive)
        /\ result' = {Entry(q, {}) : q \in alive \ (procs \cup blind)}
    BY <1>12 DEF AttributesFail, ListExact, host, history
  <2>2. alive \ (procs' \cup blind') = alive \ (procs \cup blind)
    BY <2>1
  <2> QED
    BY <2>1, <2>2
<1>13. ASSUME NEW p \in Pids, AttributesOf(p) \/ AttributesFail(p) PROVE ListExact'
  <2>1. pc' = "next"
    BY <1>13 DEF AttributesOf, AttributesFail
  <2> QED
    BY <1>11, <1>12, <1>13, <2>1 DEF ListExact, Scanning
<1>14. CASE ProcessesReturn
  <2>1. UNCHANGED <<host, call, answer, history, blind>> /\ pc = "next" /\ pc' = "done"
    BY <1>14 DEF ProcessesReturn
  <2> QED
    BY <2>1 DEF ListExact, Scanning, host, answer, history
<1> QED
  BY <1>1, <1>2, <1>3, <1>4, <1>5, <1>6, <1>7, <1>8, <1>9, <1>10, <1>13, <1>14 DEF Next

(***************************************************************************)
(* On a host that stays as it is, GetProcesses leaves out exactly the      *)
(* processes it could not read, and where everything can be read the other *)
(* answers are exact: every socket once, under its last holder.            *)
(***************************************************************************)
THEOREM QuietHostsExact == Spec => []QuietHostExact
<1>1. Spec => []Steady
  BY InitSteady, NextSteady, PTL DEF Spec
<1>2. Init => AnswerInv /\ QuietInv
  BY DEF Init, AnswerInv, Listing, Idle, QuietInv, InRankOrder, ScanExact, Scanning, Answering, AnswerExact
<1>3. Steady /\ AnswerInv /\ QuietInv /\ [Next]_vars => AnswerInv' /\ QuietInv'
  <2> SUFFICES ASSUME Steady, AnswerInv, QuietInv, [Next]_vars PROVE AnswerInv' /\ QuietInv'
    OBVIOUS
  <2>1. CASE UNCHANGED vars
    <3>1. AnswerInv'
      BY <2>1 DEF vars, host, answer, history, AnswerInv, Listing, Answered, Sole
    <3>2. UNCHANGED <<alive, fd, call, pc, procs, result, quiet, blind>> /\ UNCHANGED scan
      BY <2>1 DEF vars, host, answer, history
    <3>3. /\ Listening' = Listening /\ \A s : Holders(s)' = Holders(s)
          /\ \A p : ListedUnder(p)' = ListedUnder(p)
      BY <3>2 DEF Listening, Holders, ListedUnder
    <3>4. InRankOrder => InRankOrder'
      BY <3>2 DEF InRankOrder, scan
    <3>5. \A s : (Settled(s) => Settled(s)') /\ (Halfway(s) => Halfway(s)')
      BY <3>2, <3>3 DEF Settled, Last, Halfway, ToRead, scan
    <3>6. ScanExact => ScanExact'
      BY <3>2, <3>3, <3>5 DEF ScanExact, Scanning, Answering, Current, scan
    <3>7. AnswerExact => AnswerExact'
      BY <3>2, <3>3 DEF AnswerExact
    <3> QED
      BY <3>1, <3>2, <3>4, <3>6, <3>7 DEF QuietInv
  <2>2. CASE Host
    BY <2>2, HostAnswers, HostStep DEF QuietInv, Change, Steady, IInv
  <2>3. CASE DoNetstat
    BY <2>3, NetstatAnswers, NetstatQuiet
  <2>4. CASE Serve
    BY <2>4, ServeAnswers, ServeExact, ServeAnswersExact DEF QuietInv
  <2> QED
    BY <2>1, <2>2, <2>3, <2>4 DEF Next, Serve
<1>4. Init => ListExact
  BY DEF Init, ListExact, Idle
<1>5. AnswerInv /\ QuietInv /\ ListExact => QuietHostExact
  <2> SUFFICES ASSUME AnswerInv, QuietInv, ListExact PROVE QuietHostExact
    OBVIOUS
  <2>1. pc = "done" /\ quiet /\ call.op = "GetProcesses" => result = {Entry(p, {}) : p \in alive \ blind}
    BY DEF AnswerInv, Listing, ListExact
  <2> QED
    BY <2>1 DEF AnswerInv, Listing, QuietInv, AnswerExact, QuietHostExact
<1> QED
  BY <1>1, <1>2, <1>3, <1>4, <1>5, NextListExact, PTL DEF Spec
=============================================================================
