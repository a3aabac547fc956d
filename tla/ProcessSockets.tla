-------------------------- MODULE ProcessSockets --------------------------
(***************************************************************************)
(* The inventory of processes and listening ports: src/src/vm/os_linux.go  *)
(* over src/src/utils/netstat/netstat_linux.go.  A call reads the socket   *)
(* tables, then /proc, then each process's descriptors, one link at a      *)
(* time, then the list of processes, while processes fork, exit, reuse     *)
(* process ids, and open and close sockets.                                *)
(***************************************************************************)
EXTENDS Naturals

CONSTANTS
    Pids,        \* process ids
    DirRank,     \* a process id's place in os.ReadDir's order, by name
    Fds,         \* descriptor numbers
    Sockets,     \* listening sockets, each an inode and a table entry
    Tcp6,        \* the sockets of /proc/net/tcp6; the others are in /proc/net/tcp
    Port,        \* the local port of a socket
    NoSocket,    \* what a free or another kind of descriptor holds
    Nobody,      \* a nil *Process
    MaxChanges   \* bound on what the processes do during calls

ASSUME SocketsAssumption ==
    /\ Tcp6 \subseteq Sockets
    /\ Fds \subseteq Nat
    /\ DirRank \in [Pids -> Nat]
    /\ \A p, q \in Pids : DirRank[p] = DirRank[q] => p = q
    /\ NoSocket \notin Sockets
    /\ Nobody \notin Pids
    /\ MaxChanges \in Nat

VARIABLES
    alive,   \* process ids in use
    fd,      \* what each descriptor of each process holds
    used,    \* sockets that are or were open: inodes are not reused
    changes, \* how much has changed, for the bound
    call,    \* the call being served and its arguments
    pc,      \* where it is
    tcp6,    \* doNetstat's path is the second table
    socks,   \* the entries read so far; those of the current table are sktab
    owner,   \* their Process
    dirs,    \* /proc directories left
    dir,     \* the one iterFdDir is in
    fds,     \* its descriptors left
    match,   \* the entry that waits for the current process's stat
    known,   \* p.p is set: the current process's stat has been read
    procs,   \* processes left
    cur,     \* the one PortsByPid is called for
    result,  \* the processes returned, or the process id GetProcessesByPort found
    ever,    \* history: who has held a socket at some time during the call
    always,  \* history: who has held it all the time
    quiet,   \* history: nothing has changed during the call
    blind    \* history: process ids that were there and could not be read

host == <<alive, fd, used, changes>>
history == <<ever, always, quiet>>
scan == <<tcp6, socks, owner, dirs, dir, fds, known, match>>
answer == <<procs, cur, result>>
vars == <<host, call, pc, scan, answer, history, blind>>

Idle == [op |-> "none"]
ByState == [op : {"GetProcessesState"}, hasListenPort : BOOLEAN]
ByPort == [op : {"GetProcessesByPort"}, port : {Port[s] : s \in Sockets}]
Inputs == ByState \cup ByPort \cup [op : {"GetProcessesByName", "GetProcesses"}]

Holders(s) == {p \in Pids : \E f \in Fds : fd[p][f] = s}
Listening == {s \in Sockets : Holders(s) # {}}
Closed == [f \in Fds |-> NoSocket]

Init ==
    /\ alive \in SUBSET Pids
    /\ fd \in [Pids -> [Fds -> Sockets \cup {NoSocket}]]
    /\ \A p \in Pids \ alive : fd[p] = Closed
    /\ used = Listening
    /\ changes = 0
    /\ call = Idle
    /\ pc = "idle"
    /\ tcp6 = FALSE
    /\ socks = {}
    /\ owner = [s \in Sockets |-> Nobody]
    /\ dirs = {}
    /\ dir = Nobody
    /\ fds = {}
    /\ known = FALSE
    /\ match = NoSocket
    /\ procs = {}
    /\ cur = Nobody
    /\ result = {}
    /\ ever = {}
    /\ always = {}
    /\ quiet = TRUE
    /\ blind = {}
-----------------------------------------------------------------------------
(***************************************************************************)
(* The host.  What it does between calls is in the choice of Init.         *)
(***************************************************************************)
Held == {<<p, f, fd[p][f]>> : p \in Pids, f \in Fds} \cap (Pids \X Fds \X Sockets)

Change ==
    /\ call # Idle
    /\ changes < MaxChanges
    /\ changes' = changes + 1
    /\ quiet' = FALSE
    /\ ever' = ever \cup {<<h[1], h[3]>> : h \in Held'}
    /\ always' = always \cap Held'
    /\ UNCHANGED <<call, pc, scan, answer, blind>>

\* The child shares its parent's sockets.
Fork(parent, child) ==
    /\ parent \in alive
    /\ child \notin alive
    /\ alive' = alive \cup {child}
    /\ fd' = [fd EXCEPT ![child] = fd[parent]]
    /\ used' = used
    /\ Change

Exit(p) ==
    /\ p \in alive
    /\ alive' = alive \ {p}
    /\ fd' = [fd EXCEPT ![p] = Closed]
    /\ used' = used
    /\ Change

Listen(p, f, s) ==
    /\ p \in alive
    /\ fd[p][f] = NoSocket
    /\ s \notin used
    /\ fd' = [fd EXCEPT ![p][f] = s]
    /\ used' = used \cup {s}
    /\ alive' = alive
    /\ Change

Close(p, f) ==
    /\ fd[p][f] # NoSocket
    /\ fd' = [fd EXCEPT ![p][f] = NoSocket]
    /\ UNCHANGED <<alive, used>>
    /\ Change
-----------------------------------------------------------------------------
(***************************************************************************)
(* doNetstat, for one table and then the other.                            *)
(***************************************************************************)
\* Mutant: a link is not compared with the entries.
AnySocket == Sockets
Sktab == IF tcp6 THEN socks \cap Tcp6 ELSE socks \ Tcp6

ReadTable ==
    /\ pc = "table"
    /\ socks' = IF tcp6 THEN socks \cup (Listening \cap Tcp6) ELSE Listening \ Tcp6
    /\ owner' = IF tcp6 THEN owner ELSE [s \in Sockets |-> Nobody]
    /\ pc' = "proc"
    /\ UNCHANGED <<host, call, tcp6, dirs, dir, fds, known, match, answer, history, blind>>

\* Every caller passes the error on.
Fail ==
    /\ pc' = "failed"
    /\ result' = {}
    /\ UNCHANGED <<host, call, scan, procs, cur, history, blind>>

ReadTableFails == pc = "table" /\ Fail

ReadProc ==
    /\ pc = "proc"
    /\ dirs' = alive
    /\ pc' = "dir"
    /\ UNCHANGED <<host, call, tcp6, socks, owner, dir, fds, known, match, answer, history, blind>>

\* The failure is swallowed: no entry of this table gets a process.
ReadProcFails ==
    /\ pc = "proc"
    /\ dirs' = {}
    /\ pc' = "dir"
    /\ blind' = Pids
    /\ UNCHANGED <<host, call, tcp6, socks, owner, dir, fds, known, match, answer, history>>

\* The next directory in os.ReadDir's order.
NextDir(p) == p \in dirs /\ \A q \in dirs : DirRank[p] <= DirRank[q]

ReadFdDir(p) ==
    /\ pc = "dir"
    /\ NextDir(p)
    /\ p \in alive
    /\ dirs' = dirs \ {p}
    /\ dir' = p
    /\ fds' = {f \in Fds : fd[p][f] # NoSocket}
    /\ pc' = "link"
    /\ UNCHANGED <<host, call, tcp6, socks, owner, known, match, answer, history, blind>>

ReadFdDirFails(p) ==
    /\ pc = "dir"
    /\ NextDir(p)
    /\ dirs' = dirs \ {p}
    /\ blind' = blind \cup ({p} \cap alive)
    /\ UNCHANGED <<host, call, pc, tcp6, socks, owner, dir, fds, known, match, answer, history>>

\* iterFdDir returns, whatever is left of the directory.
LeaveDir ==
    /\ dir' = Nobody
    /\ fds' = {}
    /\ known' = FALSE
    /\ match' = NoSocket
    /\ pc' = "dir"
    /\ UNCHANGED <<host, call, tcp6, socks, owner, dirs, answer, history>>

FdsDone ==
    /\ pc = "link"
    /\ fds = {}
    /\ LeaveDir
    /\ UNCHANGED blind

\* os.Readlink of the next descriptor.  One that is closed or of a process
\* that is gone is NoSocket, and skipped like one that is no socket.
Readlink(f) ==
    /\ pc = "link"
    /\ f \in fds
    /\ \A g \in fds : f <= g
    /\ fds' = fds \ {f}
    /\ UNCHANGED <<host, call, tcp6, socks, dirs, dir, known, answer, history, blind>>

\* Mutant: the loop is left instead of continued.
LinkOtherEnds(f) ==
    /\ pc = "link"
    /\ f \in fds
    /\ \A g \in fds : f <= g
    /\ fd[dir][f] \notin Sktab
    /\ LeaveDir
    /\ UNCHANGED blind

LinkOther(f) ==
    /\ Readlink(f)
    /\ fd[dir][f] \notin Sktab
    /\ UNCHANGED <<pc, owner, match>>

\* Mutant: an entry that has a process keeps it.
AttachOnce(s, p) == [owner EXCEPT ![s] = IF @ = Nobody THEN p ELSE @]
Attach(s, p) == [owner EXCEPT ![s] = p]

\* The process's stat has been read for an earlier descriptor.
LinkKnown(f) ==
    /\ Readlink(f)
    /\ fd[dir][f] \in Sktab
    /\ known
    /\ owner' = Attach(fd[dir][f], dir)
    /\ UNCHANGED <<pc, match>>

LinkFirst(f) ==
    /\ Readlink(f)
    /\ fd[dir][f] \in Sktab
    /\ ~known
    /\ match' = fd[dir][f]
    /\ pc' = "stat"
    /\ UNCHANGED owner

ReadStat ==
    /\ pc = "stat"
    /\ dir \in alive
    /\ known' = TRUE
    /\ owner' = Attach(match, dir)
    /\ match' = NoSocket
    /\ pc' = "link"
    /\ UNCHANGED <<host, call, tcp6, socks, dirs, dir, fds, answer, history, blind>>

ReadStatFails ==
    /\ pc = "stat"
    /\ blind' = blind \cup ({dir} \cap alive)
    /\ LeaveDir

\* TCP6Socks follows TCPSocks.
NextTable ==
    /\ pc = "dir"
    /\ dirs = {}
    /\ ~tcp6
    /\ tcp6' = TRUE
    /\ pc' = "table"
    /\ UNCHANGED <<host, call, socks, owner, dirs, dir, fds, known, match, answer, history, blind>>

Scanned == pc = "dir" /\ dirs = {} /\ tcp6

\* Mutant: the process id is not compared.
OfAnyProcess(p) == {s \in socks : owner[s] # Nobody}
Of(p) == {s \in socks : owner[s] = p}
-----------------------------------------------------------------------------
(***************************************************************************)
(* The functions of os_linux.go.                                           *)
(***************************************************************************)
Begin ==
    /\ call = Idle
    /\ call' \in Inputs
    /\ pc' = IF call'.op \in {"GetProcessesState", "GetProcessesByPort"} THEN "table" ELSE "list"
    /\ tcp6' = FALSE
    /\ ever' = {<<h[1], h[3]>> : h \in Held}
    /\ always' = Held
    /\ quiet' = TRUE
    /\ blind' = {}
    /\ UNCHANGED <<host, socks, owner, dirs, dir, fds, known, match, answer>>

\* Ports returns to GetProcessesState.
PortsReturns ==
    /\ Scanned
    /\ call.op = "GetProcessesState"
    /\ pc' = "list"
    /\ UNCHANGED <<host, call, scan, answer, history, blind>>

\* process.Processes lists the processes.
ListProcesses ==
    /\ pc = "list"
    /\ procs' = alive
    /\ pc' = "next"
    /\ UNCHANGED <<host, call, scan, cur, result, history, blind>>

ListFails == pc = "list" /\ Fail

Entry(p, entries) == [pid |-> p, socks |-> entries]

\* Mutant: the comparison with 0 is inverted.
WantedIfNone(entries) == ~call.hasListenPort \/ entries = {}
Wanted(entries) == ~call.hasListenPort \/ entries # {}

\* Errors are ignored: a process that is gone still gets its entry.
StateOf(p) ==
    /\ pc = "next"
    /\ call.op = "GetProcessesState"
    /\ p \in procs
    /\ procs' = procs \ {p}
    /\ result' = IF Wanted(Of(p)) THEN result \cup {Entry(p, Of(p))} ELSE result
    /\ UNCHANGED <<host, call, pc, scan, cur, history, blind>>

\* GetProcesses lists a process when all eight reads of its attributes succeed.
AttributesOf(p) ==
    /\ pc = "next"
    /\ call.op = "GetProcesses"
    /\ p \in procs \cap alive
    /\ procs' = procs \ {p}
    /\ result' = result \cup {Entry(p, {})}
    /\ UNCHANGED <<host, call, pc, scan, cur, history, blind>>

\* Mutant: the skipped process is appended all the same.
AttributesPartial(p) ==
    /\ pc = "next"
    /\ call.op = "GetProcesses"
    /\ p \in procs
    /\ procs' = procs \ {p}
    /\ blind' = blind \cup ({p} \cap alive)
    /\ result' = result \cup {Entry(p, {})}
    /\ UNCHANGED <<host, call, pc, scan, cur, history>>

\* Any of the reads may fail, of a process that is gone or of one that is
\* not (a user id without a name): the process is skipped, without an error.
AttributesFail(p) ==
    /\ pc = "next"
    /\ call.op = "GetProcesses"
    /\ p \in procs
    /\ procs' = procs \ {p}
    /\ blind' = blind \cup ({p} \cap alive)
    /\ UNCHANGED <<host, call, pc, scan, cur, result, history>>

\* GetProcessesByName passes over a command line without the name.
NameDiffers(p) ==
    /\ pc = "next"
    /\ call.op = "GetProcessesByName"
    /\ p \in procs
    /\ procs' = procs \ {p}
    /\ UNCHANGED <<host, call, pc, scan, cur, result, history, blind>>

\* It asks for the ports of the others, one whole scan each.
NameMatches(p) ==
    /\ pc = "next"
    /\ call.op = "GetProcessesByName"
    /\ p \in procs
    /\ procs' = procs \ {p}
    /\ cur' = p
    /\ tcp6' = FALSE
    /\ pc' = "table"
    /\ UNCHANGED <<host, call, socks, owner, dirs, dir, fds, known, match, result, history, blind>>

\* The caller's filter refuses a process whose command line has the name.
FilterFails(p) ==
    /\ pc = "next"
    /\ call.op = "GetProcessesByName"
    /\ p \in procs
    /\ Fail

PortsByPidReturns ==
    /\ Scanned
    /\ call.op = "GetProcessesByName"
    /\ result' = result \cup {Entry(cur, Of(cur))}
    /\ cur' = Nobody
    /\ pc' = "next"
    /\ UNCHANGED <<host, call, scan, procs, history, blind>>

ProcessesReturn ==
    /\ pc = "next"
    /\ procs = {}
    /\ pc' = "done"
    /\ UNCHANGED <<host, call, scan, answer, history, blind>>

\* The entries GetProcessesByPort may return, in the order of the tables.
OnPort == {s \in socks : Port[s] = call.port /\ owner[s] # Nobody}
FirstOnPort == IF OnPort \ Tcp6 # {} THEN OnPort \ Tcp6 ELSE OnPort

ByPortFinds ==
    /\ Scanned
    /\ call.op = "GetProcessesByPort"
    /\ \E s \in FirstOnPort : result' = {Entry(owner[s], {s})}
    /\ pc' = "done"
    /\ UNCHANGED <<host, call, scan, procs, cur, history, blind>>

ByPortFindsNone ==
    /\ Scanned
    /\ call.op = "GetProcessesByPort"
    /\ OnPort = {}
    /\ pc' = "done"
    /\ UNCHANGED <<host, call, scan, answer, history, blind>>

\* The caller drops the answer.
Drop ==
    /\ pc \in {"done", "failed"}
    /\ call' = Idle
    /\ pc' = "idle"
    /\ tcp6' = FALSE
    /\ socks' = {}
    /\ owner' = [s \in Sockets |-> Nobody]
    /\ dirs' = {}
    /\ dir' = Nobody
    /\ fds' = {}
    /\ known' = FALSE
    /\ match' = NoSocket
    /\ procs' = {}
    /\ cur' = Nobody
    /\ result' = {}
    /\ ever' = {}
    /\ always' = {}
    /\ quiet' = TRUE
    /\ blind' = {}
    /\ UNCHANGED host

Host ==
    \/ \E p, q \in Pids : Fork(p, q)
    \/ \E p \in Pids : Exit(p)
    \/ \E p \in Pids, f \in Fds : Close(p, f) \/ \E s \in Sockets : Listen(p, f, s)

DoNetstat ==
    \/ ReadTable \/ ReadTableFails \/ ReadProc \/ ReadProcFails
    \/ \E p \in Pids : ReadFdDir(p) \/ ReadFdDirFails(p)
    \/ \E f \in Fds : LinkOther(f) \/ LinkKnown(f) \/ LinkFirst(f)
    \/ FdsDone \/ ReadStat \/ ReadStatFails
    \/ NextTable

Next ==
    \/ Host
    \/ Begin
    \/ DoNetstat
    \/ PortsReturns \/ PortsByPidReturns \/ ByPortFinds \/ ByPortFindsNone
    \/ ListProcesses \/ ListFails
    \/ \E p \in Pids : StateOf(p) \/ AttributesOf(p) \/ AttributesFail(p) \/ NameDiffers(p) \/ NameMatches(p) \/ FilterFails(p)
    \/ ProcessesReturn
    \/ Drop

Spec == Init /\ [][Next]_vars
-----------------------------------------------------------------------------
(***************************************************************************)
(* Types; only entries that have been read have a process, and only while  *)
(* a directory is being read are there descriptors left.                   *)
(***************************************************************************)
TypeOK ==
    /\ alive \subseteq Pids
    /\ fd \in [Pids -> [Fds -> Sockets \cup {NoSocket}]]
    /\ used \subseteq Sockets
    /\ changes \in 0 .. MaxChanges
    /\ call \in Inputs \cup {Idle}
    /\ pc \in {"idle", "table", "proc", "dir", "link", "stat", "list", "next", "done", "failed"}
    /\ tcp6 \in BOOLEAN
    /\ socks \subseteq Sockets
    /\ owner \in [Sockets -> Pids \cup {Nobody}]
    /\ dirs \subseteq Pids
    /\ dir \in Pids \cup {Nobody}
    /\ fds \subseteq Fds
    /\ known \in BOOLEAN
    /\ match \in Sockets \cup {NoSocket}
    /\ procs \subseteq Pids
    /\ cur \in Pids \cup {Nobody}
    /\ result \subseteq [pid : Pids, socks : SUBSET Sockets]
    /\ ever \subseteq Pids \X Sockets
    /\ always \subseteq Pids \X Fds \X Sockets
    /\ quiet \in BOOLEAN
    /\ blind \subseteq Pids
    /\ \A s \in Sockets : owner[s] # Nobody => s \in socks
    /\ pc \in {"link", "stat"} <=> dir # Nobody
    /\ pc = "stat" <=> match # NoSocket

(***************************************************************************)
(* A socket is returned only with a process id that held it at some time   *)
(* during the call, whatever exits, forks or reuses ids meanwhile          *)
(* (netstat_linux.go:195-223, os_linux.go:231-236, 328-333, 386-391).      *)
(***************************************************************************)
OnlyHolders ==
    \A e \in result, s \in Sockets : s \in e.socks => <<e.pid, s>> \in ever

(***************************************************************************)
(* A scan misses no socket that a process it may look at holds from before *)
(* the call on: it is in its table and has a process, though other         *)
(* processes come and go (netstat_linux.go:186-246).                       *)
(***************************************************************************)
SteadyHolderFound ==
    Scanned \/ (pc \in {"list", "done"} /\ call.op \in {"GetProcessesState", "GetProcessesByPort"}) =>
        \A h \in always : h[1] \notin blind => h[3] \in socks /\ owner[h[3]] # Nobody

(***************************************************************************)
(* The answer lists every socket one process holds alone for the whole     *)
(* call under that process, with and without hasListenPort; by port, such  *)
(* a process is always an answer to be found (os_linux.go:191-245,         *)
(* 320-335).                                                               *)
(***************************************************************************)
Alone(h) == h[1] \notin blind /\ \A e \in ever : e[2] = h[3] => e[1] = h[1]

SoleHolderListed ==
    pc = "done" => \A h \in always : Alone(h) =>
        /\ call.op = "GetProcessesState" =>
             \E e \in result : e.pid = h[1] /\ h[3] \in e.socks
        /\ call.op = "GetProcessesByName" =>
             \A e \in result : e.pid = h[1] => h[3] \in e.socks
        /\ call.op = "GetProcessesByPort" /\ call.port = Port[h[3]] => result # {}

(***************************************************************************)
(* On a host that stays as it is, GetProcesses lists exactly the processes *)
(* all of whose attributes it could read; and if every read succeeds the   *)
(* other answers are exact: a shared socket is listed once, under the      *)
(* holder that /proc lists last, and processes that hold none are left out *)
(* only if hasListenPort asks for it (os_linux.go:237, 421-452,            *)
(* netstat_linux.go:222).                                                  *)
(***************************************************************************)
ListedUnder(p) == {s \in Sockets : p \in Holders(s) /\ \A q \in Holders(s) : DirRank[q] <= DirRank[p]}

QuietHostExact ==
    pc = "done" /\ quiet =>
        /\ call.op = "GetProcesses" => result = {Entry(p, {}) : p \in alive \ blind}
        /\ call.op = "GetProcessesState" /\ blind = {} =>
             result = {Entry(p, ListedUnder(p)) :
                         p \in {q \in alive : call.hasListenPort => ListedUnder(q) # {}}}
        /\ call.op = "GetProcessesByName" /\ blind = {} =>
             \A e \in result : e.socks = ListedUnder(e.pid)
        /\ call.op = "GetProcessesByPort" /\ blind = {} =>
             \A e \in result : e.socks \subseteq ListedUnder(e.pid)
=============================================================================
