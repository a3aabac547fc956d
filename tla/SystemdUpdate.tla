---------------------------- MODULE SystemdUpdate ----------------------------
(***************************************************************************)
(* The goroutines of one Update of the systemd collector.  They share the  *)
(* D-Bus connection, which the Update closes, and the channel of metrics,  *)
(* which the scrape closes once the Update has returned.  What each of     *)
(* them sends is in module ServiceCollectors.                              *)
(***************************************************************************)
EXTENDS Naturals, Sequences, FiniteSets

CONSTANTS
    Units     \* bound: how many units are left after filterUnits

ASSUME SystemdAssumption == Units \in Nat

VARIABLES
    main,        \* where Update is
    workers,     \* the goroutines started: how many units each has to do
    connection,  \* "none", "open" or "closed"
    deferred,    \* Update's deferred calls, the last one first
    since212,    \* the systemd version is known and at least 212
    returned     \* how Update returned

systemdVars == <<main, workers, connection, deferred, since212, returned>>

SystemdInit ==
    /\ main = "connect"
    /\ workers = <<>>
    /\ connection = "none"
    /\ deferred = <<>>
    /\ since212 \in BOOLEAN
    /\ returned = "no"

\* Leaving Update with a verdict, known before the deferred calls run.
Leave(verdict) == main' = "leaving" /\ returned' = verdict

Connect ==
    /\ main = "connect"
    /\ \/ /\ Leave("error")
          /\ UNCHANGED <<connection, deferred>>
       \/ /\ main' = "units"
          /\ connection' = "open"
          /\ deferred' = <<"Close">>
          /\ UNCHANGED returned
    /\ UNCHANGED <<workers, since212>>

\* Mutant: the wait is deferred before the Close, and runs after it.
DeferWaitLast == Append(deferred, "Wait")
\* The deferred wait runs before the connection is closed.
DeferWait == <<"Wait">> \o deferred

ListUnits ==
    /\ main = "units"
    /\ \/ /\ Leave("error")
          /\ UNCHANGED deferred
       \/ /\ main' = "start"
          /\ deferred' = DeferWait
          /\ UNCHANGED returned
    /\ UNCHANGED <<workers, connection, since212>>

\* The flags for start times and tasks keep their default, off.
Goroutines ==
    <<"status">> \o (IF since212 THEN <<"timers">> ELSE <<>>) \o <<"sockets">>

Start ==
    /\ main = "start"
    /\ workers' = Append(workers, Units)
    /\ main' = IF Len(workers') = Len(Goroutines) THEN "state" ELSE main
    /\ UNCHANGED <<connection, deferred, since212, returned>>

\* A unit: a call on the connection and a send on the channel.
Work(w) ==
    /\ workers[w] > 0
    /\ workers' = [workers EXCEPT ![w] = @ - 1]
    /\ UNCHANGED <<main, connection, deferred, since212, returned>>

CollectState ==
    /\ main = "state"
    /\ \E verdict \in IF since212 THEN {"nil", "error"} ELSE {"nil"} : Leave(verdict)
    /\ UNCHANGED <<workers, connection, deferred, since212>>

Working == {w \in DOMAIN workers : workers[w] > 0}

\* The deferred calls, the last one first; then Update has returned.
RunDeferred ==
    /\ main = "leaving"
    /\ IF deferred = <<>>
       THEN main' = "returned" /\ UNCHANGED <<connection, deferred>>
       ELSE /\ Head(deferred) = "Wait" => Working = {}
            /\ connection' = IF Head(deferred) = "Close" THEN "closed" ELSE connection
            /\ deferred' = Tail(deferred)
            /\ UNCHANGED main
    /\ UNCHANGED <<workers, since212, returned>>

SystemdNext ==
    \/ Connect \/ ListUnits \/ Start \/ CollectState \/ RunDeferred
    \/ \E w \in DOMAIN workers : Work(w)

SystemdSpec == SystemdInit /\ [][SystemdNext]_systemdVars
-----------------------------------------------------------------------------
\* As long as a goroutine has units to do the connection is open and Update
\* has not returned, with an error or without: a call on a closed connection
\* fails, a send on the channel after the scrape closed it panics.
SharedWhileWorking == Working # {} => connection = "open" /\ main # "returned"
=============================================================================
