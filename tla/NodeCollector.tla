--------------------------- MODULE NodeCollector ---------------------------
(***************************************************************************)
(* The scrape path: promhttp admits a request and gathers a registry in    *)
(* which src/src/metrics/node_export.go registered one NodeCollector;      *)
(* NodeCollector.Collect (src/src/metrics/collector/collector.go) starts   *)
(* one goroutine per collector, each running execute, and waits for all.   *)
(*                                                                         *)
(* promhttp and the registry are external: admission by MaxRequestsInFlight*)
(* and closing the metrics channel once Collect has returned.              *)
(***************************************************************************)
EXTENDS Naturals, Sequences, FiniteSets

CONSTANTS
    Requests,     \* slots for concurrent HTTP requests
    Collectors,   \* nc.Collectors
    MaxRequests,  \* maxRequests, 40 in src/src/server/router/v1/metrics.go
    Hanging,      \* collectors whose Update may never return
    Panicking     \* collectors whose Update may panic

ASSUME ScrapeAssumption ==
    /\ IsFiniteSet(Requests)
    /\ IsFiniteSet(Collectors)
    /\ MaxRequests \in Nat \ {0}
    /\ Hanging \subseteq Collectors
    /\ Panicking \subseteq Collectors

VARIABLES
    request,    \* where each request is
    pending,    \* the WaitGroup's counter of each request
    goroutine,  \* where each request's goroutine of each collector is
    err,        \* what each Update returned
    scrape,     \* the scrape_collector_* samples the registry received
    closed,     \* the registry has closed the metrics channel
    alive       \* the process is running

vars == <<request, pending, goroutine, err, scrape, closed, alive>>

Errors == {"nil", "ErrNoData", "error"}
NoSamples == [duration |-> 0, success |-> <<>>]

Init ==
    /\ request = [r \in Requests |-> "idle"]
    /\ pending = [r \in Requests |-> 0]
    /\ goroutine = [r \in Requests |-> [c \in Collectors |-> "none"]]
    /\ err = [r \in Requests |-> [c \in Collectors |-> "nil"]]
    /\ scrape = [r \in Requests |-> [c \in Collectors |-> NoSamples]]
    /\ closed = [r \in Requests |-> FALSE]
    /\ alive = TRUE
-----------------------------------------------------------------------------
InFlight == {r \in Requests : request[r] \in {"collecting", "collected", "served"}}

\* wg.Add(len(n.Collectors))
CountMissingOne == Cardinality(Collectors) - 1
Count == Cardinality(Collectors)

\* promhttp admits the request; Collect starts the goroutines.
Admit(r) ==
    /\ alive
    /\ request[r] = "idle"
    /\ Cardinality(InFlight) < MaxRequests
    /\ request' = [request EXCEPT ![r] = "collecting"]
    /\ pending' = [pending EXCEPT ![r] = Count]
    /\ goroutine' = [goroutine EXCEPT ![r] = [c \in Collectors |-> "update"]]
    /\ UNCHANGED <<err, scrape, closed, alive>>

\* promhttp answers 503, "Limit of concurrent requests reached".
Refuse(r) ==
    /\ alive
    /\ request[r] = "idle"
    /\ Cardinality(InFlight) >= MaxRequests
    /\ request' = [request EXCEPT ![r] = "refused"]
    /\ UNCHANGED <<pending, goroutine, err, scrape, closed, alive>>
-----------------------------------------------------------------------------
\* execute: Update returns, having sent all, some or none of its own samples.
UpdateReturns(r, c) ==
    /\ alive
    /\ goroutine[r][c] = "update"
    /\ \E e \in Errors : err' = [err EXCEPT ![r][c] = e]
    /\ goroutine' = [goroutine EXCEPT ![r][c] = "duration"]
    /\ UNCHANGED <<request, pending, scrape, closed, alive>>

\* A panic in a collector's goroutine is recovered by nobody.
UpdatePanics(r, c) ==
    /\ alive
    /\ c \in Panicking
    /\ goroutine[r][c] = "update"
    /\ alive' = FALSE
    /\ UNCHANGED <<request, pending, goroutine, err, scrape, closed>>

\* execute: the collector_duration_seconds sample.
SendDuration(r, c) ==
    /\ alive
    /\ goroutine[r][c] = "duration"
    /\ scrape' = [scrape EXCEPT ![r][c].duration = @ + 1]
    /\ goroutine' = [goroutine EXCEPT ![r][c] = "success"]
    /\ UNCHANGED <<request, pending, err, closed, alive>>

\* ErrNoData is logged differently but is no success either.
SuccessDespiteNoData(e) == IF e = "error" THEN 0 ELSE 1
Success(e) == IF e = "nil" THEN 1 ELSE 0

\* execute: the collector_success sample.
SendSuccess(r, c) ==
    /\ alive
    /\ goroutine[r][c] = "success"
    /\ scrape' = [scrape EXCEPT ![r][c].success = Append(@, Success(err[r][c]))]
    /\ goroutine' = [goroutine EXCEPT ![r][c] = "wgDone"]
    /\ UNCHANGED <<request, pending, err, closed, alive>>

DoneIfNil(r, c) == IF err[r][c] = "nil" THEN 1 ELSE 0
Done(r, c) == 1

WgDone(r, c) ==
    /\ alive
    /\ goroutine[r][c] = "wgDone"
    /\ pending' = [pending EXCEPT ![r] = @ - Done(r, c)]
    /\ goroutine' = [goroutine EXCEPT ![r][c] = "exited"]
    /\ UNCHANGED <<request, err, scrape, closed, alive>>
-----------------------------------------------------------------------------
\* wg.Wait: Collect returns.
CollectReturns(r) ==
    /\ alive
    /\ request[r] = "collecting"
    /\ pending[r] = 0
    /\ request' = [request EXCEPT ![r] = "collected"]
    /\ UNCHANGED <<pending, goroutine, err, scrape, closed, alive>>

\* The registry closes the channel of a collection that has returned.
CloseChannel(r) ==
    /\ alive
    /\ request[r] = "collected"
    /\ closed' = [closed EXCEPT ![r] = TRUE]
    /\ request' = [request EXCEPT ![r] = "served"]
    /\ UNCHANGED <<pending, goroutine, err, scrape, alive>>

\* The response is written and the in-flight slot released.
Leave(r) ==
    /\ alive
    /\ request[r] \in {"served", "refused"}
    /\ request' = [request EXCEPT ![r] = "idle"]
    /\ goroutine' = [goroutine EXCEPT ![r] = [c \in Collectors |-> "none"]]
    /\ err' = [err EXCEPT ![r] = [c \in Collectors |-> "nil"]]
    /\ scrape' = [scrape EXCEPT ![r] = [c \in Collectors |-> NoSamples]]
    /\ closed' = [closed EXCEPT ![r] = FALSE]
    /\ UNCHANGED <<pending, alive>>

Execute(r, c) == SendDuration(r, c) \/ SendSuccess(r, c) \/ WgDone(r, c)

Next ==
    \E r \in Requests :
      \/ Admit(r) \/ Refuse(r)
      \/ CollectReturns(r) \/ CloseChannel(r) \/ Leave(r)
      \/ \E c \in Collectors :
           \/ UpdateReturns(r, c) \/ UpdatePanics(r, c)
           \/ Execute(r, c)

Spec == Init /\ [][Next]_vars

(***************************************************************************)
(* Goroutines run, and the Update of a collector outside Hanging returns.  *)
(* Nothing makes a client ask, or a hung Update return.                    *)
(***************************************************************************)
FairSpec ==
    /\ Spec
    /\ \A r \in Requests :
         /\ WF_vars(CollectReturns(r) \/ CloseChannel(r) \/ Leave(r))
         /\ \A c \in Collectors :
              /\ WF_vars(Execute(r, c))
              /\ c \notin Hanging => WF_vars(UpdateReturns(r, c))
-----------------------------------------------------------------------------
(***************************************************************************)
(* Type invariant: every variable has its type; the WaitGroup's counter is *)
(* never negative (which would panic).                                     *)
(***************************************************************************)
TypeOK ==
    /\ request \in [Requests -> {"idle", "collecting", "collected", "served", "refused"}]
    /\ pending \in [Requests -> 0 .. Cardinality(Collectors)]
    /\ goroutine \in [Requests -> [Collectors ->
                        {"none", "update", "duration", "success", "wgDone", "exited"}]]
    /\ err \in [Requests -> [Collectors -> Errors]]
    /\ scrape \in [Requests -> [Collectors -> [duration : Nat, success : Seq({0, 1})]]]
    /\ closed \in [Requests -> BOOLEAN]
    /\ alive \in BOOLEAN

(***************************************************************************)
(* When the metrics channel is closed no goroutine is left that could send *)
(* on it, which would panic (collector.go:146-154).                        *)
(***************************************************************************)
NoSendAfterClose ==
    \A r \in Requests : closed[r] =>
        \A c \in Collectors : goroutine[r][c] \notin {"update", "duration", "success"}

(***************************************************************************)
(* A served request carries, for every collector, one duration and one     *)
(* success sample, 1 exactly if its Update returned nil, however the       *)
(* collectors of this and of other requests interleave or fail             *)
(* (collector.go:157-176).                                                 *)
(***************************************************************************)
OneResultPerCollector ==
    \A r \in Requests : request[r] = "served" =>
        \A c \in Collectors :
            /\ scrape[r][c].duration = 1
            /\ scrape[r][c].success = <<IF err[r][c] = "nil" THEN 1 ELSE 0>>

\* A request one of whose goroutines is in an Update that may hang.
Blocked(r) == \E c \in Hanging : goroutine[r][c] = "update"

(***************************************************************************)
(* A request whose own collectors all return is answered, unless the       *)
(* process dies: requests do not wait for each other, and an Update that   *)
(* hangs in one request holds up no other (collector.go:145-155).          *)
(***************************************************************************)
AnsweredUnlessBlocked ==
    \A r \in Requests :
        []<>~Blocked(r)
          => (request[r] = "collecting" ~> (request[r] = "served" \/ ~alive))

(***************************************************************************)
(* The goroutines implement the service: a request is its status, and the  *)
(* success sample of a collector its verdict.                              *)
(***************************************************************************)
Status(r) ==
    CASE request[r] \in {"collecting", "collected"} -> "answering"
      [] request[r] = "served" -> "answered"
      [] OTHER -> request[r]
Verdict(r, c) ==
    IF scrape[r][c].success = <<>> THEN "none"
    ELSE IF scrape[r][c].success[1] = 1 THEN "success" ELSE "failure"

Service == INSTANCE ScrapeService WITH
    status <- [r \in Requests |-> Status(r)],
    verdict <- [r \in Requests |-> [c \in Collectors |-> Verdict(r, c)]],
    up <- alive

(***************************************************************************)
(* Every behaviour of the goroutines is one of the abstract service:       *)
(* admission within the limit, one verdict per collector, no answer before *)
(* the last verdict (node_export.go:89-98, collector.go:145-176).          *)
(***************************************************************************)
ImplementsService == Service!SSpec
=============================================================================
