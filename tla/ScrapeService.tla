--------------------------- MODULE ScrapeService ---------------------------
(***************************************************************************)
(* What the /metrics endpoint promises, without the goroutines of          *)
(* src/src/metrics/collector/collector.go: a request is refused or         *)
(* admitted; while it is being answered each enabled collector reports one *)
(* verdict; the answer goes out when every collector has reported.  A      *)
(* panic in a collector ends the process and with it every request.        *)
(***************************************************************************)
EXTENDS Naturals, FiniteSets

CONSTANTS
    Requests,     \* slots for concurrent HTTP requests
    Collectors,   \* the enabled collectors
    MaxRequests   \* requests answered at the same time at most

VARIABLES
    status,   \* "idle", "answering", "answered" or "refused"
    verdict,  \* per request and collector: "none", "success" or "failure"
    up        \* the process is running

svars == <<status, verdict, up>>
NoVerdicts == [c \in Collectors |-> "none"]

SInit ==
    /\ status = [r \in Requests |-> "idle"]
    /\ verdict = [r \in Requests |-> NoVerdicts]
    /\ up = TRUE

SAdmit(r) ==
    /\ up
    /\ status[r] = "idle"
    /\ Cardinality({q \in Requests : status[q] \in {"answering", "answered"}}) < MaxRequests
    /\ status' = [status EXCEPT ![r] = "answering"]
    /\ UNCHANGED <<verdict, up>>

SRefuse(r) ==
    /\ up
    /\ status[r] = "idle"
    /\ Cardinality({q \in Requests : status[q] \in {"answering", "answered"}}) >= MaxRequests
    /\ status' = [status EXCEPT ![r] = "refused"]
    /\ UNCHANGED <<verdict, up>>

SReport(r, c) ==
    /\ up
    /\ status[r] = "answering"
    /\ verdict[r][c] = "none"
    /\ \E v \in {"success", "failure"} : verdict' = [verdict EXCEPT ![r][c] = v]
    /\ UNCHANGED <<status, up>>

SAnswer(r) ==
    /\ up
    /\ status[r] = "answering"
    /\ \A c \in Collectors : verdict[r][c] # "none"
    /\ status' = [status EXCEPT ![r] = "answered"]
    /\ UNCHANGED <<verdict, up>>

\* The client has its answer; the slot can serve another request.
SLeave(r) ==
    /\ up
    /\ status[r] \in {"answered", "refused"}
    /\ status' = [status EXCEPT ![r] = "idle"]
    /\ verdict' = [verdict EXCEPT ![r] = NoVerdicts]
    /\ UNCHANGED up

SCrash ==
    /\ up
    /\ \E r \in Requests : status[r] = "answering"
    /\ up' = FALSE
    /\ UNCHANGED <<status, verdict>>

SNext ==
    \/ \E r \in Requests :
         \/ SAdmit(r) \/ SRefuse(r) \/ SAnswer(r) \/ SLeave(r)
         \/ \E c \in Collectors : SReport(r, c)
    \/ SCrash

SSpec == SInit /\ [][SNext]_svars
=============================================================================
