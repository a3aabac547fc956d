----------------------- MODULE NodeCollectorProofs -----------------------
(***************************************************************************)
(* Proofs about NodeCollector, for any requests, collectors and limit, and *)
(* whichever collectors hang or panic; and that it implements              *)
(* ScrapeService.                                                          *)
(***************************************************************************)
EXTENDS NodeCollector, FiniteSetTheorems, TLAPS

\* The goroutines of a request that have not called wg.Done.
Running(r) ==
    {c \in Collectors : goroutine[r][c] \in {"update", "duration", "success", "wgDone"}}

\* The WaitGroup counts them.
Counted == \A r \in Requests : pending[r] = Cardinality(Running(r))

\* Goroutines exist while Collect waits, and have exited once it has returned.
Placed(r) ==
    /\ closed[r] <=> request[r] = "served"
    /\ \A c \in Collectors :
         /\ request[r] \in {"idle", "refused"} <=> goroutine[r][c] = "none"
         /\ request[r] \in {"collected", "served"} => goroutine[r][c] = "exited"

\* What a goroutine has sent so far.
Sampled(r, c) ==
    /\ scrape[r][c].duration =
         IF goroutine[r][c] \in {"success", "wgDone", "exited"} THEN 1 ELSE 0
    /\ scrape[r][c].success =
         IF goroutine[r][c] \in {"wgDone", "exited"} THEN <<Success(err[r][c])>> ELSE <<>>

IInv ==
    /\ TypeOK
    /\ Counted
    /\ \A r \in Requests : Placed(r)
    /\ \A r \in Requests, c \in Collectors : Sampled(r, c)
-----------------------------------------------------------------------------
(***************************************************************************)
(* There are finitely many goroutines, so counting them makes sense.       *)
(***************************************************************************)
LEMMA CountType == Cardinality(Collectors) \in Nat
  BY ScrapeAssumption, FS_CardinalityType DEF ScrapeAssumption

LEMMA RunningFinite ==
    ASSUME NEW r \in Requests
    PROVE  /\ IsFiniteSet(Running(r))
           /\ Cardinality(Running(r)) \in Nat
           /\ Cardinality(Running(r)) = 0 => Running(r) = {}
<1>1. Running(r) \subseteq Collectors
  BY DEF Running
<1>2. IsFiniteSet(Running(r))
  BY <1>1, ScrapeAssumption, FS_Subset DEF ScrapeAssumption
<1> QED
  BY <1>2, FS_CardinalityType, FS_EmptySet

(***************************************************************************)
(* Before the first request nothing runs and nothing was sent.             *)
(***************************************************************************)
LEMMA InitIInv == Init => IInv
<1> SUFFICES ASSUME Init PROVE IInv
  OBVIOUS
<1>1. <<>> \in Seq({0, 1})
  OBVIOUS
<1>2. TypeOK
  BY <1>1, CountType DEF Init, TypeOK, NoSamples, Errors
<1>3. Counted
  <2> SUFFICES ASSUME NEW r \in Requests PROVE pending[r] = Cardinality(Running(r))
    BY DEF Counted
  <2>1. Running(r) = {}
    BY DEF Running, Init
  <2> QED
    BY <2>1, FS_EmptySet DEF Init
<1>4. \A r \in Requests : Placed(r)
  BY DEF Init, Placed
<1>5. \A r \in Requests, c \in Collectors : Sampled(r, c)
  BY DEF Init, Sampled, NoSamples
<1> QED
  BY <1>2, <1>3, <1>4, <1>5 DEF IInv

(***************************************************************************)
(* A step of one goroutine that does not call wg.Done leaves the count.    *)
(***************************************************************************)
LEMMA CountKept ==
    ASSUME Counted, TypeOK, NEW r \in Requests, NEW c \in Collectors,
           NEW to \in {"duration", "success", "wgDone"},
           goroutine[r][c] \in {"update", "duration", "success"},
           goroutine' = [goroutine EXCEPT ![r][c] = to],
           pending' = pending
    PROVE  Counted'
<1> SUFFICES ASSUME NEW q \in Requests PROVE Running(q)' = Running(q)
  BY DEF Counted
<1>1. \A d \in Collectors : goroutine'[q][d] =
        IF q = r /\ d = c THEN to ELSE goroutine[q][d]
  BY DEF TypeOK
<1> QED
  BY <1>1 DEF Running

Samples == [duration : Nat, success : Seq({0, 1})]

(***************************************************************************)
(* One more sample.                                                        *)
(***************************************************************************)
LEMMA SampleTypes ==
    ASSUME NEW s \in Samples, NEW b \in {0, 1}
    PROVE  /\ [s EXCEPT !.duration = @ + 1] \in Samples
           /\ [s EXCEPT !.success = Append(@, b)] \in Samples
<1>1. Append(s.success, b) \in Seq({0, 1})
  BY DEF Samples
<1> QED
  BY <1>1 DEF Samples

(***************************************************************************)
(* Every action keeps the types.                                           *)
(***************************************************************************)
LEMMA NextType == IInv /\ [Next]_vars => TypeOK'
<1> SUFFICES ASSUME IInv, [Next]_vars PROVE TypeOK'
  OBVIOUS
<1> USE DEF IInv, TypeOK
<1>1. ASSUME NEW r \in Requests, Admit(r) PROVE TypeOK'
  BY <1>1, CountType DEF Admit, Count
<1>2. ASSUME NEW r \in Requests, Refuse(r) PROVE TypeOK'
  BY <1>2 DEF Refuse
<1>3. ASSUME NEW r \in Requests, CollectReturns(r) PROVE TypeOK'
  BY <1>3 DEF CollectReturns
<1>4. ASSUME NEW r \in Requests, CloseChannel(r) PROVE TypeOK'
  BY <1>4 DEF CloseChannel
<1>5. ASSUME NEW r \in Requests, Leave(r) PROVE TypeOK'
  <2>1. <<>> \in Seq({0, 1})
    OBVIOUS
  <2>2. NoSamples \in [duration : Nat, success : Seq({0, 1})]
    BY <2>1 DEF NoSamples
  <2>3. scrape' \in [Requests -> [Collectors -> [duration : Nat, success : Seq({0, 1})]]]
    BY <1>5, <2>2 DEF Leave
  <2>4. err' \in [Requests -> [Collectors -> Errors]]
    BY <1>5 DEF Leave, Errors
  <2> QED
    BY <1>5, <2>3, <2>4 DEF Leave
<1>6. ASSUME NEW r \in Requests, NEW c \in Collectors, UpdateReturns(r, c) PROVE TypeOK'
  BY <1>6 DEF UpdateReturns
<1>7. ASSUME NEW r \in Requests, NEW c \in Collectors, UpdatePanics(r, c) PROVE TypeOK'
  BY <1>7 DEF UpdatePanics
<1>8. ASSUME NEW r \in Requests, NEW c \in Collectors, SendDuration(r, c) PROVE TypeOK'
  <2>1. [scrape[r][c] EXCEPT !.duration = @ + 1] \in Samples
    <3>1. scrape[r][c] \in Samples
      BY DEF Samples
    <3> QED
      BY <3>1, SampleTypes
  <2>2. scrape' \in [Requests -> [Collectors -> Samples]]
    BY <1>8, <2>1 DEF SendDuration, Samples
  <2> QED
    BY <1>8, <2>2 DEF SendDuration, Samples
<1>9. ASSUME NEW r \in Requests, NEW c \in Collectors, SendSuccess(r, c) PROVE TypeOK'
  <2>1. Success(err[r][c]) \in {0, 1}
    BY DEF Success
  <2>2. [scrape[r][c] EXCEPT !.success = Append(@, Success(err[r][c]))] \in Samples
    <3>1. scrape[r][c] \in Samples
      BY DEF Samples
    <3> QED
      BY <2>1, <3>1, SampleTypes
  <2>3. scrape' \in [Requests -> [Collectors -> Samples]]
    BY <1>9, <2>2 DEF SendSuccess, Samples
  <2> QED
    BY <1>9, <2>3 DEF SendSuccess, Samples
<1>10. ASSUME NEW r \in Requests, NEW c \in Collectors, WgDone(r, c) PROVE TypeOK'
  <2>1. c \in Running(r)
    BY <1>10 DEF WgDone, Running
  <2>2. Cardinality(Running(r)) # 0
    BY <2>1, RunningFinite
  <2>3. pending[r] - 1 \in 0 .. Cardinality(Collectors)
    BY <2>2, RunningFinite, CountType DEF Counted
  <2> QED
    BY <1>10, <2>3 DEF WgDone, Done
<1>11. CASE UNCHANGED vars
  BY <1>11 DEF vars
<1> QED
  BY <1>1, <1>2, <1>3, <1>4, <1>5, <1>6, <1>7, <1>8, <1>9, <1>10, <1>11
  DEF Next, Execute

(***************************************************************************)
(* The WaitGroup keeps counting the goroutines that are not done.          *)
(***************************************************************************)
LEMMA NextCounted == IInv /\ [Next]_vars => Counted'
<1> SUFFICES ASSUME IInv, [Next]_vars PROVE Counted'
  OBVIOUS
<1> USE DEF IInv
<1>1. ASSUME NEW r \in Requests, Admit(r) PROVE Counted'
  <2> SUFFICES ASSUME NEW q \in Requests PROVE pending'[q] = Cardinality(Running(q)')
    BY DEF Counted
  <2>1. CASE q = r
    <3>1. Running(q)' = Collectors
      BY <1>1, <2>1 DEF Admit, Running, TypeOK
    <3> QED
      BY <1>1, <2>1, <3>1 DEF Admit, Count, TypeOK
  <2>2. CASE q # r
    BY <1>1, <2>2 DEF Admit, Running, Counted, TypeOK
  <2> QED
    BY <2>1, <2>2
<1>2. ASSUME NEW r \in Requests, Leave(r) PROVE Counted'
  <2> SUFFICES ASSUME NEW q \in Requests PROVE Running(q)' = Running(q)
    BY <1>2 DEF Leave, Counted
  <2>1. CASE q = r
    BY <1>2, <2>1 DEF Leave, Running, TypeOK, Placed
  <2>2. CASE q # r
    BY <1>2, <2>2 DEF Leave, Running, TypeOK
  <2> QED
    BY <2>1, <2>2
<1>3. ASSUME NEW r \in Requests, Refuse(r) \/ CollectReturns(r) \/ CloseChannel(r)
      PROVE  Counted'
  BY <1>3 DEF Refuse, CollectReturns, CloseChannel, Counted, Running
<1>4. ASSUME NEW r \in Requests, NEW c \in Collectors,
             UpdateReturns(r, c) \/ SendDuration(r, c) \/ SendSuccess(r, c)
      PROVE  Counted'
  BY <1>4, CountKept DEF UpdateReturns, SendDuration, SendSuccess
<1>5. ASSUME NEW r \in Requests, NEW c \in Collectors, UpdatePanics(r, c) PROVE Counted'
  BY <1>5 DEF UpdatePanics, Counted, Running
<1>6. ASSUME NEW r \in Requests, NEW c \in Collectors, WgDone(r, c) PROVE Counted'
  <2> SUFFICES ASSUME NEW q \in Requests PROVE pending'[q] = Cardinality(Running(q)')
    BY DEF Counted
  <2>1. CASE q = r
    <3>1. c \in Running(r) /\ Running(q)' = Running(r) \ {c}
      BY <1>6, <2>1 DEF WgDone, Running, TypeOK
    <3>2. Cardinality(Running(q)') = Cardinality(Running(r)) - 1
      BY <3>1, RunningFinite, FS_RemoveElement
    <3> QED
      BY <1>6, <2>1, <3>2 DEF WgDone, Done, Counted, TypeOK
  <2>2. CASE q # r
    BY <1>6, <2>2 DEF WgDone, Running, Counted, TypeOK
  <2> QED
    BY <2>1, <2>2
<1>7. CASE UNCHANGED vars
  BY <1>7 DEF vars, Counted, Running
<1> QED
  BY <1>1, <1>2, <1>3, <1>4, <1>5, <1>6, <1>7 DEF Next, Execute

(***************************************************************************)
(* A goroutine that runs on disturbs no request.                           *)
(***************************************************************************)
LEMMA PlacedKept ==
    ASSUME TypeOK, \A r \in Requests : Placed(r),
           NEW r \in Requests, NEW c \in Collectors,
           NEW to \in {"duration", "success", "wgDone", "exited"},
           goroutine[r][c] \in {"update", "duration", "success", "wgDone"},
           goroutine' = [goroutine EXCEPT ![r][c] = to],
           request' = request, closed' = closed
    PROVE  \A q \in Requests : Placed(q)'
<1> SUFFICES ASSUME NEW q \in Requests PROVE Placed(q)'
  OBVIOUS
<1>1. \A d \in Collectors : goroutine'[q][d] =
        IF q = r /\ d = c THEN to ELSE goroutine[q][d]
  BY DEF TypeOK
<1>2. request[r] \notin {"idle", "refused", "collected", "served"}
  BY DEF Placed
<1> QED
  BY <1>1, <1>2 DEF Placed

(***************************************************************************)
(* The registry closes the channel, and a slot is reused, only when every  *)
(* goroutine of the request has exited: wg.Wait returns at a count of 0.   *)
(***************************************************************************)
LEMMA NextPlaced == IInv /\ [Next]_vars => \A r \in Requests : Placed(r)'
<1> SUFFICES ASSUME IInv, [Next]_vars, NEW q \in Requests PROVE Placed(q)'
  OBVIOUS
<1> USE DEF IInv, Placed
<1>1. ASSUME NEW r \in Requests, Admit(r) \/ Refuse(r) \/ Leave(r) PROVE Placed(q)'
  BY <1>1 DEF Admit, Refuse, Leave, TypeOK
<1>2. ASSUME NEW r \in Requests, CollectReturns(r) PROVE Placed(q)'
  <2>1. Running(r) = {}
    BY <1>2, RunningFinite DEF CollectReturns, Counted
  <2>2. \A c \in Collectors : goroutine[r][c] = "exited"
    <3> SUFFICES ASSUME NEW c \in Collectors PROVE goroutine[r][c] = "exited"
      OBVIOUS
    <3>1. goroutine[r][c] # "none"
      BY <1>2 DEF CollectReturns
    <3>2. goroutine[r][c] \notin {"update", "duration", "success", "wgDone"}
      BY <2>1 DEF Running
    <3>3. goroutine[r][c] \in {"none", "update", "duration", "success", "wgDone", "exited"}
      BY DEF TypeOK
    <3> QED
      BY <3>1, <3>2, <3>3
  <2>3. request[r] = "collecting" /\ request' = [request EXCEPT ![r] = "collected"]
        /\ goroutine' = goroutine /\ closed' = closed
    BY <1>2 DEF CollectReturns
  <2>4. CASE q = r
    BY <2>2, <2>3, <2>4 DEF TypeOK
  <2>5. CASE q # r
    BY <2>3, <2>5 DEF TypeOK
  <2> QED
    BY <2>4, <2>5
<1>3. ASSUME NEW r \in Requests, CloseChannel(r) PROVE Placed(q)'
  BY <1>3 DEF CloseChannel, TypeOK
<1>4. ASSUME NEW r \in Requests, NEW c \in Collectors,
             UpdateReturns(r, c) \/ UpdatePanics(r, c) \/ Execute(r, c)
      PROVE  Placed(q)'
  <2>1. CASE UpdatePanics(r, c)
    BY <2>1 DEF UpdatePanics
  <2>2. CASE UpdateReturns(r, c)
    BY <2>2, PlacedKept DEF UpdateReturns
  <2>3. CASE SendDuration(r, c)
    BY <2>3, PlacedKept DEF SendDuration
  <2>4. CASE SendSuccess(r, c)
    BY <2>4, PlacedKept DEF SendSuccess
  <2>5. CASE WgDone(r, c)
    BY <2>5, PlacedKept DEF WgDone
  <2> QED
    BY <1>4, <2>1, <2>2, <2>3, <2>4, <2>5 DEF Execute
<1>5. CASE UNCHANGED vars
  BY <1>5 DEF vars
<1> QED
  BY <1>1, <1>2, <1>3, <1>4, <1>5 DEF Next

(***************************************************************************)
(* A goroutine sends each of its two samples once, the success sample from *)
(* what its own Update returned.                                           *)
(***************************************************************************)
LEMMA NextSampled ==
    IInv /\ [Next]_vars => \A r \in Requests, c \in Collectors : Sampled(r, c)'
<1> SUFFICES ASSUME IInv, [Next]_vars, NEW q \in Requests, NEW d \in Collectors
             PROVE  Sampled(q, d)'
  OBVIOUS
<1> USE DEF IInv
<1>1. ASSUME NEW r \in Requests, Admit(r) PROVE Sampled(q, d)'
  BY <1>1 DEF Admit, Sampled, Placed, Success, TypeOK
<1>2. ASSUME NEW r \in Requests, Leave(r) PROVE Sampled(q, d)'
  BY <1>2 DEF Leave, Sampled, NoSamples, Success, TypeOK
<1>3. ASSUME NEW r \in Requests, Refuse(r) \/ CollectReturns(r) \/ CloseChannel(r)
      PROVE  Sampled(q, d)'
  BY <1>3 DEF Refuse, CollectReturns, CloseChannel, Sampled, Success
<1>4. ASSUME NEW r \in Requests, NEW c \in Collectors, UpdateReturns(r, c)
      PROVE  Sampled(q, d)'
  <2>1. CASE q = r /\ d = c
    BY <1>4, <2>1 DEF UpdateReturns, Sampled, TypeOK
  <2>2. CASE ~(q = r /\ d = c)
    <3>1. goroutine'[q][d] = goroutine[q][d]
      BY <1>4, <2>2 DEF UpdateReturns, TypeOK
    <3>2. err'[q][d] = err[q][d] /\ scrape' = scrape
      BY <1>4, <2>2 DEF UpdateReturns, TypeOK
    <3> QED
      BY <3>1, <3>2 DEF Sampled, Success
  <2> QED
    BY <2>1, <2>2
<1>5. ASSUME NEW r \in Requests, NEW c \in Collectors, UpdatePanics(r, c)
      PROVE  Sampled(q, d)'
  BY <1>5 DEF UpdatePanics, Sampled, Success
<1>6. ASSUME NEW r \in Requests, NEW c \in Collectors, SendDuration(r, c)
      PROVE  Sampled(q, d)'
  BY <1>6 DEF SendDuration, Sampled, Success, TypeOK
<1>7. ASSUME NEW r \in Requests, NEW c \in Collectors, SendSuccess(r, c)
      PROVE  Sampled(q, d)'
  <2>1. CASE q = r /\ d = c
    <3>1. scrape[r][c].success = <<>> /\ scrape[r][c].duration = 1
      BY <1>7 DEF SendSuccess, Sampled
    <3>2. scrape'[r][c].success = Append(scrape[r][c].success, Success(err[r][c]))
          /\ scrape'[r][c].duration = scrape[r][c].duration
      BY <1>7 DEF SendSuccess, TypeOK
    <3>3. goroutine'[r][c] = "wgDone" /\ err' = err
      BY <1>7 DEF SendSuccess, TypeOK
    <3>4. scrape'[r][c].success = <<Success(err[r][c])>>
      BY <3>1, <3>2
    <3> QED
      BY <2>1, <3>1, <3>2, <3>3, <3>4 DEF Sampled, Success
  <2>2. CASE ~(q = r /\ d = c)
    <3>1. goroutine'[q][d] = goroutine[q][d] /\ err' = err
      BY <1>7, <2>2 DEF SendSuccess, TypeOK
    <3>2. scrape'[q][d] = scrape[q][d]
      BY <1>7, <2>2 DEF SendSuccess, TypeOK
    <3> QED
      BY <3>1, <3>2 DEF Sampled, Success
  <2> QED
    BY <2>1, <2>2
<1>8. ASSUME NEW r \in Requests, NEW c \in Collectors, WgDone(r, c)
      PROVE  Sampled(q, d)'
  BY <1>8 DEF WgDone, Sampled, Success, TypeOK
<1>9. CASE UNCHANGED vars
  BY <1>9 DEF vars, Sampled, Success
<1> QED
  BY <1>1, <1>2, <1>3, <1>4, <1>5, <1>6, <1>7, <1>8, <1>9 DEF Next, Execute
-----------------------------------------------------------------------------
(***************************************************************************)
(* The WaitGroup counts the goroutines that are not done, and what each    *)
(* has sent is told by where it is.                                        *)
(***************************************************************************)
THEOREM Inductive == Spec => []IInv
<1>1. IInv /\ [Next]_vars => IInv'
  BY NextType, NextCounted, NextPlaced, NextSampled DEF IInv
<1> QED
  BY <1>1, InitIInv, PTL DEF Spec

(***************************************************************************)
(* Every variable has its type; the WaitGroup's counter is not negative.   *)
(***************************************************************************)
THEOREM TypeCorrect == Spec => []TypeOK
<1>1. IInv => TypeOK
  BY DEF IInv
<1> QED
  BY <1>1, Inductive, PTL

(***************************************************************************)
(* No goroutine is left that could send on a closed channel                *)
(* (collector.go:146-154).                                                 *)
(***************************************************************************)
THEOREM NothingSentAfterClose == Spec => []NoSendAfterClose
<1>1. IInv => NoSendAfterClose
  BY DEF IInv, Placed, NoSendAfterClose
<1> QED
  BY <1>1, Inductive, PTL

(***************************************************************************)
(* A served request has one duration and one success sample per collector, *)
(* 1 exactly if its Update returned nil (collector.go:157-176).            *)
(***************************************************************************)
THEOREM OneVerdictEach == Spec => []OneResultPerCollector
<1>1. IInv => OneResultPerCollector
  BY DEF IInv, Placed, Sampled, OneResultPerCollector, Success
<1> QED
  BY <1>1, Inductive, PTL
-----------------------------------------------------------------------------
\* The variables of the service, as the goroutines give them.
StatusMap == [r \in Requests |-> Status(r)]
VerdictMap == [r \in Requests |-> [c \in Collectors |-> Verdict(r, c)]]

(***************************************************************************)
(* A request's status is told by where the request is, and requests in     *)
(* flight are those being answered or just answered.                       *)
(***************************************************************************)
LEMMA StatusIs ==
    ASSUME TypeOK, NEW r \in Requests
    PROVE  /\ StatusMap[r] = Status(r)
           /\ Status(r) = "answering" <=> request[r] \in {"collecting", "collected"}
           /\ Status(r) = "answered" <=> request[r] = "served"
           /\ Status(r) = "idle" <=> request[r] = "idle"
           /\ Status(r) = "refused" <=> request[r] = "refused"
  BY DEF TypeOK, StatusMap, Status

LEMMA InFlightIs ==
    ASSUME TypeOK
    PROVE  {q \in Requests : StatusMap[q] \in {"answering", "answered"}} = InFlight
  BY StatusIs DEF InFlight

(***************************************************************************)
(* The service counts as the goroutines do.                                *)
(***************************************************************************)
LEMMA SameCardinality == \A S : Service!Cardinality(S) = Cardinality(S)
  BY DEF Cardinality, Service!Cardinality

(***************************************************************************)
(* A collector has a verdict exactly when it has sent its success sample.  *)
(***************************************************************************)
LEMMA VerdictIs ==
    ASSUME IInv, NEW r \in Requests, NEW c \in Collectors
    PROVE  /\ VerdictMap[r][c] = Verdict(r, c)
           /\ goroutine[r][c] \in {"wgDone", "exited"} => Verdict(r, c) \in {"success", "failure"}
           /\ goroutine[r][c] \notin {"wgDone", "exited"} => Verdict(r, c) = "none"
<1>1. VerdictMap[r][c] = Verdict(r, c)
  BY DEF VerdictMap
<1>2. Sampled(r, c)
  BY DEF IInv
<1>3. ASSUME NEW b PROVE <<b>> # <<>>
  OBVIOUS
<1> QED
  BY <1>1, <1>2, <1>3 DEF Sampled, Verdict

(***************************************************************************)
(* A step that changes no request and no success sample changes nothing    *)
(* the service shows.                                                      *)
(***************************************************************************)
LEMMA StatusKept ==
    ASSUME NEW r \in Requests, request'[r] = request[r]
    PROVE  Status(r)' = Status(r)
  BY DEF Status

LEMMA VerdictKept ==
    ASSUME NEW r \in Requests, NEW c \in Collectors,
           scrape'[r][c].success = scrape[r][c].success
    PROVE  Verdict(r, c)' = Verdict(r, c)
  BY DEF Verdict

(***************************************************************************)
(* The initial states are initial states of the service.                   *)
(***************************************************************************)
LEMMA InitService == Init => Service!SInit
<1> SUFFICES ASSUME Init PROVE Service!SInit
  OBVIOUS
<1>1. \A r \in Requests : Status(r) = "idle"
  BY DEF Init, Status
<1>2. \A r \in Requests, c \in Collectors : Verdict(r, c) = "none"
  BY DEF Init, NoSamples, Verdict
<1> QED
  BY <1>1, <1>2 DEF Init, Service!SInit, Service!NoVerdicts

(***************************************************************************)
(* Every step of the goroutines is a step of the service, or none.         *)
(***************************************************************************)
LEMMA NextService == IInv /\ IInv' /\ [Next]_vars => [Service!SNext]_(Service!svars)
<1> SUFFICES ASSUME IInv, IInv', [Next]_vars
             PROVE  [Service!SNext]_(Service!svars)
  OBVIOUS
<1> USE DEF IInv
<1>1. ASSUME StatusMap' = StatusMap, VerdictMap' = VerdictMap, alive' = alive
      PROVE  [Service!SNext]_(Service!svars)
  BY <1>1 DEF StatusMap, VerdictMap, Service!svars
<1>2. ASSUME NEW r \in Requests, Admit(r) PROVE Service!SAdmit(r)
  <2>1. StatusMap' = [StatusMap EXCEPT ![r] = "answering"]
    BY <1>2 DEF Admit, StatusMap, Status, TypeOK
  <2>2. VerdictMap' = VerdictMap
    BY <1>2 DEF Admit, VerdictMap, Verdict
  <2>3. StatusMap[r] = "idle"
    BY <1>2, StatusIs DEF Admit
  <2> QED
    BY <1>2, <2>1, <2>2, <2>3, InFlightIs, SameCardinality
    DEF Admit, Service!SAdmit, StatusMap, VerdictMap
<1>3. ASSUME NEW r \in Requests, Refuse(r) PROVE Service!SRefuse(r)
  <2>1. StatusMap' = [StatusMap EXCEPT ![r] = "refused"]
    BY <1>3 DEF Refuse, StatusMap, Status, TypeOK
  <2>2. VerdictMap' = VerdictMap
    BY <1>3 DEF Refuse, VerdictMap, Verdict
  <2>3. StatusMap[r] = "idle"
    BY <1>3, StatusIs DEF Refuse
  <2> QED
    BY <1>3, <2>1, <2>2, <2>3, InFlightIs, SameCardinality
    DEF Refuse, Service!SRefuse, StatusMap, VerdictMap
<1>4. ASSUME NEW r \in Requests, CollectReturns(r)
      PROVE  [Service!SNext]_(Service!svars)
  <2>1. StatusMap' = StatusMap
    BY <1>4 DEF CollectReturns, StatusMap, Status, TypeOK
  <2>2. VerdictMap' = VerdictMap
    BY <1>4 DEF CollectReturns, VerdictMap, Verdict
  <2> QED
    BY <1>1, <1>4, <2>1, <2>2 DEF CollectReturns
<1>5. ASSUME NEW r \in Requests, CloseChannel(r) PROVE Service!SAnswer(r)
  <2>1. StatusMap' = [StatusMap EXCEPT ![r] = "answered"]
    BY <1>5 DEF CloseChannel, StatusMap, Status, TypeOK
  <2>2. VerdictMap' = VerdictMap
    BY <1>5 DEF CloseChannel, VerdictMap, Verdict
  <2>3. StatusMap[r] = "answering"
    BY <1>5, StatusIs DEF CloseChannel
  <2>4. \A c \in Collectors : VerdictMap[r][c] # "none"
    BY <1>5, VerdictIs DEF CloseChannel, Placed
  <2> QED
    BY <1>5, <2>1, <2>2, <2>3, <2>4
    DEF CloseChannel, Service!SAnswer, StatusMap, VerdictMap
<1>6. ASSUME NEW r \in Requests, Leave(r) PROVE Service!SLeave(r)
  <2>1. StatusMap' = [StatusMap EXCEPT ![r] = "idle"]
    BY <1>6 DEF Leave, StatusMap, Status, TypeOK
  <2>2. VerdictMap' = [VerdictMap EXCEPT ![r] = [c \in Collectors |-> "none"]]
    <3>1. \A c \in Collectors : scrape'[r][c].success = <<>>
      BY <1>6 DEF Leave, NoSamples, TypeOK
    <3>2. \A c \in Collectors : Verdict(r, c)' = "none"
      BY <3>1 DEF Verdict
    <3>3. \A q \in Requests, c \in Collectors : q # r => Verdict(q, c)' = Verdict(q, c)
      BY <1>6 DEF Leave, Verdict, TypeOK
    <3> QED
      BY <3>2, <3>3 DEF VerdictMap
  <2>3. StatusMap[r] \in {"answered", "refused"}
    BY <1>6, StatusIs DEF Leave
  <2> QED
    BY <1>6, <2>1, <2>2, <2>3
    DEF Leave, Service!SLeave, Service!NoVerdicts, StatusMap, VerdictMap
<1>7. ASSUME NEW r \in Requests, NEW c \in Collectors,
             UpdateReturns(r, c) \/ WgDone(r, c)
      PROVE  [Service!SNext]_(Service!svars)
  <2>1. StatusMap' = StatusMap /\ VerdictMap' = VerdictMap
    BY <1>7 DEF UpdateReturns, WgDone, StatusMap, Status, VerdictMap, Verdict
  <2> QED
    BY <1>1, <1>7, <2>1 DEF UpdateReturns, WgDone
<1>8. ASSUME NEW r \in Requests, NEW c \in Collectors, SendDuration(r, c)
      PROVE  [Service!SNext]_(Service!svars)
  <2>1. \A q \in Requests, d \in Collectors : scrape'[q][d].success = scrape[q][d].success
    BY <1>8 DEF SendDuration, TypeOK
  <2>2. VerdictMap' = VerdictMap
    BY <2>1, VerdictKept DEF VerdictMap
  <2>3. StatusMap' = StatusMap
    BY <1>8 DEF SendDuration, StatusMap, Status
  <2> QED
    BY <1>1, <1>8, <2>2, <2>3 DEF SendDuration
<1>9. ASSUME NEW r \in Requests, NEW c \in Collectors, SendSuccess(r, c)
      PROVE  Service!SReport(r, c)
  <2>1. goroutine[r][c] = "success" /\ goroutine'[r][c] = "wgDone"
    BY <1>9 DEF SendSuccess, TypeOK
  <2>2. \A q \in Requests, d \in Collectors : ~(q = r /\ d = c) =>
          scrape'[q][d].success = scrape[q][d].success
    BY <1>9 DEF SendSuccess, TypeOK
  <2>3. \A q \in Requests, d \in Collectors : ~(q = r /\ d = c) =>
          Verdict(q, d)' = Verdict(q, d)
    BY <2>2, VerdictKept
  <2>4. Verdict(r, c)' \in {"success", "failure"}
    <3>1. scrape'[r][c].success = <<Success(err'[r][c])>>
      BY <2>1 DEF Sampled
    <3>2. <<Success(err'[r][c])>> # <<>>
      OBVIOUS
    <3> QED
      BY <3>1, <3>2 DEF Verdict
  <2>5. VerdictMap' = [VerdictMap EXCEPT ![r][c] = Verdict(r, c)']
    BY <2>3 DEF VerdictMap
  <2>6. StatusMap' = StatusMap
    BY <1>9 DEF SendSuccess, StatusMap, Status
  <2>7. StatusMap[r] = "answering"
    <3>1. request[r] \notin {"idle", "refused", "collected", "served"}
      BY <2>1 DEF Placed
    <3>2. request[r] = "collecting"
      BY <3>1 DEF TypeOK
    <3> QED
      BY <3>2, StatusIs
  <2>8. VerdictMap[r][c] = "none"
    BY <2>1, VerdictIs
  <2> QED
    BY <1>9, <2>4, <2>5, <2>6, <2>7, <2>8
    DEF SendSuccess, Service!SReport, StatusMap, VerdictMap
<1>10. ASSUME NEW r \in Requests, NEW c \in Collectors, UpdatePanics(r, c)
       PROVE  Service!SCrash
  <2>1. request[r] = "collecting"
    <3>1. goroutine[r][c] = "update"
      BY <1>10 DEF UpdatePanics
    <3>2. request[r] \notin {"idle", "refused", "collected", "served"}
      BY <3>1 DEF Placed
    <3> QED
      BY <3>2 DEF TypeOK
  <2>2. StatusMap[r] = "answering"
    BY <2>1, StatusIs
  <2>3. StatusMap' = StatusMap /\ VerdictMap' = VerdictMap
    BY <1>10 DEF UpdatePanics, StatusMap, Status, VerdictMap, Verdict
  <2> QED
    BY <1>10, <2>2, <2>3 DEF UpdatePanics, Service!SCrash, StatusMap, VerdictMap
<1>11. CASE UNCHANGED vars
  <2>1. StatusMap' = StatusMap /\ VerdictMap' = VerdictMap
    BY <1>11 DEF vars, StatusMap, Status, VerdictMap, Verdict
  <2> QED
    BY <1>1, <1>11, <2>1 DEF vars
<1> QED
  BY <1>2, <1>3, <1>4, <1>5, <1>6, <1>7, <1>8, <1>9, <1>10, <1>11
  DEF Next, Execute, Service!SNext

(***************************************************************************)
(* The goroutines implement the service: requests are admitted within the  *)
(* limit, each collector reports one verdict, no answer goes out before    *)
(* the last verdict (node_export.go:89-98, collector.go:145-176).          *)
(***************************************************************************)
THEOREM GoroutinesImplementService == Spec => ImplementsService
<1>1. IInv /\ IInv' /\ [Next]_vars => [Service!SNext]_(Service!svars)
  BY NextService
<1> QED
  BY <1>1, InitService, Inductive, PTL DEF Spec, ImplementsService, Service!SSpec
=============================================================================
