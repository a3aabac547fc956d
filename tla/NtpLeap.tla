------------------------------- MODULE NtpLeap -------------------------------
(***************************************************************************)
(* The sanity verdict of the ntp collector around a leap second.  A reply  *)
(* carries the server's time and its leap flag; scrapes overlap, so that   *)
(* replies are judged in another order than they were sent.  The leap      *)
(* midnight is a package variable that all scrapes share.                  *)
(*                                                                         *)
(* Time counts quarters of a day.  The server announces the leap on the    *)
(* day before it.  That it drops the flag at midnight is an assumption:    *)
(* the code expects "right after midnight", and a reply that still has the *)
(* flag then would put the cached midnight a day later.                    *)
(***************************************************************************)
EXTENDS Naturals, FiniteSets

CONSTANTS
    Leap,         \* the midnight of the leap second
    LastTime,     \* bound: when the behaviour ends
    MaxReplies    \* bound: replies on their way at a time

Day == 4

ASSUME NtpAssumption == Leap \in Nat \ {0} /\ Leap % Day = 0

VARIABLES
    now,
    replies,       \* replies that were not judged
    leapMidnight,  \* 0: never set
    announced,     \* history: a flagged reply was judged
    judged,        \* the time of the reply judged last
    tolerant       \* whether leap smearing was tolerated for it

ntpVars == <<now, replies, leapMidnight, announced, judged, tolerant>>

NtpInit ==
    /\ now = 1
    /\ replies = {}
    /\ leapMidnight = 0
    /\ announced = FALSE
    /\ judged = 0
    /\ tolerant = FALSE

Tick ==
    /\ now < LastTime
    /\ now' = now + 1
    /\ UNCHANGED <<replies, leapMidnight, announced, judged, tolerant>>

\* The server: its flag is up on the day before the leap.
Reply ==
    /\ Cardinality(replies) < MaxReplies
    /\ replies' = replies \cup {[time |-> now, leap |-> Leap - Day <= now /\ now < Leap]}
    /\ UNCHANGED <<now, leapMidnight, announced, judged, tolerant>>

Truncate(time) == (time \div Day) * Day

\* Mutant: the midnight is dropped with the flag.
CacheMidnightWhileFlagged(reply) == IF reply.leap THEN Truncate(reply.time) + Day ELSE 0
\* "state of leapMidnight is cached as leap flag is dropped right after
\* midnight"
CacheMidnight(reply) ==
    IF reply.leap THEN Truncate(reply.time) + Day ELSE leapMidnight

Smearing(midnight, time) == midnight < time + Day /\ time < midnight + Day

\* The mutex makes the caching and the judgement of a reply one step.
Judge(reply) ==
    /\ leapMidnight' = CacheMidnight(reply)
    /\ tolerant' = (leapMidnight' # 0 /\ Smearing(leapMidnight', reply.time))
    /\ judged' = reply.time
    /\ announced' = (announced \/ reply.leap)
    /\ replies' = replies \ {reply}
    /\ UNCHANGED now

NtpNext == Tick \/ Reply \/ \E reply \in replies : Judge(reply)

NtpSpec == NtpInit /\ [][NtpNext]_ntpVars
-----------------------------------------------------------------------------
\* Once the leap was announced to some scrape, every reply less than a day
\* from it is judged with the wider tolerance, also after the flag is gone and
\* whatever the order of the replies; and no other reply is.
SmearTolerated ==
    judged # 0 =>
      tolerant = (announced /\ Leap < judged + Day /\ judged < Leap + Day)
=============================================================================
