---------------------- MODULE CollectorPartsProofs ----------------------
(***************************************************************************)
(* Proofs about the parts of collectors that are more than reads and       *)
(* sends - Textfile, NtpLeap, SystemdUpdate and DescCaches - and about     *)
(* CollectorRegistry, which creates the collectors: each for any value of  *)
(* its constants, and any number of overlapping calls and Updates.         *)
(***************************************************************************)
EXTENDS Textfile, NtpLeap, SystemdUpdate, DescCaches, CollectorRegistry,
        FiniteSetTheorems, TLAPS

(***************************************************************************)
(* DescCaches: the mutex of a map is held by the Update that is in it.     *)
(***************************************************************************)
CacheInv ==
    /\ cacheOf \in Locked \cup Unlocked
    /\ access \in [Updates -> {"none", "read", "write"}]
    /\ cacheOf \in Locked =>
         /\ \A u \in Updates : access[u] # "none" <=> cacheHolder = u
         /\ ~crashed

(***************************************************************************)
(* Two Updates are never in a map with a mutex at the same time.           *)
(***************************************************************************)
LEMMA CacheInductive == CacheSpec => []CacheInv
<1>1. CacheInit => CacheInv
  BY CacheAssumption DEF CacheAssumption, CacheInit, CacheInv
<1>2. CacheInv /\ [CacheNext]_cacheVars => CacheInv'
  <2> SUFFICES ASSUME CacheInv, [CacheNext]_cacheVars PROVE CacheInv'
    OBVIOUS
  <2> USE CacheAssumption DEF CacheAssumption, CacheInv, Free
  <2>1. ASSUME NEW u \in Updates, Lookup(u) PROVE CacheInv'
    BY <2>1 DEF Lookup, MayEnter, Holder, Access, Conflicts
  <2>2. ASSUME NEW u \in Updates, Found(u) PROVE CacheInv'
    BY <2>2 DEF Found
  <2>3. ASSUME NEW u \in Updates, Missing(u) PROVE CacheInv'
    BY <2>3 DEF Missing, Access, Conflicts
  <2>4. ASSUME NEW u \in Updates, Inserted(u) PROVE CacheInv'
    BY <2>4 DEF Inserted
  <2>5. CASE UNCHANGED cacheVars
    BY <2>5 DEF cacheVars
  <2> QED
    BY <2>1, <2>2, <2>3, <2>4, <2>5 DEF CacheNext
<1> QED
  BY <1>1, <1>2, PTL DEF CacheSpec

(***************************************************************************)
(* A collector whose map has a mutex does not end the agent, however many  *)
(* Updates overlap (netdev_common.go, ethtool_linux.go).                   *)
(***************************************************************************)
THEOREM MutexIsEnough == CacheSpec => []MutexSuffices
<1>1. CacheInv => MutexSuffices
  BY DEF CacheInv, MutexSuffices
<1> QED
  BY <1>1, CacheInductive, PTL
-----------------------------------------------------------------------------
(***************************************************************************)
(* The stack of deferred calls, as far as an Update fills it.              *)
(***************************************************************************)
LEMMA DeferredCalls ==
    /\ <<"Close">> # <<>> /\ <<"Wait", "Close">> # <<>> /\ <<"Wait", "Close">> # <<"Close">>
    /\ <<"Wait">> \o <<"Close">> = <<"Wait", "Close">>
    /\ Head(<<"Wait", "Close">>) = "Wait" /\ Tail(<<"Wait", "Close">>) = <<"Close">>
    /\ Head(<<"Close">>) = "Close" /\ Tail(<<"Close">>) = <<>>
<1>1. <<"Close">> # <<>> /\ <<"Wait", "Close">> # <<>> /\ <<"Wait", "Close">> # <<"Close">>
  OBVIOUS
<1>2. <<"Wait">> \o <<"Close">> = <<"Wait", "Close">>
  <2> DEFINE both == <<"Wait">> \o <<"Close">>
  <2>1. both \in Seq({"Wait", "Close"})
    OBVIOUS
  <2>2. Len(both) = 2 /\ both[1] = "Wait" /\ both[2] = "Close"
    OBVIOUS
  <2> HIDE DEF both
  <2>3. both = <<both[1], both[2]>>
    BY <2>1, <2>2
  <2> QED
    BY <2>2, <2>3 DEF both
<1>3. Head(<<"Wait", "Close">>) = "Wait" /\ Head(<<"Close">>) = "Close"
  OBVIOUS
<1>4. Tail(<<"Close">>) = <<>>
  OBVIOUS
<1>5. Tail(<<"Wait", "Close">>) = <<"Close">>
  OBVIOUS
<1> QED
  BY <1>1, <1>2, <1>3, <1>4, <1>5

(***************************************************************************)
(* SystemdUpdate: goroutines are started only after the wait was deferred, *)
(* on top of the Close, and from the wait on they have nothing to do.      *)
(***************************************************************************)
SystemdInv ==
    /\ main \in {"connect", "units", "start", "state", "leaving", "returned"}
    /\ workers \in Seq(Nat)
    /\ deferred \in {<<>>, <<"Close">>, <<"Wait", "Close">>}
    /\ main \in {"connect", "units"} => workers = <<>>
    /\ main = "connect" => deferred = <<>>
    /\ main = "units" => deferred = <<"Close">>
    /\ main \in {"start", "state"} => deferred = <<"Wait", "Close">>
    /\ deferred # <<>> => connection = "open"
    /\ deferred # <<"Wait", "Close">> => Working = {}
    /\ main = "returned" => deferred = <<>>

(***************************************************************************)
(* The deferred calls run in the order that keeps this.                    *)
(***************************************************************************)
LEMMA SystemdInductive == SystemdSpec => []SystemdInv
<1>1. SystemdInit => SystemdInv
  BY DEF SystemdInit, SystemdInv, Working
<1>2. SystemdInv /\ [SystemdNext]_systemdVars => SystemdInv'
  <2> SUFFICES ASSUME SystemdInv, [SystemdNext]_systemdVars PROVE SystemdInv'
    OBVIOUS
  <2> USE SystemdAssumption DEF SystemdAssumption, SystemdInv
  <2>1. CASE Connect
    BY <2>1 DEF Connect, Leave, Working
  <2>2. CASE ListUnits
    <3>1. deferred = <<"Close">> /\ workers = <<>> /\ connection = "open" /\ Working = {}
      BY <2>2, DeferredCalls DEF ListUnits
    <3>2. \/ main' = "leaving" /\ deferred' = <<"Close">>
          \/ main' = "start" /\ deferred' = <<"Wait", "Close">>
      BY <2>2, <3>1, DeferredCalls DEF ListUnits, Leave, DeferWait
    <3>3. UNCHANGED <<workers, connection>>
      BY <2>2 DEF ListUnits
    <3>4. Working' = {}
      BY <3>1, <3>3 DEF Working
    <3> QED
      BY <3>1, <3>2, <3>3, <3>4, DeferredCalls
  <2>3. CASE Start
    BY <2>3 DEF Start
  <2>4. CASE CollectState
    BY <2>4 DEF CollectState, Leave, Working
  <2>5. CASE RunDeferred
    <3>1. main = "leaving" /\ UNCHANGED workers /\ Working' = Working
      BY <2>5 DEF RunDeferred, Working
    <3>2. CASE deferred = <<>>
      BY <2>5, <3>1, <3>2, DeferredCalls DEF RunDeferred
    <3>3. CASE deferred = <<"Close">>
      BY <2>5, <3>1, <3>3, DeferredCalls DEF RunDeferred
    <3>4. CASE deferred = <<"Wait", "Close">>
      BY <2>5, <3>1, <3>4, DeferredCalls DEF RunDeferred
    <3> QED
      BY <3>2, <3>3, <3>4
  <2>6. ASSUME NEW w \in DOMAIN workers, Work(w) PROVE SystemdInv'
    <3>1. workers' \in Seq(Nat) /\ UNCHANGED <<main, connection, deferred>>
      BY <2>6, SMTT(30) DEF Work
    <3>2. w \in Working
      BY <2>6 DEF Work, Working
    <3>3. deferred = <<"Wait", "Close">> /\ workers # <<>>
      BY <3>2
    <3> QED
      BY <3>1, <3>3, DeferredCalls
  <2>7. CASE UNCHANGED systemdVars
    BY <2>7 DEF systemdVars, Working
  <2> QED
    BY <2>1, <2>2, <2>3, <2>4, <2>5, <2>6, <2>7 DEF SystemdNext
<1> QED
  BY <1>1, <1>2, PTL DEF SystemdSpec

(***************************************************************************)
(* No goroutine of a systemd Update works on a closed connection or sends  *)
(* after the Update has returned, whatever fails (systemd_linux.go:217).   *)
(***************************************************************************)
THEOREM GoroutinesAreAwaited == SystemdSpec => []SharedWhileWorking
<1>1. SystemdInv => SharedWhileWorking
  BY DeferredCalls DEF SystemdInv, SharedWhileWorking
<1> QED
  BY <1>1, SystemdInductive, PTL
-----------------------------------------------------------------------------
(***************************************************************************)
(* NtpLeap: the midnight is that of the leap as soon as any flagged reply  *)
(* was judged, and unset before.                                           *)
(***************************************************************************)
NtpInv ==
    /\ now \in Nat \ {0}
    /\ judged \in Nat
    /\ announced \in BOOLEAN
    /\ leapMidnight = IF announced THEN Leap ELSE 0
    /\ \A reply \in replies :
         /\ reply.time \in Nat \ {0}
         /\ reply.leap => Leap - Day <= reply.time /\ reply.time < Leap
    /\ SmearTolerated

(***************************************************************************)
(* The midnight after a time on the day before the leap is the leap's.     *)
(***************************************************************************)
LEMMA MidnightIsLeap ==
    ASSUME NEW time \in Nat, Leap - Day <= time, time < Leap
    PROVE  Truncate(time) + Day = Leap
<1>1. PICK k \in Nat : Leap = 4 * k + 4
  BY NtpAssumption DEF NtpAssumption, Day
<1>2. time \div 4 = k
  BY <1>1 DEF Day
<1> QED
  BY <1>1, <1>2 DEF Truncate, Day

LEMMA NtpInductive == NtpSpec => []NtpInv
<1>1. NtpInit => NtpInv
  <2> SUFFICES ASSUME NtpInit PROVE NtpInv
    OBVIOUS
  <2>1. SmearTolerated
    BY DEF NtpInit, SmearTolerated
  <2>2. announced \in BOOLEAN /\ leapMidnight = IF announced THEN Leap ELSE 0
    BY DEF NtpInit
  <2>3. now \in Nat \ {0} /\ judged \in Nat /\ replies = {}
    BY DEF NtpInit
  <2> QED
    BY <2>1, <2>2, <2>3 DEF NtpInv
<1>2. NtpInv /\ [NtpNext]_ntpVars => NtpInv'
  <2> SUFFICES ASSUME NtpInv, [NtpNext]_ntpVars PROVE NtpInv'
    OBVIOUS
  <2> USE NtpAssumption DEF NtpAssumption, NtpInv
  <2>1. CASE Tick
    BY <2>1 DEF Tick, SmearTolerated
  <2>2. CASE Reply
    <3> DEFINE new == [time |-> now, leap |-> Leap - Day <= now /\ now < Leap]
    <3>1. new.time = now /\ (new.leap => Leap - Day <= now /\ now < Leap)
      OBVIOUS
    <3>2. replies' = replies \cup {new} /\ UNCHANGED <<now, leapMidnight, announced, judged, tolerant>>
      BY <2>2 DEF Reply
    <3> HIDE DEF new
    <3>3. SmearTolerated'
      BY <3>2 DEF SmearTolerated
    <3> QED
      BY <3>1, <3>2, <3>3
  <2>3. ASSUME NEW reply \in replies, Judge(reply) PROVE NtpInv'
    <3>1. CASE reply.leap
      <4>1. leapMidnight' = Leap /\ announced' = TRUE
        BY <2>3, <3>1, MidnightIsLeap DEF Judge, CacheMidnight
      <4> QED
        BY <2>3, <4>1 DEF Judge, Smearing, SmearTolerated, Day
    <3>2. CASE ~reply.leap
      <4>1. leapMidnight' = leapMidnight /\ announced' = announced
        BY <2>3, <3>2 DEF Judge, CacheMidnight
      <4> QED
        BY <2>3, <4>1 DEF Judge, Smearing, SmearTolerated, Day
    <3> QED
      BY <3>1, <3>2
  <2>4. CASE UNCHANGED ntpVars
    BY <2>4 DEF ntpVars, SmearTolerated
  <2> QED
    BY <2>1, <2>2, <2>3, <2>4 DEF NtpNext
<1> QED
  BY <1>1, <1>2, PTL DEF NtpSpec

(***************************************************************************)
(* Once announced to some scrape the leap is tolerated around its midnight *)
(* and nowhere else, in whatever order replies are judged (ntp.go:178).    *)
(***************************************************************************)
THEOREM LeapIsTolerated == NtpSpec => []SmearTolerated
<1>1. NtpInv => SmearTolerated
  BY DEF NtpInv
<1> QED
  BY <1>1, NtpInductive, PTL
-----------------------------------------------------------------------------
(***************************************************************************)
(* Textfile: the families kept have the first help text or none, and what  *)
(* was dropped or not read is reported.                                    *)
(***************************************************************************)
KeptHelps ==
    \A i \in DOMAIN families :
        families[i] # NilHelp => helpTexts # <<>> /\ families[i] = helpTexts[1]

FirstKept ==
    /\ helpTexts = <<>> => firstHelp = NilHelp
    /\ helpTexts # <<>> => firstHelp = helpTexts[1] /\ firstHelp # NilHelp

Sent == {IF families[i] = NilHelp THEN Generated ELSE families[i] : i \in DOMAIN families}

TextfileInv ==
    /\ nextFile \in Nat \ {0}
    /\ errored \in BOOLEAN /\ conflict \in BOOLEAN
    /\ families \in Seq(Helps \cup {NilHelp})
    /\ KeptHelps
    /\ FirstKept
    /\ helpTexts # <<>> /\ helpTexts[2] # "" => conflict
    /\ conflict => errored
    /\ step = "directory" => ~errored
    /\ errored \/ mtimes = 1 .. nextFile - 1
    /\ step = "panic" => conflict
    /\ step = "done" => sentHelps = Sent

(***************************************************************************)
(* A text that is kept agrees with the first; one that does not is a       *)
(* conflict, now or since an earlier file.                                 *)
(***************************************************************************)
LEMMA AddFamilyKeeps ==
    ASSUME TextfileInv, NEW help \in Helps \cup {NilHelp}, NEW failed \in BOOLEAN,
           AddFamily(help, failed), step = "files",
           firstHelp' = IF firstHelp = NilHelp THEN help ELSE firstHelp
    PROVE  /\ families' \in Seq(Helps \cup {NilHelp})
           /\ KeptHelps'
           /\ FirstKept'
           /\ helpTexts' # <<>> /\ helpTexts'[2] # "" => conflict'
           /\ conflict' => errored'
           /\ errored' \/ (~errored /\ ~failed)
           /\ step' = "panic" => conflict'
           /\ step' \notin {"directory", "done"}
           /\ errored' \in BOOLEAN /\ conflict' \in BOOLEAN
<1> USE DEF TextfileInv
<1>1. \A a, b : <<a, b>> # <<>> /\ <<a, b>>[1] = a /\ <<a, b>>[2] = b
  OBVIOUS
<1>2. CASE Inconsistent(help)
  <2>1. /\ helpTexts # <<>>
        /\ helpTexts' = <<helpTexts[1], help>>
        /\ errored' = TRUE
        /\ conflict' = (conflict \/ help \notin {NilHelp, helpTexts[1]})
        /\ step' = IF help = NilHelp THEN "panic" ELSE step
        /\ families' = families
    BY <1>2 DEF AddFamily, Inconsistent
  <2>2. conflict'
    BY <1>2, <2>1 DEF Inconsistent
  <2>3. KeptHelps'
    BY <1>1, <2>1 DEF KeptHelps
  <2>4. FirstKept'
    BY <1>1, <2>1 DEF FirstKept
  <2> QED
    BY <2>1, <2>2, <2>3, <2>4
<1>3. CASE ~Inconsistent(help)
  <2>1. /\ helpTexts' = IF help = NilHelp THEN helpTexts ELSE <<help, "">>
        /\ families' = Append(families, help)
        /\ errored' = (errored \/ failed)
        /\ conflict' = conflict /\ step' = step
    BY <1>3 DEF AddFamily
  <2>a. /\ families' \in Seq(Helps \cup {NilHelp})
        /\ DOMAIN families' = 1 .. Len(families) + 1 /\ DOMAIN families = 1 .. Len(families)
        /\ \A i \in 1 .. Len(families) : families'[i] = families[i]
        /\ families'[Len(families) + 1] = help
        /\ Len(families) \in Nat
    <3>1. families \in Seq(Helps \cup {NilHelp})
      BY DEF TextfileInv
    <3>2. families' = Append(families, help)
      BY <2>1
    <3> HIDE DEF TextfileInv
    <3> QED
      BY <3>1, <3>2
  <2>b. \A i \in DOMAIN families' : i # Len(families) + 1 => i \in DOMAIN families
    <3> HIDE DEF TextfileInv
    <3> QED
      BY <2>a
  <2>2. KeptHelps'
    <3> SUFFICES ASSUME NEW i \in DOMAIN families', families'[i] # NilHelp
                 PROVE  helpTexts' # <<>> /\ families'[i] = helpTexts'[1]
      BY DEF KeptHelps
    <3>1. CASE i = Len(families) + 1
      <4>1. families'[i] = help
        BY <2>a, <3>1
      <4> QED
        BY <1>1, <2>1, <4>1
    <3>2. CASE i # Len(families) + 1
      <4>1. i \in DOMAIN families /\ families'[i] = families[i]
        BY <2>a, <2>b, <3>2
      <4>2. helpTexts # <<>> /\ families[i] = helpTexts[1]
        BY <4>1 DEF KeptHelps
      <4>3. help # NilHelp => help = helpTexts[1]
        BY <1>3, <4>2 DEF Inconsistent
      <4> QED
        BY <1>1, <2>1, <4>1, <4>2, <4>3
    <3> QED
      BY <3>1, <3>2
  <2>3. helpTexts' # <<>> /\ helpTexts'[2] # "" => conflict'
    BY <1>1, <2>1
  <2>4. FirstKept'
    <3>1. CASE help = NilHelp
      BY <2>1, <3>1 DEF FirstKept
    <3>2. CASE help # NilHelp
      <4>1. helpTexts' # <<>> /\ helpTexts'[1] = help
        BY <1>1, <2>1, <3>2
      <4>2. helpTexts # <<>> => help = helpTexts[1]
        BY <1>3, <3>2 DEF Inconsistent
      <4> QED
        BY <3>2, <4>1, <4>2 DEF FirstKept
    <3> QED
      BY <3>1, <3>2
  <2> QED
    BY <2>1, <2>2, <2>3, <2>4, <2>a
<1> QED
  BY <1>2, <1>3

LEMMA TextfileInductive == TextfileSpec => []TextfileInv
<1>1. TextfileInit => TextfileInv
  <2> SUFFICES ASSUME TextfileInit PROVE TextfileInv
    OBVIOUS
  <2>1. families = <<>> /\ helpTexts = <<>> /\ step = "directory" /\ ~conflict /\ ~errored
        /\ nextFile = 1 /\ mtimes = {}
    BY DEF TextfileInit
  <2>2. families \in Seq(Helps \cup {NilHelp}) /\ DOMAIN families = {}
    BY <2>1
  <2>3. KeptHelps
    BY <2>2 DEF KeptHelps
  <2>4. mtimes = 1 .. nextFile - 1
    BY <2>1
  <2>5. errored \in BOOLEAN /\ conflict \in BOOLEAN
    BY DEF TextfileInit
  <2>6. FirstKept
    BY DEF TextfileInit, FirstKept
  <2> QED
    BY <2>1, <2>2, <2>3, <2>4, <2>5, <2>6 DEF TextfileInv
<1>2. TextfileInv /\ [TextfileNext]_textfileVars => TextfileInv'
  <2> SUFFICES ASSUME TextfileInv, [TextfileNext]_textfileVars PROVE TextfileInv'
    OBVIOUS
  <2> USE DEF TextfileInv
  <2>1. CASE ListDirectory
    <3>1. UNCHANGED <<nextFile, helpTexts, families, mtimes, conflict, firstHelp, sentHelps>>
      BY <2>1 DEF ListDirectory
    <3>2. step' \in {"files", "send"} /\ errored' \in BOOLEAN /\ step = "directory"
      BY <2>1 DEF ListDirectory
    <3>3. ~errored /\ ~conflict
      BY <3>2
    <3>4. KeptHelps' /\ FirstKept'
      BY <3>1 DEF KeptHelps, FirstKept
    <3>5. mtimes' = 1 .. nextFile' - 1
      BY <3>1, <3>3
    <3>6. ~conflict' /\ conflict' \in BOOLEAN
      BY <3>1, <3>3
    <3>7. /\ nextFile' \in Nat \ {0} /\ families' \in Seq(Helps \cup {NilHelp})
          /\ ~(helpTexts' # <<>> /\ helpTexts'[2] # "")
      BY <3>1, <3>3
    <3> QED
      BY <3>2, <3>4, <3>5, <3>6, <3>7
  <2>2. CASE RejectFile
    <3>1. nextFile' \in Nat \ {0}
      <4>1. nextFile \in Nat \ {0}
        OBVIOUS
      <4>2. nextFile' = nextFile + 1
        BY <2>2 DEF RejectFile
      <4> HIDE DEF TextfileInv
      <4> QED
        BY <4>1, <4>2
    <3>2. errored' = TRUE /\ step' = step /\ step = "files"
      BY <2>2 DEF RejectFile
    <3>3. UNCHANGED <<helpTexts, families, conflict, firstHelp, sentHelps>>
      BY <2>2 DEF RejectFile
    <3> QED
      BY <3>1, <3>2, <3>3 DEF KeptHelps, FirstKept
  <2>3. CASE ProcessFile
    <3>1. PICK help \in Helps \cup {NilHelp}, stat \in BOOLEAN :
             /\ AddFamily(help, ~stat)
             /\ firstHelp' = IF firstHelp = NilHelp THEN help ELSE firstHelp
             /\ mtimes' = IF stat THEN mtimes \cup {nextFile} ELSE mtimes
      BY <2>3 DEF ProcessFile
    <3>2. step = "files" /\ nextFile' = nextFile + 1
      BY <2>3 DEF ProcessFile
    <3>3. /\ families' \in Seq(Helps \cup {NilHelp})
          /\ KeptHelps'
          /\ FirstKept'
          /\ helpTexts' # <<>> /\ helpTexts'[2] # "" => conflict'
          /\ conflict' => errored'
          /\ errored' \/ (~errored /\ stat)
          /\ step' = "panic" => conflict'
          /\ step' \notin {"directory", "done"}
          /\ errored' \in BOOLEAN /\ conflict' \in BOOLEAN
      BY <3>1, <3>2, AddFamilyKeeps
    <3>4. errored' \/ mtimes' = 1 .. nextFile' - 1
      <4>1. ASSUME ~errored' PROVE mtimes = 1 .. nextFile - 1 /\ mtimes' = mtimes \cup {nextFile}
        BY <3>1, <3>3, <4>1
      <4>2. (1 .. nextFile - 1) \cup {nextFile} = 1 .. nextFile' - 1
        <5>1. nextFile \in Nat \ {0} /\ nextFile' = nextFile + 1
          BY <3>2
        <5> HIDE DEF TextfileInv
        <5> QED
          BY <5>1
      <4> QED
        BY <4>1, <4>2
    <3>5. nextFile' \in Nat \ {0}
      <4>1. nextFile \in Nat \ {0} /\ nextFile' = nextFile + 1
        BY <3>2
      <4> HIDE DEF TextfileInv
      <4> QED
        BY <4>1
    <3> QED
      BY <3>3, <3>4, <3>5
  <2>4. CASE ConvertFamilies
    BY <2>4 DEF ConvertFamilies, KeptHelps, FirstKept, Sent
  <2>5. CASE UNCHANGED textfileVars
    BY <2>5 DEF textfileVars, KeptHelps, FirstKept, Sent
  <2> QED
    BY <2>1, <2>2, <2>3, <2>4, <2>5 DEF TextfileNext
<1> QED
  BY <1>1, <1>2, PTL DEF TextfileSpec

(***************************************************************************)
(* A metric whose families all have a help text is sent with the first, a  *)
(* dropped family or an unread file is reported, and only a conflict       *)
(* panics, for any files (textfile.go:217-262).                            *)
(***************************************************************************)
THEOREM HelpsAreReconciled == TextfileSpec => []HelpsReconciled
<1>1. TextfileInv => HelpsReconciled
  <2> SUFFICES ASSUME TextfileInv PROVE HelpsReconciled
    OBVIOUS
  <2> USE DEF TextfileInv
  <2>1. ASSUME step = "done", NilHelp \notin {families[i] : i \in DOMAIN families}
        PROVE  sentHelps \subseteq {firstHelp}
    <3>1. \A i \in DOMAIN families : families[i] = firstHelp
      BY <2>1 DEF KeptHelps, FirstKept
    <3>2. sentHelps = {IF families[i] = NilHelp THEN Generated ELSE families[i] :
                         i \in DOMAIN families}
      BY <2>1 DEF Sent
    <3> HIDE DEF TextfileInv
    <3> QED
      BY <2>1, <3>1, <3>2
  <2>2. ASSUME ~errored PROVE Cardinality(mtimes) = nextFile - 1
    <3>1. mtimes = 1 .. nextFile - 1
      BY <2>2
    <3>2. 1 \in Int /\ nextFile - 1 \in Int /\ (1 > nextFile - 1 <=> nextFile - 1 = 0)
          /\ nextFile - 1 - 1 + 1 = nextFile - 1
      <4>1. nextFile \in Nat \ {0}
        OBVIOUS
      <4> HIDE DEF TextfileInv
      <4> QED
        BY <4>1
    <3>3. Cardinality(1 .. nextFile - 1)
            = IF 1 > nextFile - 1 THEN 0 ELSE nextFile - 1 - 1 + 1
      BY <3>2, FS_Interval
    <3> HIDE DEF TextfileInv
    <3> QED
      BY <3>1, <3>2, <3>3
  <2>3. ASSUME Cardinality(mtimes) < nextFile - 1 PROVE errored
    <3>1. Cardinality(mtimes) # nextFile - 1
      <4>1. nextFile \in Nat \ {0}
        OBVIOUS
      <4> HIDE DEF TextfileInv
      <4> QED
        BY <2>3, <4>1
    <3> QED
      BY <2>2, <3>1
  <2> QED
    BY <2>1, <2>3 DEF HelpsReconciled
<1> QED
  BY <1>1, TextfileInductive, PTL
-----------------------------------------------------------------------------
(***************************************************************************)
(* CollectorRegistry.                                                      *)
(***************************************************************************)
\* Whatever a call has got is the initiated instance.
OfRegistry ==
    \A h \in Calls, c \in Names :
        collectors[h][c] # 0 => collectors[h][c] = initiated[c]

\* A call has got what it asked for among the names it has visited.
SoFar(h) ==
    /\ phase[h] # "idle" => serving
    /\ phase[h] \in {"idle", "lock", "failed"} =>
         \A c \in Names : collectors[h][c] = 0
    /\ phase[h] = "walk" =>
         \A c \in Names : collectors[h][c] # 0 <=> c \notin left[h] /\ Asked(h, c)
    /\ phase[h] = "returned" =>
         \A c \in Names : collectors[h][c] # 0 <=> Asked(h, c)

Walked == \A h \in Calls : SoFar(h)

RegistryInv == TypeOK /\ OfRegistry /\ Walked
-----------------------------------------------------------------------------
(***************************************************************************)
(* At start-up nothing is initiated and no call runs.                      *)
(***************************************************************************)
LEMMA InitRegistryInv == Init => RegistryInv
<1> SUFFICES ASSUME Init PROVE RegistryInv
  OBVIOUS
<1>1. NoInstance \in [Names -> Nat]
  BY DEF NoInstance
<1>2. TypeOK
  BY <1>1, RegistryAssumption DEF Init, TypeOK, RegistryAssumption
<1>3. OfRegistry /\ Walked
  BY DEF Init, OfRegistry, Walked, SoFar, NoInstance
<1> QED
  BY <1>2, <1>3 DEF RegistryInv

(***************************************************************************)
(* A step that leaves the flags and every call but h alone keeps what the  *)
(* other calls have got.                                                   *)
(***************************************************************************)
LEMMA OthersKept ==
    ASSUME Walked, NEW h \in Calls, NEW g \in Calls, g # h,
           serving => serving',
           enabled' = enabled \/ ~serving,
           phase'[g] = phase[g], left'[g] = left[g],
           filters'[g] = filters[g], collectors'[g] = collectors[g]
    PROVE  SoFar(g)'
  BY DEF Walked, SoFar, Asked

(***************************************************************************)
(* Every step keeps the types, the mutex's owner and the instances.        *)
(***************************************************************************)
LEMMA NextRegistryInv == RegistryInv /\ [Next]_vars => RegistryInv'
<1> SUFFICES ASSUME RegistryInv, [Next]_vars PROVE RegistryInv'
  OBVIOUS
<1> USE RegistryAssumption DEF RegistryAssumption, RegistryInv
<1>1. CASE DisableDefaultCollectors
  <2>1. TypeOK' /\ OfRegistry'
    BY <1>1 DEF DisableDefaultCollectors, TypeOK, OfRegistry
  <2>2. Walked'
    BY <1>1 DEF DisableDefaultCollectors, Walked, SoFar
  <2> QED
    BY <2>1, <2>2
<1>2. ASSUME NEW c \in Names, FlagAction(c) PROVE RegistryInv'
  BY <1>2 DEF FlagAction, TypeOK, OfRegistry, Walked, SoFar, Asked
<1>3. ASSUME NEW h \in Calls, Call(h) PROVE RegistryInv'
  <2>1. TypeOK' /\ OfRegistry'
    BY <1>3 DEF Call, flags, TypeOK, OfRegistry
  <2>2. ASSUME NEW g \in Calls PROVE SoFar(g)'
    <3>1. CASE g = h
      BY <1>3, <3>1 DEF Call, TypeOK, Walked, SoFar
    <3>2. CASE g # h
      BY <1>3, <3>2, OthersKept DEF Call, TypeOK
    <3> QED
      BY <3>1, <3>2
  <2> QED
    BY <2>1, <2>2 DEF Walked
<1>4. ASSUME NEW h \in Calls, CallRejected(h) PROVE RegistryInv'
  BY <1>4 DEF CallRejected, TypeOK, OfRegistry, Walked, SoFar, Asked
<1>5. ASSUME NEW h \in Calls, Lock(h) PROVE RegistryInv'
  <2>1. TypeOK' /\ OfRegistry'
    BY <1>5 DEF Lock, flags, TypeOK, OfRegistry
  <2>2. ASSUME NEW g \in Calls PROVE SoFar(g)'
    <3>1. CASE g = h
      BY <1>5, <3>1 DEF Lock, flags, TypeOK, Walked, SoFar, Asked
    <3>2. CASE g # h
      BY <1>5, <3>2, OthersKept DEF Lock, flags, TypeOK
    <3> QED
      BY <3>1, <3>2
  <2> QED
    BY <2>1, <2>2 DEF Walked
<1>6. ASSUME NEW h \in Calls, Return(h) PROVE RegistryInv'
  <2>1. TypeOK' /\ OfRegistry'
    BY <1>6 DEF Return, flags, TypeOK, OfRegistry
  <2>2. ASSUME NEW g \in Calls PROVE SoFar(g)'
    <3>1. CASE g = h
      BY <1>6, <3>1 DEF Return, flags, TypeOK, Walked, SoFar, Asked
    <3>2. CASE g # h
      BY <1>6, <3>2, OthersKept DEF Return, flags, TypeOK
    <3> QED
      BY <3>1, <3>2
  <2> QED
    BY <2>1, <2>2 DEF Walked
<1>7. ASSUME NEW h \in Calls, NEW c \in Names, Skip(h, c) PROVE RegistryInv'
  <2>1. TypeOK' /\ OfRegistry'
    BY <1>7 DEF Skip, Visit, flags, TypeOK, OfRegistry
  <2>2. ASSUME NEW g \in Calls PROVE SoFar(g)'
    <3>1. CASE g = h
      BY <1>7, <3>1 DEF Skip, Visit, flags, TypeOK, Walked, SoFar, Asked
    <3>2. CASE g # h
      BY <1>7, <3>2, OthersKept DEF Skip, Visit, flags, TypeOK
    <3> QED
      BY <3>1, <3>2
  <2> QED
    BY <2>1, <2>2 DEF Walked
<1>8. ASSUME NEW h \in Calls, NEW c \in Names, Reuse(h, c) PROVE RegistryInv'
  <2>1. TypeOK' /\ OfRegistry'
    BY <1>8 DEF Reuse, Visit, flags, TypeOK, OfRegistry
  <2>2. ASSUME NEW g \in Calls PROVE SoFar(g)'
    <3>1. CASE g = h
      BY <1>8, <3>1 DEF Reuse, Visit, flags, TypeOK, Walked, SoFar, Asked
    <3>2. CASE g # h
      BY <1>8, <3>2, OthersKept DEF Reuse, Visit, flags, TypeOK
    <3> QED
      BY <3>1, <3>2
  <2> QED
    BY <2>1, <2>2 DEF Walked
<1>9. ASSUME NEW h \in Calls, NEW c \in Names, Build(h, c) PROVE RegistryInv'
  <2>1. TypeOK'
    BY <1>9 DEF Build, Visit, Remembered, flags, TypeOK
  <2>2. \A g \in Calls : collectors[g][c] = 0
    BY <1>9 DEF Build, OfRegistry, TypeOK
  <2>3. OfRegistry'
    BY <1>9, <2>2 DEF Build, Visit, Remembered, TypeOK, OfRegistry
  <2>4. ASSUME NEW g \in Calls PROVE SoFar(g)'
    <3>1. CASE g = h
      <4>1. built[c] + 1 # 0
        BY DEF TypeOK
      <4> QED
        BY <1>9, <3>1, <4>1 DEF Build, Visit, flags, TypeOK, Walked, SoFar, Asked
    <3>2. CASE g # h
      BY <1>9, <3>2, OthersKept DEF Build, Visit, flags, TypeOK
    <3> QED
      BY <3>1, <3>2
  <2> QED
    BY <2>1, <2>3, <2>4 DEF Walked
<1>10. ASSUME NEW h \in Calls, NEW c \in Names, BuildFails(h, c) PROVE RegistryInv'
  <2>1. TypeOK' /\ OfRegistry'
    BY <1>10 DEF BuildFails, Released, NoInstance, flags, TypeOK, OfRegistry
  <2>2. ASSUME NEW g \in Calls PROVE SoFar(g)'
    <3>1. CASE g = h
      BY <1>10, <3>1 DEF BuildFails, NoInstance, flags, TypeOK, Walked, SoFar
    <3>2. CASE g # h
      BY <1>10, <3>2, OthersKept DEF BuildFails, flags, TypeOK
    <3> QED
      BY <3>1, <3>2
  <2> QED
    BY <2>1, <2>2 DEF Walked
<1>11. ASSUME NEW h \in Calls, Drop(h) PROVE RegistryInv'
  <2>1. TypeOK' /\ OfRegistry'
    BY <1>11 DEF Drop, NoInstance, flags, TypeOK, OfRegistry
  <2>2. ASSUME NEW g \in Calls PROVE SoFar(g)'
    <3>1. CASE g = h
      BY <1>11, <3>1 DEF Drop, NoInstance, flags, TypeOK, Walked, SoFar
    <3>2. CASE g # h
      BY <1>11, <3>2, OthersKept DEF Drop, flags, TypeOK
    <3> QED
      BY <3>1, <3>2
  <2> QED
    BY <2>1, <2>2 DEF Walked
<1>12. CASE UNCHANGED vars
  BY <1>12 DEF vars, TypeOK, OfRegistry, Walked, SoFar, Asked
<1> QED
  BY <1>1, <1>2, <1>3, <1>4, <1>5, <1>6, <1>7, <1>8, <1>9, <1>10, <1>11, <1>12
     DEF Next, Walk

(***************************************************************************)
(* The strengthened invariant holds in every behaviour.                    *)
(***************************************************************************)
THEOREM RegistryInductive == Spec => []RegistryInv
  BY InitRegistryInv, NextRegistryInv, PTL DEF Spec

(***************************************************************************)
(* The shared maps and the calls' locals keep their types.                 *)
(***************************************************************************)
THEOREM RegistryTypeCorrect == Spec => []TypeOK
<1>1. RegistryInv => TypeOK
  BY DEF RegistryInv
<1> QED
  BY RegistryInductive, <1>1, PTL

(***************************************************************************)
(* However NewNodeCollector calls overlap, fail and repeat, all            *)
(* NodeCollectors share the instances of their collectors.                 *)
(***************************************************************************)
THEOREM InstancesShared == Spec => []SharedInstance
<1>1. RegistryInv => SharedInstance
  BY DEF RegistryInv, OfRegistry, SharedInstance
<1> QED
  BY RegistryInductive, <1>1, PTL

(***************************************************************************)
(* A call that returns no error returns exactly what was asked for.        *)
(***************************************************************************)
THEOREM AnswersExact == Spec => []ExactlyAsked
<1>1. RegistryInv => ExactlyAsked
  <2> SUFFICES ASSUME RegistryInv, NEW h \in Calls, NEW c \in Names, phase[h] = "returned"
               PROVE  collectors[h][c] # 0
                        <=> c \in enabled /\ (filters[h] = <<>> \/ \E i \in 1 .. Len(filters[h]) : filters[h][i] = c)
    BY DEF ExactlyAsked
  <2>1. collectors[h][c] # 0 <=> Asked(h, c)
    BY DEF RegistryInv, Walked, SoFar
  <2> QED
    BY <2>1 DEF Asked, Elements
<1> QED
  BY RegistryInductive, <1>1, PTL
=============================================================================
