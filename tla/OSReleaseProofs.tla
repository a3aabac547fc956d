------------------------- MODULE OSReleaseProofs -------------------------
(***************************************************************************)
(* Proofs about OSRelease, for any number of overlapping scrapes, files    *)
(* and mtimes, and whichever contents do not parse.                        *)
(***************************************************************************)
EXTENDS OSRelease, TLAPS

\* The mutex is held by the call that is filling the fields, and by no other.
Locked ==
    \A s \in Scrapes : phase[s] \in {"os", "writeVersion", "writeEnd"} <=> writer = s

\* What the holder has filled in so far.
Filled == \A s \in Scrapes : phase[s] = "writeEnd" => version = os

\* A call that exposes while another fills has been disturbed by it.
Noticed ==
    \A s \in Scrapes : writer # Nobody /\ phase[s] \in Exposing => s \in disturbed

\* What an undisturbed call has sent so far is the content in the cache.
Shown(s) ==
    s \notin disturbed =>
      /\ phase[s] \in {"version", "supportEnd"} => shown[s].info = os
      /\ phase[s] = "supportEnd" /\ Good(os) => shown[s].version = os
      /\ phase[s] = "sent" /\ Good(shown[s].info) => ~Torn(shown[s])

IInv ==
    /\ TypeOK /\ Locked /\ Filled /\ CacheCoherent
    /\ Noticed
    /\ \A s \in Scrapes : Shown(s)
-----------------------------------------------------------------------------
(***************************************************************************)
(* At start-up the cache is empty and nobody reads or fills it.            *)
(***************************************************************************)
LEMMA InitIInv == Init => IInv
<1> SUFFICES ASSUME Init PROVE IInv
  OBVIOUS
<1> USE OSAssumption DEF OSAssumption
<1>1. /\ 1 \in Files /\ 1 \in Mtimes /\ Absent \notin Mtimes
      /\ Unset \notin Contents
  BY DEF Files, Mtimes, Absent, Contents, Unset
<1>2. Nothing \in [info : Contents \cup {Unset}, version : Contents \cup {Unset},
                   supportEnd : Contents \cup {Unset}]
  BY DEF Nothing
<1>3. TypeOK
  BY <1>1, <1>2 DEF Init, TypeOK
<1>4. Locked /\ Filled /\ Noticed
  BY DEF Init, Locked, Filled, Noticed
<1>5. CacheCoherent
  BY <1>1 DEF Init, CacheCoherent
<1>6. \A s \in Scrapes : Shown(s)
  BY DEF Init, Shown
<1> QED
  BY <1>3, <1>4, <1>5, <1>6 DEF IInv

(***************************************************************************)
(* A call that ends, or starts afresh, keeps the types.                    *)
(***************************************************************************)
LEMMA FinishedType ==
    ASSUME TypeOK, NEW s \in Scrapes, Finished(s),
           {key', os', version', supportEnd'} \subseteq Contents \cup {Unset},
           writer' \in Scrapes \cup {Nobody},
           UNCHANGED <<disk, newest>>
    PROVE  TypeOK'
<1>1. 1 \in Files
  BY OSAssumption DEF OSAssumption, Files
<1>2. Nothing \in [info : Contents \cup {Unset}, version : Contents \cup {Unset},
                   supportEnd : Contents \cup {Unset}]
  BY DEF Nothing
<1> QED
  BY <1>1, <1>2 DEF TypeOK, Finished

(***************************************************************************)
(* Every step keeps the types.                                             *)
(***************************************************************************)
LEMMA NextType == TypeOK /\ [Next]_vars => TypeOK'
<1> SUFFICES ASSUME TypeOK, [Next]_vars PROVE TypeOK'
  OBVIOUS
<1>1. ASSUME NEW s \in Scrapes, Begin(s) \/ Check(s) PROVE TypeOK'
  BY <1>1 DEF Begin, Check, cache, TypeOK
<1>2. ASSUME NEW s \in Scrapes, Open(s) PROVE TypeOK'
  <2>1. <<file[s], disk[file[s]]>> \in Contents
    BY <1>2 DEF Open, TypeOK, Contents, Absent
  <2> QED
    BY <1>2, <2>1 DEF Open, cache, TypeOK
<1>3. ASSUME NEW s \in Scrapes, OpenMissing(s) PROVE TypeOK'
  <2>1. CASE ~IsLast(s) /\ file' = [file EXCEPT ![s] = @ + 1]
             /\ UNCHANGED <<phase, handle, shown, disturbed>>
    <3>1. file[s] + 1 \in Files
      BY <2>1, OSAssumption DEF OSAssumption, IsLast, Files, TypeOK
    <3> QED
      BY <1>3, <2>1, <3>1 DEF OpenMissing, cache, TypeOK
  <2>2. CASE Finished(s)
    BY <1>3, <2>2, FinishedType DEF OpenMissing, cache, TypeOK
  <2> QED
    BY <1>3, <2>1, <2>2 DEF OpenMissing
<1>4. ASSUME NEW s \in Scrapes, OpenFails(s) \/ Return(s) PROVE TypeOK'
  BY <1>4, FinishedType DEF OpenFails, Return, cache, TypeOK
<1>5. ASSUME NEW s \in Scrapes, WriteKey(s) PROVE TypeOK'
  BY <1>5 DEF WriteKey, Disturbs, TypeOK
<1>6. ASSUME NEW s \in Scrapes, WriteOS(s) PROVE TypeOK'
  <2>1. os' \in Contents
    BY <1>6 DEF WriteOS
  <2>2. CASE Finished(s) /\ writer' = Nobody
    BY <1>6, <2>1, <2>2, FinishedType DEF WriteOS, TypeOK
  <2>3. CASE /\ phase' = [phase EXCEPT ![s] = "writeVersion"]
             /\ Disturbs(s)
             /\ UNCHANGED <<file, handle, shown, writer>>
    BY <1>6, <2>1, <2>3 DEF WriteOS, Disturbs, TypeOK
  <2> QED
    BY <1>6, <2>2, <2>3 DEF WriteOS
<1>7. ASSUME NEW s \in Scrapes, WriteVersion(s) PROVE TypeOK'
  BY <1>7 DEF WriteVersion, NewVersion, Disturbs, TypeOK
<1>8. ASSUME NEW s \in Scrapes, WriteEnd(s) PROVE TypeOK'
  <2>1. supportEnd' \in Contents \cup {Unset}
    BY <1>8 DEF WriteEnd, TypeOK
  <2>2. CASE Finished(s)
    BY <1>8, <2>1, <2>2, FinishedType DEF WriteEnd, TypeOK
  <2>3. CASE /\ phase' = [phase EXCEPT ![s] = "info"]
             /\ Disturbs(s)
             /\ UNCHANGED <<file, handle, shown>>
    BY <1>8, <2>1, <2>3 DEF WriteEnd, Disturbs, TypeOK
  <2> QED
    BY <1>8, <2>2, <2>3 DEF WriteEnd
<1>9. ASSUME NEW s \in Scrapes, ExposeInfo(s) \/ ExposeVersion(s) \/ ExposeEnd(s)
      PROVE  TypeOK'
  <2> DEFINE X == [info : Contents \cup {Unset}, version : Contents \cup {Unset},
                   supportEnd : Contents \cup {Unset}]
  <2>1. shown \in [Scrapes -> X]
    BY DEF TypeOK
  <2>2. \A c \in Contents \cup {Unset} :
           /\ [shown[s] EXCEPT !.info = c] \in X
           /\ [shown[s] EXCEPT !.version = c] \in X
           /\ [shown[s] EXCEPT !.supportEnd = c] \in X
    BY <2>1
  <2>3. {os, version, IF os \in Dated THEN supportEnd ELSE Unset} \subseteq Contents \cup {Unset}
    BY DEF TypeOK
  <2> HIDE DEF X
  <2>4. shown' \in [Scrapes -> X]
    BY <1>9, <2>1, <2>2, <2>3, ZenonT(30) DEF ExposeInfo, ExposeVersion, ExposeEnd
  <2> QED
    BY <1>9, <2>4, ZenonT(30) DEF X, ExposeInfo, ExposeVersion, ExposeEnd, cache, TypeOK
<1>10. ASSUME NEW i \in Files, Write(i) PROVE TypeOK'
  <2>1. newest[i] + 1 \in Mtimes
    <3>1. newest[i] \in Mtimes \cup {Absent} /\ newest[i] < MaxMtime
      BY <1>10 DEF Write, TypeOK
    <3>2. MaxMtime \in Nat
      BY OSAssumption DEF OSAssumption
    <3> QED
      BY <3>1, <3>2 DEF Mtimes, Absent
  <2> QED
    BY <1>10, <2>1 DEF Write, cache, TypeOK
<1>11. ASSUME NEW i \in Files, Remove(i) PROVE TypeOK'
  BY <1>11 DEF Remove, cache, TypeOK
<1>12. CASE UNCHANGED vars
  BY <1>12 DEF vars, TypeOK
<1> QED
  BY <1>1, <1>2, <1>3, <1>4, <1>5, <1>6, <1>7, <1>8, <1>9, <1>10, <1>11, <1>12
  DEF Next, UpdateStep
-----------------------------------------------------------------------------
(***************************************************************************)
(* The mutex is held exactly by the call that fills, and whenever it is    *)
(* free the fields are of one content.                                     *)
(***************************************************************************)
LEMMA NextCoherent ==
    IInv /\ [Next]_vars => Locked' /\ Filled' /\ CacheCoherent'
<1> SUFFICES ASSUME IInv, [Next]_vars PROVE Locked' /\ Filled' /\ CacheCoherent'
  OBVIOUS
<1> USE OSAssumption DEF OSAssumption, IInv
<1>1. ASSUME NEW s \in Scrapes, NEW to,
             to \notin {"os", "writeVersion", "writeEnd"},
             phase[s] \notin {"os", "writeVersion", "writeEnd"},
             phase' = [phase EXCEPT ![s] = to], UNCHANGED cache
      PROVE  Locked' /\ Filled' /\ CacheCoherent'
  BY <1>1 DEF Locked, Filled, CacheCoherent, cache, TypeOK
<1>2. ASSUME NEW s \in Scrapes, Begin(s) \/ Open(s) \/ Check(s)
      PROVE  Locked' /\ Filled' /\ CacheCoherent'
  BY <1>1, <1>2 DEF Begin, Open, Check
<1>3. ASSUME NEW s \in Scrapes, OpenFails(s) \/ Return(s)
      PROVE  Locked' /\ Filled' /\ CacheCoherent'
  BY <1>1, <1>3 DEF OpenFails, Return, Finished
<1>4. ASSUME NEW s \in Scrapes, OpenMissing(s)
      PROVE  Locked' /\ Filled' /\ CacheCoherent'
  <2>1. CASE Finished(s)
    BY <1>1, <1>4, <2>1 DEF OpenMissing, Finished
  <2>2. CASE UNCHANGED phase
    BY <1>4, <2>2 DEF OpenMissing, Locked, Filled, CacheCoherent, cache
  <2> QED
    BY <1>4, <2>1, <2>2 DEF OpenMissing
<1>5. ASSUME NEW s \in Scrapes, ExposeInfo(s) \/ ExposeVersion(s) \/ ExposeEnd(s)
      PROVE  Locked' /\ Filled' /\ CacheCoherent'
  BY <1>1, <1>5 DEF ExposeInfo, ExposeVersion, ExposeEnd
<1>6. ASSUME NEW s \in Scrapes, WriteKey(s)
      PROVE  Locked' /\ Filled' /\ CacheCoherent'
  BY <1>6 DEF WriteKey, Locked, Filled, CacheCoherent, TypeOK
<1>7. ASSUME NEW s \in Scrapes, WriteOS(s)
      PROVE  Locked' /\ Filled' /\ CacheCoherent'
  <2>1. writer = s /\ \A t \in Scrapes : phase[t] # "writeEnd"
    BY <1>7 DEF WriteOS, Locked
  <2>2. CASE Finished(s) /\ writer' = Nobody /\ os' \in Malformed
    BY <1>7, <2>1, <2>2 DEF Finished, Locked, Filled, CacheCoherent, TypeOK
  <2>3. CASE phase' = [phase EXCEPT ![s] = "writeVersion"] /\ writer' = writer
    BY <1>7, <2>1, <2>3 DEF Locked, Filled, CacheCoherent, TypeOK
  <2> QED
    BY <1>7, <2>2, <2>3 DEF WriteOS
<1>8. ASSUME NEW s \in Scrapes, WriteVersion(s)
      PROVE  Locked' /\ Filled' /\ CacheCoherent'
  BY <1>8 DEF WriteVersion, NewVersion, Locked, Filled, CacheCoherent, TypeOK
<1>9. ASSUME NEW s \in Scrapes, WriteEnd(s)
      PROVE  Locked' /\ Filled' /\ CacheCoherent'
  <2>1. writer = s /\ version = os
    BY <1>9 DEF WriteEnd, Locked, Filled
  <2>2. \E to \in {"idle", "info"} : phase' = [phase EXCEPT ![s] = to]
    BY <1>9 DEF WriteEnd, Finished
  <2> QED
    BY <1>9, <2>1, <2>2 DEF WriteEnd, Locked, Filled, CacheCoherent, TypeOK
<1>10. ASSUME NEW i \in Files, Write(i) \/ Remove(i)
       PROVE  Locked' /\ Filled' /\ CacheCoherent'
  BY <1>10 DEF Write, Remove, cache, Locked, Filled, CacheCoherent
<1>11. CASE UNCHANGED vars
  BY <1>11 DEF vars, Locked, Filled, CacheCoherent
<1> QED
  BY <1>2, <1>3, <1>4, <1>5, <1>6, <1>7, <1>8, <1>9, <1>10, <1>11
  DEF Next, UpdateStep

(***************************************************************************)
(* Whoever writes disturbs every call that is exposing at the time, and    *)
(* none starts to expose before the mutex is free.                         *)
(***************************************************************************)
LEMMA NextNoticed == IInv /\ [Next]_vars => Noticed'
<1> SUFFICES ASSUME IInv, [Next]_vars, NEW t \in Scrapes,
                    writer' # Nobody, phase'[t] \in Exposing
             PROVE  t \in disturbed'
  BY DEF Noticed
<1> USE OSAssumption DEF OSAssumption, IInv, Exposing
<1>1. ASSUME NEW s \in Scrapes, Finished(s), UNCHANGED writer PROVE t \in disturbed'
  BY <1>1 DEF Finished, Noticed, TypeOK
<1>2. ASSUME NEW s \in Scrapes, Begin(s) \/ Open(s) \/ Check(s) PROVE t \in disturbed'
  BY <1>2 DEF Begin, Open, Check, cache, Noticed, TypeOK
<1>3. ASSUME NEW s \in Scrapes, OpenMissing(s) \/ OpenFails(s) \/ Return(s)
      PROVE  t \in disturbed'
  BY <1>1, <1>3 DEF OpenMissing, OpenFails, Return, cache, Noticed
<1>4. ASSUME NEW s \in Scrapes, WriteKey(s) \/ WriteVersion(s) PROVE t \in disturbed'
  BY <1>4 DEF WriteKey, WriteVersion, Disturbs, TypeOK
<1>5. ASSUME NEW s \in Scrapes, WriteOS(s) PROVE t \in disturbed'
  BY <1>5 DEF WriteOS, Disturbs, TypeOK
<1>6. ASSUME NEW s \in Scrapes, WriteEnd(s) PROVE t \in disturbed'
  BY <1>6 DEF WriteEnd
<1>7. ASSUME NEW s \in Scrapes, ExposeInfo(s) \/ ExposeVersion(s) \/ ExposeEnd(s)
      PROVE  t \in disturbed'
  BY <1>7 DEF ExposeInfo, ExposeVersion, ExposeEnd, cache, Noticed, TypeOK
<1>8. ASSUME NEW i \in Files, Write(i) \/ Remove(i) PROVE t \in disturbed'
  BY <1>8 DEF Write, Remove, cache, Noticed
<1>9. CASE UNCHANGED vars
  BY <1>9 DEF vars, Noticed
<1> QED
  BY <1>2, <1>3, <1>4, <1>5, <1>6, <1>7, <1>8, <1>9 DEF Next, UpdateStep

(***************************************************************************)
(* What an undisturbed call has sent agrees with the cache, which stays as *)
(* it is until the call is disturbed.                                      *)
(***************************************************************************)
LEMMA NextShown == IInv /\ [Next]_vars => \A s \in Scrapes : Shown(s)'
<1> SUFFICES ASSUME IInv, [Next]_vars, NEW t \in Scrapes PROVE Shown(t)'
  OBVIOUS
<1> USE OSAssumption DEF OSAssumption, IInv
\* The fields stay, and so does everything about t.
<1>1. ASSUME phase'[t] = phase[t], shown'[t] = shown[t], UNCHANGED cache,
             t \in disturbed => t \in disturbed'
      PROVE  Shown(t)'
  BY <1>1 DEF Shown, cache, Torn, Good
\* Before it exposes, t has sent nothing.
<1>2. ASSUME phase'[t] \notin {"version", "supportEnd", "sent"} PROVE Shown(t)'
  BY <1>2 DEF Shown
\* A call that fills disturbs t if t exposes; if not, nothing is asked.
<1>3. ASSUME NEW s \in Scrapes, s # t, writer = s,
             phase'[t] = phase[t], shown'[t] = shown[t],
             t \in disturbed => t \in disturbed'
      PROVE  Shown(t)'
  <2>1. phase[t] \in Exposing => t \in disturbed
    BY <1>3 DEF Noticed
  <2> QED
    BY <1>3, <2>1 DEF Shown, Exposing, Torn, Good
<1>4. ASSUME NEW s \in Scrapes, Begin(s) \/ Open(s) \/ Check(s) PROVE Shown(t)'
  <2>1. CASE s = t
    BY <1>2, <1>4, <2>1 DEF Begin, Open, Check, TypeOK
  <2>2. CASE s # t
    BY <1>1, <1>4, <2>2 DEF Begin, Open, Check, TypeOK
  <2> QED
    BY <2>1, <2>2
<1>5. ASSUME NEW s \in Scrapes, Finished(s), UNCHANGED cache PROVE Shown(t)'
  <2>1. CASE s = t
    BY <1>2, <1>5, <2>1 DEF Finished, TypeOK
  <2>2. CASE s # t
    BY <1>1, <1>5, <2>2 DEF Finished, TypeOK
  <2> QED
    BY <2>1, <2>2
<1>6. ASSUME NEW s \in Scrapes, OpenMissing(s) \/ OpenFails(s) \/ Return(s)
      PROVE  Shown(t)'
  <2>1. CASE Finished(s)
    BY <1>5, <1>6, <2>1 DEF OpenMissing, OpenFails, Return
  <2>2. CASE UNCHANGED <<phase, handle, shown, disturbed>>
    BY <1>1, <1>6, <2>2 DEF OpenMissing, OpenFails, Return
  <2> QED
    BY <1>6, <2>1, <2>2 DEF OpenMissing, OpenFails, Return
<1>7. ASSUME NEW s \in Scrapes, WriteKey(s) PROVE Shown(t)'
  <2>1. CASE s = t
    BY <1>2, <1>7, <2>1 DEF WriteKey, TypeOK
  <2>2. CASE s # t
    <3>1. phase[t] \in Exposing => t \in disturbed'
      BY <1>7, <2>2 DEF WriteKey, Disturbs
    <3>2. UNCHANGED <<os, version, supportEnd, shown>> /\ phase'[t] = phase[t]
          /\ (t \in disturbed => t \in disturbed')
      BY <1>7, <2>2 DEF WriteKey, Disturbs, TypeOK
    <3> QED
      BY <3>1, <3>2 DEF Shown, Exposing, Torn, Good
  <2> QED
    BY <2>1, <2>2
<1>8. ASSUME NEW s \in Scrapes, WriteOS(s) PROVE Shown(t)'
  <2>1. writer = s
    BY <1>8 DEF WriteOS, Locked
  <2>2. \/ Finished(s)
        \/ /\ phase' = [phase EXCEPT ![s] = "writeVersion"]
           /\ Disturbs(s)
           /\ UNCHANGED shown
    BY <1>8 DEF WriteOS
  <2>3. CASE s = t
    BY <1>2, <2>2, <2>3 DEF Finished, TypeOK
  <2>4. CASE s # t
    BY <1>3, <2>1, <2>2, <2>4 DEF Finished, Disturbs, TypeOK
  <2> QED
    BY <2>3, <2>4
<1>9. ASSUME NEW s \in Scrapes, WriteVersion(s) PROVE Shown(t)'
  <2>1. writer = s
    BY <1>9 DEF WriteVersion, Locked
  <2>2. CASE s = t
    BY <1>2, <1>9, <2>2 DEF WriteVersion, TypeOK
  <2>3. CASE s # t
    BY <1>3, <1>9, <2>1, <2>3 DEF WriteVersion, Disturbs, TypeOK
  <2> QED
    BY <2>2, <2>3
<1>10. ASSUME NEW s \in Scrapes, WriteEnd(s) PROVE Shown(t)'
  <2>1. writer = s
    BY <1>10 DEF WriteEnd, Locked
  <2>2. \/ Finished(s)
        \/ /\ phase' = [phase EXCEPT ![s] = "info"]
           /\ Disturbs(s)
           /\ UNCHANGED shown
    BY <1>10 DEF WriteEnd
  <2>3. CASE s = t
    BY <1>2, <2>2, <2>3 DEF Finished, TypeOK
  <2>4. CASE s # t
    BY <1>3, <2>1, <2>2, <2>4 DEF Finished, Disturbs, TypeOK
  <2> QED
    BY <2>3, <2>4
<1>11. ASSUME NEW s \in Scrapes, ExposeInfo(s) \/ ExposeVersion(s) \/ ExposeEnd(s)
       PROVE  Shown(t)'
  <2>1. CASE s # t
    BY <1>1, <1>11, <2>1 DEF ExposeInfo, ExposeVersion, ExposeEnd, TypeOK
  <2>2. CASE s = t
    <3> SUFFICES ASSUME t \notin disturbed' PROVE Shown(t)'
      BY DEF Shown
    <3>1. t \notin disturbed /\ writer = Nobody
      BY <1>11, <2>2 DEF ExposeInfo, ExposeVersion, ExposeEnd, Noticed, Exposing
    <3>2. os \notin Malformed => version = os /\ (os \in Dated => supportEnd = os)
      BY <3>1 DEF CacheCoherent
    <3>3. CASE ExposeInfo(t)
      BY <3>3 DEF ExposeInfo, cache, Shown, TypeOK
    <3>4. CASE ExposeVersion(t)
      BY <3>1, <3>2, <3>4 DEF ExposeVersion, cache, Shown, Good, TypeOK
    <3>5. CASE ExposeEnd(t)
      <4>1. /\ shown[t].info = os
            /\ Good(os) => shown[t].version = os
        BY <3>1, <3>5 DEF ExposeEnd, Shown
      <4>2. /\ shown'[t].info = shown[t].info
            /\ shown'[t].version = shown[t].version
            /\ shown'[t].supportEnd = IF os \in Dated THEN supportEnd ELSE Unset
            /\ phase'[t] = "sent"
        BY <3>5 DEF ExposeEnd, TypeOK
      <4> QED
        BY <3>2, <4>1, <4>2 DEF Shown, Good, Torn
    <3> QED
      BY <1>11, <2>2, <3>3, <3>4, <3>5
  <2> QED
    BY <2>1, <2>2
<1>12. ASSUME NEW i \in Files, Write(i) \/ Remove(i) PROVE Shown(t)'
  BY <1>1, <1>12 DEF Write, Remove
<1>13. CASE UNCHANGED vars
  BY <1>1, <1>13 DEF vars, cache
<1> QED
  BY <1>4, <1>6, <1>7, <1>8, <1>9, <1>10, <1>11, <1>12, <1>13 DEF Next, UpdateStep
-----------------------------------------------------------------------------
(***************************************************************************)
(* Who holds the mutex, what is filled in, and what undisturbed calls have *)
(* sent.                                                                   *)
(***************************************************************************)
THEOREM Inductive == Spec => []IInv
<1>1. IInv /\ [Next]_vars => IInv'
  BY NextType, NextCoherent, NextNoticed, NextShown DEF IInv
<1> QED
  BY <1>1, InitIInv, PTL DEF Spec

(***************************************************************************)
(* Every variable has its type.                                            *)
(***************************************************************************)
THEOREM TypeCorrect == Spec => []TypeOK
<1>1. IInv => TypeOK
  BY DEF IInv
<1> QED
  BY <1>1, Inductive, PTL

(***************************************************************************)
(* When no one is writing the cached fields are of one content, unless the *)
(* last one did not parse (os_release.go:150-186).                         *)
(***************************************************************************)
THEOREM CacheIsCoherent == Spec => []CacheCoherent
<1>1. IInv => CacheCoherent
  BY DEF IInv
<1> QED
  BY <1>1, Inductive, PTL

(***************************************************************************)
(* Only an overlapping reload makes a scrape expose fields of different    *)
(* contents that load (os_release.go:191-220).                             *)
(***************************************************************************)
THEOREM OnlyOverlapTears == Spec => []TornOnlyByOverlap
<1>1. IInv => TornOnlyByOverlap
  BY DEF IInv, Shown, TornOnlyByOverlap
<1> QED
  BY <1>1, Inductive, PTL
=============================================================================
