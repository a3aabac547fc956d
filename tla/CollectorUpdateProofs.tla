------------------------ MODULE CollectorUpdateProofs ------------------------
(***************************************************************************)
(* The type invariant of CollectorUpdate, for every catalogue of Updates   *)
(* that ScriptAssumption admits and every number of items in a loop.       *)
(*                                                                         *)
(* TypeOK is not inductive: that no source is both obtained and found      *)
(* wanting in a frame needs the same of any two frames, for a helper's     *)
(* frame is merged into its caller's; and that a running Update has a      *)
(* frame needs that the outermost frame is neither a loop's nor a          *)
(* helper's, and that no break is among its steps.  StackInv says so.      *)
(***************************************************************************)
EXTENDS CollectorUpdate, SequenceTheorems, WellFoundedInduction, TLAPS

\* What the provers need to know of a frame and of a stack of frames.
IsFrame(f) ==
    f = [rest |-> f.rest, got |-> f.got, lost |-> f.lost, key |-> f.key,
         item |-> f.item, label |-> f.label, alike |-> f.alike, body |-> f.body,
         failed |-> f.failed, done |-> f.done, late |-> f.late]

IsStack(q) == Len(q) \in Nat /\ q = [i \in 1 .. Len(q) |-> q[i]]

\* The steps of a frame that is depth frames above the outermost.
Place(depth) == IF depth = 0 THEN Outside ELSE Inside

\* f may stand depth frames above the outermost: the steps it has left belong
\* there, and only an inner frame is an item's or a helper's.
FrameFits(f, depth) ==
    /\ IsFrame(f)
    /\ f.rest \in Seq(Place(depth))
    /\ f.item \in 0 .. MaxItems
    /\ f.key # "" => depth > 0 /\ f.body \in Seq(Inside)
    /\ f.failed # "" => depth > 0 /\ Do(f.failed) \in Place(depth - 1)

Fits(q) == IsStack(q) /\ \A i \in 1 .. Len(q) : FrameFits(q[i], Len(q) - i)

\* No source is obtained in one frame and found wanting in another.
Apart(q) == \A i, j \in 1 .. Len(q) : q[i].got \cap q[j].lost = {}

\* The stack of a running Update.
Live(q) == Fits(q) /\ Apart(q) /\ Len(q) >= 1

StackInv ==
    /\ verdict \in Verdicts
    /\ IF verdict = "none" THEN Live(frames) ELSE frames = <<>>

SeenInv ==
    /\ collector \in Names
    /\ seen \subseteq {"sample", "unbacked", "repeated"}
    /\ (seen # {}) = ("sample" \in seen)
    /\ watched # NotWatching => seen # {}
-----------------------------------------------------------------------------
\* NearestCall is well defined: a set of numbers has a least one.
LEMMA Nearest ==
    ASSUME NEW S \in SUBSET Nat, S # {}
    PROVE  \E n \in S : \A m \in S : n <= m
<1>1. PICK n \in S : \A m \in S : <<m, n>> \notin OpToRel(<, Nat)
  BY NatLessThanWellFounded, WFMin
<1>2. \A m \in S : ~(m < n)
  BY <1>1 DEF OpToRel
<1>. QED
  BY <1>2

\* Sequences whose elements have no common type: what pushing, popping,
\* cutting and replacing do to the length and the elements.
LEMMA StackSeq ==
    ASSUME NEW q, IsStack(q)
    PROVE  q \in Seq({q[i] : i \in 1 .. Len(q)})
BY DEF IsStack

LEMMA SeqStack ==
    ASSUME NEW S, NEW q \in Seq(S)
    PROVE  IsStack(q)
BY DEF IsStack

LEMMA OneStack ==
    ASSUME NEW f
    PROVE  IsStack(<<f>>) /\ Len(<<f>>) = 1 /\ <<f>>[1] = f
BY DEF IsStack

LEMMA PopStack ==
    ASSUME NEW q, IsStack(q), q # <<>>
    PROVE  /\ IsStack(Tail(q))
           /\ Len(Tail(q)) = Len(q) - 1
           /\ \A i \in 1 .. Len(q) - 1 : Tail(q)[i] = q[i + 1]
<1>. DEFINE S == {q[i] : i \in 1 .. Len(q)}
<1>1. q \in Seq(S)
  BY StackSeq
<1>2. Tail(q) \in Seq(S) /\ Len(Tail(q)) = Len(q) - 1
      /\ \A i \in 1 .. Len(Tail(q)) : Tail(q)[i] = q[i + 1]
  BY <1>1, HeadTailProperties
<1>. QED
  BY <1>2, SeqStack

LEMMA PushStack ==
    ASSUME NEW q, IsStack(q), NEW f
    PROVE  /\ IsStack(<<f>> \o q)
           /\ Len(<<f>> \o q) = Len(q) + 1
           /\ (<<f>> \o q)[1] = f
           /\ \A i \in 1 .. Len(q) : (<<f>> \o q)[i + 1] = q[i]
<1>. DEFINE S == {q[i] : i \in 1 .. Len(q)} \cup {f}
           r == <<f>> \o q
<1>1. q \in Seq(S) /\ <<f>> \in Seq(S) /\ Len(<<f>>) = 1 /\ Len(q) \in Nat
  BY DEF IsStack
<1>2. /\ r \in Seq(S)
      /\ Len(r) = 1 + Len(q)
      /\ \A i \in 1 .. 1 + Len(q) : r[i] = IF i <= 1 THEN <<f>>[i] ELSE q[i - 1]
  BY <1>1, ConcatProperties
<1>3. IsStack(r)
  <2>. HIDE DEF r, S
  <2>. QED BY <1>2, SeqStack
<1>4. r[1] = <<f>>[1]
  BY <1>1, <1>2
<1>5. ASSUME NEW i \in 1 .. Len(q)
      PROVE  r[i + 1] = q[i]
  <2>1. i + 1 \in 1 .. 1 + Len(q) /\ ~(i + 1 <= 1) /\ (i + 1) - 1 = i
    BY <1>1
  <2>. HIDE DEF r, S
  <2>. QED BY <1>2, <2>1
<1>6. Len(r) = Len(q) + 1
  <2>. HIDE DEF r, S
  <2>. QED BY <1>1, <1>2
<1>. QED
  BY <1>3, <1>4, <1>5, <1>6

LEMMA CutStack ==
    ASSUME NEW q, IsStack(q), NEW k \in 1 .. Len(q),
           NEW r, r = SubSeq(q, k + 1, Len(q))
    PROVE  /\ IsStack(r)
           /\ Len(r) = Len(q) - k
           /\ \A i \in 1 .. Len(q) - k : r[i] = q[k + i]
<1>. DEFINE S == {q[i] : i \in 1 .. Len(q)}
<1>1. Len(q) \in Nat
  BY DEF IsStack
<1>2. \A i \in k + 1 .. Len(q) : q[i] \in S
  OBVIOUS
<1>3. /\ r \in Seq(S)
      /\ Len(r) = IF k + 1 <= Len(q) THEN Len(q) - (k + 1) + 1 ELSE 0
      /\ \A i \in 1 .. Len(q) - (k + 1) + 1 : r[i] = q[(k + 1) + i - 1]
  <2>. HIDE DEF S
  <2>. QED BY <1>1, <1>2, SubSeqProperties
<1>4. IsStack(r)
  <2>. HIDE DEF S
  <2>. QED BY <1>3, SeqStack
<1>5. Len(r) = Len(q) - k
  <2>. HIDE DEF S
  <2>. QED BY <1>1, <1>3
<1>6. ASSUME NEW i \in 1 .. Len(q) - k
      PROVE  r[i] = q[k + i]
  <2>1. i \in 1 .. Len(q) - (k + 1) + 1 /\ (k + 1) + i - 1 = k + i
    BY <1>1
  <2>. HIDE DEF S
  <2>. QED BY <1>3, <2>1
<1>. QED
  BY <1>4, <1>5, <1>6

LEMMA PutStack ==
    ASSUME NEW q, IsStack(q), NEW k \in 1 .. Len(q), NEW f
    PROVE  LET r == [q EXCEPT ![k] = f]
           IN  /\ IsStack(r)
               /\ Len(r) = Len(q)
               /\ r[k] = f
               /\ \A i \in 1 .. Len(q) : i # k => r[i] = q[i]
<1>. DEFINE S == {q[i] : i \in 1 .. Len(q)} \cup {f}
<1>1. q \in Seq(S)
  BY DEF IsStack
<1>. DEFINE r == [q EXCEPT ![k] = f]
<1>2. /\ r \in Seq(S)
      /\ Len(r) = Len(q)
      /\ \A i \in 1 .. Len(q) : r[i] = IF i = k THEN f ELSE q[i]
  <2>1. f \in S
    OBVIOUS
  <2>. HIDE DEF S
  <2>. QED BY <1>1, <2>1, ExceptSeq
<1>3. IsStack(r)
  <2>. HIDE DEF r, S
  <2>. QED BY <1>2, SeqStack
<1>4. r[k] = f /\ \A i \in 1 .. Len(q) : i # k => r[i] = q[i]
  <2>. HIDE DEF r, S
  <2>. QED BY <1>2
<1>. QED
  BY <1>2, <1>3, <1>4

-----------------------------------------------------------------------------
LEMMA FrameOf ==
    ASSUME NEW depth \in Nat, NEW steps \in Seq(Place(depth))
    PROVE  /\ FrameFits(Frame(steps), depth)
           /\ Frame(steps).got = {} /\ Frame(steps).lost = {}
BY MaxItemsAssumption DEF FrameFits, IsFrame, Frame

\* A frame with one field changed.
WithRest(f, steps) == [f EXCEPT !.rest = steps]
WithGot(f, sources) == [f EXCEPT !.got = sources]
WithLost(f, sources) == [f EXCEPT !.lost = sources]
WithLate(f) == [f EXCEPT !.late = TRUE]
WithDone(f, done) == [f EXCEPT !.done = done]

\* Changing the steps, the sources, or what is remembered leaves a frame in
\* its place.
LEMMA RestFits ==
    ASSUME NEW depth \in Nat, NEW f, FrameFits(f, depth),
           NEW steps \in Seq(Place(depth))
    PROVE  LET g == WithRest(f, steps)
           IN  FrameFits(g, depth) /\ g.rest = steps /\ g.got = f.got /\ g.lost = f.lost
<1>1. PICK g : g = WithRest(f, steps)
  OBVIOUS
<1>2. /\ g.rest = steps
      /\ g.got = f.got /\ g.lost = f.lost /\ g.key = f.key /\ g.item = f.item
      /\ g.body = f.body /\ g.failed = f.failed
  BY <1>1 DEF WithRest, FrameFits, IsFrame
<1>3. IsFrame(g)
  BY <1>1 DEF WithRest, FrameFits, IsFrame
<1>4. FrameFits(g, depth)
  BY <1>2, <1>3 DEF FrameFits
<1>. QED
  BY <1>1, <1>2, <1>4

LEMMA GotFits ==
    ASSUME NEW depth \in Nat, NEW f, FrameFits(f, depth),
           NEW sources
    PROVE  LET g == WithGot(f, sources)
           IN  FrameFits(g, depth) /\ g.rest = f.rest /\ g.got = sources /\ g.lost = f.lost
<1>1. PICK g : g = WithGot(f, sources)
  OBVIOUS
<1>2. /\ g.got = sources
      /\ g.rest = f.rest /\ g.lost = f.lost /\ g.key = f.key /\ g.item = f.item
      /\ g.body = f.body /\ g.failed = f.failed
  BY <1>1 DEF WithGot, FrameFits, IsFrame
<1>3. IsFrame(g)
  BY <1>1 DEF WithGot, FrameFits, IsFrame
<1>4. FrameFits(g, depth)
  BY <1>2, <1>3 DEF FrameFits
<1>. QED
  BY <1>1, <1>2, <1>4

LEMMA LostFits ==
    ASSUME NEW depth \in Nat, NEW f, FrameFits(f, depth),
           NEW sources
    PROVE  LET g == WithLost(f, sources)
           IN  FrameFits(g, depth) /\ g.rest = f.rest /\ g.got = f.got /\ g.lost = sources
<1>1. PICK g : g = WithLost(f, sources)
  OBVIOUS
<1>2. /\ g.lost = sources
      /\ g.rest = f.rest /\ g.got = f.got /\ g.key = f.key /\ g.item = f.item
      /\ g.body = f.body /\ g.failed = f.failed
  BY <1>1 DEF WithLost, FrameFits, IsFrame
<1>3. IsFrame(g)
  BY <1>1 DEF WithLost, FrameFits, IsFrame
<1>4. FrameFits(g, depth)
  BY <1>2, <1>3 DEF FrameFits
<1>. QED
  BY <1>1, <1>2, <1>4

LEMMA LateFits ==
    ASSUME NEW depth \in Nat, NEW f, FrameFits(f, depth)
    PROVE  LET g == WithLate(f)
           IN  FrameFits(g, depth) /\ g.rest = f.rest /\ g.got = f.got /\ g.lost = f.lost
<1>1. PICK g : g = WithLate(f)
  OBVIOUS
<1>2. /\ g.rest = f.rest /\ g.got = f.got /\ g.lost = f.lost /\ g.key = f.key
      /\ g.item = f.item /\ g.body = f.body /\ g.failed = f.failed
  BY <1>1 DEF WithLate, FrameFits, IsFrame
<1>3. IsFrame(g)
  BY <1>1 DEF WithLate, FrameFits, IsFrame
<1>4. FrameFits(g, depth)
  BY <1>2, <1>3 DEF FrameFits
<1>. QED
  BY <1>1, <1>2, <1>4

LEMMA DoneFits ==
    ASSUME NEW depth \in Nat, NEW f, FrameFits(f, depth),
           NEW done
    PROVE  LET g == WithDone(f, done)
           IN  FrameFits(g, depth) /\ g.rest = f.rest /\ g.got = f.got /\ g.lost = f.lost
<1>1. PICK g : g = WithDone(f, done)
  OBVIOUS
<1>2. /\ g.rest = f.rest /\ g.got = f.got /\ g.lost = f.lost /\ g.key = f.key
      /\ g.item = f.item /\ g.body = f.body /\ g.failed = f.failed
  BY <1>1 DEF WithDone, FrameFits, IsFrame
<1>3. IsFrame(g)
  BY <1>1 DEF WithDone, FrameFits, IsFrame
<1>4. FrameFits(g, depth)
  BY <1>2, <1>3 DEF FrameFits
<1>. QED
  BY <1>1, <1>2, <1>4

LEMMA PassedFits ==
    ASSUME NEW depth \in Nat, NEW f, FrameFits(f, depth), f.rest # <<>>
    PROVE  /\ FrameFits(Passed(f), depth)
           /\ Passed(f).got = f.got /\ Passed(f).lost = f.lost
           /\ f.rest[1] \in Place(depth)
           /\ Tail(f.rest) \in Seq(Place(depth))
<1>1. f.rest \in Seq(Place(depth))
  BY DEF FrameFits
<1>2. Tail(f.rest) \in Seq(Place(depth)) /\ f.rest[1] \in Place(depth)
  BY <1>1, HeadTailProperties, LenProperties
<1>. DEFINE g == Passed(f)
           tail == Tail(f.rest)
<1>3. g = WithRest(f, tail)
  BY DEF Passed, WithRest
<1>4. tail \in Seq(Place(depth))
  BY <1>2
<1>. HIDE DEF g, tail
<1>5. FrameFits(g, depth) /\ g.got = f.got /\ g.lost = f.lost
  BY <1>3, <1>4, RestFits
<1>. QED
  BY <1>2, <1>5 DEF g
-----------------------------------------------------------------------------
\* f may stand at place k of q.
Suits(f, q, k) ==
    /\ FrameFits(f, Len(q) - k)
    /\ f.got \cap f.lost = {}
    /\ \A i \in 1 .. Len(q) :
         i # k => f.got \cap q[i].lost = {} /\ q[i].got \cap f.lost = {}

LEMMA PutFits ==
    ASSUME NEW q, Fits(q), Apart(q), NEW k \in 1 .. Len(q), NEW f, Suits(f, q, k)
    PROVE  /\ Fits([q EXCEPT ![k] = f])
           /\ Apart([q EXCEPT ![k] = f])
<1>. DEFINE r == [q EXCEPT ![k] = f]
<1>1. IsStack(r) /\ Len(r) = Len(q) /\ r[k] = f
      /\ \A i \in 1 .. Len(q) : i # k => r[i] = q[i]
  BY PutStack DEF Fits
<1>. HIDE DEF r
<1>2. Fits(r)
  BY <1>1 DEF Fits, Suits
<1>3. ASSUME NEW i \in 1 .. Len(q), NEW j \in 1 .. Len(q)
      PROVE  r[i].got \cap r[j].lost = {}
  BY <1>1 DEF Apart, Suits
<1>. QED
  BY <1>1, <1>2, <1>3 DEF r, Apart

LEMMA PopFits ==
    ASSUME NEW q, Fits(q), Apart(q), q # <<>>
    PROVE  Fits(Tail(q)) /\ Apart(Tail(q)) /\ Len(Tail(q)) = Len(q) - 1
<1>. DEFINE r == Tail(q)
<1>1. IsStack(r) /\ Len(r) = Len(q) - 1 /\ Len(q) \in Nat
      /\ \A i \in 1 .. Len(q) - 1 : r[i] = q[i + 1]
  BY PopStack DEF Fits, IsStack
<1>. HIDE DEF r
<1>2. ASSUME NEW i \in 1 .. Len(r)
      PROVE  /\ i + 1 \in 1 .. Len(q) /\ r[i] = q[i + 1]
             /\ Len(r) - i = Len(q) - (i + 1)
  BY <1>1
<1>3. Fits(r)
  BY <1>1, <1>2 DEF Fits
<1>4. Apart(r)
  BY <1>1, <1>2 DEF Apart
<1>. QED
  BY <1>1, <1>3, <1>4 DEF r

\* f may be put on top of q.
Tops(f, q) ==
    /\ FrameFits(f, Len(q))
    /\ f.got \cap f.lost = {}
    /\ \A i \in 1 .. Len(q) : f.got \cap q[i].lost = {} /\ q[i].got \cap f.lost = {}

LEMMA PushFits ==
    ASSUME NEW q, Fits(q), Apart(q), NEW f, Tops(f, q)
    PROVE  /\ Fits(<<f>> \o q) /\ Apart(<<f>> \o q)
           /\ Len(<<f>> \o q) = Len(q) + 1
<1>. DEFINE r == <<f>> \o q
<1>1. IsStack(r) /\ Len(r) = Len(q) + 1 /\ r[1] = f /\ Len(q) \in Nat
      /\ \A i \in 1 .. Len(q) : r[i + 1] = q[i]
  BY PushStack DEF Fits, IsStack
<1>. HIDE DEF r
<1>2. ASSUME NEW i \in 1 .. Len(r), i # 1
      PROVE  /\ i - 1 \in 1 .. Len(q) /\ r[i] = q[i - 1]
             /\ Len(r) - i = Len(q) - (i - 1)
  <2>1. i - 1 \in 1 .. Len(q) /\ (i - 1) + 1 = i
    BY <1>1, <1>2
  <2>. QED BY <1>1, <2>1
<1>3. ASSUME NEW i \in 1 .. Len(r) PROVE FrameFits(r[i], Len(r) - i)
  <2>1. CASE i = 1
    BY <1>1, <2>1 DEF Tops
  <2>2. CASE i # 1
    BY <1>2, <2>2 DEF Fits
  <2>. QED BY <2>1, <2>2
<1>4. ASSUME NEW i \in 1 .. Len(r), NEW j \in 1 .. Len(r)
      PROVE  r[i].got \cap r[j].lost = {}
  <2>1. CASE i = 1 /\ j = 1
    BY <1>1, <2>1 DEF Tops
  <2>2. CASE i = 1 /\ j # 1
    BY <1>1, <1>2, <2>2 DEF Tops
  <2>3. CASE i # 1 /\ j = 1
    BY <1>1, <1>2, <2>3 DEF Tops
  <2>4. CASE i # 1 /\ j # 1
    BY <1>2, <2>4 DEF Apart
  <2>. QED BY <2>1, <2>2, <2>3, <2>4
<1>. QED
  BY <1>1, <1>3, <1>4 DEF r, Fits, Apart

\* A stack that fits is empty or has a top.
LEMMA SomeFrame ==
    ASSUME NEW q, Fits(q)
    PROVE  Len(q) \in Nat /\ (q # <<>>) = (Len(q) >= 1)
<1>1. q \in Seq({q[i] : i \in 1 .. Len(q)}) /\ Len(q) \in Nat
  BY StackSeq DEF Fits, IsStack
<1>. QED
  BY <1>1, EmptySeq

LEMMA ReplaceFits ==
    ASSUME NEW q, Fits(q), Apart(q), q # <<>>, NEW f, Suits(f, q, 1)
    PROVE  /\ Fits(<<f>> \o Tail(q)) /\ Apart(<<f>> \o Tail(q))
           /\ Len(<<f>> \o Tail(q)) = Len(q)
           /\ \A i \in 2 .. Len(q) : (<<f>> \o Tail(q))[i] = q[i]
           /\ (<<f>> \o Tail(q))[1] = f
<1>. DEFINE t == Tail(q)
<1>1. Len(q) \in Nat /\ Len(q) >= 1
  BY SomeFrame
<1>2. Fits(t) /\ Apart(t) /\ Len(t) = Len(q) - 1
  BY <1>1, PopFits
<1>3. \A i \in 1 .. Len(q) - 1 : t[i] = q[i + 1]
  BY <1>1, PopStack DEF Fits
<1>. HIDE DEF t
<1>4. Tops(f, t)
  <2>1. ASSUME NEW i \in 1 .. Len(t)
        PROVE  f.got \cap t[i].lost = {} /\ t[i].got \cap f.lost = {}
    <3>1. i + 1 \in 1 .. Len(q) /\ i + 1 # 1 /\ t[i] = q[i + 1]
      BY <1>1, <1>2, <1>3
    <3>. QED BY <3>1 DEF Suits
  <2>. QED BY <1>2, <2>1 DEF Tops, Suits
<1>5. Fits(<<f>> \o t) /\ Apart(<<f>> \o t) /\ Len(<<f>> \o t) = Len(t) + 1
  BY <1>2, <1>4, PushFits
<1>6. (<<f>> \o t)[1] = f /\ \A i \in 1 .. Len(t) : (<<f>> \o t)[i + 1] = t[i]
  BY <1>2, PushStack DEF Fits
<1>7. ASSUME NEW i \in 2 .. Len(q) PROVE (<<f>> \o t)[i] = q[i]
  <2>1. i - 1 \in 1 .. Len(t) /\ i - 1 \in 1 .. Len(q) - 1 /\ (i - 1) + 1 = i
    BY <1>1, <1>2
  <2>. QED BY <1>3, <1>6, <2>1
<1>. QED
  BY <1>1, <1>2, <1>5, <1>6, <1>7 DEF t

LEMMA CutFits ==
    ASSUME NEW q, Fits(q), Apart(q), NEW k \in 1 .. Len(q), NEW r,
           r = SubSeq(q, k + 1, Len(q))
    PROVE  /\ Fits(r) /\ Apart(r) /\ Len(r) = Len(q) - k
           /\ \A i \in 1 .. Len(q) - k : r[i] = q[k + i]
<1>0. IsStack(q) /\ Len(q) \in Nat
  BY DEF Fits, IsStack
<1>1. IsStack(r) /\ Len(r) = Len(q) - k
      /\ \A i \in 1 .. Len(q) - k : r[i] = q[k + i]
  BY <1>0, CutStack
<1>2. ASSUME NEW i \in 1 .. Len(r)
      PROVE  /\ k + i \in 1 .. Len(q) /\ r[i] = q[k + i]
             /\ Len(r) - i = Len(q) - (k + i)
  BY <1>0, <1>1
<1>3. Fits(r)
  BY <1>1, <1>2 DEF Fits
<1>4. Apart(r)
  BY <1>1, <1>2 DEF Apart
<1>. QED
  BY <1>1, <1>3, <1>4

LEMMA TwoOnTop ==
    ASSUME NEW q, IsStack(q), NEW f, NEW g
    PROVE  <<f, g>> \o q = <<f>> \o (<<g>> \o q)
<1>. DEFINE S == {q[i] : i \in 1 .. Len(q)} \cup {f, g}
<1>1. q \in Seq(S) /\ <<f>> \in Seq(S) /\ <<g>> \in Seq(S)
  BY DEF IsStack
<1>2. <<f, g>> = <<f>> \o <<g>>
  <2>1. /\ <<f>> \o <<g>> \in Seq(S)
        /\ Len(<<f>> \o <<g>>) = 2
        /\ (<<f>> \o <<g>>)[1] = f
        /\ (<<f>> \o <<g>>)[2] = g
    OBVIOUS
  <2>2. <<f, g>> \in Seq(S) /\ Len(<<f, g>>) = 2
    OBVIOUS
  <2>3. \A i \in 1 .. Len(<<f, g>>) : <<f, g>>[i] = (<<f>> \o <<g>>)[i]
    BY <2>1, <2>2
  <2>. DEFINE s == <<f, g>>
              t == <<f>> \o <<g>>
  <2>. HIDE DEF S, s, t
  <2>4. s = t
    BY <2>1, <2>2, <2>3, SeqEqual DEF s, t
  <2>. QED BY <2>4 DEF s, t
<1>3. (<<f>> \o <<g>>) \o q = <<f>> \o (<<g>> \o q)
  <2>. HIDE DEF S
  <2>. QED BY <1>1, ConcatAssociative
<1>. QED
  BY <1>2, <1>3

LEMMA FirstSuits ==
    ASSUME NEW q, Fits(q), Apart(q), q # <<>>
    PROVE  /\ Len(q) \in Nat /\ Len(q) >= 1
           /\ FrameFits(q[1], Len(q) - 1)
           /\ Suits(q[1], q, 1)
<1>1. Len(q) \in Nat /\ Len(q) >= 1
  BY SomeFrame
<1>2. FrameFits(q[1], Len(q) - 1)
  BY <1>1 DEF Fits
<1>3. Suits(q[1], q, 1)
  BY <1>1, <1>2 DEF Apart, Suits
<1>. QED
  BY <1>1, <1>2, <1>3

LEMMA SuitsLike ==
    ASSUME NEW q, NEW k, NEW f, Suits(f, q, k),
           NEW g, FrameFits(g, Len(q) - k), g.got = f.got, g.lost = f.lost
    PROVE  Suits(g, q, k)
BY DEF Suits

\* The same four changes on the stack of a running Update.
LEMMA TopOfLive ==
    ASSUME NEW q, Live(q)
    PROVE  /\ Len(q) \in Nat /\ Len(q) >= 1 /\ q # <<>>
           /\ Fits(q) /\ Apart(q)
           /\ FrameFits(q[1], Len(q) - 1) /\ Suits(q[1], q, 1)
<1>1. Len(q) \in Nat /\ Len(q) >= 1 /\ Fits(q) /\ Apart(q)
  BY SomeFrame DEF Live
<1>2. q # <<>>
  BY <1>1, SomeFrame
<1>. QED
  BY <1>1, <1>2, FirstSuits

LEMMA ReplaceLive ==
    ASSUME NEW q, Live(q), NEW f, Suits(f, q, 1)
    PROVE  Live(<<f>> \o Tail(q)) /\ Len(<<f>> \o Tail(q)) = Len(q)
BY TopOfLive, ReplaceFits DEF Live

LEMMA PopLive ==
    ASSUME NEW q, Live(q), Len(q) - 1 > 0
    PROVE  Live(Tail(q)) /\ Len(Tail(q)) = Len(q) - 1
<1>1. Len(q) \in Nat /\ Fits(q) /\ Apart(q) /\ q # <<>>
  BY TopOfLive
<1>2. Fits(Tail(q)) /\ Apart(Tail(q)) /\ Len(Tail(q)) = Len(q) - 1
  BY <1>1, PopFits
<1>3. Len(q) - 1 >= 1
  BY <1>1
<1>. QED
  BY <1>2, <1>3 DEF Live

LEMMA PushLive ==
    ASSUME NEW q, Live(q), NEW g, Suits(g, q, 1),
           NEW f, FrameFits(f, Len(q)), f.got = {}, f.lost = {}
    PROVE  Live(<<f, g>> \o Tail(q))
<1>1. Len(q) \in Nat /\ Fits(q) /\ Apart(q) /\ q # <<>>
  BY TopOfLive
<1>2. PICK r : r = <<g>> \o Tail(q)
  OBVIOUS
<1>3. Live(r) /\ Len(r) = Len(q)
  BY <1>2, ReplaceLive
<1>4. <<f, g>> \o Tail(q) = <<f>> \o r
  BY <1>1, <1>2, PopFits, TwoOnTop DEF Fits
<1>5. Fits(r) /\ Apart(r) /\ Len(r) \in Nat
  BY <1>3, TopOfLive
<1>6. Tops(f, r)
  BY <1>3 DEF Tops
<1>7. Fits(<<f>> \o r) /\ Apart(<<f>> \o r) /\ Len(<<f>> \o r) = Len(r) + 1
  BY <1>5, <1>6, PushFits
<1>8. Len(r) + 1 >= 1
  BY <1>5
<1>9. Live(<<f>> \o r)
  BY <1>7, <1>8 DEF Live
<1>. QED
  BY <1>4, <1>9

LEMMA CutLive ==
    ASSUME NEW q, Live(q), NEW k \in 1 .. Len(q), Len(q) - k > 0,
           NEW r, r = SubSeq(q, k + 1, Len(q))
    PROVE  /\ Live(r) /\ Len(r) = Len(q) - k
           /\ \A i \in 1 .. Len(q) - k : r[i] = q[k + i]
<1>1. Len(q) \in Nat /\ Fits(q) /\ Apart(q)
  BY TopOfLive
<1>2. Fits(r) /\ Apart(r) /\ Len(r) = Len(q) - k
      /\ \A i \in 1 .. Len(q) - k : r[i] = q[k + i]
  BY <1>1, CutFits
<1>3. Len(q) - k >= 1
  BY <1>1
<1>. QED
  BY <1>2, <1>3 DEF Live

\* A stack with another frame at place k.
Put(q, k, f) == [q EXCEPT ![k] = f]

LEMMA PutLive ==
    ASSUME NEW q, Live(q), NEW k \in 1 .. Len(q), NEW f, Suits(f, q, k)
    PROVE  /\ Live(Put(q, k, f)) /\ Len(Put(q, k, f)) = Len(q)
           /\ Put(q, k, f)[k] = f
           /\ \A i \in 1 .. Len(q) : i # k => Put(q, k, f)[i] = q[i]
<1>1. Len(q) \in Nat /\ Len(q) >= 1 /\ Fits(q) /\ Apart(q) /\ IsStack(q)
  BY TopOfLive DEF Fits
<1>2. PICK r : r = Put(q, k, f)
  OBVIOUS
<1>3. Fits(r) /\ Apart(r)
  BY <1>1, <1>2, PutFits DEF Put
<1>4. Len(r) = Len(q) /\ r[k] = f /\ \A i \in 1 .. Len(q) : i # k => r[i] = q[i]
  BY <1>1, <1>2, PutStack DEF Put
<1>5. Live(r)
  BY <1>1, <1>3, <1>4 DEF Live
<1>. QED
  BY <1>2, <1>4, <1>5

\* The outermost frame may change too.
LEMMA OuterLive ==
    ASSUME NEW q, Live(q)
    PROVE  /\ Len(q) \in 1 .. Len(q)
           /\ FrameFits(q[Len(q)], 0) /\ Suits(q[Len(q)], q, Len(q))
<1>1. PICK n : n = Len(q)
  OBVIOUS
<1>2. n \in Nat /\ n >= 1 /\ Fits(q) /\ Apart(q)
  BY <1>1, TopOfLive
<1>3. n \in 1 .. n /\ n - n = 0
  BY <1>2
<1>4. FrameFits(q[n], 0)
  BY <1>1, <1>2, <1>3 DEF Fits
<1>5. Suits(q[n], q, n)
  BY <1>1, <1>2, <1>3, <1>4 DEF Suits, Apart
<1>. QED
  BY <1>1, <1>3, <1>4, <1>5
-----------------------------------------------------------------------------
\* How deep the innermost frame is.
Depth == Len(frames) - 1

LEMMA TopSuits ==
    ASSUME StackInv, Running
    PROVE  /\ Live(frames)
           /\ Depth \in Nat /\ Depth = Len(frames) - 1
           /\ FrameFits(Top, Depth) /\ Suits(Top, frames, 1)
<1>1. Live(frames)
  BY DEF StackInv, Running
<1>2. Len(frames) \in Nat /\ Len(frames) >= 1
      /\ FrameFits(frames[1], Len(frames) - 1) /\ Suits(frames[1], frames, 1)
  BY <1>1, TopOfLive
<1>. QED
  BY <1>1, <1>2 DEF Depth, Top

LEMMA TopPassed ==
    ASSUME StackInv, Running, Top.rest # <<>>
    PROVE  /\ Suits(Passed(Top), frames, 1) /\ FrameFits(Passed(Top), Depth)
           /\ Passed(Top).got = Top.got /\ Passed(Top).lost = Top.lost
           /\ Step \in Place(Depth)
           /\ Tail(Top.rest) \in Seq(Place(Depth))
<1>1. FrameFits(Top, Depth) /\ Suits(Top, frames, 1) /\ Depth \in Nat
      /\ Depth = Len(frames) - 1
  BY TopSuits
<1>2. /\ FrameFits(Passed(Top), Depth)
      /\ Passed(Top).got = Top.got /\ Passed(Top).lost = Top.lost
      /\ Top.rest[1] \in Place(Depth)
      /\ Tail(Top.rest) \in Seq(Place(Depth))
  BY <1>1, PassedFits
<1>3. Suits(Passed(Top), frames, 1)
  BY <1>1, <1>2, SuitsLike
<1>. QED
  BY <1>2, <1>3 DEF Step

LEMMA PlaceBlock == ASSUME NEW depth PROVE Block(Place(depth))
BY ScriptAssumption DEF Place

\* An Update goes on with a stack, or ends with none.
LEMMA StillLive ==
    ASSUME Running, UNCHANGED verdict, NEW q, Live(q), frames' = q
    PROVE  StackInv'
<1>1. verdict' = "none" /\ verdict' \in Verdicts /\ Live(frames')
  BY DEF Running, Verdicts
<1>. QED
  BY <1>1 DEF StackInv, Live, Fits, Apart, FrameFits, IsFrame, IsStack, Place, Verdicts

LEMMA Ended ==
    ASSUME verdict' \in Verdicts, verdict' # "none", frames' = <<>>
    PROVE  StackInv'
BY DEF StackInv, Verdicts

LEMMA GotoStep ==
    ASSUME StackInv, Running, NEW f, Suits(f, frames, 1), Goto(f), UNCHANGED verdict
    PROVE  StackInv'
<1>1. Live(<<f>> \o Tail(frames))
  BY TopSuits, ReplaceLive
<1>. QED
  BY <1>1, StillLive DEF Goto

LEMMA PopStep ==
    ASSUME StackInv, Running, Depth > 0, frames' = Tail(frames), UNCHANGED verdict
    PROVE  StackInv'
<1>1. Live(Tail(frames))
  BY TopSuits, PopLive
<1>. QED
  BY <1>1, StillLive

LEMMA PushStep ==
    ASSUME StackInv, Running, Top.rest # <<>>,
           NEW f, FrameFits(f, Len(frames)), f.got = {}, f.lost = {},
           frames' = <<f, Passed(Top)>> \o Tail(frames), UNCHANGED verdict
    PROVE  StackInv'
<1>1. Live(frames) /\ Suits(Passed(Top), frames, 1)
  BY TopSuits, TopPassed
<1>2. Live(<<f, Passed(Top)>> \o Tail(frames))
  BY <1>1, PushLive
<1>. QED
  BY <1>2, StillLive

LEMMA NearestIsCall ==
    ASSUME StackInv, Running, Calls # {}
    PROVE  /\ NearestCall \in 1 .. Len(frames)
           /\ frames[NearestCall].failed # ""
<1>1. Len(frames) \in Nat /\ DOMAIN frames = 1 .. Len(frames)
  BY TopSuits, TopOfLive DEF Fits, IsStack
<1>2. ASSUME NEW i \in Calls PROVE i \in 1 .. Len(frames) /\ frames[i].failed # ""
  BY <1>1 DEF Calls
<1>3. \A i \in Calls : i \in 1 .. Len(frames)
  BY <1>2
<1>4. \A i \in Calls : i \in Nat
  BY <1>1, <1>3
<1>5. \E i \in Calls : \A j \in Calls : i <= j
  BY <1>4, Nearest
<1>6. NearestCall \in Calls
  BY <1>5 DEF NearestCall
<1>. QED
  BY <1>2, <1>6

\* The error of a helper reaches the frame around it.
Raised(around, reaction) ==
    [around[1] EXCEPT !.rest = <<Do(reaction)>> \o @]

LEMMA RaiseLive ==
    ASSUME NEW q, Live(q), NEW reaction, Do(reaction) \in Place(Len(q) - 1)
    PROVE  Live(<<Raised(q, reaction)>> \o Tail(q))
<1>1. /\ FrameFits(q[1], Len(q) - 1) /\ Suits(q[1], q, 1)
      /\ Len(q) \in Nat /\ Len(q) >= 1
  BY TopOfLive
<1>2. PICK depth \in Nat : depth = Len(q) - 1
  BY <1>1
<1>3. PICK steps : steps = <<Do(reaction)>> \o q[1].rest
  OBVIOUS
<1>4. steps \in Seq(Place(depth))
  <2>1. Do(reaction) \in Place(depth) /\ q[1].rest \in Seq(Place(depth))
    BY <1>1, <1>2 DEF FrameFits
  <2>2. <<Do(reaction)>> \o q[1].rest \in Seq(Place(depth))
    BY <2>1
  <2>. QED BY <1>3, <2>2
<1>5. Raised(q, reaction) = WithRest(q[1], steps)
  BY <1>3 DEF Raised, WithRest
<1>6. PICK f : f = WithRest(q[1], steps)
  OBVIOUS
<1>7. FrameFits(f, depth) /\ f.got = q[1].got /\ f.lost = q[1].lost
  BY <1>1, <1>2, <1>4, <1>6, RestFits
<1>8. Suits(f, q, 1)
  BY <1>1, <1>2, <1>7, SuitsLike
<1>9. Live(<<f>> \o Tail(q))
  BY <1>8, ReplaceLive
<1>. QED
  BY <1>5, <1>6, <1>9

\* The frames around frame k.
Around(k) == SubSeq(frames, k + 1, Len(frames))

LEMMA AroundLive ==
    ASSUME StackInv, Running, NEW k \in 1 .. Len(frames), frames[k].failed # ""
    PROVE  /\ Live(Around(k))
           /\ Do(frames[k].failed) \in Place(Len(Around(k)) - 1)
<1>1. Live(frames) /\ Fits(frames)
  BY TopSuits, TopOfLive
<1>2. FrameFits(frames[k], Len(frames) - k)
  BY <1>1 DEF Fits
<1>3. Len(frames) - k > 0
  BY <1>2 DEF FrameFits
<1>4. Do(frames[k].failed) \in Place((Len(frames) - k) - 1)
  BY <1>2 DEF FrameFits
<1>5. PICK r : r = Around(k)
  OBVIOUS
<1>6. Live(r) /\ Len(r) = Len(frames) - k
  BY <1>1, <1>3, <1>5, CutLive DEF Around
<1>. QED
  BY <1>4, <1>5, <1>6

LEMMA ReturnStep ==
    ASSUME StackInv, Running,
           NEW result \in {"nil", "nodata", "error", "unbuilt"}, Return(result)
    PROVE  StackInv'
<1>1. CASE Calls = {}
  <2>1. verdict' = result /\ frames' = <<>>
    BY <1>1 DEF Return
  <2>. QED BY <2>1, Ended DEF Verdicts
<1>2. CASE Calls # {}
  <2>1. PICK k : k = NearestCall
    OBVIOUS
  <2>2. PICK f : f = Raised(Around(k), frames[k].failed)
    OBVIOUS
  <2>3. /\ verdict' = verdict
        /\ frames' = IF result = "nil" THEN Around(k) ELSE <<f>> \o Tail(Around(k))
    BY <1>2, <2>1, <2>2 DEF Return, Raised, Around
  <2>4. k \in 1 .. Len(frames) /\ frames[k].failed # ""
    BY <1>2, <2>1, NearestIsCall
  <2>5. /\ Live(Around(k))
        /\ Do(frames[k].failed) \in Place(Len(Around(k)) - 1)
    BY <2>4, AroundLive
  <2>6. Live(<<f>> \o Tail(Around(k)))
    BY <2>2, <2>5, RaiseLive
  <2>7. CASE result = "nil"
    BY <2>3, <2>5, <2>7, StillLive
  <2>8. CASE result # "nil"
    BY <2>3, <2>6, <2>8, StillLive
  <2>. QED BY <2>7, <2>8
<1>. QED
  BY <1>1, <1>2

\* f on top, and then g as the outermost frame.
Ends(f, g) == Put(Put(frames, 1, f), Len(frames), g)

LEMMA EndsStep ==
    ASSUME StackInv, Running, NEW f, Suits(f, frames, 1),
           NEW g, Suits(g, Put(frames, 1, f), Len(frames)),
           frames' = Ends(f, g), UNCHANGED verdict
    PROVE  StackInv'
<1>1. Live(frames) /\ 1 \in 1 .. Len(frames)
  BY TopSuits, TopOfLive
<1>2. PICK h : h = Put(frames, 1, f)
  OBVIOUS
<1>3. Live(h) /\ Len(h) = Len(frames)
  BY <1>1, <1>2, PutLive
<1>4. PICK n : n = Len(frames)
  OBVIOUS
<1>5. n \in 1 .. Len(h)
  BY <1>3, <1>4, OuterLive
<1>6. Live(Put(h, n, g))
  BY <1>2, <1>3, <1>4, <1>5, PutLive
<1>. QED
  BY <1>2, <1>4, <1>6, StillLive DEF Ends

\* The outermost frame, when f is on top.
LEMMA OuterSuits ==
    ASSUME StackInv, Running, NEW f, Suits(f, frames, 1),
           NEW h, h = Put(frames, 1, f), NEW n, n = Len(frames)
    PROVE  /\ FrameFits(h[n], 0) /\ Suits(h[n], h, n)
           /\ n \in Nat /\ n >= 1 /\ Len(h) = n /\ Len(h) - n = 0
           /\ h[1] = f /\ \A i \in 1 .. n : i # 1 => h[i] = frames[i]
<1>1. Live(frames) /\ n \in Nat /\ n >= 1 /\ 1 \in 1 .. Len(frames)
  BY TopSuits, TopOfLive
<1>2. Live(h) /\ Len(h) = Len(frames) /\ h[1] = f
      /\ \A i \in 1 .. Len(frames) : i # 1 => h[i] = frames[i]
  BY <1>1, PutLive
<1>3. FrameFits(h[n], 0) /\ Suits(h[n], h, n)
  BY <1>2, OuterLive
<1>. QED
  BY <1>1, <1>2, <1>3

Later == [frames EXCEPT ![1].rest = Tail(@), ![Len(frames)].late = TRUE]

LEMMA LaterStep ==
    ASSUME StackInv, Running, Top.rest # <<>>, frames' = Later, UNCHANGED verdict
    PROVE  StackInv'
<1>1. PICK n : n = Len(frames)
  OBVIOUS
<1>2. PICK f : f = Passed(Top)
  OBVIOUS
<1>3. PICK h : h = Put(frames, 1, f)
  OBVIOUS
<1>4. PICK g : g = WithLate(h[n])
  OBVIOUS
<1>5. Later = Ends(f, g)
  BY <1>1, <1>2, <1>3, <1>4 DEF Top, Passed, Later, Ends, Put, WithLate
<1>6. Suits(f, frames, 1)
  BY <1>2, TopPassed
<1>7. /\ FrameFits(h[n], 0) /\ Suits(h[n], h, n)
      /\ Len(h) - n = 0
  BY <1>1, <1>3, <1>6, OuterSuits
<1>8. FrameFits(g, 0) /\ g.got = h[n].got /\ g.lost = h[n].lost
  BY <1>4, <1>7, LateFits
<1>9. Suits(g, h, n)
  BY <1>7, <1>8, SuitsLike
<1>. QED
  BY <1>1, <1>3, <1>5, <1>6, <1>9, EndsStep

\* The reactions of React; a break needs a loop around it.
LEMMA ReactStep ==
    ASSUME StackInv, Running, Top.rest # <<>>,
           NEW reaction, reaction = "break" => Depth > 0, React(reaction)
    PROVE  StackInv'
<1>1. CASE reaction = "next" /\ Goto(Passed(Top)) /\ UNCHANGED verdict
  BY <1>1, TopPassed, GotoStep
<1>2. CASE /\ reaction = "later" /\ UNCHANGED verdict
           /\ frames' = [frames EXCEPT ![1].rest = Tail(@), ![Len(frames)].late = TRUE]
  <2>1. frames' = Later /\ UNCHANGED verdict
    BY <1>2 DEF Later
  <2>. QED BY <2>1, LaterStep
<1>3. CASE reaction = "skip" /\ Goto([Top EXCEPT !.rest = <<>>]) /\ UNCHANGED verdict
  <2>1. PICK steps : steps = <<>>
    OBVIOUS
  <2>2. PICK f : f = WithRest(Top, steps)
    OBVIOUS
  <2>3. Goto(f) /\ UNCHANGED verdict
    BY <1>3, <2>1, <2>2 DEF WithRest
  <2>4. steps \in Seq(Place(Depth))
    BY <2>1
  <2>5. FrameFits(Top, Depth) /\ Suits(Top, frames, 1) /\ Depth \in Nat
        /\ Depth = Len(frames) - 1
    BY TopSuits
  <2>6. FrameFits(f, Depth) /\ f.got = Top.got /\ f.lost = Top.lost
    BY <2>2, <2>4, <2>5, RestFits
  <2>7. Suits(f, frames, 1)
    BY <2>5, <2>6, SuitsLike
  <2>. QED BY <2>3, <2>7, GotoStep
<1>4. CASE reaction = "break" /\ frames' = Tail(frames) /\ UNCHANGED verdict
  BY <1>4, PopStep
<1>5. CASE reaction \in {"nil", "nodata", "error", "unbuilt"} /\ Return(reaction)
  BY <1>5, ReturnStep
<1>. QED
  BY <1>1, <1>2, <1>3, <1>4, <1>5 DEF React
-----------------------------------------------------------------------------
\* A source may be marked as read, unless a frame has it as lost; and the
\* other way around.
LEMMA MarkGot ==
    ASSUME NEW q, NEW k \in 1 .. Len(q), NEW f, Suits(f, q, k), NEW g, NEW source,
           FrameFits(g, Len(q) - k), g.got = f.got \cup {source}, g.lost = f.lost,
           source \notin f.lost, \A i \in 1 .. Len(q) : i # k => source \notin q[i].lost
    PROVE  Suits(g, q, k)
BY DEF Suits

LEMMA MarkLost ==
    ASSUME NEW q, NEW k \in 1 .. Len(q), NEW f, Suits(f, q, k), NEW g, NEW source,
           FrameFits(g, Len(q) - k), g.lost = f.lost \cup {source}, g.got = f.got,
           source \notin f.got, \A i \in 1 .. Len(q) : i # k => source \notin q[i].got
    PROVE  Suits(g, q, k)
BY DEF Suits

LEMMA Unmarked ==
    ASSUME StackInv, Running, NEW source
    PROVE  /\ ~Lost(source) => \A i \in 1 .. Len(frames) : source \notin frames[i].lost
           /\ ~Got(source) => \A i \in 1 .. Len(frames) : source \notin frames[i].got
<1>1. DOMAIN frames = 1 .. Len(frames)
  BY TopSuits, TopOfLive DEF Fits, IsStack
<1>. QED
  BY <1>1 DEF Lost, Got

\* The innermost frame obtains a source, or finds it wanting.
LEMMA GotStep ==
    ASSUME StackInv, Running,
           NEW f, FrameFits(f, Depth), f.got = Top.got, f.lost = Top.lost,
           NEW source, ~Lost(source),
           Goto(WithGot(f, f.got \cup {source})), UNCHANGED verdict
    PROVE  StackInv'
<1>1. /\ Suits(Top, frames, 1) /\ Depth \in Nat /\ Depth = Len(frames) - 1
      /\ 1 \in 1 .. Len(frames) /\ Top = frames[1]
  BY TopSuits, TopOfLive DEF Top
<1>2. PICK g : g = WithGot(f, f.got \cup {source})
  OBVIOUS
<1>3. FrameFits(g, Depth) /\ g.got = Top.got \cup {source} /\ g.lost = Top.lost
  BY <1>1, <1>2, GotFits
<1>4. \A i \in 1 .. Len(frames) : source \notin frames[i].lost
  BY Unmarked
<1>5. Suits(g, frames, 1)
  BY <1>1, <1>3, <1>4, MarkGot
<1>. QED
  BY <1>2, <1>5, GotoStep

LEMMA LostStep ==
    ASSUME StackInv, Running,
           NEW f, FrameFits(f, Depth), f.got = Top.got, f.lost = Top.lost,
           NEW source, ~Got(source),
           Goto(WithLost(f, f.lost \cup {source})), UNCHANGED verdict
    PROVE  StackInv'
<1>1. /\ Suits(Top, frames, 1) /\ Depth \in Nat /\ Depth = Len(frames) - 1
      /\ 1 \in 1 .. Len(frames) /\ Top = frames[1]
  BY TopSuits, TopOfLive DEF Top
<1>2. PICK g : g = WithLost(f, f.lost \cup {source})
  OBVIOUS
<1>3. FrameFits(g, Depth) /\ g.lost = Top.lost \cup {source} /\ g.got = Top.got
  BY <1>1, <1>2, LostFits
<1>4. \A i \in 1 .. Len(frames) : source \notin frames[i].got
  BY Unmarked
<1>5. Suits(g, frames, 1)
  BY <1>1, <1>3, <1>4, MarkLost
<1>. QED
  BY <1>2, <1>5, GotoStep

LEMMA ObtainStep == StackInv /\ Obtain => StackInv'
<1>. SUFFICES ASSUME StackInv, Obtain PROVE StackInv'
  OBVIOUS
<1>1. /\ Running /\ Top.rest # <<>> /\ ~Lost(Step.what)
      /\ Goto([Passed(Top) EXCEPT !.got = @ \cup {Step.what}])
      /\ UNCHANGED verdict
  BY DEF Obtain, At
<1>2. Goto(WithGot(Passed(Top), Passed(Top).got \cup {Step.what}))
  BY <1>1 DEF WithGot
<1>3. FrameFits(Passed(Top), Depth)
      /\ Passed(Top).got = Top.got /\ Passed(Top).lost = Top.lost
  BY <1>1, TopPassed
<1>. QED
  BY <1>1, <1>2, <1>3, GotStep

\* Only a step inside a loop breaks out of it.
LEMMA BreakInside ==
    ASSUME StackInv, Running, Top.rest # <<>>, Breaks(Step)
    PROVE  Depth > 0
<1>1. Step \in Place(Depth) /\ Depth \in Nat
  BY TopPassed, TopSuits
<1>2. CASE Depth = 0
  <2>1. Step \in Outside
    BY <1>1, <1>2 DEF Place
  <2>. QED BY <2>1, ScriptAssumption
<1>. QED
  BY <1>1, <1>2

LEMMA MissStep == StackInv /\ Miss => StackInv'
<1>. SUFFICES ASSUME StackInv, Miss PROVE StackInv'
  OBVIOUS
<1>1. /\ Running /\ Top.rest # <<>> /\ Step.op = "read" /\ ~Got(Step.what)
  BY DEF Miss, At, Step
<1>2. PICK reaction \in {Step.missing, Step.failing} :
         IF reaction = "next"
         THEN /\ Goto([Passed(Top) EXCEPT !.lost = @ \cup {Step.what}])
              /\ UNCHANGED verdict
         ELSE React(reaction)
  BY DEF Miss
<1>3. CASE reaction = "next"
  <2>1. Goto(WithLost(Passed(Top), Passed(Top).lost \cup {Step.what})) /\ UNCHANGED verdict
    BY <1>2, <1>3 DEF WithLost
  <2>2. FrameFits(Passed(Top), Depth)
        /\ Passed(Top).got = Top.got /\ Passed(Top).lost = Top.lost
    BY <1>1, TopPassed
  <2>. QED BY <1>1, <2>1, <2>2, LostStep
<1>4. CASE reaction # "next"
  <2>1. React(reaction)
    BY <1>2, <1>4
  <2>2. reaction = "break" => Breaks(Step)
    BY <1>1 DEF Breaks
  <2>3. reaction = "break" => Depth > 0
    BY <1>1, <2>2, BreakInside
  <2>. QED BY <1>1, <2>1, <2>3, ReactStep
<1>. QED
  BY <1>3, <1>4

LEMMA ActStep == StackInv /\ Act => StackInv'
<1>. SUFFICES ASSUME StackInv, Act PROVE StackInv'
  OBVIOUS
<1>1. Running /\ Top.rest # <<>> /\ Step.op = "do" /\ React(Step.reaction)
  BY DEF Act, At, Step
<1>2. Step.reaction = "break" => Depth > 0
  BY <1>1, BreakInside DEF Breaks
<1>. QED
  BY <1>1, <1>2, ReactStep

\* A branch of an if, and then what follows it.
Then == Step.then \o Tail(Top.rest)
Else == Step.else \o Tail(Top.rest)

LEMMA Branches ==
    ASSUME StackInv, Running, Top.rest # <<>>, Step.op \in {"if", "flag"}
    PROVE  Then \in Seq(Place(Depth)) /\ Else \in Seq(Place(Depth))
<1>1. Step \in Place(Depth) /\ Tail(Top.rest) \in Seq(Place(Depth))
  BY TopPassed
<1>2. Step.then \in Seq(Place(Depth)) /\ Step.else \in Seq(Place(Depth))
  BY <1>1, PlaceBlock DEF Block
<1>. QED
  BY <1>1, <1>2, ConcatProperties DEF Then, Else

LEMMA BranchFits ==
    ASSUME StackInv, Running, Top.rest # <<>>, NEW steps \in Seq(Place(Depth))
    PROVE  LET f == WithRest(Top, steps)
           IN  /\ FrameFits(f, Depth) /\ f.got = Top.got /\ f.lost = Top.lost
               /\ Suits(f, frames, 1)
<1>1. FrameFits(Top, Depth) /\ Suits(Top, frames, 1) /\ Depth \in Nat
      /\ Depth = Len(frames) - 1
  BY TopSuits
<1>2. PICK f : f = WithRest(Top, steps)
  OBVIOUS
<1>3. FrameFits(f, Depth) /\ f.got = Top.got /\ f.lost = Top.lost
  BY <1>1, <1>2, RestFits
<1>4. Suits(f, frames, 1)
  BY <1>1, <1>3, SuitsLike
<1>. QED
  BY <1>2, <1>3, <1>4

LEMMA HoldsStep == StackInv /\ Holds => StackInv'
<1>. SUFFICES ASSUME StackInv, Holds PROVE StackInv'
  OBVIOUS
<1>1. /\ Running /\ Top.rest # <<>> /\ Step.op = "if" /\ ~Lost(Step.what)
      /\ Goto([Top EXCEPT !.rest = Step.then \o Tail(@), !.got = @ \cup {Step.what}])
      /\ UNCHANGED verdict
  BY DEF Holds, At, Step
<1>2. PICK f : f = WithRest(Top, Then)
  OBVIOUS
<1>3. FrameFits(f, Depth) /\ f.got = Top.got /\ f.lost = Top.lost
  BY <1>1, <1>2, Branches, BranchFits
<1>4. [Top EXCEPT !.rest = Step.then \o Tail(@), !.got = @ \cup {Step.what}]
        = WithGot(f, f.got \cup {Step.what})
  BY <1>2 DEF WithGot, WithRest, Then
<1>5. Goto(WithGot(f, f.got \cup {Step.what}))
  BY <1>1, <1>4
<1>. QED
  BY <1>1, <1>3, <1>5, GotStep

LEMMA FailsStep == StackInv /\ Fails => StackInv'
<1>. SUFFICES ASSUME StackInv, Fails PROVE StackInv'
  OBVIOUS
<1>1. /\ Running /\ Top.rest # <<>> /\ Step.op = "if" /\ ~Got(Step.what)
      /\ Goto([Top EXCEPT !.rest = Step.else \o Tail(@), !.lost = @ \cup {Step.what}])
      /\ UNCHANGED verdict
  BY DEF Fails, At, Step
<1>2. PICK f : f = WithRest(Top, Else)
  OBVIOUS
<1>3. FrameFits(f, Depth) /\ f.got = Top.got /\ f.lost = Top.lost
  BY <1>1, <1>2, Branches, BranchFits
<1>4. [Top EXCEPT !.rest = Step.else \o Tail(@), !.lost = @ \cup {Step.what}]
        = WithLost(f, f.lost \cup {Step.what})
  BY <1>2 DEF WithLost, WithRest, Else
<1>5. Goto(WithLost(f, f.lost \cup {Step.what}))
  BY <1>1, <1>4
<1>. QED
  BY <1>1, <1>3, <1>5, LostStep

\* What every frame lacks, it lacks when only the steps on top change.
LEMMA StillUnmarked ==
    ASSUME StackInv, Running,
           NEW f, Suits(f, frames, 1), f.got = Top.got, f.lost = Top.lost,
           NEW h, h = Put(frames, 1, f), NEW n, n = Len(frames), NEW source
    PROVE  /\ ~Lost(source) => \A i \in 1 .. n : source \notin h[i].lost
           /\ ~Got(source) => \A i \in 1 .. n : source \notin h[i].got
<1>1. n >= 1 /\ n \in Nat /\ h[1] = f /\ \A i \in 1 .. n : i # 1 => h[i] = frames[i]
  BY OuterSuits
<1>2. \A i \in 1 .. n : h[i].got = frames[i].got /\ h[i].lost = frames[i].lost
  BY <1>1 DEF Top
<1>. QED
  BY <1>2, Unmarked

LEMMA FlagSetStep == StackInv /\ FlagSet => StackInv'
<1>. SUFFICES ASSUME StackInv, FlagSet PROVE StackInv'
  OBVIOUS
<1>1. /\ Running /\ Top.rest # <<>> /\ Step.op = "flag" /\ ~Lost(Step.what)
      /\ UNCHANGED verdict
  BY DEF FlagSet, At, Step
<1>2. frames' = [frames EXCEPT ![1].rest = Then, ![Len(frames)].got = @ \cup {Step.what}]
  BY DEF FlagSet, Then, Top, Outer
<1>3. PICK f : f = WithRest(Top, Then)
  OBVIOUS
<1>4. PICK n : n = Len(frames)
  OBVIOUS
<1>5. PICK h : h = Put(frames, 1, f)
  OBVIOUS
<1>6. PICK g : g = WithGot(h[n], h[n].got \cup {Step.what})
  OBVIOUS
<1>7. frames' = Ends(f, g)
  BY <1>2, <1>3, <1>4, <1>5, <1>6 DEF Ends, Put, WithGot, WithRest, Top
<1>8. Suits(f, frames, 1) /\ f.got = Top.got /\ f.lost = Top.lost
  BY <1>1, <1>3, Branches, BranchFits
<1>9. /\ FrameFits(h[n], 0) /\ Suits(h[n], h, n)
      /\ n \in Nat /\ n >= 1 /\ Len(h) = n /\ Len(h) - n = 0
  BY <1>1, <1>4, <1>5, <1>8, OuterSuits
<1>10. \A i \in 1 .. n : Step.what \notin h[i].lost
  BY <1>1, <1>4, <1>5, <1>8, StillUnmarked
<1>11. FrameFits(g, 0) /\ g.got = h[n].got \cup {Step.what} /\ g.lost = h[n].lost
  BY <1>6, <1>9, GotFits
<1>12. Suits(g, h, n)
  <2>1. n \in 1 .. Len(h) /\ FrameFits(g, Len(h) - n)
    BY <1>9, <1>11
  <2>2. PICK source : source = Step.what
    OBVIOUS
  <2>3. source \notin h[n].lost /\ \A i \in 1 .. Len(h) : i # n => source \notin h[i].lost
    BY <1>9, <1>10, <2>1, <2>2
  <2>4. g.got = h[n].got \cup {source} /\ g.lost = h[n].lost
    BY <1>11, <2>2
  <2>. QED BY <1>9, <2>1, <2>3, <2>4, MarkGot
<1>. QED
  BY <1>1, <1>4, <1>5, <1>7, <1>8, <1>12, EndsStep

LEMMA FlagClearStep == StackInv /\ FlagClear => StackInv'
<1>. SUFFICES ASSUME StackInv, FlagClear PROVE StackInv'
  OBVIOUS
<1>1. /\ Running /\ Top.rest # <<>> /\ Step.op = "flag" /\ ~Got(Step.what)
      /\ UNCHANGED verdict
  BY DEF FlagClear, At, Step
<1>2. frames' = [frames EXCEPT ![1].rest = Else, ![Len(frames)].lost = @ \cup {Step.what}]
  BY DEF FlagClear, Else, Top, Outer
<1>3. PICK f : f = WithRest(Top, Else)
  OBVIOUS
<1>4. PICK n : n = Len(frames)
  OBVIOUS
<1>5. PICK h : h = Put(frames, 1, f)
  OBVIOUS
<1>6. PICK g : g = WithLost(h[n], h[n].lost \cup {Step.what})
  OBVIOUS
<1>7. frames' = Ends(f, g)
  BY <1>2, <1>3, <1>4, <1>5, <1>6 DEF Ends, Put, WithLost, WithRest, Top
<1>8. Suits(f, frames, 1) /\ f.got = Top.got /\ f.lost = Top.lost
  BY <1>1, <1>3, Branches, BranchFits
<1>9. /\ FrameFits(h[n], 0) /\ Suits(h[n], h, n)
      /\ n \in Nat /\ n >= 1 /\ Len(h) = n /\ Len(h) - n = 0
  BY <1>1, <1>4, <1>5, <1>8, OuterSuits
<1>10. \A i \in 1 .. n : Step.what \notin h[i].got
  BY <1>1, <1>4, <1>5, <1>8, StillUnmarked
<1>11. FrameFits(g, 0) /\ g.lost = h[n].lost \cup {Step.what} /\ g.got = h[n].got
  BY <1>6, <1>9, LostFits
<1>12. Suits(g, h, n)
  <2>1. n \in 1 .. Len(h) /\ FrameFits(g, Len(h) - n)
    BY <1>9, <1>11
  <2>2. PICK source : source = Step.what
    OBVIOUS
  <2>3. source \notin h[n].got /\ \A i \in 1 .. Len(h) : i # n => source \notin h[i].got
    BY <1>9, <1>10, <2>1, <2>2
  <2>4. g.lost = h[n].lost \cup {source} /\ g.got = h[n].got
    BY <1>11, <2>2
  <2>. QED BY <1>9, <2>1, <2>3, <2>4, MarkLost
<1>. QED
  BY <1>1, <1>4, <1>5, <1>7, <1>8, <1>12, EndsStep

LEMMA NewLabelsStep == StackInv /\ NewLabels => StackInv'
<1>. SUFFICES ASSUME StackInv, NewLabels PROVE StackInv'
  OBVIOUS
<1>1. Running /\ Top.rest # <<>> /\ UNCHANGED verdict
  BY DEF NewLabels, At
<1>2. PICK labels : labels = Labels(Step.labels)
  OBVIOUS
<1>3. frames' = [frames EXCEPT ![1].rest = Tail(@), ![Len(frames)].done = @ \cup {labels}]
  BY <1>2 DEF NewLabels, Outer
<1>4. PICK f : f = Passed(Top)
  OBVIOUS
<1>5. PICK n : n = Len(frames)
  OBVIOUS
<1>6. PICK h : h = Put(frames, 1, f)
  OBVIOUS
<1>7. PICK g : g = WithDone(h[n], h[n].done \cup {labels})
  OBVIOUS
<1>8. frames' = Ends(f, g)
  BY <1>3, <1>4, <1>5, <1>6, <1>7 DEF Ends, Put, WithDone, Passed, Top
<1>9. Suits(f, frames, 1)
  BY <1>1, <1>4, TopPassed
<1>10. FrameFits(h[n], 0) /\ Suits(h[n], h, n) /\ Len(h) - n = 0
  BY <1>1, <1>5, <1>6, <1>9, OuterSuits
<1>11. FrameFits(g, 0) /\ g.got = h[n].got /\ g.lost = h[n].lost
  BY <1>7, <1>10, DoneFits
<1>12. Suits(g, h, n)
  BY <1>10, <1>11, SuitsLike
<1>. QED
  BY <1>1, <1>5, <1>6, <1>8, <1>9, <1>12, EndsStep
-----------------------------------------------------------------------------
LEMMA InnerPlace == ASSUME NEW depth \in Nat, depth > 0 PROVE Place(depth) = Inside
<1>1. depth # 0
  OBVIOUS
<1>. QED
  BY <1>1, Zenon DEF Place

\* The frame of a loop's first item, and that of a helper.
LoopFrame(step) ==
    [Frame(step.body) EXCEPT !.key = step.key, !.item = 1, !.label = 1,
                             !.alike = step.alike, !.body = step.body]
HelperFrame(step) == [Frame(step.body) EXCEPT !.failed = step.failed]

LEMMA LoopFrameFits ==
    ASSUME NEW depth \in Nat, depth > 0, NEW step, step.body \in Seq(Inside)
    PROVE  /\ FrameFits(LoopFrame(step), depth)
           /\ LoopFrame(step).got = {} /\ LoopFrame(step).lost = {}
<1>1. PICK f : f = LoopFrame(step)
  OBVIOUS
<1>2. /\ f.rest = step.body /\ f.got = {} /\ f.lost = {} /\ f.key = step.key /\ f.item = 1
      /\ f.body = step.body /\ f.failed = ""
  BY <1>1 DEF LoopFrame, Frame
<1>3. IsFrame(f)
  BY <1>1 DEF LoopFrame, Frame, IsFrame
<1>4. 1 \in 0 .. MaxItems
  BY MaxItemsAssumption
<1>5. f.rest \in Seq(Place(depth))
  <2>1. Place(depth) = Inside
    BY InnerPlace
  <2>. QED BY <1>2, <2>1
<1>6. FrameFits(f, depth)
  BY <1>2, <1>3, <1>4, <1>5 DEF FrameFits
<1>. QED
  BY <1>1, <1>2, <1>6

LEMMA HelperFrameFits ==
    ASSUME NEW depth \in Nat, NEW step, step.body \in Seq(Inside),
           Do(step.failed) \in Place(depth)
    PROVE  /\ FrameFits(HelperFrame(step), depth + 1)
           /\ HelperFrame(step).got = {} /\ HelperFrame(step).lost = {}
<1>1. PICK f : f = HelperFrame(step)
  OBVIOUS
<1>2. /\ f.rest = step.body /\ f.got = {} /\ f.lost = {} /\ f.key = "" /\ f.item = 0
      /\ f.failed = step.failed
  BY <1>1 DEF HelperFrame, Frame
<1>3. IsFrame(f)
  BY <1>1 DEF HelperFrame, Frame, IsFrame
<1>4. 0 \in 0 .. MaxItems /\ depth + 1 > 0 /\ depth + 1 # 0 /\ (depth + 1) - 1 = depth
  BY MaxItemsAssumption
<1>5. f.rest \in Seq(Place(depth + 1))
  BY <1>2, <1>4 DEF Place
<1>6. FrameFits(f, depth + 1)
  BY <1>2, <1>3, <1>4, <1>5 DEF FrameFits
<1>. QED
  BY <1>1, <1>2, <1>6

LEMMA EnterLoopStep == StackInv /\ EnterLoop => StackInv'
<1>. SUFFICES ASSUME StackInv, EnterLoop PROVE StackInv'
  OBVIOUS
<1>1. Running /\ Top.rest # <<>> /\ Step.op = "each" /\ UNCHANGED verdict
  BY DEF EnterLoop, At, Step
<1>2. CASE Goto(Passed(Top))
  BY <1>1, <1>2, TopPassed, GotoStep
<1>3. CASE frames' = <<LoopFrame(Step), Passed(Top)>> \o Tail(frames)
  <2>1. Step.body \in Seq(Inside)
    BY <1>1, TopPassed, PlaceBlock DEF Block
  <2>2. Len(frames) \in Nat /\ Len(frames) > 0
    BY <1>1, TopSuits, TopOfLive
  <2>3. PICK f : f = LoopFrame(Step)
    OBVIOUS
  <2>4. FrameFits(f, Len(frames)) /\ f.got = {} /\ f.lost = {}
    BY <2>1, <2>2, <2>3, LoopFrameFits
  <2>. QED BY <1>1, <1>3, <2>3, <2>4, PushStep
<1>. QED
  BY <1>2, <1>3 DEF EnterLoop, LoopFrame

\* The frame of a loop's next item.
ItemFrame(label) ==
    [Top EXCEPT !.rest = Top.body, !.item = @ + 1, !.label = label,
                !.got = {}, !.lost = {}]

LEMMA OneMore == \A i \in 0 .. MaxItems : i < MaxItems => i + 1 \in 0 .. MaxItems
BY MaxItemsAssumption

LEMMA ItemFrameFits ==
    ASSUME NEW depth \in Nat, FrameFits(Top, depth), Top.key # "", Top.item < MaxItems,
           NEW label
    PROVE  /\ FrameFits(ItemFrame(label), depth)
           /\ ItemFrame(label).got = {} /\ ItemFrame(label).lost = {}
<1>1. PICK f : f = ItemFrame(label)
  OBVIOUS
<1>2. PICK top : top = Top
  OBVIOUS
<1>3. f = [top EXCEPT !.rest = top.body, !.item = @ + 1, !.label = label,
                      !.got = {}, !.lost = {}]
  BY <1>1, <1>2 DEF ItemFrame
<1>4. IsFrame(top)
  BY <1>2 DEF FrameFits
<1>5. /\ f.rest = top.body /\ f.got = {} /\ f.lost = {} /\ f.key = top.key
      /\ f.item = top.item + 1 /\ f.body = top.body /\ f.failed = top.failed
  BY <1>3, <1>4 DEF IsFrame
<1>6. IsFrame(f)
  BY <1>3, <1>4 DEF IsFrame
<1>7. top.item + 1 \in 0 .. MaxItems
  <2>1. top.item \in 0 .. MaxItems /\ top.item < MaxItems
    BY <1>2 DEF FrameFits
  <2>. QED BY <2>1, OneMore
<1>8. depth > 0 /\ top.body \in Seq(Inside) /\ top.key # ""
  BY <1>2 DEF FrameFits
<1>9. f.rest \in Seq(Place(depth))
  <2>1. Place(depth) = Inside
    BY <1>8, InnerPlace
  <2>. QED BY <1>5, <1>8, <2>1
<1>10. top.failed # "" => Do(top.failed) \in Place(depth - 1)
  BY <1>2 DEF FrameFits
<1>11. FrameFits(f, depth)
  BY <1>5, <1>6, <1>7, <1>8, <1>9, <1>10 DEF FrameFits
<1>. QED
  BY <1>1, <1>5, <1>11

LEMMA NextItemStep == StackInv /\ NextItem => StackInv'
<1>. SUFFICES ASSUME StackInv, NextItem PROVE StackInv'
  OBVIOUS
<1>1. Running /\ Top.key # "" /\ Top.item < MaxItems /\ UNCHANGED verdict
  BY DEF NextItem
<1>2. PICK label : Goto(ItemFrame(label))
  BY DEF NextItem, ItemFrame
<1>3. FrameFits(Top, Depth) /\ Depth \in Nat /\ Depth = Len(frames) - 1
  BY <1>1, TopSuits
<1>4. PICK f : f = ItemFrame(label)
  OBVIOUS
<1>5. FrameFits(f, Depth) /\ f.got = {} /\ f.lost = {}
  BY <1>1, <1>3, <1>4, ItemFrameFits
<1>6. Suits(f, frames, 1)
  BY <1>3, <1>5 DEF Suits
<1>. QED
  BY <1>1, <1>2, <1>4, <1>6, GotoStep

LEMMA LeaveLoopStep == StackInv /\ LeaveLoop => StackInv'
<1>. SUFFICES ASSUME StackInv, LeaveLoop PROVE StackInv'
  OBVIOUS
<1>1. Running /\ Top.key # "" /\ frames' = Tail(frames) /\ UNCHANGED verdict
  BY DEF LeaveLoop
<1>2. FrameFits(Top, Depth)
  BY <1>1, TopSuits
<1>3. Depth > 0
  BY <1>1, <1>2 DEF FrameFits
<1>. QED
  BY <1>1, <1>3, PopStep

LEMMA CallHelperStep == StackInv /\ CallHelper => StackInv'
<1>. SUFFICES ASSUME StackInv, CallHelper PROVE StackInv'
  OBVIOUS
<1>1. Running /\ Top.rest # <<>> /\ Step.op = "call" /\ UNCHANGED verdict
  BY DEF CallHelper, At, Step
<1>2. frames' = <<HelperFrame(Step), Passed(Top)>> \o Tail(frames)
  BY DEF CallHelper, HelperFrame
<1>3. Step.body \in Seq(Inside) /\ Do(Step.failed) \in Place(Depth)
  BY <1>1, TopPassed, PlaceBlock DEF Block
<1>4. Depth \in Nat /\ Depth + 1 = Len(frames)
  BY <1>1, TopSuits, TopOfLive
<1>5. PICK f : f = HelperFrame(Step)
  OBVIOUS
<1>6. FrameFits(f, Depth + 1) /\ f.got = {} /\ f.lost = {}
  BY <1>3, <1>4, <1>5, HelperFrameFits
<1>. QED
  BY <1>1, <1>2, <1>4, <1>5, <1>6, PushStep

LEMMA SecondOfLive ==
    ASSUME NEW q, Live(q), Len(q) - 1 > 0, NEW r, r = Tail(q)
    PROVE  /\ Live(r) /\ Len(r) = Len(q) - 1 /\ Len(q) \in Nat
           /\ \A i \in 1 .. Len(q) - 1 : r[i] = q[i + 1]
           /\ r[1] = q[2]
<1>1. Len(q) \in Nat /\ IsStack(q) /\ q # <<>>
  BY TopOfLive DEF Fits
<1>2. Live(r) /\ Len(r) = Len(q) - 1
  BY PopLive
<1>3. \A i \in 1 .. Len(q) - 1 : r[i] = q[i + 1]
  BY <1>1, PopStack
<1>4. 1 \in 1 .. Len(q) - 1 /\ 1 + 1 = 2
  BY <1>1
<1>5. r[1] = q[2]
  BY <1>3, <1>4
<1>. QED
  BY <1>1, <1>2, <1>3, <1>5

\* The caller's frame when its helper has returned.
CallerFrame ==
    [frames[2] EXCEPT !.got = @ \cup Top.got, !.lost = @ \cup Top.lost]

LEMMA HelperReturnsStep == StackInv /\ HelperReturns => StackInv'
<1>. SUFFICES ASSUME StackInv, HelperReturns PROVE StackInv'
  OBVIOUS
<1>1. Running /\ Top.failed # "" /\ UNCHANGED verdict
  BY DEF HelperReturns
<1>2. PICK r : r = Tail(frames)
  OBVIOUS
<1>3. frames' = <<CallerFrame>> \o Tail(r)
  BY <1>2 DEF HelperReturns, CallerFrame
<1>4. Live(frames) /\ Depth = Len(frames) - 1 /\ FrameFits(Top, Depth)
  BY <1>1, TopSuits
<1>5. Depth > 0
  BY <1>1, <1>4 DEF FrameFits
<1>6. /\ Live(r) /\ Len(r) = Len(frames) - 1 /\ Len(frames) \in Nat
      /\ \A i \in 1 .. Len(frames) - 1 : r[i] = frames[i + 1]
      /\ r[1] = frames[2]
  BY <1>2, <1>4, <1>5, SecondOfLive
<1>7. FrameFits(r[1], Len(r) - 1) /\ Len(r) \in Nat /\ Len(r) >= 1
  BY <1>6, TopOfLive
<1>8. PICK depth \in Nat : depth = Len(r) - 1
  BY <1>7
<1>9. PICK f : f = WithGot(r[1], r[1].got \cup Top.got)
  OBVIOUS
<1>10. PICK g : g = WithLost(f, f.lost \cup Top.lost)
  OBVIOUS
<1>11. FrameFits(f, depth) /\ f.got = r[1].got \cup Top.got /\ f.lost = r[1].lost
  BY <1>7, <1>8, <1>9, GotFits
<1>12. FrameFits(g, depth) /\ g.got = f.got /\ g.lost = f.lost \cup Top.lost
  BY <1>10, <1>11, LostFits
<1>13. CallerFrame = g
  BY <1>6, <1>9, <1>10 DEF CallerFrame, WithGot, WithLost
<1>14. Suits(g, r, 1)
  <2>1. Apart(frames)
    BY <1>4, TopOfLive
  <2>2. ASSUME NEW i \in 1 .. Len(r)
        PROVE  /\ r[1].got \cap r[i].lost = {} /\ r[i].got \cap r[1].lost = {}
               /\ Top.got \cap r[i].lost = {} /\ r[i].got \cap Top.lost = {}
    <3>1. i + 1 \in 1 .. Len(frames) /\ 1 \in 1 .. Len(frames) /\ 2 \in 1 .. Len(frames)
          /\ r[i] = frames[i + 1] /\ r[1] = frames[2] /\ Top = frames[1]
      BY <1>6, <1>7 DEF Top
    <3>. QED BY <2>1, <3>1 DEF Apart
  <2>3. Top.got \cap Top.lost = {}
    BY <1>1, TopSuits DEF Suits
  <2>4. r[1].got \cap r[1].lost = {} /\ Top.got \cap r[1].lost = {}
        /\ r[1].got \cap Top.lost = {}
    BY <1>7, <2>2
  <2>5. g.got \cap g.lost = {}
    BY <1>11, <1>12, <2>3, <2>4
  <2>6. ASSUME NEW i \in 1 .. Len(r)
        PROVE  g.got \cap r[i].lost = {} /\ r[i].got \cap g.lost = {}
    BY <1>11, <1>12, <2>2
  <2>. QED BY <1>8, <1>12, <2>5, <2>6 DEF Suits
<1>15. Live(<<g>> \o Tail(r))
  BY <1>6, <1>14, ReplaceLive
<1>. QED
  BY <1>1, <1>3, <1>13, <1>15, StillLive

LEMMA OldLabelsStep == StackInv /\ OldLabels => StackInv'
<1>. SUFFICES ASSUME StackInv, OldLabels PROVE StackInv'
  OBVIOUS
<1>1. Running /\ Top.rest # <<>> /\ React("skip")
  BY DEF OldLabels, At
<1>. QED
  BY <1>1, ReactStep

LEMMA SendSamplesStep == StackInv /\ SendSamples => StackInv'
<1>. SUFFICES ASSUME StackInv, SendSamples PROVE StackInv'
  OBVIOUS
<1>1. Running /\ Top.rest # <<>> /\ Goto(Passed(Top)) /\ UNCHANGED verdict
  BY DEF SendSamples, At
<1>. QED
  BY <1>1, TopPassed, GotoStep

LEMMA DereferenceStep == StackInv /\ Dereference => StackInv'
<1>. SUFFICES ASSUME StackInv, Dereference PROVE StackInv'
  OBVIOUS
<1>1. Running /\ Top.rest # <<>>
  BY DEF Dereference, At
<1>2. CASE Goto(Passed(Top)) /\ UNCHANGED verdict
  BY <1>1, <1>2, TopPassed, GotoStep
<1>3. CASE verdict' = "panic" /\ frames' = <<>>
  BY <1>3, Ended DEF Verdicts
<1>. QED
  BY <1>2, <1>3 DEF Dereference

LEMMA ReturnNilStep == StackInv /\ ReturnNil => StackInv'
<1>. SUFFICES ASSUME StackInv, ReturnNil PROVE StackInv'
  OBVIOUS
<1>1. Running /\ Return(IF Top.late THEN "error" ELSE "nil")
  BY DEF ReturnNil
<1>2. PICK result \in {"nil", "error"} : Return(result)
  BY <1>1
<1>. QED
  BY <1>1, <1>2, ReturnStep
-----------------------------------------------------------------------------
\* One action after the other.
LEMMA NextStack == StackInv /\ [UpdateNext]_updateVars => StackInv'
<1>. SUFFICES ASSUME StackInv, [UpdateNext]_updateVars PROVE StackInv'
  OBVIOUS
<1>1. CASE UNCHANGED updateVars
  BY <1>1 DEF updateVars, StackInv, Live, Fits, Apart, FrameFits, IsFrame, IsStack, Place,
              Verdicts
<1>2. CASE Obtain BY <1>2, ObtainStep
<1>3. CASE Miss BY <1>3, MissStep
<1>4. CASE Act BY <1>4, ActStep
<1>5. CASE Holds BY <1>5, HoldsStep
<1>6. CASE Fails BY <1>6, FailsStep
<1>7. CASE FlagSet BY <1>7, FlagSetStep
<1>8. CASE FlagClear BY <1>8, FlagClearStep
<1>9. CASE EnterLoop BY <1>9, EnterLoopStep
<1>10. CASE NextItem BY <1>10, NextItemStep
<1>11. CASE LeaveLoop BY <1>11, LeaveLoopStep
<1>12. CASE CallHelper BY <1>12, CallHelperStep
<1>13. CASE HelperReturns BY <1>13, HelperReturnsStep
<1>14. CASE NewLabels BY <1>14, NewLabelsStep
<1>15. CASE OldLabels BY <1>15, OldLabelsStep
<1>16. CASE SendSamples BY <1>16, SendSamplesStep
<1>17. CASE Dereference BY <1>17, DereferenceStep
<1>18. CASE ReturnNil BY <1>18, ReturnNilStep
<1>. QED
  BY <1>1, <1>2, <1>3, <1>4, <1>5, <1>6, <1>7, <1>8, <1>9, <1>10, <1>11, <1>12,
     <1>13, <1>14, <1>15, <1>16, <1>17, <1>18 DEF UpdateNext

LEMMA NextSeen == SeenInv /\ [UpdateNext]_updateVars => SeenInv'
<1>. SUFFICES ASSUME SeenInv, [UpdateNext]_updateVars PROVE SeenInv'
  OBVIOUS
<1>1. CASE UNCHANGED <<collector, watched, seen>>
  BY <1>1 DEF SeenInv
<1>2. CASE SendSamples
  <2>1. PICK sample, flaws :
          /\ flaws \subseteq {"unbacked", "repeated"}
          /\ watched' \in IF watched = NotWatching THEN {watched, sample} ELSE {watched}
          /\ seen' = seen \cup {"sample"} \cup flaws
          /\ UNCHANGED collector
    <3>. DEFINE sample == [series |-> Step.series, labels |-> Labels(Step.labels)]
                flaws  == (IF Got(Step.what) THEN {} ELSE {"unbacked"})
                          \cup (IF sample = watched THEN {"repeated"} ELSE {})
    <3>1. flaws \subseteq {"unbacked", "repeated"}
      OBVIOUS
    <3>2. /\ watched' \in IF watched = NotWatching THEN {watched, sample} ELSE {watched}
          /\ seen' = seen \cup {"sample"} \cup flaws
          /\ UNCHANGED collector
      BY <1>2 DEF SendSamples
    <3>. HIDE DEF sample, flaws
    <3>. QED BY <3>1, <3>2
  <2>. QED BY <2>1 DEF SeenInv
<1>. QED
  BY <1>1, <1>2 DEF UpdateNext, updateVars, Obtain, Miss, Act, Holds, Fails,
     FlagSet, FlagClear, EnterLoop, NextItem, LeaveLoop, CallHelper, HelperReturns,
     NewLabels, OldLabels, Dereference, ReturnNil

LEMMA InitStack == UpdateInit => StackInv /\ SeenInv
<1>. SUFFICES ASSUME UpdateInit PROVE StackInv /\ SeenInv
  OBVIOUS
<1>1. SeenInv
  <2>1. collector \in Names /\ watched = NotWatching /\ seen = {}
    BY DEF UpdateInit
  <2>. QED BY <2>1 DEF SeenInv
<1>2. PICK steps \in Seq(Outside) : frames = <<Frame(steps)>>
  BY ScriptAssumption DEF UpdateInit
<1>3. PICK f : f = Frame(steps)
  OBVIOUS
<1>4. FrameFits(f, 0) /\ f.got = {} /\ f.lost = {}
  <2>1. Place(0) = Outside
    BY DEF Place
  <2>. QED BY <1>2, <1>3, <2>1, FrameOf
<1>5. PICK q : q = <<f>>
  OBVIOUS
<1>6. IsStack(q) /\ Len(q) = 1 /\ q[1] = f
  BY <1>5, OneStack
<1>7. ASSUME NEW i \in 1 .. Len(q) PROVE i = 1 /\ Len(q) - i = 0
  BY <1>6
<1>8. Fits(q) /\ Apart(q)
  BY <1>4, <1>6, <1>7 DEF Fits, Apart
<1>9. Live(q)
  BY <1>6, <1>8 DEF Live
<1>10. verdict = "none" /\ verdict \in Verdicts
  BY DEF UpdateInit, Verdicts
<1>11. frames = q
  BY <1>2, <1>3, <1>5
<1>. QED
  BY <1>1, <1>9, <1>10, <1>11 DEF StackInv

LEMMA StackTypeOK == StackInv /\ SeenInv => TypeOK
<1>. SUFFICES ASSUME StackInv, SeenInv PROVE TypeOK
  OBVIOUS
<1>1. CASE verdict = "none"
  <2>1. Live(frames)
    BY <1>1 DEF StackInv
  <2>2. frames # <<>> /\ Fits(frames) /\ Apart(frames) /\ IsStack(frames)
    BY <2>1, TopOfLive DEF Fits
  <2>3. DOMAIN frames = 1 .. Len(frames)
    BY <2>2 DEF IsStack
  <2>4. ASSUME NEW i \in DOMAIN frames
        PROVE  frames[i].got \cap frames[i].lost = {} /\ frames[i].item \in 0 .. MaxItems
    BY <2>2, <2>3 DEF Fits, FrameFits, Apart
  <2>5. (verdict = "none") = (frames # <<>>) /\ verdict \in Verdicts
    BY <1>1, <2>2 DEF StackInv
  <2>. QED BY <2>4, <2>5 DEF TypeOK, SeenInv
<1>2. CASE verdict # "none"
  <2>1. frames = <<>> /\ verdict \in Verdicts
    BY <1>2 DEF StackInv
  <2>2. DOMAIN frames = {}
    BY <2>1
  <2>3. (verdict = "none") = (frames # <<>>)
    BY <1>2, <2>1
  <2>. QED BY <2>1, <2>2, <2>3 DEF TypeOK, SeenInv
<1>. QED
  BY <1>1, <1>2

\* TypeOK, for every script whose breaks are inside loops: an Update that has
\* not ended has a step to go on with or a frame to leave, one that has ended
\* has left them all, none of its frames holds a source as both read and
\* missing - not even when a helper's reads become its caller's -, and a
\* sample is watched only after one was sent.
THEOREM TypeCorrect == UpdateSpec => []TypeOK
<1>1. UpdateInit => StackInv /\ SeenInv
  BY InitStack
<1>2. StackInv /\ SeenInv /\ [UpdateNext]_updateVars => (StackInv /\ SeenInv)'
  BY NextStack, NextSeen
<1>3. StackInv /\ SeenInv => TypeOK
  BY StackTypeOK
<1>. QED
  BY <1>1, <1>2, <1>3, PTL DEF UpdateSpec
=============================================================================
