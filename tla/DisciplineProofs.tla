-------------------------- MODULE DisciplineProofs --------------------------
(***************************************************************************)
(* What an Update sends, and how it ends, for every catalogue that keeps   *)
(* the discipline and every number of items in a loop.                     *)
(***************************************************************************)
EXTENDS Discipline, CollectorUpdateProofs

(***************************************************************************)
(* The frames from the outermost on, which is number 0: a frame keeps its  *)
(* number while it is there.                                               *)
(***************************************************************************)
Inward(q) == [d \in 0 .. Len(q) - 1 |-> q[Len(q) - d]]

LEMMA PushInward ==
    ASSUME NEW q, IsStack(q), NEW f
    PROVE  LET g == Inward(<<f>> \o q)
           IN  /\ Len(<<f>> \o q) = Len(q) + 1
               /\ g[Len(q)] = f
               /\ \A d \in 0 .. Len(q) - 1 : g[d] = Inward(q)[d]
<1>1. PICK r : r = <<f>> \o q
  OBVIOUS
<1>2. Len(r) = Len(q) + 1 /\ r[1] = f /\ Len(q) \in Nat
      /\ \A i \in 1 .. Len(q) : r[i + 1] = q[i]
  BY <1>1, PushStack DEF IsStack
<1>3. Inward(r)[Len(q)] = f
  BY <1>2 DEF Inward
<1>4. ASSUME NEW d \in 0 .. Len(q) - 1
      PROVE  Inward(r)[d] = Inward(q)[d]
  <2>1. Len(q) - d \in 1 .. Len(q) /\ (Len(q) - d) + 1 = Len(r) - d
        /\ d \in 0 .. Len(r) - 1
    BY <1>2
  <2>2. r[Len(r) - d] = q[Len(q) - d]
    BY <1>2, <2>1
  <2>. QED BY <2>1, <2>2 DEF Inward
<1>. QED
  BY <1>1, <1>2, <1>3, <1>4

LEMMA PopInward ==
    ASSUME NEW q, IsStack(q), q # <<>>
    PROVE  /\ Len(Tail(q)) = Len(q) - 1
           /\ \A d \in 0 .. Len(q) - 2 : Inward(Tail(q))[d] = Inward(q)[d]
<1>1. PICK r : r = Tail(q)
  OBVIOUS
<1>2. Len(r) = Len(q) - 1 /\ Len(q) \in Nat
      /\ \A i \in 1 .. Len(q) - 1 : r[i] = q[i + 1]
  BY <1>1, PopStack DEF IsStack
<1>3. ASSUME NEW d \in 0 .. Len(q) - 2
      PROVE  Inward(r)[d] = Inward(q)[d]
  <2>1. Len(r) - d \in 1 .. Len(q) - 1 /\ (Len(r) - d) + 1 = Len(q) - d
        /\ d \in 0 .. Len(q) - 1 /\ d \in 0 .. Len(r) - 1
    BY <1>2
  <2>2. r[Len(r) - d] = q[Len(q) - d]
    BY <1>2, <2>1
  <2>. QED BY <2>1, <2>2 DEF Inward
<1>. QED
  BY <1>1, <1>2, <1>3

LEMMA CutInward ==
    ASSUME NEW q, IsStack(q), NEW k \in 1 .. Len(q), NEW r, r = SubSeq(q, k + 1, Len(q))
    PROVE  /\ Len(r) = Len(q) - k
           /\ \A d \in 0 .. Len(q) - k - 1 : Inward(r)[d] = Inward(q)[d]
<1>1. Len(r) = Len(q) - k /\ Len(q) \in Nat
      /\ \A i \in 1 .. Len(q) - k : r[i] = q[k + i]
  BY CutStack DEF IsStack
<1>2. ASSUME NEW d \in 0 .. Len(q) - k - 1
      PROVE  Inward(r)[d] = Inward(q)[d]
  <2>1. Len(r) - d \in 1 .. Len(q) - k /\ k + (Len(r) - d) = Len(q) - d
        /\ d \in 0 .. Len(q) - 1 /\ d \in 0 .. Len(r) - 1
    BY <1>1
  <2>2. r[Len(r) - d] = q[Len(q) - d]
    BY <1>1, <2>1
  <2>. QED BY <2>1, <2>2 DEF Inward
<1>. QED
  BY <1>1, <1>2

LEMMA PutInward ==
    ASSUME NEW q, IsStack(q), NEW k \in 1 .. Len(q), NEW f
    PROVE  LET g == Inward(Put(q, k, f))
           IN  /\ Len(Put(q, k, f)) = Len(q)
               /\ g[Len(q) - k] = f
               /\ \A d \in 0 .. Len(q) - 1 : d # Len(q) - k => g[d] = Inward(q)[d]
<1>1. PICK r : r = Put(q, k, f)
  OBVIOUS
<1>2. Len(r) = Len(q) /\ r[k] = f /\ Len(q) \in Nat
      /\ \A i \in 1 .. Len(q) : i # k => r[i] = q[i]
  BY <1>1, PutStack DEF IsStack, Put
<1>3. Inward(r)[Len(q) - k] = f
  BY <1>2 DEF Inward
<1>4. ASSUME NEW d \in 0 .. Len(q) - 1, d # Len(q) - k
      PROVE  Inward(r)[d] = Inward(q)[d]
  BY <1>2, <1>4 DEF Inward
<1>. QED
  BY <1>1, <1>2, <1>3, <1>4

\* Goto replaces the innermost frame.
LEMMA GotoInward ==
    ASSUME NEW q, IsStack(q), q # <<>>, NEW f
    PROVE  LET g == Inward(<<f>> \o Tail(q))
           IN  /\ Len(<<f>> \o Tail(q)) = Len(q)
               /\ g[Len(q) - 1] = f
               /\ \A d \in 0 .. Len(q) - 2 : g[d] = Inward(q)[d]
<1>1. PICK t : t = Tail(q)
  OBVIOUS
<1>2. IsStack(t) /\ Len(t) = Len(q) - 1 /\ Len(q) \in Nat
  BY <1>1, PopStack DEF IsStack
<1>3. \A d \in 0 .. Len(q) - 2 : Inward(t)[d] = Inward(q)[d]
  BY <1>1, PopInward
<1>4. Len(<<f>> \o t) = Len(t) + 1 /\ Inward(<<f>> \o t)[Len(t)] = f
      /\ \A d \in 0 .. Len(t) - 1 : Inward(<<f>> \o t)[d] = Inward(t)[d]
  BY <1>2, PushInward
<1>5. Len(t) + 1 = Len(q) /\ 0 .. Len(t) - 1 = 0 .. Len(q) - 2
  BY <1>2
<1>. QED
  BY <1>1, <1>2, <1>3, <1>4, <1>5
-----------------------------------------------------------------------------
\* What is known of a source in frame number d of g.
GotBy(g, d, source)  == source = "" \/ \E e \in 0 .. d : source \in g[e].got
LostBy(g, d, source) == \E e \in 0 .. d : source \in g[e].lost

\* The judgement k is one of J, and true of frame number d of g, when the
\* samples of past were sent.
TrueOf(J, past, g, d, k) ==
    /\ k \in J
    /\ \A source \in k.got : GotBy(g, d, source)
    /\ \A source \in k.lost : LostBy(g, d, source)
    /\ past # {} => k.sent

\* A loop that may go on with another item goes on with a true judgement.
Resumes(J, past, g, js, d) ==
    g[d].key # "" =>
      \E k : /\ TrueOf(J, past, g, d - 1, k)
             /\ k.rest = g[d].body /\ k.sends = js[d].sends /\ (k.sends => k.sent)

\* So does the caller of a helper that fails.
Recovers(J, past, g, js, d) ==
    g[d].failed # "" =>
      \E k : /\ TrueOf(J, past, g, d - 1, k)
             /\ k.rest = <<Do(g[d].failed)>> \o g[d - 1].rest
             /\ k.sends = js[d - 1].sends /\ (js[d].sends => k.sent)

\* Frame number d of g is where js says.
Sits(J, past, g, js, d) ==
    /\ TrueOf(J, past, g, d, js[d])
    /\ g[d].rest \in {js[d].rest, <<>>}
    /\ js[d].sends => \A e \in 0 .. d - 1 : js[e].sent /\ js[e].sends
    /\ d > 0 => Resumes(J, past, g, js, d) /\ Recovers(J, past, g, js, d)

\* So are the first n frames.
Backed(J, past, g, js, n) == \A d \in 0 .. n - 1 : Sits(J, past, g, js, d)

LEMMA TrueGrows ==
    ASSUME NEW J, NEW past, NEW g, NEW h, NEW d \in Nat, NEW k,
           TrueOf(J, past, g, d, k),
           \A e \in 0 .. d : g[e].got \subseteq h[e].got /\ g[e].lost \subseteq h[e].lost
    PROVE  TrueOf(J, past, h, d, k)
BY DEF TrueOf, GotBy, LostBy

LEMMA TrueInside ==
    ASSUME NEW J, NEW past, NEW g, NEW d \in Nat, d > 0, NEW k,
           TrueOf(J, past, g, d - 1, k)
    PROVE  TrueOf(J, past, g, d, k)
<1>1. \A e \in 0 .. d - 1 : e \in 0 .. d
  OBVIOUS
<1>. QED
  BY <1>1 DEF TrueOf, GotBy, LostBy

\* A frame that keeps its steps, and knows more, stays where it is.
LEMMA SitsGrows ==
    ASSUME NEW J, NEW past, NEW g, NEW h, NEW js, NEW d \in Nat,
           Sits(J, past, g, js, d),
           \A e \in 0 .. d :
             /\ g[e].got \subseteq h[e].got /\ g[e].lost \subseteq h[e].lost
             /\ h[e].rest = g[e].rest /\ h[e].key = g[e].key
             /\ h[e].body = g[e].body /\ h[e].failed = g[e].failed
    PROVE  Sits(J, past, h, js, d)
<1>1. TrueOf(J, past, h, d, js[d]) /\ h[d].rest \in {js[d].rest, <<>>}
      /\ (js[d].sends => \A e \in 0 .. d - 1 : js[e].sent /\ js[e].sends)
  BY TrueGrows DEF Sits
<1>2. ASSUME d > 0 PROVE Resumes(J, past, h, js, d) /\ Recovers(J, past, h, js, d)
  <2>1. d - 1 \in Nat /\ d - 1 \in 0 .. d /\ d \in 0 .. d /\ \A e \in 0 .. d - 1 : e \in 0 .. d
    BY <1>2
  <2>2. \A k : TrueOf(J, past, g, d - 1, k) => TrueOf(J, past, h, d - 1, k)
    BY <2>1, TrueGrows
  <2>3. Resumes(J, past, g, js, d) /\ Recovers(J, past, g, js, d)
    BY <1>2 DEF Sits
  <2>. QED BY <2>1, <2>2, <2>3 DEF Resumes, Recovers
<1>. QED
  BY <1>1, <1>2 DEF Sits

LEMMA BackedGrows ==
    ASSUME NEW J, NEW past, NEW g, NEW h, NEW js, NEW n \in Nat, NEW m \in Nat, m <= n,
           Backed(J, past, g, js, n),
           \A e \in 0 .. m - 1 :
             /\ g[e].got \subseteq h[e].got /\ g[e].lost \subseteq h[e].lost
             /\ h[e].rest = g[e].rest /\ h[e].key = g[e].key
             /\ h[e].body = g[e].body /\ h[e].failed = g[e].failed
    PROVE  Backed(J, past, h, js, m)
<1>1. ASSUME NEW d \in 0 .. m - 1 PROVE Sits(J, past, h, js, d)
  <2>1. d \in Nat /\ d \in 0 .. n - 1 /\ \A e \in 0 .. d : e \in 0 .. m - 1
    OBVIOUS
  <2>2. Sits(J, past, g, js, d)
    BY <2>1 DEF Backed
  <2>. QED BY <2>1, <2>2, SitsGrows
<1>. QED
  BY <1>1 DEF Backed

\* The innermost frame goes on with another judgement.
With(js, d, k) == [e \in 0 .. d |-> IF e = d THEN k ELSE js[e]]

LEMMA BackedGoesOn ==
    ASSUME NEW J, NEW past, NEW g, NEW h, NEW js, NEW n \in Nat, NEW k,
           Backed(J, past, g, js, n + 1),
           \A e \in 0 .. n - 1 : h[e] = g[e],
           h[n].key = g[n].key, h[n].body = g[n].body, h[n].failed = g[n].failed,
           TrueOf(J, past, h, n, k), h[n].rest \in {k.rest, <<>>}, k.sends = js[n].sends
    PROVE  Backed(J, past, h, With(js, n, k), n + 1)
<1>1. PICK ks : ks = With(js, n, k)
  OBVIOUS
<1>2. ks[n] = k /\ \A e \in 0 .. n - 1 : ks[e] = js[e]
  BY <1>1 DEF With
<1>3. ASSUME NEW d \in 0 .. n - 1 PROVE Sits(J, past, h, ks, d)
  <2>1. d \in Nat /\ d \in 0 .. n /\ \A e \in 0 .. d : e \in 0 .. n - 1
    OBVIOUS
  <2>2. Sits(J, past, g, js, d)
    BY <2>1 DEF Backed
  <2>3. Sits(J, past, h, js, d)
    BY <2>1, <2>2, SitsGrows
  <2>4. ks[d] = js[d] /\ (d > 0 => ks[d - 1] = js[d - 1])
        /\ \A e \in 0 .. d - 1 : ks[e] = js[e]
    BY <1>2
  <2>. QED BY <2>3, <2>4 DEF Sits, Resumes, Recovers
<1>4. Sits(J, past, h, ks, n)
  <2>1. Sits(J, past, g, js, n)
    BY DEF Backed
  <2>2. ks[n].sends => \A e \in 0 .. n - 1 : ks[e].sent /\ ks[e].sends
    BY <1>2, <2>1 DEF Sits
  <2>3. ASSUME n > 0 PROVE Resumes(J, past, h, ks, n) /\ Recovers(J, past, h, ks, n)
    <3>1. n - 1 \in Nat /\ n - 1 \in 0 .. n - 1
      BY <2>3
    <3>2. \A i : TrueOf(J, past, g, n - 1, i) => TrueOf(J, past, h, n - 1, i)
      BY <3>1, TrueGrows
    <3>3. Resumes(J, past, g, js, n) /\ Recovers(J, past, g, js, n)
      BY <2>1, <2>3 DEF Sits
    <3>4. ks[n].sends = js[n].sends /\ ks[n - 1] = js[n - 1] /\ h[n - 1] = g[n - 1]
      BY <1>2, <3>1
    <3>. QED BY <3>2, <3>3, <3>4 DEF Resumes, Recovers
  <2>. QED BY <1>2, <2>2, <2>3 DEF Sits
<1>5. ASSUME NEW d \in 0 .. (n + 1) - 1 PROVE Sits(J, past, h, ks, d)
  <2>1. d = n \/ d \in 0 .. n - 1
    OBVIOUS
  <2>. QED BY <1>3, <1>4, <2>1
<1>. QED
  BY <1>1, <1>5 DEF Backed

\* Another frame is put inside.
Repeats(f, k) == f.key # "" => f.body = k.rest /\ (k.sends => k.sent)

LEMMA BackedEnters ==
    ASSUME NEW J, NEW past, NEW g, NEW h, NEW js, NEW n \in Nat, n > 0, NEW k,
           Backed(J, past, g, js, n),
           \A e \in 0 .. n - 1 : h[e] = g[e],
           TrueOf(J, past, h, n - 1, k), h[n].rest = k.rest,
           k.sends => \A e \in 0 .. n - 1 : js[e].sent /\ js[e].sends,
           Repeats(h[n], k),
           Recovers(J, past, h, With(js, n, k), n)
    PROVE  Backed(J, past, h, With(js, n, k), n + 1)
<1>1. PICK ks : ks = With(js, n, k)
  OBVIOUS
<1>2. ks[n] = k /\ \A e \in 0 .. n - 1 : ks[e] = js[e]
  BY <1>1 DEF With
<1>3. ASSUME NEW d \in 0 .. n - 1 PROVE Sits(J, past, h, ks, d)
  <2>1. d \in Nat /\ \A e \in 0 .. d : e \in 0 .. n - 1
    OBVIOUS
  <2>2. Sits(J, past, g, js, d)
    BY DEF Backed
  <2>3. Sits(J, past, h, js, d)
    BY <2>1, <2>2, SitsGrows
  <2>4. ks[d] = js[d] /\ (d > 0 => ks[d - 1] = js[d - 1])
        /\ \A e \in 0 .. d - 1 : ks[e] = js[e]
    BY <1>2
  <2>. QED BY <2>3, <2>4 DEF Sits, Resumes, Recovers
<1>4. Sits(J, past, h, ks, n)
  <2>1. TrueOf(J, past, h, n, k)
    BY TrueInside
  <2>2. Resumes(J, past, h, ks, n)
    BY <1>2 DEF Resumes, Repeats
  <2>3. Recovers(J, past, h, ks, n)
    BY <1>1
  <2>4. ks[n].sends => \A e \in 0 .. n - 1 : ks[e].sent /\ ks[e].sends
    BY <1>2
  <2>. QED BY <1>2, <2>1, <2>2, <2>3, <2>4 DEF Sits
<1>5. ASSUME NEW d \in 0 .. (n + 1) - 1 PROVE Sits(J, past, h, ks, d)
  <2>1. d = n \/ d \in 0 .. n - 1
    OBVIOUS
  <2>. QED BY <1>3, <1>4, <2>1
<1>. QED
  BY <1>1, <1>5 DEF Backed

\* Something is sent, where the innermost frame may send and its judgement
\* says that it has.
LEMMA BackedSends ==
    ASSUME NEW J, NEW past, NEW now, NEW g, NEW js, NEW n \in Nat,
           Backed(J, past, g, js, n + 1), js[n].sends, js[n].sent
    PROVE  Backed(J, now, g, js, n + 1)
<1>1. \A e \in 0 .. n : js[e].sent /\ js[e].sends
  <2>1. Sits(J, past, g, js, n)
    BY DEF Backed
  <2>. QED BY <2>1 DEF Sits
<1>2. ASSUME NEW d \in 0 .. n PROVE Sits(J, now, g, js, d)
  <2>1. Sits(J, past, g, js, d) /\ js[d].sends /\ js[d].sent
    BY <1>1 DEF Backed
  <2>2. \A e, i : TrueOf(J, past, g, e, i) /\ i.sent => TrueOf(J, now, g, e, i)
    BY DEF TrueOf
  <2>. QED BY <2>1, <2>2 DEF Sits, Resumes, Recovers
<1>3. 0 .. (n + 1) - 1 = 0 .. n
  OBVIOUS
<1>. QED
  BY <1>2, <1>3 DEF Backed
-----------------------------------------------------------------------------
\* The judgements of c if flags are set, and the stacks that they judge.
InForce(c, flags) == {j \in Judged[c] : j.flags = flags}

Upheld(J, past, q) == \E js : Backed(J, past, Inward(q), js, Len(q))

\* What the outermost frame remembers of the flags.
Allows(c, q, flags) ==
    /\ Inward(q)[0].got \cap Flags[c] \subseteq flags
    /\ Inward(q)[0].lost \cap flags = {}

(***************************************************************************)
(* However the flags are set that were not looked at yet, every frame of a *)
(* running Update is at a place that was judged.                           *)
(***************************************************************************)
Foreseen(c, past, q) ==
    \A flags \in SUBSET Flags[c] :
      Allows(c, q, flags) => Upheld(InForce(c, flags), past, q)

KnownInv == Running => Foreseen(collector, seen, frames)

LEMMA StillKnown ==
    ASSUME UNCHANGED collector, NEW q, frames' = q, NEW now, seen' = now,
           \A flags \in SUBSET Flags[collector] :
             Allows(collector, q, flags) => Upheld(InForce(collector, flags), now, q)
    PROVE  KnownInv'
<1>1. Foreseen(collector', seen', frames')
  BY DEF Foreseen
<1>. QED
  BY <1>1 DEF KnownInv

LEMMA EndedKnown ==
    ASSUME verdict' # "none"
    PROVE  KnownInv'
BY DEF KnownInv, Running

LEMMA AllowsLess ==
    ASSUME NEW c, NEW q, NEW r, NEW flags, Allows(c, r, flags),
           Inward(q)[0].got \subseteq Inward(r)[0].got,
           Inward(q)[0].lost \subseteq Inward(r)[0].lost
    PROVE  Allows(c, q, flags)
BY DEF Allows

\* The rules of the discipline, for the judgements in force.
LEMMA Rule ==
    ASSUME NEW c \in Names, NEW flags, NEW j \in InForce(c, flags)
    PROVE  /\ j \in Judged[c] /\ j.flags = flags
           /\ Permits(c, j)
           /\ \E e \in BOOLEAN : (e => j.sends) /\ Premises(j, e) \subseteq Judged[c]
<1>1. j \in Judged[c] /\ j.flags = flags
  BY DEF InForce
<1>2. Disciplined(c, Judged[c])
  BY DisciplineAssumption
<1>. QED
  BY <1>1, <1>2 DEF Disciplined

LEMMA ReadRule ==
    ASSUME NEW c \in Names, NEW flags, NEW j \in InForce(c, flags),
           j.rest # <<>>, j.rest[1].op = "read"
    PROVE  LET step == j.rest[1]
               after == Tail(j.rest)
           IN  /\ step.what \notin j.lost => Sees(j, after) \in InForce(c, flags)
               /\ step.what \notin j.got /\ "next" \in {step.missing, step.failing} =>
                    Misses(j, after) \in InForce(c, flags)
               /\ step.what \notin j.got /\ "later" \in {step.missing, step.failing} =>
                    Known(j, after) \in InForce(c, flags)
               /\ step.what \notin j.got =>
                    \A reaction \in {step.missing, step.failing} : Tolerates(c, j, reaction)
<1>1. /\ j \in Judged[c] /\ j.flags = flags
      /\ Permits(c, j)
      /\ \E e \in BOOLEAN : (e => j.sends) /\ Premises(j, e) \subseteq Judged[c]
  BY Rule
<1>2. PICK e \in BOOLEAN : Premises(j, e) \subseteq Judged[c]
  BY <1>1
<1>3. Premises(j, e) =
        {k \in {Sees(j, Tail(j.rest))} : j.rest[1].what \notin j.lost}
        \cup {k \in {Misses(j, Tail(j.rest))} :
                j.rest[1].what \notin j.got /\ "next" \in {j.rest[1].missing, j.rest[1].failing}}
        \cup {k \in {Known(j, Tail(j.rest))} :
                j.rest[1].what \notin j.got /\ "later" \in {j.rest[1].missing, j.rest[1].failing}}
  BY DEF Premises
<1>4. /\ Sees(j, Tail(j.rest)).flags = j.flags /\ Misses(j, Tail(j.rest)).flags = j.flags
      /\ Known(j, Tail(j.rest)).flags = j.flags
  BY DEF Sees, Misses, Known, Judgement
<1>5. j.rest[1].what \notin j.got =>
         \A reaction \in {j.rest[1].missing, j.rest[1].failing} : Tolerates(c, j, reaction)
  BY <1>1 DEF Permits
<1>. QED
  BY <1>1, <1>2, <1>3, <1>4, <1>5 DEF InForce

LEMMA DoRule ==
    ASSUME NEW c \in Names, NEW flags, NEW j \in InForce(c, flags),
           j.rest # <<>>, j.rest[1].op = "do"
    PROVE  /\ j.rest[1].reaction \in {"next", "later"} =>
                Known(j, Tail(j.rest)) \in InForce(c, flags)
           /\ Tolerates(c, j, j.rest[1].reaction)
<1>1. /\ j \in Judged[c] /\ j.flags = flags
      /\ Permits(c, j)
      /\ \E e \in BOOLEAN : (e => j.sends) /\ Premises(j, e) \subseteq Judged[c]
  BY Rule
<1>2. PICK e \in BOOLEAN : Premises(j, e) \subseteq Judged[c]
  BY <1>1
<1>3. Premises(j, e) =
        {k \in {Known(j, Tail(j.rest))} : j.rest[1].reaction \in {"next", "later"}}
  BY DEF Premises
<1>4. Known(j, Tail(j.rest)).flags = j.flags
  BY DEF Known, Judgement
<1>5. Tolerates(c, j, j.rest[1].reaction)
  BY <1>1 DEF Permits
<1>. QED
  BY <1>1, <1>2, <1>3, <1>4, <1>5 DEF InForce

LEMMA IfRule ==
    ASSUME NEW c \in Names, NEW flags, NEW j \in InForce(c, flags),
           j.rest # <<>>, j.rest[1].op = "if"
    PROVE  LET step == j.rest[1]
               after == Tail(j.rest)
           IN  /\ step.what \notin j.lost => Sees(j, step.then \o after) \in InForce(c, flags)
               /\ step.what \notin j.got => Misses(j, step.else \o after) \in InForce(c, flags)
<1>1. /\ j \in Judged[c] /\ j.flags = flags
      /\ \E e \in BOOLEAN : (e => j.sends) /\ Premises(j, e) \subseteq Judged[c]
  BY Rule
<1>2. PICK e \in BOOLEAN : Premises(j, e) \subseteq Judged[c]
  BY <1>1
<1>3. Premises(j, e) =
        {k \in {Sees(j, j.rest[1].then \o Tail(j.rest))} : j.rest[1].what \notin j.lost}
        \cup {k \in {Misses(j, j.rest[1].else \o Tail(j.rest))} : j.rest[1].what \notin j.got}
  BY DEF Premises
<1>4. \A steps : Sees(j, steps).flags = j.flags /\ Misses(j, steps).flags = j.flags
  BY DEF Sees, Misses, Judgement
<1>. QED
  BY <1>1, <1>2, <1>3, <1>4 DEF InForce

LEMMA FlagRule ==
    ASSUME NEW c \in Names, NEW flags, NEW j \in InForce(c, flags),
           j.rest # <<>>, j.rest[1].op = "flag"
    PROVE  LET step == j.rest[1]
               after == Tail(j.rest)
           IN  /\ step.what \in Flags[c]
               /\ step.what \in flags => Known(j, step.then \o after) \in InForce(c, flags)
               /\ step.what \notin flags => Known(j, step.else \o after) \in InForce(c, flags)
<1>1. /\ j \in Judged[c] /\ j.flags = flags
      /\ Permits(c, j)
      /\ \E e \in BOOLEAN : (e => j.sends) /\ Premises(j, e) \subseteq Judged[c]
  BY Rule
<1>2. PICK e \in BOOLEAN : Premises(j, e) \subseteq Judged[c]
  BY <1>1
<1>3. Premises(j, e) =
        {Known(j, (IF j.rest[1].what \in j.flags THEN j.rest[1].then ELSE j.rest[1].else)
                  \o Tail(j.rest))}
  BY DEF Premises
<1>4. \A steps : Known(j, steps).flags = j.flags
  BY DEF Known, Judgement
<1>5. j.rest[1].what \in Flags[c]
  BY <1>1 DEF Permits
<1>. QED
  BY <1>1, <1>2, <1>3, <1>4, <1>5 DEF InForce

LEMMA EachRule ==
    ASSUME NEW c \in Names, NEW flags, NEW j \in InForce(c, flags),
           j.rest # <<>>, j.rest[1].op = "each"
    PROVE  \E e \in BOOLEAN :
             /\ e => j.sends
             /\ Into(j, e, j.rest[1].body) \in InForce(c, flags)
             /\ Past(j, e, Tail(j.rest)) \in InForce(c, flags)
<1>1. /\ j \in Judged[c] /\ j.flags = flags
      /\ \E e \in BOOLEAN : (e => j.sends) /\ Premises(j, e) \subseteq Judged[c]
  BY Rule
<1>2. PICK e \in BOOLEAN : (e => j.sends) /\ Premises(j, e) \subseteq Judged[c]
  BY <1>1
<1>3. Premises(j, e) = {Into(j, e, j.rest[1].body), Past(j, e, Tail(j.rest))}
  BY DEF Premises
<1>4. \A steps : Into(j, e, steps).flags = j.flags /\ Past(j, e, steps).flags = j.flags
  BY DEF Into, Past, Judgement
<1>. QED
  BY <1>1, <1>2, <1>3, <1>4 DEF InForce

LEMMA CallRule ==
    ASSUME NEW c \in Names, NEW flags, NEW j \in InForce(c, flags),
           j.rest # <<>>, j.rest[1].op = "call"
    PROVE  \E e \in BOOLEAN :
             /\ e => j.sends
             /\ Into(j, e, j.rest[1].body) \in InForce(c, flags)
             /\ Past(j, e, Tail(j.rest)) \in InForce(c, flags)
             /\ Past(j, e, <<Do(j.rest[1].failed)>> \o Tail(j.rest)) \in InForce(c, flags)
<1>1. /\ j \in Judged[c] /\ j.flags = flags
      /\ \E e \in BOOLEAN : (e => j.sends) /\ Premises(j, e) \subseteq Judged[c]
  BY Rule
<1>2. PICK e \in BOOLEAN : (e => j.sends) /\ Premises(j, e) \subseteq Judged[c]
  BY <1>1
<1>3. Premises(j, e) = {Into(j, e, j.rest[1].body), Past(j, e, Tail(j.rest)),
                        Past(j, e, <<Do(j.rest[1].failed)>> \o Tail(j.rest))}
  BY DEF Premises
<1>4. \A steps : Into(j, e, steps).flags = j.flags /\ Past(j, e, steps).flags = j.flags
  BY DEF Into, Past, Judgement
<1>. QED
  BY <1>1, <1>2, <1>3, <1>4 DEF InForce

LEMMA OnceRule ==
    ASSUME NEW c \in Names, NEW flags, NEW j \in InForce(c, flags),
           j.rest # <<>>, j.rest[1].op = "once"
    PROVE  Known(j, Tail(j.rest)) \in InForce(c, flags)
<1>1. /\ j \in Judged[c] /\ j.flags = flags
      /\ \E e \in BOOLEAN : (e => j.sends) /\ Premises(j, e) \subseteq Judged[c]
  BY Rule
<1>2. PICK e \in BOOLEAN : Premises(j, e) \subseteq Judged[c]
  BY <1>1
<1>3. Premises(j, e) = {Known(j, Tail(j.rest))}
  BY DEF Premises
<1>. QED
  BY <1>1, <1>2, <1>3 DEF InForce, Known, Judgement

LEMMA SendRule ==
    ASSUME NEW c \in Names, NEW flags, NEW j \in InForce(c, flags),
           j.rest # <<>>, j.rest[1].op = "send"
    PROVE  /\ Told(j, Tail(j.rest)) \in InForce(c, flags)
           /\ j.sends
           /\ c \notin Unbacked => j.rest[1].what \in j.got
<1>1. /\ j \in Judged[c] /\ j.flags = flags
      /\ Permits(c, j)
      /\ \E e \in BOOLEAN : (e => j.sends) /\ Premises(j, e) \subseteq Judged[c]
  BY Rule
<1>2. PICK e \in BOOLEAN : Premises(j, e) \subseteq Judged[c]
  BY <1>1
<1>3. Premises(j, e) = {Told(j, Tail(j.rest))}
  BY DEF Premises
<1>4. j.sends /\ (c \notin Unbacked => j.rest[1].what \in j.got)
  BY <1>1 DEF Permits
<1>. QED
  BY <1>1, <1>2, <1>3, <1>4 DEF InForce, Told, Judgement

LEMMA DerefRule ==
    ASSUME NEW c \in Names, NEW flags, NEW j \in InForce(c, flags),
           j.rest # <<>>, j.rest[1].op = "deref"
    PROVE  /\ Sees(j, Tail(j.rest)) \in InForce(c, flags)
           /\ j.rest[1].what \in j.got \/ <<c, j.rest[1].what>> \in MayPanic
<1>1. /\ j \in Judged[c] /\ j.flags = flags
      /\ Permits(c, j)
      /\ \E e \in BOOLEAN : (e => j.sends) /\ Premises(j, e) \subseteq Judged[c]
  BY Rule
<1>2. PICK e \in BOOLEAN : Premises(j, e) \subseteq Judged[c]
  BY <1>1
<1>3. Premises(j, e) = {Sees(j, Tail(j.rest))}
  BY DEF Premises
<1>4. j.rest[1].what \in j.got \/ <<c, j.rest[1].what>> \in MayPanic
  BY <1>1 DEF Permits
<1>. QED
  BY <1>1, <1>2, <1>3, <1>4 DEF InForce, Sees, Judgement
-----------------------------------------------------------------------------
LEMMA Innermost ==
    ASSUME StackInv, Running
    PROVE  /\ Depth \in Nat /\ Len(frames) = Depth + 1
           /\ Live(frames) /\ IsStack(frames) /\ frames # <<>>
           /\ IsFrame(Top)
           /\ Inward(frames)[Depth] = Top
           /\ Inward(frames)[0] = frames[Len(frames)]
           /\ Top.key # "" => Depth > 0
           /\ Top.failed # "" => Depth > 0
           /\ \A source : ~Lost(source) => ~LostBy(Inward(frames), Depth, source)
           /\ \A source : ~Got(source) => ~GotBy(Inward(frames), Depth, source)
           /\ \A source : Got(source) => GotBy(Inward(frames), Depth, source)
<1>1. Live(frames) /\ Depth \in Nat /\ Depth = Len(frames) - 1 /\ FrameFits(Top, Depth)
  BY TopSuits
<1>2. IsStack(frames) /\ frames # <<>> /\ Len(frames) \in Nat
  BY <1>1, TopOfLive DEF Fits
<1>3. Len(frames) = Depth + 1
  BY <1>1, <1>2
<1>4. Inward(frames)[Depth] = Top /\ Inward(frames)[0] = frames[Len(frames)]
  BY <1>1, <1>3 DEF Inward, Top
<1>5. DOMAIN frames = 1 .. Len(frames)
  BY <1>2 DEF IsStack
<1>6. ASSUME NEW e \in 0 .. Depth
      PROVE  \E i \in DOMAIN frames : frames[i] = Inward(frames)[e]
  <2>1. Len(frames) - e \in 1 .. Len(frames) /\ e \in 0 .. Len(frames) - 1
    BY <1>1, <1>3
  <2>. QED BY <1>5, <2>1 DEF Inward
<1>7. ASSUME NEW i \in DOMAIN frames
      PROVE  \E e \in 0 .. Depth : frames[i] = Inward(frames)[e]
  <2>1. Len(frames) - i \in 0 .. Depth /\ Len(frames) - i \in 0 .. Len(frames) - 1
        /\ Len(frames) - (Len(frames) - i) = i
    BY <1>1, <1>3, <1>5
  <2>2. Inward(frames)[Len(frames) - i] = frames[i]
    BY <2>1 DEF Inward
  <2>. QED BY <2>1, <2>2
<1>8. \A source : /\ ~Lost(source) => ~LostBy(Inward(frames), Depth, source)
                  /\ ~Got(source) => ~GotBy(Inward(frames), Depth, source)
                  /\ Got(source) => GotBy(Inward(frames), Depth, source)
  BY <1>6, <1>7 DEF Lost, Got, LostBy, GotBy
<1>. QED
  BY <1>1, <1>2, <1>3, <1>4, <1>8 DEF FrameFits

LEMMA TrueNext ==
    ASSUME NEW J, NEW past, NEW g, NEW h, NEW d \in Nat, NEW j, NEW k \in J,
           TrueOf(J, past, g, d, j),
           \A e \in 0 .. d : g[e].got \subseteq h[e].got /\ g[e].lost \subseteq h[e].lost,
           \A source \in k.got : source \in j.got \/ GotBy(h, d, source),
           \A source \in k.lost : source \in j.lost \/ LostBy(h, d, source),
           past # {} => (j.sent => k.sent)
    PROVE  TrueOf(J, past, h, d, k)
<1>1. TrueOf(J, past, h, d, j)
  BY TrueGrows
<1>. QED
  BY <1>1 DEF TrueOf

\* The innermost frame becomes f, and its judgement k instead of j.
Leads(flags, j, f, k) ==
    /\ k \in InForce(collector, flags)
    /\ f.rest \in {k.rest, <<>>}
    /\ k.sends = j.sends /\ (j.sent => k.sent)
    /\ \A source \in k.got : source \in j.got \/ source \in f.got \/ Got(source)
    /\ \A source \in k.lost : source \in j.lost \/ source \in f.lost

\* j is a true judgement of the innermost frame.
Judges(flags, j) ==
    /\ TrueOf(InForce(collector, flags), seen, Inward(frames), Depth, j)
    /\ Top.rest \in {j.rest, <<>>}

Continues(f) ==
    /\ f.key = Top.key /\ f.body = Top.body /\ f.failed = Top.failed
    /\ Top.got \subseteq f.got /\ Top.lost \subseteq f.lost

LEMMA GotoBacks ==
    ASSUME StackInv, Running, NEW flags, NEW js,
           Backed(InForce(collector, flags), seen, Inward(frames), js, Depth + 1),
           NEW f, Continues(f), NEW k, Leads(flags, js[Depth], f, k)
    PROVE  /\ Len(<<f>> \o Tail(frames)) = Depth + 1
           /\ Backed(InForce(collector, flags), seen, Inward(<<f>> \o Tail(frames)),
                     With(js, Depth, k), Depth + 1)
<1>1. PICK J : J = InForce(collector, flags)
  OBVIOUS
<1>2. PICK q : q = <<f>> \o Tail(frames)
  OBVIOUS
<1>3. PICK g : g = Inward(frames)
  OBVIOUS
<1>4. PICK h : h = Inward(q)
  OBVIOUS
<1>5. /\ Depth \in Nat /\ Len(frames) = Depth + 1 /\ g[Depth] = Top
      /\ \A source : Got(source) => GotBy(g, Depth, source)
      /\ IsStack(frames) /\ frames # <<>>
  BY <1>3, Innermost
<1>6. Len(q) = Depth + 1 /\ h[Depth] = f /\ \A e \in 0 .. Depth - 1 : h[e] = g[e]
  <2>1. Len(q) = Len(frames) /\ h[Len(frames) - 1] = f
        /\ \A e \in 0 .. Len(frames) - 2 : h[e] = g[e]
    BY <1>2, <1>3, <1>4, <1>5, GotoInward
  <2>2. Len(frames) - 1 = Depth /\ Len(frames) - 2 = Depth - 1
    BY <1>5
  <2>. QED BY <1>5, <2>1, <2>2
<1>7. \A e \in 0 .. Depth : g[e].got \subseteq h[e].got /\ g[e].lost \subseteq h[e].lost
  <2>1. ASSUME NEW e \in 0 .. Depth PROVE e = Depth \/ e \in 0 .. Depth - 1
    BY <1>5
  <2>. QED BY <1>5, <1>6, <2>1 DEF Continues
<1>8. Sits(J, seen, g, js, Depth)
  <2>1. Depth \in 0 .. (Depth + 1) - 1
    BY <1>5
  <2>. QED BY <1>1, <1>3, <2>1 DEF Backed
<1>9. TrueOf(J, seen, h, Depth, k)
  <2>1. ASSUME NEW source, source \in f.got \/ Got(source)
        PROVE  GotBy(h, Depth, source)
    <3>1. CASE source \in f.got
      <4>1. Depth \in 0 .. Depth
        BY <1>5
      <4>. QED BY <1>6, <3>1, <4>1 DEF GotBy
    <3>2. CASE Got(source)
      BY <1>5, <1>7, <3>2 DEF GotBy
    <3>. QED BY <2>1, <3>1, <3>2
  <2>2. ASSUME NEW source, source \in f.lost
        PROVE  LostBy(h, Depth, source)
    <3>1. Depth \in 0 .. Depth
      BY <1>5
    <3>. QED BY <1>6, <2>2, <3>1 DEF LostBy
  <2>3. TrueOf(J, seen, g, Depth, js[Depth])
    BY <1>8 DEF Sits
  <2>4. /\ k \in J
        /\ \A source \in k.got : source \in js[Depth].got \/ GotBy(h, Depth, source)
        /\ \A source \in k.lost : source \in js[Depth].lost \/ LostBy(h, Depth, source)
        /\ js[Depth].sent => k.sent
    BY <1>1, <2>1, <2>2 DEF Leads
  <2>. QED BY <1>5, <1>7, <2>3, <2>4, TrueNext
<1>10. h[Depth].key = g[Depth].key /\ h[Depth].body = g[Depth].body
       /\ h[Depth].failed = g[Depth].failed
  BY <1>5, <1>6 DEF Continues
<1>11. h[Depth].rest \in {k.rest, <<>>} /\ k.sends = js[Depth].sends
  BY <1>6 DEF Leads
<1>12. Backed(J, seen, h, With(js, Depth, k), Depth + 1)
  BY <1>1, <1>3, <1>5, <1>6, <1>9, <1>10, <1>11, BackedGoesOn
<1>. QED
  BY <1>1, <1>2, <1>4, <1>6, <1>12

LEMMA GotoBacked ==
    ASSUME StackInv, Running, NEW flags, NEW js,
           Backed(InForce(collector, flags), seen, Inward(frames), js, Depth + 1),
           NEW f, Continues(f), NEW k, Leads(flags, js[Depth], f, k)
    PROVE  Upheld(InForce(collector, flags), seen, <<f>> \o Tail(frames))
BY GotoBacks DEF Upheld

LEMMA Placed ==
    ASSUME StackInv, Running, KnownInv, NEW flags \in SUBSET Flags[collector],
           Allows(collector, frames, flags)
    PROVE  \E js : /\ Backed(InForce(collector, flags), seen, Inward(frames), js, Depth + 1)
                   /\ Sits(InForce(collector, flags), seen, Inward(frames), js, Depth)
                   /\ js[Depth] \in InForce(collector, flags)
                   /\ Judges(flags, js[Depth])
<1>1. Depth \in Nat /\ Len(frames) = Depth + 1 /\ Inward(frames)[Depth] = Top
  BY Innermost
<1>2. PICK js : Backed(InForce(collector, flags), seen, Inward(frames), js, Depth + 1)
  BY <1>1 DEF KnownInv, Foreseen, Upheld
<1>3. Depth \in 0 .. (Depth + 1) - 1
  BY <1>1
<1>4. Sits(InForce(collector, flags), seen, Inward(frames), js, Depth)
  BY <1>2, <1>3 DEF Backed
<1>. QED
  BY <1>1, <1>2, <1>4 DEF Sits, TrueOf, Judges

\* What is remembered of the flags is not forgotten.
LEMMA GotoAllows ==
    ASSUME StackInv, Running, NEW f, NEW flags,
           Depth = 0 => Top.got \subseteq f.got /\ Top.lost \subseteq f.lost,
           Allows(collector, <<f>> \o Tail(frames), flags)
    PROVE  Allows(collector, frames, flags)
<1>1. PICK q : q = <<f>> \o Tail(frames)
  OBVIOUS
<1>2. /\ Depth \in Nat /\ Len(frames) = Depth + 1 /\ Inward(frames)[Depth] = Top
      /\ IsStack(frames) /\ frames # <<>>
  BY Innermost
<1>3. Inward(q)[Len(frames) - 1] = f
      /\ \A e \in 0 .. Len(frames) - 2 : Inward(q)[e] = Inward(frames)[e]
  BY <1>1, <1>2, GotoInward
<1>4. Inward(frames)[0].got \subseteq Inward(q)[0].got
      /\ Inward(frames)[0].lost \subseteq Inward(q)[0].lost
  <2>1. CASE Depth = 0
    <3>1. Len(frames) - 1 = 0
      BY <1>2, <2>1
    <3>. QED BY <1>2, <1>3, <2>1, <3>1
  <2>2. CASE Depth # 0
    <3>1. 0 \in 0 .. Len(frames) - 2
      BY <1>2, <2>2
    <3>. QED BY <1>3, <3>1
  <2>. QED BY <2>1, <2>2
<1>. QED
  BY <1>1, <1>4, AllowsLess

LEMMA GoesOn ==
    ASSUME StackInv, Running, KnownInv, NEW f, Goto(f), Continues(f),
           UNCHANGED <<collector, seen>>,
           \A flags \in SUBSET Flags[collector] : \A j \in InForce(collector, flags) :
             Judges(flags, j) => \E k : Leads(flags, j, f, k)
    PROVE  KnownInv'
<1>1. PICK q : q = <<f>> \o Tail(frames)
  OBVIOUS
<1>2. frames' = q
  BY <1>1 DEF Goto
<1>3. ASSUME NEW flags \in SUBSET Flags[collector], Allows(collector, q, flags)
      PROVE  Upheld(InForce(collector, flags), seen, q)
  <2>1. Allows(collector, frames, flags)
    BY <1>1, <1>3, GotoAllows DEF Continues
  <2>2. PICK js : /\ Backed(InForce(collector, flags), seen, Inward(frames), js, Depth + 1)
                  /\ js[Depth] \in InForce(collector, flags)
                  /\ Judges(flags, js[Depth])
    BY <2>1, Placed
  <2>3. PICK k : Leads(flags, js[Depth], f, k)
    BY <2>2
  <2>. QED BY <1>1, <2>2, <2>3, GotoBacked
<1>. QED
  BY <1>2, <1>3, StillKnown

\* The innermost frame is left for those around it, which may change.
LEMMA LeavesKnown ==
    ASSUME StackInv, Running, KnownInv, NEW q, frames' = q,
           UNCHANGED <<collector, seen>>,
           Len(q) \in 1 .. Depth + 1,
           \A e \in 0 .. Len(q) - 1 :
             /\ Inward(frames)[e].got \subseteq Inward(q)[e].got
             /\ Inward(frames)[e].lost \subseteq Inward(q)[e].lost
             /\ Inward(q)[e].rest = Inward(frames)[e].rest
             /\ Inward(q)[e].key = Inward(frames)[e].key
             /\ Inward(q)[e].body = Inward(frames)[e].body
             /\ Inward(q)[e].failed = Inward(frames)[e].failed
    PROVE  KnownInv'
<1>1. Depth \in Nat
  BY Innermost
<1>2. ASSUME NEW flags \in SUBSET Flags[collector], Allows(collector, q, flags)
      PROVE  Upheld(InForce(collector, flags), seen, q)
  <2>1. 0 \in 0 .. Len(q) - 1
    BY <1>1
  <2>2. Allows(collector, frames, flags)
    BY <1>2, <2>1, AllowsLess
  <2>3. PICK js : Backed(InForce(collector, flags), seen, Inward(frames), js, Depth + 1)
    BY <2>2, Placed
  <2>4. PICK J : J = InForce(collector, flags)
    OBVIOUS
  <2>5. PICK h : h = Inward(q)
    OBVIOUS
  <2>6. Len(q) \in Nat /\ Len(q) <= Depth + 1 /\ Depth + 1 \in Nat
    BY <1>1
  <2>7. Backed(J, seen, h, js, Len(q))
    BY <2>3, <2>4, <2>5, <2>6, BackedGrows
  <2>. QED BY <2>4, <2>5, <2>7 DEF Upheld
<1>. QED
  BY <1>2, StillKnown

LEMMA PopKnown ==
    ASSUME StackInv, Running, KnownInv, frames' = Tail(frames), Depth > 0,
           UNCHANGED <<collector, seen>>
    PROVE  KnownInv'
<1>1. PICK q : q = Tail(frames)
  OBVIOUS
<1>2. /\ Depth \in Nat /\ Len(frames) = Depth + 1
      /\ IsStack(frames) /\ frames # <<>>
  BY Innermost
<1>3. Len(q) = Len(frames) - 1
      /\ \A e \in 0 .. Len(frames) - 2 : Inward(q)[e] = Inward(frames)[e]
  BY <1>1, <1>2, PopInward
<1>4. Len(q) \in 1 .. Depth + 1 /\ Len(q) - 1 = Len(frames) - 2
  BY <1>2, <1>3
<1>. QED
  BY <1>1, <1>3, <1>4, LeavesKnown

LEMMA SameStack ==
    ASSUME NEW q, IsStack(q), NEW r, IsStack(r), Len(q) = Len(r),
           \A i \in 1 .. Len(q) : q[i] = r[i]
    PROVE  q = r
<1>1. q = [i \in 1 .. Len(q) |-> q[i]] /\ r = [i \in 1 .. Len(q) |-> r[i]]
  BY DEF IsStack
<1>2. [i \in 1 .. Len(q) |-> q[i]] = [i \in 1 .. Len(q) |-> r[i]]
  OBVIOUS
<1>. QED
  BY <1>1, <1>2

LEMMA PutFrame ==
    ASSUME NEW q, IsStack(q), NEW k \in 1 .. Len(q), NEW f, NEW r, r = Put(q, k, f)
    PROVE  /\ IsStack(r) /\ Len(r) = Len(q) /\ r[k] = f
           /\ \A i \in 1 .. Len(q) : i # k => r[i] = q[i]
<1>1. r = [q EXCEPT ![k] = f]
  BY DEF Put
<1>2. LET s == [q EXCEPT ![k] = f]
      IN  /\ IsStack(s) /\ Len(s) = Len(q) /\ s[k] = f
          /\ \A i \in 1 .. Len(q) : i # k => s[i] = q[i]
  BY PutStack
<1>. QED
  BY <1>1, <1>2

LEMMA PutOnTop ==
    ASSUME NEW q, IsStack(q), q # <<>>, Len(q) >= 1, NEW f
    PROVE  /\ Put(q, 1, f) = <<f>> \o Tail(q)
           /\ IsStack(Put(q, 1, f)) /\ Len(Put(q, 1, f)) = Len(q)
<1>1. Len(q) \in Nat /\ 1 \in 1 .. Len(q)
  BY DEF IsStack
<1>2. PICK r : r = Put(q, 1, f)
  OBVIOUS
<1>3. IsStack(r) /\ Len(r) = Len(q) /\ r[1] = f
      /\ \A i \in 1 .. Len(q) : i # 1 => r[i] = q[i]
  BY <1>1, <1>2, PutFrame
<1>4. PICK t : t = Tail(q)
  OBVIOUS
<1>5. IsStack(t) /\ Len(t) = Len(q) - 1 /\ \A i \in 1 .. Len(q) - 1 : t[i] = q[i + 1]
  BY <1>4, PopStack
<1>6. PICK u : u = <<f>> \o t
  OBVIOUS
<1>7. IsStack(u) /\ Len(u) = Len(t) + 1 /\ u[1] = f
      /\ \A i \in 1 .. Len(t) : u[i + 1] = t[i]
  BY <1>5, <1>6, PushStack
<1>8. ASSUME NEW i \in 1 .. Len(r) PROVE r[i] = u[i]
  <2>1. CASE i = 1
    BY <1>3, <1>7, <2>1
  <2>2. CASE i # 1
    <3>1. i - 1 \in 1 .. Len(t) /\ (i - 1) + 1 = i /\ i \in 1 .. Len(q) /\ i - 1 \in 1 .. Len(q) - 1
      BY <1>1, <1>3, <1>5, <2>2
    <3>2. u[i] = t[i - 1] /\ t[i - 1] = q[i] /\ r[i] = q[i]
      BY <1>3, <1>5, <1>7, <2>2, <3>1
    <3>. QED BY <3>2
  <2>. QED BY <2>1, <2>2
<1>9. Len(r) = Len(u)
  BY <1>1, <1>3, <1>5, <1>7
<1>10. r = u
  BY <1>3, <1>7, <1>8, <1>9, SameStack
<1>. QED
  BY <1>2, <1>3, <1>4, <1>6, <1>10

\* f on top, and g as the outermost frame, which may know more.
LEMMA EndsKnown ==
    ASSUME StackInv, Running, KnownInv, NEW f, Continues(f),
           NEW h, h = Put(frames, 1, f), NEW g,
           h[Len(frames)].got \subseteq g.got, h[Len(frames)].lost \subseteq g.lost,
           g.rest = h[Len(frames)].rest, g.key = h[Len(frames)].key,
           g.body = h[Len(frames)].body, g.failed = h[Len(frames)].failed,
           frames' = Ends(f, g), UNCHANGED <<collector, seen>>,
           \A flags \in SUBSET Flags[collector] :
             g.got \cap Flags[collector] \subseteq flags /\ g.lost \cap flags = {} =>
               \A j \in InForce(collector, flags) :
                 Judges(flags, j) => \E k : Leads(flags, j, f, k)
    PROVE  KnownInv'
<1>1. PICK n : n = Len(frames)
  OBVIOUS
<1>2. PICK q : q = Put(h, n, g)
  OBVIOUS
<1>3. frames' = q
  BY <1>1, <1>2 DEF Ends
<1>4. /\ Depth \in Nat /\ n = Depth + 1 /\ IsStack(frames) /\ frames # <<>>
  BY <1>1, Innermost
<1>5. n >= 1 /\ n \in Nat
  BY <1>4
<1>6. /\ h = <<f>> \o Tail(frames)
      /\ IsStack(h) /\ Len(h) = Len(frames)
  BY <1>1, <1>4, <1>5, PutOnTop
<1>7. IsStack(h) /\ Len(h) = n
  BY <1>1, <1>6
<1>8. n \in 1 .. Len(h) /\ Len(h) - n = 0 /\ 0 \in 0 .. Len(h) - 1
  BY <1>5, <1>7
<1>9. Len(q) = n /\ Inward(q)[0] = g
      /\ \A e \in 0 .. n - 1 : e # 0 => Inward(q)[e] = Inward(h)[e]
  <2>1. Len(q) = Len(h) /\ Inward(q)[Len(h) - n] = g
        /\ \A e \in 0 .. Len(h) - 1 : e # Len(h) - n => Inward(q)[e] = Inward(h)[e]
    BY <1>2, <1>7, <1>8, PutInward
  <2>. QED BY <1>7, <1>8, <2>1
<1>10. Inward(h)[0] = h[n]
  BY <1>7, <1>8 DEF Inward
<1>11. ASSUME NEW flags \in SUBSET Flags[collector], Allows(collector, q, flags)
       PROVE  Upheld(InForce(collector, flags), seen, q)
  <2>1. Allows(collector, h, flags)
    BY <1>1, <1>9, <1>10, <1>11, AllowsLess
  <2>2. Allows(collector, frames, flags)
    BY <1>6, <2>1, GotoAllows DEF Continues
  <2>3. PICK js : /\ Backed(InForce(collector, flags), seen, Inward(frames), js, Depth + 1)
                  /\ js[Depth] \in InForce(collector, flags)
                  /\ Judges(flags, js[Depth])
    BY <2>2, Placed
  <2>4. g.got \cap Flags[collector] \subseteq flags /\ g.lost \cap flags = {}
    BY <1>9, <1>11 DEF Allows
  <2>5. PICK k : Leads(flags, js[Depth], f, k)
    BY <2>3, <2>4
  <2>6. PICK J : J = InForce(collector, flags)
    OBVIOUS
  <2>7. Upheld(J, seen, h)
    BY <1>6, <2>3, <2>5, <2>6, GotoBacked
  <2>8. PICK ks : Backed(J, seen, Inward(h), ks, n)
    BY <1>7, <2>7 DEF Upheld
  <2>9. ASSUME NEW e \in 0 .. n - 1
        PROVE  /\ Inward(h)[e].got \subseteq Inward(q)[e].got
               /\ Inward(h)[e].lost \subseteq Inward(q)[e].lost
               /\ Inward(q)[e].rest = Inward(h)[e].rest
               /\ Inward(q)[e].key = Inward(h)[e].key
               /\ Inward(q)[e].body = Inward(h)[e].body
               /\ Inward(q)[e].failed = Inward(h)[e].failed
    <3>1. CASE e = 0
      BY <1>1, <1>9, <1>10, <3>1
    <3>2. CASE e # 0
      BY <1>9, <3>2
    <3>. QED BY <3>1, <3>2
  <2>10. PICK a : a = Inward(h)
    OBVIOUS
  <2>11. PICK b : b = Inward(q)
    OBVIOUS
  <2>12. Backed(J, seen, b, ks, n)
    <3>1. n <= n
      BY <1>5
    <3>. QED BY <1>5, <2>8, <2>9, <2>10, <2>11, <3>1, BackedGrows
  <2>. QED BY <1>9, <2>6, <2>11, <2>12 DEF Upheld
<1>. QED
  BY <1>3, <1>11, StillKnown

LEMMA PassedSame ==
    ASSUME NEW f, IsFrame(f)
    PROVE  LET g == Passed(f)
           IN  /\ g.rest = Tail(f.rest)
               /\ g.got = f.got /\ g.lost = f.lost /\ g.key = f.key
               /\ g.body = f.body /\ g.failed = f.failed
BY DEF Passed, IsFrame

LEMMA LateSame ==
    ASSUME NEW f, IsFrame(f)
    PROVE  LET g == WithLate(f)
           IN  /\ g.rest = f.rest
               /\ g.got = f.got /\ g.lost = f.lost /\ g.key = f.key
               /\ g.body = f.body /\ g.failed = f.failed
BY DEF WithLate, IsFrame

LEMMA DoneSame ==
    ASSUME NEW f, IsFrame(f), NEW done
    PROVE  LET g == WithDone(f, done)
           IN  /\ g.rest = f.rest
               /\ g.got = f.got /\ g.lost = f.lost /\ g.key = f.key
               /\ g.body = f.body /\ g.failed = f.failed
BY DEF WithDone, IsFrame

LEMMA GotSame ==
    ASSUME NEW f, IsFrame(f), NEW sources
    PROVE  LET g == WithGot(f, sources)
           IN  /\ g.rest = f.rest
               /\ g.got = sources /\ g.lost = f.lost /\ g.key = f.key
               /\ g.body = f.body /\ g.failed = f.failed
BY DEF WithGot, IsFrame

LEMMA LostSame ==
    ASSUME NEW f, IsFrame(f), NEW sources
    PROVE  LET g == WithLost(f, sources)
           IN  /\ g.rest = f.rest
               /\ g.got = f.got /\ g.lost = sources /\ g.key = f.key
               /\ g.body = f.body /\ g.failed = f.failed
BY DEF WithLost, IsFrame

LEMMA RestSame ==
    ASSUME NEW f, IsFrame(f), NEW steps
    PROVE  LET g == WithRest(f, steps)
           IN  /\ g.rest = steps
               /\ g.got = f.got /\ g.lost = f.lost /\ g.key = f.key
               /\ g.body = f.body /\ g.failed = f.failed
BY DEF WithRest, IsFrame

\* The next step, with what was known before.
LEMMA KnownLeads ==
    ASSUME NEW flags, NEW j, NEW f, NEW steps, Known(j, steps) \in InForce(collector, flags),
           f.rest = steps
    PROVE  Leads(flags, j, f, Known(j, steps))
<1>1. PICK k : k = Known(j, steps)
  OBVIOUS
<1>2. k.rest = steps /\ k.sends = j.sends /\ k.sent = j.sent /\ k.got = j.got /\ k.lost = j.lost
  BY <1>1 DEF Known, Judgement
<1>. QED
  BY <1>1, <1>2 DEF Leads

LEMMA LaterKnown ==
    ASSUME StackInv, Running, KnownInv, Top.rest # <<>>, frames' = Later,
           UNCHANGED <<collector, seen>>,
           \A flags \in SUBSET Flags[collector] : \A j \in InForce(collector, flags) :
             Judges(flags, j) => Known(j, Tail(j.rest)) \in InForce(collector, flags)
    PROVE  KnownInv'
<1>1. PICK n : n = Len(frames)
  OBVIOUS
<1>2. PICK f : f = Passed(Top)
  OBVIOUS
<1>3. PICK h : h = Put(frames, 1, f)
  OBVIOUS
<1>4. PICK g : g = WithLate(h[n])
  OBVIOUS
<1>5. Later = Ends(f, g)
  BY <1>1, <1>2, <1>3, <1>4 DEF Top, Passed, Later, Ends, Put, WithLate
<1>6. Suits(f, frames, 1) /\ IsFrame(Top)
  BY <1>2, TopPassed, Innermost
<1>7. IsFrame(h[n])
  BY <1>1, <1>3, <1>6, OuterSuits DEF FrameFits
<1>8. /\ g.rest = h[n].rest /\ g.got = h[n].got /\ g.lost = h[n].lost /\ g.key = h[n].key
      /\ g.body = h[n].body /\ g.failed = h[n].failed
  BY <1>4, <1>7, LateSame
<1>9. Continues(f) /\ f.rest = Tail(Top.rest)
  BY <1>2, <1>6, PassedSame DEF Continues
<1>10. ASSUME NEW flags \in SUBSET Flags[collector], NEW j \in InForce(collector, flags),
              Judges(flags, j)
       PROVE  \E k : Leads(flags, j, f, k)
  <2>1. j.rest = Top.rest
    BY <1>10 DEF Judges
  <2>2. Known(j, Tail(j.rest)) \in InForce(collector, flags) /\ f.rest = Tail(j.rest)
    BY <1>9, <1>10, <2>1
  <2>. QED BY <2>2, KnownLeads
<1>. QED
  BY <1>1, <1>3, <1>5, <1>8, <1>9, <1>10, EndsKnown

LEMMA RaisedSame ==
    ASSUME NEW q, IsFrame(q[1]), NEW reaction
    PROVE  LET f == Raised(q, reaction)
           IN  /\ f.rest = <<Do(reaction)>> \o q[1].rest
               /\ f.got = q[1].got /\ f.lost = q[1].lost /\ f.key = q[1].key
               /\ f.body = q[1].body /\ f.failed = q[1].failed
BY DEF Raised, IsFrame

\* The caller of a helper that failed.
Calling(k) == frames[k].failed # ""

LEMMA RaiseBacked ==
    ASSUME StackInv, Running, NEW k \in 1 .. Len(frames), Calling(k),
           NEW J, NEW js, Backed(J, seen, Inward(frames), js, Depth + 1)
    PROVE  Upheld(J, seen, <<Raised(Around(k), frames[k].failed)>> \o Tail(Around(k)))
<1>1. PICK r : r = Around(k)
  OBVIOUS
<1>2. PICK m : m = Len(frames) - k
  OBVIOUS
<1>3. /\ Depth \in Nat /\ Len(frames) = Depth + 1 /\ IsStack(frames)
  BY Innermost
<1>4. Live(r)
  BY <1>1, AroundLive DEF Calling
<1>5. IsStack(r) /\ r # <<>> /\ IsFrame(r[1]) /\ Len(r) \in Nat /\ Len(r) >= 1
  BY <1>4, TopOfLive DEF Fits, FrameFits
<1>6. Len(r) = m /\ \A e \in 0 .. m - 1 : Inward(r)[e] = Inward(frames)[e]
  BY <1>1, <1>2, <1>3, CutInward DEF Around
<1>7. m \in Nat /\ m >= 1 /\ m <= Depth /\ m - 1 \in Nat /\ (m - 1) + 1 = m
  BY <1>2, <1>3, <1>5, <1>6
<1>8. PICK g : g = Inward(frames)
  OBVIOUS
<1>9. g[m] = frames[k]
  <2>1. m \in 0 .. Len(frames) - 1 /\ Len(frames) - m = k
    BY <1>2, <1>3, <1>7
  <2>. QED BY <1>8, <2>1 DEF Inward
<1>10. g[m - 1] = r[1]
  <2>1. m - 1 \in 0 .. Len(r) - 1 /\ Len(r) - (m - 1) = 1 /\ m - 1 \in 0 .. m - 1
    BY <1>6, <1>7
  <2>. QED BY <1>6, <1>8, <2>1 DEF Inward
<1>11. Sits(J, seen, g, js, m)
  <2>1. m \in 0 .. (Depth + 1) - 1
    BY <1>3, <1>7
  <2>. QED BY <1>8, <2>1 DEF Backed
<1>12. PICK i : /\ TrueOf(J, seen, g, m - 1, i)
                /\ i.rest = <<Do(g[m].failed)>> \o g[m - 1].rest
                /\ i.sends = js[m - 1].sends
  <2>1. m > 0
    BY <1>7
  <2>2. g[m].failed # ""
    BY <1>9 DEF Calling
  <2>3. Recovers(J, seen, g, js, m)
    BY <1>11, <2>1 DEF Sits
  <2>. QED BY <2>2, <2>3 DEF Recovers
<1>13. PICK a : a = Inward(r)
  OBVIOUS
<1>14. Backed(J, seen, a, js, m)
  <2>1. Depth + 1 \in Nat /\ m <= Depth + 1
    BY <1>3, <1>7
  <2>. QED BY <1>6, <1>7, <1>8, <1>13, <2>1, BackedGrows
<1>15. PICK f : f = Raised(r, frames[k].failed)
  OBVIOUS
<1>16. PICK q : q = <<f>> \o Tail(r)
  OBVIOUS
<1>17. PICK h : h = Inward(q)
  OBVIOUS
<1>18. Len(q) = m /\ h[m - 1] = f /\ \A e \in 0 .. m - 2 : h[e] = a[e]
  BY <1>5, <1>6, <1>13, <1>16, <1>17, GotoInward
<1>19. /\ f.rest = <<Do(frames[k].failed)>> \o r[1].rest
       /\ f.got = r[1].got /\ f.lost = r[1].lost /\ f.key = r[1].key
       /\ f.body = r[1].body /\ f.failed = r[1].failed
  BY <1>5, <1>15, RaisedSame
<1>20. a[m - 1] = r[1]
  <2>1. m - 1 \in 0 .. m - 1
    BY <1>7
  <2>. QED BY <1>6, <1>8, <1>10, <1>13, <2>1
<1>21. TrueOf(J, seen, h, m - 1, i)
  <2>1. ASSUME NEW e \in 0 .. m - 1
        PROVE  g[e].got \subseteq h[e].got /\ g[e].lost \subseteq h[e].lost
    <3>1. CASE e = m - 1
      BY <1>10, <1>18, <1>19, <3>1
    <3>2. CASE e # m - 1
      <4>1. e \in 0 .. m - 2
        BY <1>7, <3>2
      <4>. QED BY <1>6, <1>8, <1>13, <1>18, <4>1
    <3>. QED BY <3>1, <3>2
  <2>. QED BY <1>7, <1>12, <2>1, TrueGrows
<1>22. h[m - 1].rest \in {i.rest, <<>>}
  BY <1>9, <1>10, <1>12, <1>18, <1>19
<1>23. PICK d \in Nat : d = m - 1
  BY <1>7
<1>24. /\ Backed(J, seen, a, js, d + 1)
       /\ \A e \in 0 .. d - 1 : h[e] = a[e]
       /\ h[d].key = a[d].key /\ h[d].body = a[d].body /\ h[d].failed = a[d].failed
       /\ TrueOf(J, seen, h, d, i) /\ h[d].rest \in {i.rest, <<>>} /\ i.sends = js[d].sends
  <2>1. d + 1 = m /\ d - 1 = m - 2
    BY <1>7, <1>23
  <2>. QED BY <1>12, <1>14, <1>18, <1>19, <1>20, <1>21, <1>22, <1>23, <2>1
<1>25. Backed(J, seen, h, With(js, d, i), d + 1)
  BY <1>24, BackedGoesOn
<1>26. d + 1 = Len(q)
  BY <1>7, <1>18, <1>23
<1>. QED
  BY <1>1, <1>16, <1>17, <1>25, <1>26, <1>15 DEF Upheld

\* A return that ends a helper, or the Update.
LEMMA ReturnKnown ==
    ASSUME StackInv, Running, KnownInv,
           NEW result \in {"nil", "nodata", "error", "unbuilt"}, Return(result),
           UNCHANGED <<collector, seen>>
    PROVE  KnownInv'
<1>1. CASE Calls = {}
  <2>1. verdict' # "none"
    BY <1>1 DEF Return
  <2>. QED BY <2>1, EndedKnown
<1>2. CASE Calls # {}
  <2>1. PICK k : k = NearestCall
    OBVIOUS
  <2>2. PICK f : f = Raised(Around(k), frames[k].failed)
    OBVIOUS
  <2>3. frames' = IF result = "nil" THEN Around(k) ELSE <<f>> \o Tail(Around(k))
    BY <1>2, <2>1, <2>2 DEF Return, Raised, Around
  <2>4. k \in 1 .. Len(frames) /\ Calling(k)
    BY <1>2, <2>1, NearestIsCall DEF Calling
  <2>5. PICK r : r = Around(k)
    OBVIOUS
  <2>6. Live(r)
    BY <2>4, <2>5, AroundLive DEF Calling
  <2>7. IsStack(r) /\ r # <<>> /\ IsFrame(r[1]) /\ Len(r) \in Nat /\ Len(r) >= 1
    BY <2>6, TopOfLive DEF Fits, FrameFits
  <2>8. Depth \in Nat /\ Len(frames) = Depth + 1 /\ IsStack(frames)
    BY Innermost
  <2>9. Len(r) = Len(frames) - k
        /\ \A e \in 0 .. (Len(frames) - k) - 1 : Inward(r)[e] = Inward(frames)[e]
    BY <2>4, <2>5, <2>8, CutInward DEF Around
  <2>10. Len(r) \in 1 .. Depth + 1 /\ \A e \in 0 .. Len(r) - 1 : Inward(r)[e] = Inward(frames)[e]
    BY <2>4, <2>7, <2>8, <2>9
  <2>11. CASE result = "nil"
    <3>1. frames' = r
      BY <2>3, <2>5, <2>11
    <3>. QED BY <2>10, <3>1, LeavesKnown
  <2>12. CASE result # "nil"
    <3>1. PICK q : q = <<f>> \o Tail(r)
      OBVIOUS
    <3>2. frames' = q
      BY <2>3, <2>5, <2>12, <3>1
    <3>3. f.got = r[1].got /\ f.lost = r[1].lost
      BY <2>2, <2>5, <2>7, RaisedSame
    <3>4. Len(q) = Len(r) /\ Inward(q)[Len(r) - 1] = f
          /\ \A e \in 0 .. Len(r) - 2 : Inward(q)[e] = Inward(r)[e]
      BY <2>7, <3>1, GotoInward
    <3>5. Inward(r)[Len(r) - 1] = r[1]
      BY <2>7 DEF Inward
    <3>6. Inward(q)[0].got = Inward(frames)[0].got /\ Inward(q)[0].lost = Inward(frames)[0].lost
      <4>1. 0 \in 0 .. Len(r) - 1
        BY <2>7
      <4>2. CASE Len(r) - 1 = 0
        BY <2>10, <3>3, <3>4, <3>5, <4>1, <4>2
      <4>3. CASE Len(r) - 1 # 0
        <5>1. 0 \in 0 .. Len(r) - 2
          BY <2>7, <4>3
        <5>. QED BY <2>10, <3>4, <4>1, <5>1
      <4>. QED BY <4>2, <4>3
    <3>7. ASSUME NEW flags \in SUBSET Flags[collector], Allows(collector, q, flags)
          PROVE  Upheld(InForce(collector, flags), seen, q)
      <4>1. Allows(collector, frames, flags)
        BY <3>6, <3>7 DEF Allows
      <4>2. PICK js : Backed(InForce(collector, flags), seen, Inward(frames), js, Depth + 1)
        BY <4>1, Placed
      <4>. QED BY <2>2, <2>4, <2>5, <3>1, <4>2, RaiseBacked
    <3>. QED BY <3>2, <3>7, StillKnown
  <2>. QED BY <2>11, <2>12
<1>. QED
  BY <1>1, <1>2

LEMMA ReactKnown ==
    ASSUME StackInv, Running, KnownInv, Top.rest # <<>>,
           NEW reaction, reaction = "break" => Depth > 0, React(reaction),
           UNCHANGED <<collector, seen>>,
           reaction \in {"next", "later"} =>
             \A flags \in SUBSET Flags[collector] : \A j \in InForce(collector, flags) :
               Judges(flags, j) => Known(j, Tail(j.rest)) \in InForce(collector, flags)
    PROVE  KnownInv'
<1>1. CASE reaction = "next" /\ Goto(Passed(Top))
  <2>1. PICK f : f = Passed(Top)
    OBVIOUS
  <2>2. Continues(f) /\ f.rest = Tail(Top.rest)
    BY <2>1, Innermost, PassedSame DEF Continues
  <2>3. ASSUME NEW flags \in SUBSET Flags[collector], NEW j \in InForce(collector, flags),
               Judges(flags, j)
        PROVE  \E k : Leads(flags, j, f, k)
    <3>1. j.rest = Top.rest
      BY <2>3 DEF Judges
    <3>2. Known(j, Tail(j.rest)) \in InForce(collector, flags) /\ f.rest = Tail(j.rest)
      BY <1>1, <2>2, <2>3, <3>1
    <3>. QED BY <3>2, KnownLeads
  <2>. QED BY <1>1, <2>1, <2>2, <2>3, GoesOn
<1>2. CASE reaction = "later" /\ frames' = Later
  BY <1>2, LaterKnown
<1>3. CASE reaction = "skip" /\ Goto([Top EXCEPT !.rest = <<>>])
  <2>1. PICK steps : steps = <<>>
    OBVIOUS
  <2>2. PICK f : f = WithRest(Top, steps)
    OBVIOUS
  <2>3. Goto(f)
    BY <1>3, <2>1, <2>2 DEF WithRest
  <2>4. Continues(f) /\ f.rest = <<>>
    <3>1. IsFrame(Top)
      BY Innermost
    <3>2. /\ f.rest = steps /\ f.got = Top.got /\ f.lost = Top.lost /\ f.key = Top.key
          /\ f.body = Top.body /\ f.failed = Top.failed
      BY <2>2, <3>1, RestSame
    <3>. QED BY <2>1, <3>2 DEF Continues
  <2>5. ASSUME NEW flags \in SUBSET Flags[collector], NEW j \in InForce(collector, flags)
        PROVE  Leads(flags, j, f, j)
    BY <2>4, <2>5 DEF Leads
  <2>. QED BY <2>3, <2>4, <2>5, GoesOn
<1>4. CASE reaction = "break" /\ frames' = Tail(frames)
  BY <1>4, PopKnown
<1>5. CASE reaction \in {"nil", "nodata", "error", "unbuilt"} /\ Return(reaction)
  BY <1>5, ReturnKnown
<1>. QED
  BY <1>1, <1>2, <1>3, <1>4, <1>5 DEF React, Later
-----------------------------------------------------------------------------
\* A source that the innermost frame obtains, or finds wanting.
LEMMA SeesLeads ==
    ASSUME NEW flags, NEW j, NEW f, NEW steps, Sees(j, steps) \in InForce(collector, flags),
           f.rest = steps, j.rest[1].what \in f.got \/ Got(j.rest[1].what)
    PROVE  Leads(flags, j, f, Sees(j, steps))
<1>1. PICK k : k = Sees(j, steps)
  OBVIOUS
<1>2. /\ k.rest = steps /\ k.sends = j.sends /\ k.sent = j.sent
      /\ k.got = j.got \cup {j.rest[1].what} /\ k.lost = j.lost
  BY <1>1 DEF Sees, Judgement
<1>. QED
  BY <1>1, <1>2 DEF Leads

LEMMA MissesLeads ==
    ASSUME NEW flags, NEW j, NEW f, NEW steps, Misses(j, steps) \in InForce(collector, flags),
           f.rest = steps, j.rest[1].what \in f.lost
    PROVE  Leads(flags, j, f, Misses(j, steps))
<1>1. PICK k : k = Misses(j, steps)
  OBVIOUS
<1>2. /\ k.rest = steps /\ k.sends = j.sends /\ k.sent = j.sent
      /\ k.lost = j.lost \cup {j.rest[1].what} /\ k.got = j.got
  BY <1>1 DEF Misses, Judgement
<1>. QED
  BY <1>1, <1>2 DEF Leads

\* What a true judgement says of the next step's source.
LEMMA JudgesStep ==
    ASSUME StackInv, Running, Top.rest # <<>>, NEW flags, NEW j, Judges(flags, j)
    PROVE  /\ j.rest = Top.rest /\ j.rest # <<>> /\ j.rest[1] = Step
           /\ \A source : ~Lost(source) => source \notin j.lost
           /\ \A source : ~Got(source) => source \notin j.got
<1>1. j.rest = Top.rest /\ TrueOf(InForce(collector, flags), seen, Inward(frames), Depth, j)
  BY DEF Judges
<1>2. /\ \A source : ~Lost(source) => ~LostBy(Inward(frames), Depth, source)
      /\ \A source : ~Got(source) => ~GotBy(Inward(frames), Depth, source)
  BY Innermost
<1>. QED
  BY <1>1, <1>2 DEF TrueOf, Step

\* A frame with other steps that obtains a source, or finds it wanting.
LEMMA ObtainsSame ==
    ASSUME StackInv, Running, NEW steps, NEW source, NEW f,
           f = WithGot(WithRest(Top, steps), WithRest(Top, steps).got \cup {source})
    PROVE  Continues(f) /\ f.rest = steps /\ source \in f.got
<1>1. PICK g : g = WithRest(Top, steps)
  OBVIOUS
<1>2. IsFrame(Top)
  BY Innermost
<1>3. /\ g.rest = steps /\ g.got = Top.got /\ g.lost = Top.lost /\ g.key = Top.key
      /\ g.body = Top.body /\ g.failed = Top.failed
  BY <1>1, <1>2, RestSame
<1>4. IsFrame(g)
  BY <1>1, <1>2 DEF WithRest, IsFrame
<1>5. PICK sources : sources = g.got \cup {source}
  OBVIOUS
<1>6. f = WithGot(g, sources)
  BY <1>1, <1>5
<1>7. /\ f.rest = g.rest /\ f.got = sources /\ f.lost = g.lost /\ f.key = g.key
      /\ f.body = g.body /\ f.failed = g.failed
  BY <1>4, <1>6, GotSame
<1>. QED
  BY <1>3, <1>5, <1>7 DEF Continues

LEMMA MissesSame ==
    ASSUME StackInv, Running, NEW steps, NEW source, NEW f,
           f = WithLost(WithRest(Top, steps), WithRest(Top, steps).lost \cup {source})
    PROVE  Continues(f) /\ f.rest = steps /\ source \in f.lost
<1>1. PICK g : g = WithRest(Top, steps)
  OBVIOUS
<1>2. IsFrame(Top)
  BY Innermost
<1>3. /\ g.rest = steps /\ g.got = Top.got /\ g.lost = Top.lost /\ g.key = Top.key
      /\ g.body = Top.body /\ g.failed = Top.failed
  BY <1>1, <1>2, RestSame
<1>4. IsFrame(g)
  BY <1>1, <1>2 DEF WithRest, IsFrame
<1>5. PICK sources : sources = g.lost \cup {source}
  OBVIOUS
<1>6. f = WithLost(g, sources)
  BY <1>1, <1>5
<1>7. /\ f.rest = g.rest /\ f.lost = sources /\ f.got = g.got /\ f.key = g.key
      /\ f.body = g.body /\ f.failed = g.failed
  BY <1>4, <1>6, LostSame
<1>. QED
  BY <1>3, <1>5, <1>7 DEF Continues

\* A running Update of a collector, whose place is known.
Foreknown == StackInv /\ KnownInv /\ collector \in Names

LEMMA ObtainKnown == Foreknown /\ Obtain => KnownInv'
<1>. SUFFICES ASSUME StackInv, KnownInv, collector \in Names, Obtain PROVE KnownInv'
  BY DEF Foreknown
<1>1. /\ Running /\ Top.rest # <<>> /\ Step.op = "read" /\ ~Lost(Step.what)
      /\ Goto([Passed(Top) EXCEPT !.got = @ \cup {Step.what}])
      /\ UNCHANGED <<collector, seen>>
  BY DEF Obtain, At, Step
<1>2. PICK steps : steps = Tail(Top.rest)
  OBVIOUS
<1>3. PICK source : source = Step.what
  OBVIOUS
<1>4. PICK f : f = WithGot(WithRest(Top, steps), WithRest(Top, steps).got \cup {source})
  OBVIOUS
<1>5. Goto(f)
  BY <1>1, <1>2, <1>3, <1>4 DEF WithGot, WithRest, Passed
<1>6. Continues(f) /\ f.rest = steps /\ source \in f.got
  BY <1>1, <1>4, ObtainsSame
<1>7. ASSUME NEW flags \in SUBSET Flags[collector], NEW j \in InForce(collector, flags),
             Judges(flags, j)
      PROVE  \E k : Leads(flags, j, f, k)
  <2>1. j.rest = Top.rest /\ j.rest # <<>> /\ j.rest[1] = Step /\ source \notin j.lost
    BY <1>1, <1>3, <1>7, JudgesStep
  <2>2. Sees(j, steps) \in InForce(collector, flags)
    BY <1>1, <1>2, <1>3, <2>1, ReadRule
  <2>. QED BY <1>3, <1>6, <2>1, <2>2, SeesLeads
<1>. QED
  BY <1>1, <1>5, <1>6, <1>7, GoesOn

LEMMA MissKnown == Foreknown /\ Miss => KnownInv'
<1>. SUFFICES ASSUME StackInv, KnownInv, collector \in Names, Miss PROVE KnownInv'
  BY DEF Foreknown
<1>1. /\ Running /\ Top.rest # <<>> /\ Step.op = "read" /\ ~Got(Step.what)
      /\ UNCHANGED <<collector, seen>>
  BY DEF Miss, At, Step
<1>2. PICK reaction \in {Step.missing, Step.failing} :
         IF reaction = "next"
         THEN Goto([Passed(Top) EXCEPT !.lost = @ \cup {Step.what}])
         ELSE React(reaction)
  BY DEF Miss
<1>3. CASE reaction = "next"
  <2>1. PICK steps : steps = Tail(Top.rest)
    OBVIOUS
  <2>2. PICK source : source = Step.what
    OBVIOUS
  <2>3. PICK f : f = WithLost(WithRest(Top, steps), WithRest(Top, steps).lost \cup {source})
    OBVIOUS
  <2>4. Goto(f)
    BY <1>2, <1>3, <2>1, <2>2, <2>3 DEF WithLost, WithRest, Passed
  <2>5. Continues(f) /\ f.rest = steps /\ source \in f.lost
    BY <1>1, <2>3, MissesSame
  <2>6. ASSUME NEW flags \in SUBSET Flags[collector], NEW j \in InForce(collector, flags),
               Judges(flags, j)
        PROVE  \E k : Leads(flags, j, f, k)
    <3>1. j.rest = Top.rest /\ j.rest # <<>> /\ j.rest[1] = Step /\ source \notin j.got
      BY <1>1, <2>2, <2>6, JudgesStep
    <3>2. Misses(j, steps) \in InForce(collector, flags)
      BY <1>1, <1>3, <2>1, <2>2, <3>1, ReadRule
    <3>. QED BY <2>2, <2>5, <3>1, <3>2, MissesLeads
  <2>. QED BY <1>1, <2>4, <2>5, <2>6, GoesOn
<1>4. CASE reaction # "next"
  <2>1. React(reaction)
    BY <1>2, <1>4
  <2>2. reaction = "break" => Depth > 0
    BY <1>1, BreakInside DEF Breaks
  <2>3. ASSUME reaction \in {"next", "later"},
               NEW flags \in SUBSET Flags[collector], NEW j \in InForce(collector, flags),
               Judges(flags, j)
        PROVE  Known(j, Tail(j.rest)) \in InForce(collector, flags)
    <3>1. j.rest # <<>> /\ j.rest[1] = Step /\ Step.what \notin j.got
      BY <1>1, <2>3, JudgesStep
    <3>2. "later" \in {Step.missing, Step.failing}
      BY <1>4, <2>3
    <3>. QED BY <1>1, <3>1, <3>2, ReadRule
  <2>. QED BY <1>1, <2>1, <2>2, <2>3, ReactKnown
<1>. QED
  BY <1>3, <1>4

LEMMA ActKnown == Foreknown /\ Act => KnownInv'
<1>. SUFFICES ASSUME StackInv, KnownInv, collector \in Names, Act PROVE KnownInv'
  BY DEF Foreknown
<1>1. /\ Running /\ Top.rest # <<>> /\ Step.op = "do" /\ React(Step.reaction)
      /\ UNCHANGED <<collector, seen>>
  BY DEF Act, At, Step
<1>2. Step.reaction = "break" => Depth > 0
  BY <1>1, BreakInside DEF Breaks
<1>3. ASSUME Step.reaction \in {"next", "later"},
             NEW flags \in SUBSET Flags[collector], NEW j \in InForce(collector, flags),
             Judges(flags, j)
      PROVE  Known(j, Tail(j.rest)) \in InForce(collector, flags)
  <2>1. j.rest # <<>> /\ j.rest[1] = Step
    BY <1>1, <1>3, JudgesStep
  <2>. QED BY <1>1, <1>3, <2>1, DoRule
<1>4. PICK reaction : reaction = Step.reaction
  OBVIOUS
<1>. QED
  BY <1>1, <1>2, <1>3, <1>4, ReactKnown

LEMMA HoldsKnown == Foreknown /\ Holds => KnownInv'
<1>. SUFFICES ASSUME StackInv, KnownInv, collector \in Names, Holds PROVE KnownInv'
  BY DEF Foreknown
<1>1. /\ Running /\ Top.rest # <<>> /\ Step.op = "if" /\ ~Lost(Step.what)
      /\ Goto([Top EXCEPT !.rest = Step.then \o Tail(@), !.got = @ \cup {Step.what}])
      /\ UNCHANGED <<collector, seen>>
  BY DEF Holds, At, Step
<1>2. PICK steps : steps = Step.then \o Tail(Top.rest)
  OBVIOUS
<1>3. PICK source : source = Step.what
  OBVIOUS
<1>4. PICK f : f = WithGot(WithRest(Top, steps), WithRest(Top, steps).got \cup {source})
  OBVIOUS
<1>5. Goto(f)
  BY <1>1, <1>2, <1>3, <1>4 DEF WithGot, WithRest
<1>6. Continues(f) /\ f.rest = steps /\ source \in f.got
  BY <1>1, <1>4, ObtainsSame
<1>7. ASSUME NEW flags \in SUBSET Flags[collector], NEW j \in InForce(collector, flags),
             Judges(flags, j)
      PROVE  \E k : Leads(flags, j, f, k)
  <2>1. j.rest = Top.rest /\ j.rest # <<>> /\ j.rest[1] = Step /\ source \notin j.lost
    BY <1>1, <1>3, <1>7, JudgesStep
  <2>2. Sees(j, steps) \in InForce(collector, flags)
    BY <1>1, <1>2, <1>3, <2>1, IfRule
  <2>. QED BY <1>3, <1>6, <2>1, <2>2, SeesLeads
<1>. QED
  BY <1>1, <1>5, <1>6, <1>7, GoesOn

LEMMA FailsKnown == Foreknown /\ Fails => KnownInv'
<1>. SUFFICES ASSUME StackInv, KnownInv, collector \in Names, Fails PROVE KnownInv'
  BY DEF Foreknown
<1>1. /\ Running /\ Top.rest # <<>> /\ Step.op = "if" /\ ~Got(Step.what)
      /\ Goto([Top EXCEPT !.rest = Step.else \o Tail(@), !.lost = @ \cup {Step.what}])
      /\ UNCHANGED <<collector, seen>>
  BY DEF Fails, At, Step
<1>2. PICK steps : steps = Step.else \o Tail(Top.rest)
  OBVIOUS
<1>3. PICK source : source = Step.what
  OBVIOUS
<1>4. PICK f : f = WithLost(WithRest(Top, steps), WithRest(Top, steps).lost \cup {source})
  OBVIOUS
<1>5. Goto(f)
  BY <1>1, <1>2, <1>3, <1>4 DEF WithLost, WithRest
<1>6. Continues(f) /\ f.rest = steps /\ source \in f.lost
  BY <1>1, <1>4, MissesSame
<1>7. ASSUME NEW flags \in SUBSET Flags[collector], NEW j \in InForce(collector, flags),
             Judges(flags, j)
      PROVE  \E k : Leads(flags, j, f, k)
  <2>1. j.rest = Top.rest /\ j.rest # <<>> /\ j.rest[1] = Step /\ source \notin j.got
    BY <1>1, <1>3, <1>7, JudgesStep
  <2>2. Misses(j, steps) \in InForce(collector, flags)
    BY <1>1, <1>2, <1>3, <2>1, IfRule
  <2>. QED BY <1>3, <1>6, <2>1, <2>2, MissesLeads
<1>. QED
  BY <1>1, <1>5, <1>6, <1>7, GoesOn

LEMMA FlagSetKnown == Foreknown /\ FlagSet => KnownInv'
<1>. SUFFICES ASSUME StackInv, KnownInv, collector \in Names, FlagSet PROVE KnownInv'
  BY DEF Foreknown
<1>1. /\ Running /\ Top.rest # <<>> /\ Step.op = "flag"
      /\ UNCHANGED <<collector, seen>>
  BY DEF FlagSet, At, Step
<1>2. frames' = [frames EXCEPT ![1].rest = Then, ![Len(frames)].got = @ \cup {Step.what}]
  BY DEF FlagSet, Then, Top, Outer
<1>3. PICK f : f = WithRest(Top, Then)
  OBVIOUS
<1>4. PICK n : n = Len(frames)
  OBVIOUS
<1>5. PICK h : h = Put(frames, 1, f)
  OBVIOUS
<1>6. PICK sources : sources = h[n].got \cup {Step.what}
  OBVIOUS
<1>7. PICK g : g = WithGot(h[n], sources)
  OBVIOUS
<1>8. frames' = Ends(f, g)
  BY <1>2, <1>3, <1>4, <1>5, <1>6, <1>7 DEF Ends, Put, WithGot, WithRest, Top
<1>9. Suits(f, frames, 1) /\ IsFrame(Top)
  BY <1>1, <1>3, Branches, BranchFits, Innermost
<1>10. IsFrame(h[n])
  BY <1>1, <1>4, <1>5, <1>9, OuterSuits DEF FrameFits
<1>11. /\ g.rest = h[n].rest /\ g.got = sources /\ g.lost = h[n].lost /\ g.key = h[n].key
       /\ g.body = h[n].body /\ g.failed = h[n].failed
  BY <1>7, <1>10, GotSame
<1>12. h[n].got \subseteq g.got /\ h[n].lost \subseteq g.lost /\ Step.what \in g.got
  BY <1>6, <1>11
<1>13. Continues(f) /\ f.rest = Then
  BY <1>3, <1>9, RestSame DEF Continues
<1>14. ASSUME NEW flags \in SUBSET Flags[collector],
              g.got \cap Flags[collector] \subseteq flags,
              NEW j \in InForce(collector, flags), Judges(flags, j)
       PROVE  \E k : Leads(flags, j, f, k)
  <2>1. j.rest = Top.rest /\ j.rest # <<>> /\ j.rest[1] = Step
    BY <1>1, <1>14, JudgesStep
  <2>2. Step.what \in Flags[collector]
    BY <1>1, <2>1, FlagRule
  <2>3. Step.what \in flags
    BY <1>12, <1>14, <2>2
  <2>4. Known(j, Then) \in InForce(collector, flags)
    BY <1>1, <2>1, <2>3, FlagRule DEF Then
  <2>. QED BY <1>13, <2>4, KnownLeads
<1>. QED
  BY <1>1, <1>4, <1>5, <1>8, <1>11, <1>12, <1>13, <1>14, EndsKnown

LEMMA FlagClearKnown == Foreknown /\ FlagClear => KnownInv'
<1>. SUFFICES ASSUME StackInv, KnownInv, collector \in Names, FlagClear PROVE KnownInv'
  BY DEF Foreknown
<1>1. /\ Running /\ Top.rest # <<>> /\ Step.op = "flag"
      /\ UNCHANGED <<collector, seen>>
  BY DEF FlagClear, At, Step
<1>2. frames' = [frames EXCEPT ![1].rest = Else, ![Len(frames)].lost = @ \cup {Step.what}]
  BY DEF FlagClear, Else, Top, Outer
<1>3. PICK f : f = WithRest(Top, Else)
  OBVIOUS
<1>4. PICK n : n = Len(frames)
  OBVIOUS
<1>5. PICK h : h = Put(frames, 1, f)
  OBVIOUS
<1>6. PICK sources : sources = h[n].lost \cup {Step.what}
  OBVIOUS
<1>7. PICK g : g = WithLost(h[n], sources)
  OBVIOUS
<1>8. frames' = Ends(f, g)
  BY <1>2, <1>3, <1>4, <1>5, <1>6, <1>7 DEF Ends, Put, WithLost, WithRest, Top
<1>9. Suits(f, frames, 1) /\ IsFrame(Top)
  BY <1>1, <1>3, Branches, BranchFits, Innermost
<1>10. IsFrame(h[n])
  BY <1>1, <1>4, <1>5, <1>9, OuterSuits DEF FrameFits
<1>11. /\ g.rest = h[n].rest /\ g.lost = sources /\ g.got = h[n].got /\ g.key = h[n].key
       /\ g.body = h[n].body /\ g.failed = h[n].failed
  BY <1>7, <1>10, LostSame
<1>12. h[n].got \subseteq g.got /\ h[n].lost \subseteq g.lost /\ Step.what \in g.lost
  BY <1>6, <1>11
<1>13. Continues(f) /\ f.rest = Else
  BY <1>3, <1>9, RestSame DEF Continues
<1>14. ASSUME NEW flags \in SUBSET Flags[collector], g.lost \cap flags = {},
              NEW j \in InForce(collector, flags), Judges(flags, j)
       PROVE  \E k : Leads(flags, j, f, k)
  <2>1. j.rest = Top.rest /\ j.rest # <<>> /\ j.rest[1] = Step
    BY <1>1, <1>14, JudgesStep
  <2>2. Step.what \notin flags
    BY <1>12, <1>14
  <2>3. Known(j, Else) \in InForce(collector, flags)
    BY <1>1, <2>1, <2>2, FlagRule DEF Else
  <2>. QED BY <1>13, <2>3, KnownLeads
<1>. QED
  BY <1>1, <1>4, <1>5, <1>8, <1>11, <1>12, <1>13, <1>14, EndsKnown

LEMMA NewLabelsKnown == Foreknown /\ NewLabels => KnownInv'
<1>. SUFFICES ASSUME StackInv, KnownInv, collector \in Names, NewLabels PROVE KnownInv'
  BY DEF Foreknown
<1>1. /\ Running /\ Top.rest # <<>> /\ Step.op = "once"
      /\ UNCHANGED <<collector, seen>>
  BY DEF NewLabels, At, Step
<1>2. PICK labels : labels = Labels(Step.labels)
  OBVIOUS
<1>3. frames' = [frames EXCEPT ![1].rest = Tail(@), ![Len(frames)].done = @ \cup {labels}]
  BY <1>2 DEF NewLabels, Outer
<1>4. PICK f : f = Passed(Top)
  OBVIOUS
<1>5. PICK n : n = Len(frames)
  OBVIOUS
<1>6. PICK h : h = Put(frames, 1, f)
  OBVIOUS
<1>7. PICK done : done = h[n].done \cup {labels}
  OBVIOUS
<1>8. PICK g : g = WithDone(h[n], done)
  OBVIOUS
<1>9. frames' = Ends(f, g)
  BY <1>3, <1>4, <1>5, <1>6, <1>7, <1>8 DEF Ends, Put, WithDone, Passed, Top
<1>10. Suits(f, frames, 1) /\ IsFrame(Top)
  BY <1>1, <1>4, TopPassed, Innermost
<1>11. IsFrame(h[n])
  BY <1>1, <1>5, <1>6, <1>10, OuterSuits DEF FrameFits
<1>12. /\ g.rest = h[n].rest /\ g.got = h[n].got /\ g.lost = h[n].lost /\ g.key = h[n].key
       /\ g.body = h[n].body /\ g.failed = h[n].failed
  BY <1>8, <1>11, DoneSame
<1>13. Continues(f) /\ f.rest = Tail(Top.rest)
  BY <1>4, <1>10, PassedSame DEF Continues
<1>14. ASSUME NEW flags \in SUBSET Flags[collector],
              NEW j \in InForce(collector, flags), Judges(flags, j)
       PROVE  \E k : Leads(flags, j, f, k)
  <2>1. j.rest = Top.rest /\ j.rest # <<>> /\ j.rest[1] = Step
    BY <1>1, <1>14, JudgesStep
  <2>2. Known(j, Tail(j.rest)) \in InForce(collector, flags) /\ f.rest = Tail(j.rest)
    BY <1>1, <1>13, <2>1, OnceRule
  <2>. QED BY <2>2, KnownLeads
<1>. QED
  BY <1>1, <1>5, <1>6, <1>9, <1>12, <1>13, <1>14, EndsKnown

LEMMA OldLabelsKnown == Foreknown /\ OldLabels => KnownInv'
<1>. SUFFICES ASSUME StackInv, KnownInv, collector \in Names, OldLabels PROVE KnownInv'
  BY DEF Foreknown
<1>1. Running /\ Top.rest # <<>> /\ React("skip") /\ UNCHANGED <<collector, seen>>
  BY DEF OldLabels, At
<1>2. PICK reaction : reaction = "skip"
  OBVIOUS
<1>3. React(reaction) /\ reaction \notin {"next", "later", "break"}
  BY <1>1, <1>2
<1>. QED
  BY <1>1, <1>3, ReactKnown

LEMMA DereferenceKnown == Foreknown /\ Dereference => KnownInv'
<1>. SUFFICES ASSUME StackInv, KnownInv, collector \in Names, Dereference PROVE KnownInv'
  BY DEF Foreknown
<1>1. /\ Running /\ Top.rest # <<>> /\ Step.op = "deref"
      /\ UNCHANGED <<collector, seen>>
  BY DEF Dereference, At, Step
<1>2. CASE Got(Step.what)
  <2>1. PICK f : f = Passed(Top)
    OBVIOUS
  <2>2. Goto(f)
    BY <1>2, <2>1 DEF Dereference
  <2>3. Continues(f) /\ f.rest = Tail(Top.rest)
    BY <1>1, <2>1, Innermost, PassedSame DEF Continues
  <2>4. ASSUME NEW flags \in SUBSET Flags[collector], NEW j \in InForce(collector, flags),
               Judges(flags, j)
        PROVE  \E k : Leads(flags, j, f, k)
    <3>1. j.rest = Top.rest /\ j.rest # <<>> /\ j.rest[1] = Step
      BY <1>1, <2>4, JudgesStep
    <3>2. Sees(j, Tail(j.rest)) \in InForce(collector, flags) /\ f.rest = Tail(j.rest)
      BY <1>1, <2>3, <3>1, DerefRule
    <3>3. Got(j.rest[1].what)
      BY <1>2, <3>1
    <3>. QED BY <3>2, <3>3, SeesLeads
  <2>. QED BY <1>1, <2>2, <2>3, <2>4, GoesOn
<1>3. CASE ~Got(Step.what)
  <2>1. verdict' = "panic"
    BY <1>3 DEF Dereference
  <2>. QED BY <2>1, EndedKnown
<1>. QED
  BY <1>2, <1>3

LEMMA ReturnNilKnown == Foreknown /\ ReturnNil => KnownInv'
<1>. SUFFICES ASSUME StackInv, KnownInv, collector \in Names, ReturnNil PROVE KnownInv'
  BY DEF Foreknown
<1>1. /\ Running /\ Return(IF Top.late THEN "error" ELSE "nil")
      /\ UNCHANGED <<collector, seen>>
  BY DEF ReturnNil
<1>2. PICK result \in {"nil", "error"} : Return(result)
  BY <1>1
<1>. QED
  BY <1>1, <1>2, ReturnKnown

\* A loop's first item, and a helper, are put on top of the frame they are in.
OfBody(f) == f.key # "" => f.body = f.rest

Enters(flags, j, e, f) ==
    /\ e => j.sends
    /\ Into(j, e, f.rest) \in InForce(collector, flags)
    /\ Past(j, e, Tail(j.rest)) \in InForce(collector, flags)
    /\ f.failed # "" =>
         Past(j, e, <<Do(f.failed)>> \o Tail(j.rest)) \in InForce(collector, flags)

LEMMA EntersBacked ==
    ASSUME StackInv, Running, Top.rest # <<>>, NEW flags, NEW js,
           Backed(InForce(collector, flags), seen, Inward(frames), js, Depth + 1),
           Judges(flags, js[Depth]),
           NEW e \in BOOLEAN, NEW f, OfBody(f), Enters(flags, js[Depth], e, f)
    PROVE  /\ Upheld(InForce(collector, flags), seen, <<f>> \o (<<Passed(Top)>> \o Tail(frames)))
<1>1. PICK J : J = InForce(collector, flags)
  OBVIOUS
<1>2. PICK p : p = Passed(Top)
  OBVIOUS
<1>3. PICK q : q = <<p>> \o Tail(frames)
  OBVIOUS
<1>4. PICK r : r = <<f>> \o q
  OBVIOUS
<1>5. PICK j : j = js[Depth]
  OBVIOUS
<1>6. PICK after : after = Past(j, e, Tail(j.rest))
  OBVIOUS
<1>7. PICK into : into = Into(j, e, f.rest)
  OBVIOUS
<1>8. PICK ks : ks = With(js, Depth, after)
  OBVIOUS
<1>9. /\ Depth \in Nat /\ Len(frames) = Depth + 1 /\ Inward(frames)[Depth] = Top
      /\ IsStack(frames) /\ frames # <<>> /\ IsFrame(Top)
  BY Innermost
<1>10. Continues(p) /\ p.rest = Tail(Top.rest) /\ p.got = Top.got /\ p.lost = Top.lost
  BY <1>2, <1>9, PassedSame DEF Continues
<1>11. j.rest = Top.rest
  BY <1>5, JudgesStep
<1>12. /\ after.rest = Tail(j.rest) /\ after.sends = j.sends
       /\ after.got = j.got /\ after.lost = j.lost
       /\ (j.sent => after.sent) /\ (e => after.sent)
  BY <1>6 DEF Past, Judgement
<1>13. /\ into.rest = f.rest /\ into.got = j.got /\ into.lost = j.lost
       /\ (into.sends => e) /\ (j.sent => into.sent) /\ (e => into.sent)
  BY <1>7 DEF Into, Judgement
<1>14. Leads(flags, j, p, after)
  BY <1>5, <1>6, <1>10, <1>11, <1>12 DEF Leads, Enters
<1>15. Len(q) = Depth + 1 /\ Backed(J, seen, Inward(q), ks, Depth + 1)
  BY <1>1, <1>3, <1>5, <1>8, <1>10, <1>14, GotoBacks
<1>16. IsStack(q)
  <2>1. PICK t : t = Tail(frames)
    OBVIOUS
  <2>2. IsStack(t)
    BY <1>9, <2>1, PopStack
  <2>. QED BY <1>3, <2>1, <2>2, PushStack
<1>17. PICK g : g = Inward(q)
  OBVIOUS
<1>18. PICK h : h = Inward(r)
  OBVIOUS
<1>19. PICK n \in Nat : n = Depth + 1
  BY <1>9
<1>20. /\ Len(r) = n + 1 /\ h[n] = f /\ n > 0 /\ n - 1 = Depth
       /\ \A d \in 0 .. n - 1 : h[d] = g[d]
  BY <1>4, <1>9, <1>15, <1>16, <1>17, <1>18, <1>19, PushInward
<1>21. Sits(J, seen, g, ks, Depth)
  <2>1. Depth \in 0 .. (Depth + 1) - 1
    BY <1>9
  <2>. QED BY <1>15, <1>17, <2>1 DEF Backed
<1>22. Sits(J, seen, Inward(frames), js, Depth)
  <2>1. Depth \in 0 .. (Depth + 1) - 1
    BY <1>9
  <2>. QED BY <1>1, <2>1 DEF Backed
<1>23. /\ ks[Depth] = after /\ \A d \in 0 .. Depth - 1 : ks[d] = js[d]
  BY <1>8, <1>9 DEF With
<1>24. TrueOf(J, seen, h, Depth, j)
  <2>1. \A d \in 0 .. Depth :
          Inward(frames)[d].got \subseteq h[d].got /\ Inward(frames)[d].lost \subseteq h[d].lost
    <3>1. ASSUME NEW d \in 0 .. Depth PROVE d \in 0 .. n - 1 /\ (d = Depth \/ d \in 0 .. Depth - 1)
      BY <1>9, <1>19
    <3>2. g[Depth] = p /\ \A d \in 0 .. Depth - 1 : g[d] = Inward(frames)[d]
      <4>1. g[Len(frames) - 1] = p
            /\ \A d \in 0 .. Len(frames) - 2 : g[d] = Inward(frames)[d]
        BY <1>3, <1>9, <1>17, GotoInward
      <4>2. Len(frames) - 1 = Depth /\ Len(frames) - 2 = Depth - 1
        BY <1>9
      <4>. QED BY <4>1, <4>2
    <3>. QED BY <1>9, <1>10, <1>20, <3>1, <3>2
  <2>. QED BY <1>5, <1>9, <1>22, <2>1, TrueGrows DEF Sits
<1>25. TrueOf(J, seen, h, n - 1, into)
  <2>1. into \in J
    BY <1>1, <1>5, <1>7 DEF Enters
  <2>. QED BY <1>13, <1>20, <1>24, <2>1 DEF TrueOf
<1>26. into.sends => \A d \in 0 .. n - 1 : ks[d].sent /\ ks[d].sends
  <2>1. ASSUME into.sends, NEW d \in 0 .. n - 1
        PROVE  ks[d].sent /\ ks[d].sends
    <3>1. e /\ j.sends
      BY <1>5, <1>13, <2>1 DEF Enters
    <3>2. CASE d = Depth
      BY <1>12, <1>23, <3>1, <3>2
    <3>3. CASE d # Depth
      <4>1. d \in 0 .. Depth - 1
        BY <1>9, <1>19, <3>3
      <4>. QED BY <1>5, <1>22, <1>23, <3>1, <4>1 DEF Sits
    <3>. QED BY <3>2, <3>3
  <2>. QED BY <2>1
<1>27. Repeats(h[n], into)
  BY <1>13, <1>20 DEF Repeats, OfBody
<1>28. With(ks, n, into)[Depth] = after /\ With(ks, n, into)[n] = into
  <2>1. n \in 0 .. n /\ Depth \in 0 .. n /\ Depth # n
    BY <1>9, <1>19
  <2>. QED BY <1>23, <2>1 DEF With
<1>29. Recovers(J, seen, h, With(ks, n, into), n)
  <2>1. SUFFICES ASSUME f.failed # ""
                 PROVE  \E k : /\ TrueOf(J, seen, h, n - 1, k)
                               /\ k.rest = <<Do(f.failed)>> \o h[n - 1].rest
                               /\ k.sends = after.sends /\ (into.sends => k.sent)
    BY <1>20, <1>28 DEF Recovers
  <2>2. PICK k : k = Past(j, e, <<Do(f.failed)>> \o Tail(j.rest))
    OBVIOUS
  <2>3. /\ k.rest = <<Do(f.failed)>> \o Tail(j.rest) /\ k.sends = j.sends
        /\ k.got = j.got /\ k.lost = j.lost /\ (j.sent => k.sent) /\ (e => k.sent)
    BY <2>2 DEF Past, Judgement
  <2>4. k \in J
    BY <1>1, <1>5, <2>1, <2>2 DEF Enters
  <2>5. TrueOf(J, seen, h, n - 1, k)
    BY <1>20, <1>24, <2>3, <2>4 DEF TrueOf
  <2>6. h[n - 1].rest = Tail(j.rest)
    <3>1. h[n - 1] = p
      <4>1. n - 1 \in 0 .. n - 1
        BY <1>19, <1>20
      <4>2. g[Len(frames) - 1] = p
        BY <1>3, <1>9, <1>17, GotoInward
      <4>. QED BY <1>9, <1>19, <1>20, <4>1, <4>2
    <3>. QED BY <1>10, <1>11, <3>1
  <2>. QED BY <1>12, <1>13, <2>3, <2>5, <2>6
<1>30. Backed(J, seen, h, With(ks, n, into), n + 1)
  <2>1. h[n].rest = into.rest
    BY <1>13, <1>20
  <2>2. Backed(J, seen, g, ks, n)
    BY <1>15, <1>17, <1>19
  <2>. QED BY <1>19, <1>20, <1>25, <1>26, <1>27, <1>29, <2>1, <2>2, BackedEnters
<1>. QED
  BY <1>1, <1>2, <1>3, <1>4, <1>18, <1>20, <1>30 DEF Upheld

LEMMA EntersKnown ==
    ASSUME StackInv, Running, KnownInv, Top.rest # <<>>,
           NEW f, OfBody(f), frames' = <<f, Passed(Top)>> \o Tail(frames),
           UNCHANGED <<collector, seen>>,
           \A flags \in SUBSET Flags[collector] : \A j \in InForce(collector, flags) :
             Judges(flags, j) => \E e \in BOOLEAN : Enters(flags, j, e, f)
    PROVE  KnownInv'
<1>1. PICK p : p = Passed(Top)
  OBVIOUS
<1>2. PICK t : t = Tail(frames)
  OBVIOUS
<1>3. PICK q : q = <<p>> \o t
  OBVIOUS
<1>4. PICK r : r = <<f>> \o q
  OBVIOUS
<1>5. /\ Depth \in Nat /\ Len(frames) = Depth + 1 /\ Inward(frames)[Depth] = Top
      /\ IsStack(frames) /\ frames # <<>> /\ IsFrame(Top)
  BY Innermost
<1>6. IsStack(t)
  BY <1>2, <1>5, PopStack
<1>7. frames' = r
  BY <1>1, <1>2, <1>3, <1>4, <1>6, TwoOnTop
<1>8. IsStack(q) /\ Len(q) = Depth + 1
  <2>1. Len(q) = Len(frames)
    BY <1>2, <1>3, <1>5, GotoInward
  <2>. QED BY <1>3, <1>5, <1>6, <2>1, PushStack
<1>9. Inward(r)[0] = Inward(q)[0]
  <2>1. 0 \in 0 .. Len(q) - 1
    BY <1>5, <1>8
  <2>. QED BY <1>4, <1>8, <2>1, PushInward
<1>10. p.got = Top.got /\ p.lost = Top.lost
  BY <1>1, <1>5, PassedSame
<1>11. ASSUME NEW flags \in SUBSET Flags[collector], Allows(collector, r, flags)
       PROVE  Upheld(InForce(collector, flags), seen, r)
  <2>1. Allows(collector, q, flags)
    BY <1>9, <1>11 DEF Allows
  <2>2. Allows(collector, frames, flags)
    BY <1>2, <1>3, <1>10, <2>1, GotoAllows
  <2>3. PICK js : /\ Backed(InForce(collector, flags), seen, Inward(frames), js, Depth + 1)
                  /\ js[Depth] \in InForce(collector, flags)
                  /\ Judges(flags, js[Depth])
    BY <2>2, Placed
  <2>4. PICK e \in BOOLEAN : Enters(flags, js[Depth], e, f)
    BY <2>3
  <2>. QED BY <1>1, <1>2, <1>3, <1>4, <2>3, <2>4, EntersBacked
<1>. QED
  BY <1>7, <1>11, StillKnown

LEMMA EnterLoopKnown == Foreknown /\ EnterLoop => KnownInv'
<1>. SUFFICES ASSUME StackInv, KnownInv, collector \in Names, EnterLoop PROVE KnownInv'
  BY DEF Foreknown
<1>1. /\ Running /\ Top.rest # <<>> /\ Step.op = "each"
      /\ UNCHANGED <<collector, seen>>
  BY DEF EnterLoop, At, Step
<1>2. ASSUME NEW flags \in SUBSET Flags[collector], NEW j \in InForce(collector, flags),
             Judges(flags, j)
      PROVE  \E e \in BOOLEAN :
               /\ e => j.sends
               /\ Into(j, e, Step.body) \in InForce(collector, flags)
               /\ Past(j, e, Tail(j.rest)) \in InForce(collector, flags)
               /\ j.rest = Top.rest
  <2>1. j.rest = Top.rest /\ j.rest # <<>> /\ j.rest[1] = Step
    BY <1>1, <1>2, JudgesStep
  <2>. QED BY <1>1, <2>1, EachRule
<1>3. CASE Goto(Passed(Top))
  <2>1. PICK f : f = Passed(Top)
    OBVIOUS
  <2>2. Continues(f) /\ f.rest = Tail(Top.rest)
    BY <1>1, <2>1, Innermost, PassedSame DEF Continues
  <2>3. ASSUME NEW flags \in SUBSET Flags[collector], NEW j \in InForce(collector, flags),
               Judges(flags, j)
        PROVE  \E k : Leads(flags, j, f, k)
    <3>1. PICK e \in BOOLEAN : /\ Past(j, e, Tail(j.rest)) \in InForce(collector, flags)
                               /\ j.rest = Top.rest
      BY <1>2, <2>3
    <3>2. PICK k : k = Past(j, e, Tail(j.rest))
      OBVIOUS
    <3>3. /\ k.rest = Tail(j.rest) /\ k.sends = j.sends /\ k.got = j.got /\ k.lost = j.lost
          /\ (j.sent => k.sent)
      BY <3>2 DEF Past, Judgement
    <3>4. Leads(flags, j, f, k)
      BY <2>2, <3>1, <3>2, <3>3 DEF Leads
    <3>. QED BY <3>4
  <2>. QED BY <1>1, <1>3, <2>1, <2>2, <2>3, GoesOn
<1>4. CASE frames' = <<LoopFrame(Step), Passed(Top)>> \o Tail(frames)
  <2>1. PICK f : f = LoopFrame(Step)
    OBVIOUS
  <2>2. f.rest = Step.body /\ f.body = Step.body /\ f.failed = ""
    BY <2>1 DEF LoopFrame, Frame
  <2>3. OfBody(f)
    BY <2>2 DEF OfBody
  <2>4. ASSUME NEW flags \in SUBSET Flags[collector], NEW j \in InForce(collector, flags),
               Judges(flags, j)
        PROVE  \E e \in BOOLEAN : Enters(flags, j, e, f)
    BY <1>2, <2>2, <2>4 DEF Enters
  <2>. QED BY <1>1, <1>4, <2>1, <2>3, <2>4, EntersKnown
<1>. QED
  BY <1>3, <1>4 DEF EnterLoop, LoopFrame

LEMMA CallHelperKnown == Foreknown /\ CallHelper => KnownInv'
<1>. SUFFICES ASSUME StackInv, KnownInv, collector \in Names, CallHelper PROVE KnownInv'
  BY DEF Foreknown
<1>1. /\ Running /\ Top.rest # <<>> /\ Step.op = "call"
      /\ UNCHANGED <<collector, seen>>
  BY DEF CallHelper, At, Step
<1>2. PICK f : f = HelperFrame(Step)
  OBVIOUS
<1>3. frames' = <<f, Passed(Top)>> \o Tail(frames)
  BY <1>2 DEF CallHelper, HelperFrame
<1>4. f.rest = Step.body /\ f.key = "" /\ f.failed = Step.failed
  BY <1>2 DEF HelperFrame, Frame
<1>5. OfBody(f)
  BY <1>4 DEF OfBody
<1>6. ASSUME NEW flags \in SUBSET Flags[collector], NEW j \in InForce(collector, flags),
             Judges(flags, j)
      PROVE  \E e \in BOOLEAN : Enters(flags, j, e, f)
  <2>1. j.rest = Top.rest /\ j.rest # <<>> /\ j.rest[1] = Step
    BY <1>1, <1>6, JudgesStep
  <2>2. \E e \in BOOLEAN :
          /\ e => j.sends
          /\ Into(j, e, Step.body) \in InForce(collector, flags)
          /\ Past(j, e, Tail(j.rest)) \in InForce(collector, flags)
          /\ Past(j, e, <<Do(Step.failed)>> \o Tail(j.rest)) \in InForce(collector, flags)
    BY <1>1, <2>1, CallRule
  <2>. QED BY <1>4, <2>2 DEF Enters
<1>. QED
  BY <1>1, <1>3, <1>5, <1>6, EntersKnown

LEMMA LeaveLoopKnown == Foreknown /\ LeaveLoop => KnownInv'
<1>. SUFFICES ASSUME StackInv, KnownInv, LeaveLoop PROVE KnownInv'
  BY DEF Foreknown
<1>1. Running /\ Top.key # "" /\ frames' = Tail(frames) /\ UNCHANGED <<collector, seen>>
  BY DEF LeaveLoop
<1>2. Depth > 0
  BY <1>1, Innermost
<1>. QED
  BY <1>1, <1>2, PopKnown

LEMMA CallerSame ==
    ASSUME IsFrame(frames[2])
    PROVE  /\ CallerFrame.rest = frames[2].rest /\ CallerFrame.key = frames[2].key
           /\ CallerFrame.body = frames[2].body /\ CallerFrame.failed = frames[2].failed
           /\ frames[2].got \subseteq CallerFrame.got
           /\ frames[2].lost \subseteq CallerFrame.lost
<1>1. PICK f : f = frames[2]
  OBVIOUS
<1>2. PICK got : got = f.got \cup Top.got
  OBVIOUS
<1>3. PICK lost : lost = f.lost \cup Top.lost
  OBVIOUS
<1>4. CallerFrame = [f EXCEPT !.got = got, !.lost = lost]
  BY <1>1, <1>2, <1>3 DEF CallerFrame
<1>5. IsFrame(f)
  BY <1>1
<1>6. PICK g : g = [f EXCEPT !.got = got, !.lost = lost]
  OBVIOUS
<1>7. /\ g.rest = f.rest /\ g.key = f.key /\ g.body = f.body /\ g.failed = f.failed
      /\ g.got = got /\ g.lost = lost
  BY <1>5, <1>6 DEF IsFrame
<1>. QED
  BY <1>1, <1>2, <1>3, <1>4, <1>6, <1>7

LEMMA HelperReturnsKnown == Foreknown /\ HelperReturns => KnownInv'
<1>. SUFFICES ASSUME StackInv, KnownInv, HelperReturns PROVE KnownInv'
  BY DEF Foreknown
<1>1. Running /\ Top.failed # "" /\ UNCHANGED <<collector, seen>>
  BY DEF HelperReturns
<1>2. PICK r : r = Tail(frames)
  OBVIOUS
<1>3. PICK f : f = CallerFrame
  OBVIOUS
<1>4. PICK q : q = <<f>> \o Tail(r)
  OBVIOUS
<1>5. frames' = q
  BY <1>2, <1>3, <1>4 DEF HelperReturns, CallerFrame
<1>6. /\ Depth \in Nat /\ Depth > 0 /\ Len(frames) = Depth + 1
      /\ Live(frames) /\ IsStack(frames) /\ frames # <<>>
  BY <1>1, Innermost
<1>7. Live(r) /\ Len(r) = Depth /\ r[1] = frames[2]
  <2>1. Len(frames) - 1 > 0
    BY <1>6
  <2>2. Live(r) /\ Len(r) = Len(frames) - 1 /\ r[1] = frames[2]
    BY <1>2, <1>6, <2>1, SecondOfLive
  <2>. QED BY <1>6, <2>2
<1>8. IsStack(r) /\ r # <<>> /\ IsFrame(r[1])
  BY <1>7, TopOfLive DEF Fits, FrameFits
<1>9. /\ f.rest = r[1].rest /\ f.key = r[1].key /\ f.body = r[1].body
      /\ f.failed = r[1].failed /\ r[1].got \subseteq f.got /\ r[1].lost \subseteq f.lost
  BY <1>3, <1>7, <1>8, CallerSame
<1>10. \A e \in 0 .. Depth - 1 : Inward(r)[e] = Inward(frames)[e]
  <2>1. \A e \in 0 .. Len(frames) - 2 : Inward(r)[e] = Inward(frames)[e]
    BY <1>2, <1>6, PopInward
  <2>2. Len(frames) - 2 = Depth - 1
    BY <1>6
  <2>. QED BY <2>1, <2>2
<1>11. Len(q) = Depth /\ Inward(q)[Depth - 1] = f
       /\ \A e \in 0 .. Depth - 2 : Inward(q)[e] = Inward(r)[e]
  BY <1>4, <1>7, <1>8, GotoInward
<1>12. Inward(r)[Depth - 1] = r[1]
  BY <1>6, <1>7 DEF Inward
<1>13. ASSUME NEW e \in 0 .. Len(q) - 1
       PROVE  /\ Inward(frames)[e].got \subseteq Inward(q)[e].got
              /\ Inward(frames)[e].lost \subseteq Inward(q)[e].lost
              /\ Inward(q)[e].rest = Inward(frames)[e].rest
              /\ Inward(q)[e].key = Inward(frames)[e].key
              /\ Inward(q)[e].body = Inward(frames)[e].body
              /\ Inward(q)[e].failed = Inward(frames)[e].failed
  <2>1. e \in 0 .. Depth - 1
    BY <1>11
  <2>2. CASE e = Depth - 1
    BY <1>9, <1>10, <1>11, <1>12, <2>1, <2>2
  <2>3. CASE e # Depth - 1
    <3>1. e \in 0 .. Depth - 2
      BY <1>6, <2>1, <2>3
    <3>. QED BY <1>10, <1>11, <2>1, <3>1
  <2>. QED BY <2>2, <2>3
<1>14. Len(q) \in 1 .. Depth + 1
  BY <1>6, <1>11
<1>. QED
  BY <1>1, <1>5, <1>13, <1>14, LeavesKnown

LEMMA ItemSame ==
    ASSUME NEW label, IsFrame(Top)
    PROVE  /\ ItemFrame(label).rest = Top.body /\ ItemFrame(label).key = Top.key
           /\ ItemFrame(label).body = Top.body /\ ItemFrame(label).failed = Top.failed
<1>1. PICK top : top = Top
  OBVIOUS
<1>2. PICK f : f = [top EXCEPT !.rest = top.body, !.item = @ + 1, !.label = label,
                               !.got = {}, !.lost = {}]
  OBVIOUS
<1>3. f = ItemFrame(label) /\ IsFrame(top)
  BY <1>1, <1>2 DEF ItemFrame
<1>4. f.rest = top.body /\ f.key = top.key /\ f.body = top.body /\ f.failed = top.failed
  BY <1>2, <1>3 DEF IsFrame
<1>. QED
  BY <1>1, <1>3, <1>4

LEMMA NextItemKnown == Foreknown /\ NextItem => KnownInv'
<1>. SUFFICES ASSUME StackInv, KnownInv, NextItem PROVE KnownInv'
  BY DEF Foreknown
<1>1. Running /\ Top.key # "" /\ UNCHANGED <<collector, seen>>
  BY DEF NextItem
<1>2. PICK label : Goto(ItemFrame(label))
  BY DEF NextItem, ItemFrame
<1>3. PICK f : f = ItemFrame(label)
  OBVIOUS
<1>4. PICK q : q = <<f>> \o Tail(frames)
  OBVIOUS
<1>5. frames' = q
  BY <1>2, <1>3, <1>4 DEF Goto
<1>6. /\ Depth \in Nat /\ Depth > 0 /\ Len(frames) = Depth + 1
      /\ IsStack(frames) /\ frames # <<>> /\ IsFrame(Top) /\ Inward(frames)[Depth] = Top
  BY <1>1, Innermost
<1>7. f.rest = Top.body /\ f.key = Top.key /\ f.body = Top.body /\ f.failed = Top.failed
  BY <1>3, <1>6, ItemSame
<1>8. Len(q) = Depth + 1 /\ Inward(q)[Depth] = f
      /\ \A e \in 0 .. Depth - 1 : Inward(q)[e] = Inward(frames)[e]
  <2>1. Len(q) = Len(frames) /\ Inward(q)[Len(frames) - 1] = f
        /\ \A e \in 0 .. Len(frames) - 2 : Inward(q)[e] = Inward(frames)[e]
    BY <1>4, <1>6, GotoInward
  <2>2. Len(frames) - 1 = Depth /\ Len(frames) - 2 = Depth - 1
    BY <1>6
  <2>. QED BY <1>6, <2>1, <2>2
<1>9. ASSUME NEW flags \in SUBSET Flags[collector], Allows(collector, q, flags)
      PROVE  Upheld(InForce(collector, flags), seen, q)
  <2>1. Depth # 0
    BY <1>6
  <2>2. Allows(collector, frames, flags)
    BY <1>1, <1>4, <1>9, <2>1, GotoAllows
  <2>3. PICK J : J = InForce(collector, flags)
    OBVIOUS
  <2>4. PICK g : g = Inward(frames)
    OBVIOUS
  <2>5. PICK h : h = Inward(q)
    OBVIOUS
  <2>6. PICK js : Backed(J, seen, g, js, Depth + 1) /\ Sits(J, seen, g, js, Depth)
    BY <1>1, <2>2, <2>3, <2>4, Placed
  <2>7. PICK k : /\ TrueOf(J, seen, g, Depth - 1, k)
                 /\ k.rest = g[Depth].body /\ k.sends = js[Depth].sends
    <3>1. g[Depth].key # ""
      BY <1>1, <1>6, <2>4
    <3>2. Resumes(J, seen, g, js, Depth)
      BY <1>6, <2>6 DEF Sits
    <3>. QED BY <3>1, <3>2 DEF Resumes
  <2>8. TrueOf(J, seen, h, Depth - 1, k)
    <3>1. Depth - 1 \in Nat
      BY <1>6
    <3>. QED BY <1>8, <2>4, <2>5, <2>7, <3>1, TrueGrows
  <2>9. TrueOf(J, seen, h, Depth, k)
    BY <1>6, <2>8, TrueInside
  <2>10. /\ \A e \in 0 .. Depth - 1 : h[e] = g[e]
         /\ h[Depth].key = g[Depth].key /\ h[Depth].body = g[Depth].body
         /\ h[Depth].failed = g[Depth].failed /\ h[Depth].rest \in {k.rest, <<>>}
    BY <1>6, <1>7, <1>8, <2>4, <2>5, <2>7
  <2>11. Backed(J, seen, h, With(js, Depth, k), Depth + 1)
    BY <1>6, <2>6, <2>7, <2>9, <2>10, BackedGoesOn
  <2>. QED BY <1>8, <2>3, <2>5, <2>11 DEF Upheld
<1>. QED
  BY <1>1, <1>5, <1>9, StillKnown

LEMMA SendSamplesKnown == Foreknown /\ SendSamples => KnownInv'
<1>. SUFFICES ASSUME StackInv, KnownInv, collector \in Names, SendSamples PROVE KnownInv'
  BY DEF Foreknown
<1>1. /\ Running /\ Top.rest # <<>> /\ Step.op = "send" /\ Goto(Passed(Top))
      /\ UNCHANGED collector
  BY DEF SendSamples, At, Step
<1>2. PICK now : now = seen'
  OBVIOUS
<1>3. PICK f : f = Passed(Top)
  OBVIOUS
<1>4. PICK q : q = <<f>> \o Tail(frames)
  OBVIOUS
<1>5. frames' = q
  BY <1>1, <1>3, <1>4 DEF Goto
<1>6. Depth \in Nat /\ IsFrame(Top)
  BY <1>1, Innermost
<1>7. Continues(f) /\ f.rest = Tail(Top.rest) /\ f.got = Top.got /\ f.lost = Top.lost
  BY <1>3, <1>6, PassedSame DEF Continues
<1>8. ASSUME NEW flags \in SUBSET Flags[collector], Allows(collector, q, flags)
      PROVE  Upheld(InForce(collector, flags), now, q)
  <2>1. Allows(collector, frames, flags)
    BY <1>1, <1>4, <1>7, <1>8, GotoAllows
  <2>2. PICK js : /\ Backed(InForce(collector, flags), seen, Inward(frames), js, Depth + 1)
                  /\ js[Depth] \in InForce(collector, flags)
                  /\ Judges(flags, js[Depth])
    BY <1>1, <2>1, Placed
  <2>3. PICK j : j = js[Depth]
    OBVIOUS
  <2>4. PICK k : k = Told(j, Tail(j.rest))
    OBVIOUS
  <2>5. j.rest = Top.rest /\ j.rest # <<>> /\ j.rest[1] = Step
    BY <1>1, <2>2, <2>3, JudgesStep
  <2>6. k \in InForce(collector, flags) /\ j.sends
    BY <1>1, <2>2, <2>3, <2>4, <2>5, SendRule
  <2>7. /\ k.rest = Tail(j.rest) /\ k.sends = j.sends /\ k.got = j.got /\ k.lost = j.lost
        /\ k.sent
    BY <2>4 DEF Told, Judgement
  <2>8. Leads(flags, j, f, k)
    BY <1>7, <2>5, <2>6, <2>7 DEF Leads
  <2>9. PICK ks : ks = With(js, Depth, k)
    OBVIOUS
  <2>10. /\ Len(q) = Depth + 1
         /\ Backed(InForce(collector, flags), seen, Inward(q), ks, Depth + 1)
    BY <1>1, <1>4, <1>7, <2>2, <2>3, <2>8, <2>9, GotoBacks
  <2>11. ks[Depth] = k
    BY <1>6, <2>9 DEF With
  <2>12. Backed(InForce(collector, flags), now, Inward(q), ks, Depth + 1)
    BY <1>6, <2>6, <2>7, <2>10, <2>11, BackedSends
  <2>. QED BY <2>10, <2>12 DEF Upheld
<1>. QED
  BY <1>1, <1>2, <1>5, <1>8, StillKnown

LEMMA NextKnown ==
    StackInv /\ SeenInv /\ KnownInv /\ [UpdateNext]_updateVars => KnownInv'
<1>. SUFFICES ASSUME StackInv, SeenInv, KnownInv, [UpdateNext]_updateVars PROVE KnownInv'
  OBVIOUS
<1>1. CASE UNCHANGED updateVars
  <2>1. CASE Running
    <3>1. PICK q : q = frames
      OBVIOUS
    <3>2. PICK now : now = seen
      OBVIOUS
    <3>3. frames' = q /\ seen' = now /\ collector' = collector
      BY <1>1, <3>1, <3>2 DEF updateVars
    <3>4. \A flags \in SUBSET Flags[collector] :
             Allows(collector, q, flags) => Upheld(InForce(collector, flags), now, q)
      BY <2>1, <3>1, <3>2 DEF KnownInv, Foreseen
    <3>. QED BY <3>3, <3>4, StillKnown
  <2>2. CASE ~Running
    BY <1>1, <2>2, EndedKnown DEF Running, updateVars
  <2>. QED BY <2>1, <2>2
<1>2. Foreknown
  BY DEF Foreknown, SeenInv
<1>3. CASE Obtain BY <1>2, <1>3, ObtainKnown
<1>4. CASE Miss BY <1>2, <1>4, MissKnown
<1>5. CASE Act BY <1>2, <1>5, ActKnown
<1>6. CASE Holds BY <1>2, <1>6, HoldsKnown
<1>7. CASE Fails BY <1>2, <1>7, FailsKnown
<1>8. CASE FlagSet BY <1>2, <1>8, FlagSetKnown
<1>9. CASE FlagClear BY <1>2, <1>9, FlagClearKnown
<1>10. CASE EnterLoop BY <1>2, <1>10, EnterLoopKnown
<1>11. CASE NextItem BY <1>2, <1>11, NextItemKnown
<1>12. CASE LeaveLoop BY <1>2, <1>12, LeaveLoopKnown
<1>13. CASE CallHelper BY <1>2, <1>13, CallHelperKnown
<1>14. CASE HelperReturns BY <1>2, <1>14, HelperReturnsKnown
<1>15. CASE NewLabels BY <1>2, <1>15, NewLabelsKnown
<1>16. CASE OldLabels BY <1>2, <1>16, OldLabelsKnown
<1>17. CASE SendSamples BY <1>2, <1>17, SendSamplesKnown
<1>18. CASE Dereference BY <1>2, <1>18, DereferenceKnown
<1>19. CASE ReturnNil BY <1>2, <1>19, ReturnNilKnown
<1>. QED
  BY <1>1, <1>3, <1>4, <1>5, <1>6, <1>7, <1>8, <1>9, <1>10, <1>11, <1>12, <1>13,
     <1>14, <1>15, <1>16, <1>17, <1>18, <1>19 DEF UpdateNext

LEMMA InitKnown == UpdateInit => KnownInv
<1>. SUFFICES ASSUME UpdateInit PROVE KnownInv
  OBVIOUS
<1>1. /\ collector \in Names /\ seen = {}
      /\ frames = <<Frame(Script[collector])>>
  BY DEF UpdateInit
<1>2. PICK f : f = Frame(Script[collector])
  OBVIOUS
<1>3. PICK q : q = <<f>>
  OBVIOUS
<1>4. frames = q /\ Len(q) = 1 /\ q[1] = f
  BY <1>1, <1>2, <1>3, OneStack
<1>5. PICK g : g = Inward(q)
  OBVIOUS
<1>6. g[0] = f
  BY <1>4, <1>5 DEF Inward
<1>7. f.rest = Script[collector]
  BY <1>2 DEF Frame
<1>8. ASSUME NEW flags \in SUBSET Flags[collector]
      PROVE  Upheld(InForce(collector, flags), seen, q)
  <2>1. PICK J : J = InForce(collector, flags)
    OBVIOUS
  <2>2. PICK j : j = Outset(collector, flags)
    OBVIOUS
  <2>3. /\ j.flags = flags /\ j.got = {""} /\ j.lost = {} /\ j.rest = Script[collector]
    BY <2>2 DEF Outset, Judgement
  <2>4. j \in J
    <3>1. Disciplined(collector, Judged[collector])
      BY <1>1, DisciplineAssumption
    <3>2. j \in Judged[collector]
      BY <2>2, <3>1 DEF Disciplined
    <3>. QED BY <2>1, <2>3, <3>2 DEF InForce
  <2>5. TrueOf(J, seen, g, 0, j)
    BY <1>1, <2>3, <2>4 DEF TrueOf, GotBy
  <2>6. PICK js : js = [d \in {0} |-> j]
    OBVIOUS
  <2>7. js[0] = j
    BY <2>6
  <2>8. Sits(J, seen, g, js, 0)
    <3>1. g[0].rest \in {js[0].rest, <<>>}
      BY <1>6, <1>7, <2>3, <2>7
    <3>2. \A e \in 0 .. 0 - 1 : js[e].sent /\ js[e].sends
      OBVIOUS
    <3>3. TrueOf(J, seen, g, 0, js[0])
      BY <2>5, <2>7
    <3>. QED BY <3>1, <3>2, <3>3 DEF Sits
  <2>9. Backed(J, seen, g, js, 1)
    BY <2>8 DEF Backed
  <2>. QED BY <1>4, <1>5, <2>1, <2>9 DEF Upheld
<1>. QED
  BY <1>4, <1>8 DEF KnownInv, Foreseen
-----------------------------------------------------------------------------
\* Some of the flags can be as the outermost frame remembers them, for it does
\* not remember one as both set and clear.
LEMMA SomeFlags ==
    ASSUME StackInv, Running
    PROVE  \E flags \in SUBSET Flags[collector] : Allows(collector, frames, flags)
<1>1. /\ Len(frames) \in Nat /\ Len(frames) >= 1 /\ Apart(frames)
      /\ Inward(frames)[0] = frames[Len(frames)]
  BY Innermost, TopOfLive
<1>2. PICK f : f = frames[Len(frames)]
  OBVIOUS
<1>3. f.got \cap f.lost = {}
  <2>1. Len(frames) \in 1 .. Len(frames)
    BY <1>1
  <2>. QED BY <1>1, <1>2, <2>1 DEF Apart
<1>4. PICK flags : flags = f.got \cap Flags[collector]
  OBVIOUS
<1>5. flags \in SUBSET Flags[collector] /\ f.got \cap Flags[collector] \subseteq flags
      /\ f.lost \cap flags = {}
  BY <1>3, <1>4
<1>6. Allows(collector, frames, flags)
  BY <1>1, <1>2, <1>5 DEF Allows
<1>. QED
  BY <1>5, <1>6

\* So the innermost frame of a running Update is at a place that was judged.
LEMMA SomeJudgement ==
    ASSUME Foreknown, Running
    PROVE  \E flags \in SUBSET Flags[collector] :
             \E j \in InForce(collector, flags) : Judges(flags, j)
<1>1. PICK flags \in SUBSET Flags[collector] : Allows(collector, frames, flags)
  BY SomeFlags DEF Foreknown
<1>. QED
  BY <1>1, Placed DEF Foreknown

\* A sample that is sent, and a result that is used, was read.
LEMMA SendsRead ==
    ASSUME Foreknown, At("send"), collector \notin Unbacked
    PROVE  Got(Step.what)
<1>1. Running /\ Top.rest # <<>> /\ Step.op = "send"
  BY DEF At, Step
<1>2. PICK flags \in SUBSET Flags[collector] :
        \E j \in InForce(collector, flags) : Judges(flags, j)
  BY <1>1, SomeJudgement
<1>3. PICK j \in InForce(collector, flags) : Judges(flags, j)
  BY <1>2
<1>4. /\ j.rest # <<>> /\ j.rest[1] = Step
      /\ \A source : ~Got(source) => source \notin j.got
  BY <1>1, <1>3, JudgesStep DEF Foreknown
<1>5. Step.what \in j.got
  BY <1>1, <1>4, SendRule DEF Foreknown
<1>. QED
  BY <1>4, <1>5

LEMMA UsesRead ==
    ASSUME Foreknown, At("deref"), <<collector, Step.what>> \notin MayPanic
    PROVE  Got(Step.what)
<1>1. Running /\ Top.rest # <<>> /\ Step.op = "deref"
  BY DEF At, Step
<1>2. PICK flags \in SUBSET Flags[collector] :
        \E j \in InForce(collector, flags) : Judges(flags, j)
  BY <1>1, SomeJudgement
<1>3. PICK j \in InForce(collector, flags) : Judges(flags, j)
  BY <1>2
<1>4. /\ j.rest # <<>> /\ j.rest[1] = Step
      /\ \A source : ~Got(source) => source \notin j.got
  BY <1>1, <1>3, JudgesStep DEF Foreknown
<1>5. Step.what \in j.got
  BY <1>1, <1>4, DerefRule DEF Foreknown
<1>. QED
  BY <1>4, <1>5

LEMMA NextBacked ==
    Foreknown /\ OnlyWhatWasRead /\ [UpdateNext]_updateVars => OnlyWhatWasRead'
<1>. SUFFICES ASSUME Foreknown, OnlyWhatWasRead, [UpdateNext]_updateVars
              PROVE  OnlyWhatWasRead'
  OBVIOUS
<1>1. CASE UNCHANGED <<collector, seen>>
  BY <1>1 DEF OnlyWhatWasRead
<1>2. CASE SendSamples
  <2>1. At("send") /\ UNCHANGED collector
    BY <1>2 DEF SendSamples
  <2>2. Got(Step.what) => seen' \subseteq seen \cup {"sample", "repeated"}
    BY <1>2 DEF SendSamples
  <2>. QED BY <2>1, <2>2, SendsRead DEF OnlyWhatWasRead
<1>. QED
  BY <1>1, <1>2 DEF UpdateNext, updateVars, Obtain, Miss, Act, Holds, Fails,
     FlagSet, FlagClear, EnterLoop, NextItem, LeaveLoop, CallHelper, HelperReturns,
     NewLabels, OldLabels, Dereference, ReturnNil

\* Only a step that fails, or the end, gives an Update its verdict.
LEMMA ReturnVerdict ==
    ASSUME NEW result, Return(result)
    PROVE  verdict' \in {verdict, result}
BY DEF Return

LEMMA ReactVerdict ==
    ASSUME NEW reaction, React(reaction)
    PROVE  \/ verdict' = verdict
           \/ reaction \in {"nil", "nodata", "error", "unbuilt"} /\ verdict' = reaction
BY ReturnVerdict DEF React

LEMMA MissVerdict ==
    ASSUME Miss
    PROVE  \E reaction \in {Step.missing, Step.failing} :
             \/ verdict' = verdict
             \/ reaction \in {"nil", "nodata", "error", "unbuilt"} /\ verdict' = reaction
<1>1. PICK reaction \in {Step.missing, Step.failing} :
        IF reaction = "next" THEN UNCHANGED verdict ELSE React(reaction)
  BY DEF Miss
<1>. QED
  BY <1>1, ReactVerdict

LEMMA NextUnpanicked == Foreknown /\ NoPanic /\ [UpdateNext]_updateVars => NoPanic'
<1>. SUFFICES ASSUME Foreknown, NoPanic, [UpdateNext]_updateVars PROVE NoPanic'
  OBVIOUS
<1>1. CASE UNCHANGED <<collector, verdict, cause>>
  BY <1>1 DEF NoPanic
<1>2. CASE Miss
  <2>1. verdict = "none"
    BY <1>2 DEF Miss, At, Running
  <2>2. verdict' = verdict \/ verdict' \in {"nil", "nodata", "error", "unbuilt"}
    BY <1>2, MissVerdict
  <2>. QED BY <2>1, <2>2 DEF NoPanic
<1>3. CASE Act
  <2>1. verdict = "none" /\ React(Step.reaction)
    BY <1>3 DEF Act, At, Running
  <2>2. verdict' = verdict \/ verdict' \in {"nil", "nodata", "error", "unbuilt"}
    BY <2>1, ReactVerdict
  <2>. QED BY <2>1, <2>2 DEF NoPanic
<1>4. CASE OldLabels
  <2>1. verdict = "none" /\ React("skip")
    BY <1>4 DEF OldLabels, At, Running
  <2>2. verdict' = verdict \/ verdict' \in {"nil", "nodata", "error", "unbuilt"}
    BY <2>1, ReactVerdict
  <2>. QED BY <2>1, <2>2 DEF NoPanic
<1>5. CASE Dereference
  <2>1. At("deref") /\ verdict = "none" /\ UNCHANGED collector
    BY <1>5 DEF Dereference, At, Running
  <2>2. CASE Got(Step.what)
    <3>1. UNCHANGED verdict
      BY <1>5, <2>2 DEF Dereference
    <3>. QED BY <2>1, <3>1 DEF NoPanic
  <2>3. CASE ~Got(Step.what)
    <3>1. cause' = Step.what
      BY <1>5, <2>3 DEF Dereference
    <3>2. <<collector, Step.what>> \in MayPanic
      BY <2>1, <2>3, UsesRead
    <3>. QED BY <2>1, <3>1, <3>2 DEF NoPanic
  <2>. QED BY <2>2, <2>3
<1>6. CASE ReturnNil
  <2>1. verdict = "none" /\ Return(IF Top.late THEN "error" ELSE "nil")
    BY <1>6 DEF ReturnNil, Running
  <2>2. PICK result \in {"nil", "error"} : Return(result)
    BY <2>1
  <2>3. verdict' = verdict \/ verdict' \in {"nil", "error"}
    BY <2>2, ReturnVerdict
  <2>. QED BY <2>1, <2>3 DEF NoPanic
<1>. QED
  BY <1>1, <1>2, <1>3, <1>4, <1>5, <1>6 DEF UpdateNext, updateVars, Obtain, Holds, Fails,
     FlagSet, FlagClear, EnterLoop, NextItem, LeaveLoop, CallHelper, HelperReturns,
     NewLabels, SendSamples
-----------------------------------------------------------------------------
\* What ends an Update by a failure comes before everything that it sends.
Spares(result) ==
    /\ result \in {"nodata", "unbuilt"} /\ collector \notin LateNoData => seen = {}
    /\ result = "error" /\ collector \notin Incremental => seen = {}
    /\ result = "later" => collector \in Incremental

LEMMA ToleratedSpares ==
    ASSUME NEW flags, NEW j, Judges(flags, j), NEW reaction,
           Tolerates(collector, j, reaction)
    PROVE  Spares(reaction)
<1>1. seen # {} => j.sent
  BY DEF Judges, TrueOf
<1>. QED
  BY <1>1 DEF Spares, Tolerates

LEMMA ReadSpares ==
    ASSUME Foreknown, At("read"), ~Got(Step.what),
           NEW reaction \in {Step.missing, Step.failing}
    PROVE  Spares(reaction)
<1>1. Running /\ Top.rest # <<>> /\ Step.op = "read"
  BY DEF At, Step
<1>2. PICK flags \in SUBSET Flags[collector] :
        \E j \in InForce(collector, flags) : Judges(flags, j)
  BY <1>1, SomeJudgement
<1>3. PICK j \in InForce(collector, flags) : Judges(flags, j)
  BY <1>2
<1>4. j.rest # <<>> /\ j.rest[1] = Step /\ Step.what \notin j.got
  BY <1>1, <1>3, JudgesStep DEF Foreknown
<1>5. Tolerates(collector, j, reaction)
  BY <1>1, <1>4, ReadRule DEF Foreknown
<1>. QED
  BY <1>3, <1>5, ToleratedSpares

LEMMA DoSpares ==
    ASSUME Foreknown, At("do")
    PROVE  Spares(Step.reaction)
<1>1. Running /\ Top.rest # <<>> /\ Step.op = "do"
  BY DEF At, Step
<1>2. PICK flags \in SUBSET Flags[collector] :
        \E j \in InForce(collector, flags) : Judges(flags, j)
  BY <1>1, SomeJudgement
<1>3. PICK j \in InForce(collector, flags) : Judges(flags, j)
  BY <1>2
<1>4. j.rest # <<>> /\ j.rest[1] = Step
  BY <1>1, <1>3, JudgesStep DEF Foreknown
<1>5. Tolerates(collector, j, Step.reaction)
  BY <1>1, <1>4, DoRule DEF Foreknown
<1>. QED
  BY <1>3, <1>5, ToleratedSpares
-----------------------------------------------------------------------------
(***************************************************************************)
(* An error put off to the end is one of a collector that sends while it   *)
(* reads: no frame of another collector remembers one.                     *)
(***************************************************************************)
NotLate(q) == \A i \in 1 .. Len(q) : ~q[i].late

LateInv == Running /\ collector \notin Incremental => NotLate(frames)

LEMMA PopNotLate ==
    ASSUME NEW q, IsStack(q), q # <<>>, NotLate(q)
    PROVE  NotLate(Tail(q))
<1>1. PICK r : r = Tail(q)
  OBVIOUS
<1>2. Len(r) = Len(q) - 1 /\ Len(q) \in Nat
      /\ \A i \in 1 .. Len(q) - 1 : r[i] = q[i + 1]
  BY <1>1, PopStack DEF IsStack
<1>3. ASSUME NEW i \in 1 .. Len(r) PROVE ~r[i].late
  <2>1. i \in 1 .. Len(q) - 1 /\ i + 1 \in 1 .. Len(q)
    BY <1>2
  <2>. QED BY <1>2, <2>1 DEF NotLate
<1>. QED
  BY <1>1, <1>3 DEF NotLate

LEMMA PushNotLate ==
    ASSUME NEW q, IsStack(q), NotLate(q), NEW f, ~f.late
    PROVE  NotLate(<<f>> \o q)
<1>1. PICK r : r = <<f>> \o q
  OBVIOUS
<1>2. Len(r) = Len(q) + 1 /\ Len(q) \in Nat /\ r[1] = f
      /\ \A i \in 1 .. Len(q) : r[i + 1] = q[i]
  BY <1>1, PushStack DEF IsStack
<1>3. ASSUME NEW i \in 1 .. Len(r) PROVE ~r[i].late
  <2>1. CASE i = 1
    BY <1>2, <2>1
  <2>2. CASE i # 1
    <3>1. PICK k \in 1 .. Len(q) : k + 1 = i
      <4>1. i - 1 \in 1 .. Len(q) /\ (i - 1) + 1 = i
        BY <1>2, <2>2
      <4>. QED BY <4>1
    <3>. QED BY <1>2, <3>1 DEF NotLate
  <2>. QED BY <2>1, <2>2
<1>. QED
  BY <1>1, <1>3 DEF NotLate

LEMMA CutNotLate ==
    ASSUME NEW q, IsStack(q), NotLate(q), NEW k \in 1 .. Len(q)
    PROVE  NotLate(SubSeq(q, k + 1, Len(q)))
<1>1. PICK r : r = SubSeq(q, k + 1, Len(q))
  OBVIOUS
<1>2. Len(r) = Len(q) - k /\ Len(q) \in Nat
      /\ \A i \in 1 .. Len(q) - k : r[i] = q[k + i]
  BY <1>1, CutStack DEF IsStack
<1>3. ASSUME NEW i \in 1 .. Len(r) PROVE ~r[i].late
  <2>1. i \in 1 .. Len(q) - k /\ k + i \in 1 .. Len(q)
    BY <1>2
  <2>. QED BY <1>2, <2>1 DEF NotLate
<1>. QED
  BY <1>1, <1>3 DEF NotLate

LEMMA PutNotLate ==
    ASSUME NEW q, IsStack(q), NotLate(q), NEW k \in 1 .. Len(q), NEW f, ~f.late
    PROVE  NotLate(Put(q, k, f))
<1>1. PICK r : r = Put(q, k, f)
  OBVIOUS
<1>2. Len(r) = Len(q) /\ r[k] = f /\ \A i \in 1 .. Len(q) : i # k => r[i] = q[i]
  BY <1>1, PutStack DEF Put
<1>3. ASSUME NEW i \in 1 .. Len(r) PROVE ~r[i].late
  BY <1>2 DEF NotLate
<1>. QED
  BY <1>1, <1>3 DEF NotLate

\* A frame with other steps, or other sources, is as late as before.
LEMMA SameLate ==
    ASSUME NEW f, IsFrame(f), NEW x
    PROVE  /\ Passed(f).late = f.late /\ IsFrame(Passed(f))
           /\ WithRest(f, x).late = f.late /\ IsFrame(WithRest(f, x))
           /\ WithGot(f, x).late = f.late
           /\ WithLost(f, x).late = f.late
           /\ WithDone(f, x).late = f.late
<1>1. Passed(f).late = f.late /\ IsFrame(Passed(f))
  <2>1. PICK steps : steps = Tail(f.rest)
    OBVIOUS
  <2>2. Passed(f) = WithRest(f, steps)
    BY <2>1 DEF Passed, WithRest
  <2>. QED BY <2>2 DEF WithRest, IsFrame
<1>2. WithRest(f, x).late = f.late /\ IsFrame(WithRest(f, x))
  BY DEF WithRest, IsFrame
<1>3. WithGot(f, x).late = f.late
  BY DEF WithGot, IsFrame
<1>4. WithLost(f, x).late = f.late
  BY DEF WithLost, IsFrame
<1>5. WithDone(f, x).late = f.late
  BY DEF WithDone, IsFrame
<1>. QED
  BY <1>1, <1>2, <1>3, <1>4, <1>5

LEMMA StillPunctual ==
    ASSUME UNCHANGED collector, NEW q, frames' = q,
           collector \notin Incremental => NotLate(q)
    PROVE  LateInv'
BY DEF LateInv, NotLate

\* What is known of the stack of a running Update that is not late.
Punctual == StackInv /\ Running /\ LateInv

LEMMA PunctualStack ==
    ASSUME Punctual
    PROVE  /\ IsStack(frames) /\ frames # <<>> /\ IsFrame(Top)
           /\ Len(frames) \in Nat /\ 1 \in 1 .. Len(frames) /\ Len(frames) \in 1 .. Len(frames)
           /\ collector \notin Incremental => NotLate(frames) /\ ~Top.late
<1>1. /\ Depth \in Nat /\ Len(frames) = Depth + 1 /\ IsStack(frames) /\ frames # <<>>
      /\ IsFrame(Top)
  BY Innermost DEF Punctual
<1>2. Len(frames) \in Nat /\ 1 \in 1 .. Len(frames) /\ Len(frames) \in 1 .. Len(frames)
  BY <1>1
<1>3. collector \notin Incremental => NotLate(frames)
  BY DEF Punctual, LateInv
<1>4. collector \notin Incremental => ~Top.late
  BY <1>2, <1>3 DEF NotLate, Top
<1>. QED
  BY <1>1, <1>2, <1>3, <1>4

LEMMA GotoPunctual ==
    ASSUME Punctual, NEW f, Goto(f), f.late = Top.late, UNCHANGED collector
    PROVE  LateInv'
<1>1. PICK t : t = Tail(frames)
  OBVIOUS
<1>2. PICK q : q = <<f>> \o t
  OBVIOUS
<1>3. frames' = q
  BY <1>1, <1>2 DEF Goto
<1>4. IsStack(t)
  BY <1>1, PunctualStack, PopStack
<1>5. collector \notin Incremental => NotLate(t)
  BY <1>1, PunctualStack, PopNotLate
<1>6. collector \notin Incremental => NotLate(q)
  BY <1>2, <1>4, <1>5, PunctualStack, PushNotLate
<1>. QED
  BY <1>3, <1>6, StillPunctual

LEMMA PopPunctual ==
    ASSUME Punctual, frames' = Tail(frames), UNCHANGED collector
    PROVE  LateInv'
<1>1. PICK q : q = Tail(frames)
  OBVIOUS
<1>2. collector \notin Incremental => NotLate(q)
  BY <1>1, PunctualStack, PopNotLate
<1>. QED
  BY <1>1, <1>2, StillPunctual

LEMMA PushPunctual ==
    ASSUME Punctual, NEW f, ~f.late, frames' = <<f, Passed(Top)>> \o Tail(frames),
           UNCHANGED collector
    PROVE  LateInv'
<1>1. PICK t : t = Tail(frames)
  OBVIOUS
<1>2. PICK g : g = Passed(Top)
  OBVIOUS
<1>3. PICK r : r = <<g>> \o t
  OBVIOUS
<1>4. PICK q : q = <<f>> \o r
  OBVIOUS
<1>5. IsStack(t)
  BY <1>1, PunctualStack, PopStack
<1>6. IsStack(r)
  BY <1>3, <1>5, PushStack
<1>7. frames' = q
  BY <1>1, <1>2, <1>3, <1>4, <1>5, TwoOnTop
<1>8. g.late = Top.late
  BY <1>2, PunctualStack, SameLate
<1>9. collector \notin Incremental => NotLate(t)
  BY <1>1, PunctualStack, PopNotLate
<1>10. collector \notin Incremental => NotLate(r)
  BY <1>3, <1>5, <1>8, <1>9, PunctualStack, PushNotLate
<1>11. collector \notin Incremental => NotLate(q)
  BY <1>4, <1>6, <1>10, PushNotLate
<1>. QED
  BY <1>7, <1>11, StillPunctual

LEMMA EndsPunctual ==
    ASSUME Punctual, NEW f, f.late = Top.late,
           NEW h, h = Put(frames, 1, f), NEW n, n = Len(frames),
           NEW g, g.late = h[n].late, frames' = Ends(f, g), UNCHANGED collector
    PROVE  LateInv'
<1>1. IsStack(frames) /\ Len(frames) \in Nat /\ 1 \in 1 .. Len(frames) /\ n \in 1 .. n
  BY PunctualStack
<1>2. PICK one : one = 1
  OBVIOUS
<1>3. h = Put(frames, one, f) /\ one \in 1 .. Len(frames)
  BY <1>1, <1>2
<1>4. IsStack(h) /\ Len(h) = n
  BY <1>1, <1>3, PutFrame
<1>5. collector \notin Incremental => NotLate(h)
  BY <1>1, <1>3, PunctualStack, PutNotLate
<1>6. collector \notin Incremental => ~g.late
  BY <1>1, <1>4, <1>5 DEF NotLate
<1>7. PICK q : q = Put(h, n, g)
  OBVIOUS
<1>8. collector \notin Incremental => NotLate(q)
  BY <1>1, <1>4, <1>5, <1>6, <1>7, PutNotLate
<1>9. frames' = q
  BY <1>7 DEF Ends
<1>. QED
  BY <1>8, <1>9, StillPunctual

LEMMA ReturnPunctual ==
    ASSUME Punctual, NEW result \in {"nil", "nodata", "error", "unbuilt"}, Return(result),
           UNCHANGED collector
    PROVE  LateInv'
<1>1. CASE Calls = {}
  <2>1. verdict' # "none"
    BY <1>1 DEF Return
  <2>. QED BY <2>1 DEF LateInv, Running
<1>2. CASE Calls # {}
  <2>1. PICK k : k = NearestCall
    OBVIOUS
  <2>2. PICK r : r = Around(k)
    OBVIOUS
  <2>3. PICK f : f = Raised(r, frames[k].failed)
    OBVIOUS
  <2>4. frames' = IF result = "nil" THEN r ELSE <<f>> \o Tail(r)
    BY <1>2, <2>1, <2>2, <2>3 DEF Return, Raised, Around
  <2>5. k \in 1 .. Len(frames) /\ frames[k].failed # ""
    BY <1>2, <2>1, NearestIsCall DEF Punctual
  <2>6. Live(r)
    BY <2>2, <2>5, AroundLive DEF Punctual
  <2>7. IsStack(r) /\ r # <<>> /\ IsFrame(r[1]) /\ 1 \in 1 .. Len(r)
    <3>1. IsStack(r) /\ r # <<>> /\ Len(r) \in Nat /\ Len(r) >= 1
      BY <2>6, TopOfLive DEF Fits
    <3>2. IsFrame(r[1])
      BY <2>6, TopOfLive DEF FrameFits
    <3>. QED BY <3>1, <3>2
  <2>8. collector \notin Incremental => NotLate(r)
    BY <2>2, <2>5, PunctualStack, CutNotLate DEF Around
  <2>9. collector \notin Incremental => ~r[1].late
    BY <2>7, <2>8 DEF NotLate
  <2>10. f.late = r[1].late
    <3>1. PICK steps : steps = <<Do(frames[k].failed)>> \o r[1].rest
      OBVIOUS
    <3>2. f = WithRest(r[1], steps)
      BY <2>3, <3>1 DEF Raised, WithRest
    <3>. QED BY <2>7, <3>2, SameLate
  <2>11. PICK t : t = Tail(r)
    OBVIOUS
  <2>12. PICK q : q = <<f>> \o t
    OBVIOUS
  <2>13. IsStack(t)
    BY <2>7, <2>11, PopStack
  <2>14. collector \notin Incremental => NotLate(t)
    BY <2>7, <2>8, <2>11, PopNotLate
  <2>15. collector \notin Incremental => NotLate(q)
    BY <2>9, <2>10, <2>12, <2>13, <2>14, PushNotLate
  <2>16. CASE result = "nil"
    BY <2>4, <2>8, <2>16, StillPunctual
  <2>17. CASE result # "nil"
    <3>1. frames' = q
      BY <2>4, <2>11, <2>12, <2>17
    <3>. QED BY <2>15, <3>1, StillPunctual
  <2>. QED BY <2>16, <2>17
<1>. QED
  BY <1>1, <1>2

LEMMA LaterPunctual ==
    ASSUME UNCHANGED collector, collector \in Incremental
    PROVE  LateInv'
BY DEF LateInv

LEMMA ReactPunctual ==
    ASSUME Punctual, NEW reaction, React(reaction), Spares(reaction), UNCHANGED collector
    PROVE  LateInv'
<1>1. CASE reaction = "next" /\ Goto(Passed(Top))
  <2>1. PICK f : f = Passed(Top)
    OBVIOUS
  <2>2. f.late = Top.late
    BY <2>1, PunctualStack, SameLate
  <2>. QED BY <1>1, <2>1, <2>2, GotoPunctual
<1>2. CASE reaction = "later"
  BY <1>2, LaterPunctual DEF Spares
<1>3. CASE reaction = "skip" /\ Goto([Top EXCEPT !.rest = <<>>])
  <2>1. PICK steps : steps = <<>>
    OBVIOUS
  <2>2. PICK f : f = WithRest(Top, steps)
    OBVIOUS
  <2>3. Goto(f)
    BY <1>3, <2>1, <2>2 DEF WithRest
  <2>4. f.late = Top.late
    BY <2>2, PunctualStack, SameLate
  <2>. QED BY <2>3, <2>4, GotoPunctual
<1>4. CASE reaction = "break" /\ frames' = Tail(frames)
  BY <1>4, PopPunctual
<1>5. CASE reaction \in {"nil", "nodata", "error", "unbuilt"} /\ Return(reaction)
  BY <1>5, ReturnPunctual
<1>. QED
  BY <1>1, <1>2, <1>3, <1>4, <1>5 DEF React

\* One action after the other.
LEMMA ObtainPunctual == Punctual /\ Obtain => LateInv'
<1>. SUFFICES ASSUME Punctual, Obtain PROVE LateInv'
  OBVIOUS
<1>1. UNCHANGED collector /\ Goto([Passed(Top) EXCEPT !.got = @ \cup {Step.what}])
  BY DEF Obtain
<1>2. PICK g : g = Passed(Top)
  OBVIOUS
<1>3. PICK sources : sources = g.got \cup {Step.what}
  OBVIOUS
<1>4. PICK f : f = WithGot(g, sources)
  OBVIOUS
<1>5. Goto(f)
  BY <1>1, <1>2, <1>3, <1>4 DEF WithGot
<1>6. g.late = Top.late /\ IsFrame(g)
  BY <1>2, PunctualStack, SameLate
<1>7. f.late = g.late
  BY <1>4, <1>6, SameLate
<1>. QED
  BY <1>1, <1>5, <1>6, <1>7, GotoPunctual

LEMMA MissPunctual == Punctual /\ Foreknown /\ Miss => LateInv'
<1>. SUFFICES ASSUME Punctual, Foreknown, Miss PROVE LateInv'
  OBVIOUS
<1>1. UNCHANGED collector /\ At("read") /\ ~Got(Step.what)
  BY DEF Miss
<1>2. PICK reaction \in {Step.missing, Step.failing} :
         IF reaction = "next"
         THEN Goto([Passed(Top) EXCEPT !.lost = @ \cup {Step.what}])
         ELSE React(reaction)
  BY DEF Miss
<1>3. CASE reaction = "next"
  <2>1. PICK g : g = Passed(Top)
    OBVIOUS
  <2>2. PICK sources : sources = g.lost \cup {Step.what}
    OBVIOUS
  <2>3. PICK f : f = WithLost(g, sources)
    OBVIOUS
  <2>4. Goto(f)
    BY <1>2, <1>3, <2>1, <2>2, <2>3 DEF WithLost
  <2>5. g.late = Top.late /\ IsFrame(g)
    BY <2>1, PunctualStack, SameLate
  <2>6. f.late = g.late
    BY <2>3, <2>5, SameLate
  <2>. QED BY <1>1, <2>4, <2>5, <2>6, GotoPunctual
<1>4. CASE reaction # "next"
  <2>1. Spares(reaction)
    BY <1>1, <1>2, ReadSpares
  <2>. QED BY <1>1, <1>2, <1>4, <2>1, ReactPunctual
<1>. QED
  BY <1>3, <1>4

LEMMA ActPunctual == Punctual /\ Foreknown /\ Act => LateInv'
<1>. SUFFICES ASSUME Punctual, Foreknown, Act PROVE LateInv'
  OBVIOUS
<1>1. UNCHANGED collector /\ At("do") /\ React(Step.reaction)
  BY DEF Act
<1>2. PICK reaction : reaction = Step.reaction
  OBVIOUS
<1>3. Spares(reaction)
  BY <1>1, <1>2, DoSpares
<1>. QED
  BY <1>1, <1>2, <1>3, ReactPunctual

LEMMA OldLabelsPunctual == Punctual /\ OldLabels => LateInv'
<1>. SUFFICES ASSUME Punctual, OldLabels PROVE LateInv'
  OBVIOUS
<1>1. UNCHANGED collector /\ React("skip")
  BY DEF OldLabels
<1>2. Spares("skip")
  BY DEF Spares
<1>. QED
  BY <1>1, <1>2, ReactPunctual

LEMMA HoldsPunctual == Punctual /\ Holds => LateInv'
<1>. SUFFICES ASSUME Punctual, Holds PROVE LateInv'
  OBVIOUS
<1>1. /\ UNCHANGED collector
      /\ Goto([Top EXCEPT !.rest = Step.then \o Tail(@), !.got = @ \cup {Step.what}])
  BY DEF Holds
<1>2. PICK g : g = WithRest(Top, Then)
  OBVIOUS
<1>3. PICK sources : sources = g.got \cup {Step.what}
  OBVIOUS
<1>4. PICK f : f = WithGot(g, sources)
  OBVIOUS
<1>5. Goto(f)
  BY <1>1, <1>2, <1>3, <1>4 DEF WithGot, WithRest, Then
<1>6. g.late = Top.late /\ IsFrame(g)
  BY <1>2, PunctualStack, SameLate
<1>7. f.late = g.late
  BY <1>4, <1>6, SameLate
<1>. QED
  BY <1>1, <1>5, <1>6, <1>7, GotoPunctual

LEMMA FailsPunctual == Punctual /\ Fails => LateInv'
<1>. SUFFICES ASSUME Punctual, Fails PROVE LateInv'
  OBVIOUS
<1>1. /\ UNCHANGED collector
      /\ Goto([Top EXCEPT !.rest = Step.else \o Tail(@), !.lost = @ \cup {Step.what}])
  BY DEF Fails
<1>2. PICK g : g = WithRest(Top, Else)
  OBVIOUS
<1>3. PICK sources : sources = g.lost \cup {Step.what}
  OBVIOUS
<1>4. PICK f : f = WithLost(g, sources)
  OBVIOUS
<1>5. Goto(f)
  BY <1>1, <1>2, <1>3, <1>4 DEF WithLost, WithRest, Else
<1>6. g.late = Top.late /\ IsFrame(g)
  BY <1>2, PunctualStack, SameLate
<1>7. f.late = g.late
  BY <1>4, <1>6, SameLate
<1>. QED
  BY <1>1, <1>5, <1>6, <1>7, GotoPunctual

\* The outermost frame, when the steps of the innermost one change.
LEMMA OuterFrame ==
    ASSUME Punctual, NEW f, Suits(f, frames, 1), NEW h, h = Put(frames, 1, f),
           NEW n, n = Len(frames)
    PROVE  IsFrame(h[n])
BY OuterSuits DEF Punctual, FrameFits

LEMMA FlagSetPunctual == Punctual /\ FlagSet => LateInv'
<1>. SUFFICES ASSUME Punctual, FlagSet PROVE LateInv'
  OBVIOUS
<1>1. Running /\ Top.rest # <<>> /\ Step.op = "flag" /\ UNCHANGED collector
  BY DEF FlagSet, At, Step
<1>2. frames' = [frames EXCEPT ![1].rest = Then, ![Len(frames)].got = @ \cup {Step.what}]
  BY DEF FlagSet, Then, Top, Outer
<1>3. PICK f : f = WithRest(Top, Then)
  OBVIOUS
<1>4. PICK n : n = Len(frames)
  OBVIOUS
<1>5. PICK h : h = Put(frames, 1, f)
  OBVIOUS
<1>6. PICK sources : sources = h[n].got \cup {Step.what}
  OBVIOUS
<1>7. PICK g : g = WithGot(h[n], sources)
  OBVIOUS
<1>8. frames' = Ends(f, g)
  BY <1>2, <1>3, <1>4, <1>5, <1>6, <1>7 DEF Ends, Put, WithGot, WithRest, Top
<1>9. Suits(f, frames, 1)
  BY <1>1, <1>3, Branches, BranchFits DEF Punctual
<1>10. IsFrame(h[n])
  BY <1>4, <1>5, <1>9, OuterFrame
<1>11. g.late = h[n].late
  BY <1>7, <1>10, SameLate
<1>12. f.late = Top.late
  BY <1>3, PunctualStack, SameLate
<1>. QED
  BY <1>1, <1>4, <1>5, <1>8, <1>11, <1>12, EndsPunctual

LEMMA FlagClearPunctual == Punctual /\ FlagClear => LateInv'
<1>. SUFFICES ASSUME Punctual, FlagClear PROVE LateInv'
  OBVIOUS
<1>1. Running /\ Top.rest # <<>> /\ Step.op = "flag" /\ UNCHANGED collector
  BY DEF FlagClear, At, Step
<1>2. frames' = [frames EXCEPT ![1].rest = Else, ![Len(frames)].lost = @ \cup {Step.what}]
  BY DEF FlagClear, Else, Top, Outer
<1>3. PICK f : f = WithRest(Top, Else)
  OBVIOUS
<1>4. PICK n : n = Len(frames)
  OBVIOUS
<1>5. PICK h : h = Put(frames, 1, f)
  OBVIOUS
<1>6. PICK sources : sources = h[n].lost \cup {Step.what}
  OBVIOUS
<1>7. PICK g : g = WithLost(h[n], sources)
  OBVIOUS
<1>8. frames' = Ends(f, g)
  BY <1>2, <1>3, <1>4, <1>5, <1>6, <1>7 DEF Ends, Put, WithLost, WithRest, Top
<1>9. Suits(f, frames, 1)
  BY <1>1, <1>3, Branches, BranchFits DEF Punctual
<1>10. IsFrame(h[n])
  BY <1>4, <1>5, <1>9, OuterFrame
<1>11. g.late = h[n].late
  BY <1>7, <1>10, SameLate
<1>12. f.late = Top.late
  BY <1>3, PunctualStack, SameLate
<1>. QED
  BY <1>1, <1>4, <1>5, <1>8, <1>11, <1>12, EndsPunctual

LEMMA NewLabelsPunctual == Punctual /\ NewLabels => LateInv'
<1>. SUFFICES ASSUME Punctual, NewLabels PROVE LateInv'
  OBVIOUS
<1>1. Running /\ Top.rest # <<>> /\ UNCHANGED collector
  BY DEF NewLabels, At
<1>2. PICK labels : labels = Labels(Step.labels)
  OBVIOUS
<1>3. frames' = [frames EXCEPT ![1].rest = Tail(@), ![Len(frames)].done = @ \cup {labels}]
  BY <1>2 DEF NewLabels, Outer
<1>4. PICK f : f = Passed(Top)
  OBVIOUS
<1>5. PICK n : n = Len(frames)
  OBVIOUS
<1>6. PICK h : h = Put(frames, 1, f)
  OBVIOUS
<1>7. PICK done : done = h[n].done \cup {labels}
  OBVIOUS
<1>8. PICK g : g = WithDone(h[n], done)
  OBVIOUS
<1>9. frames' = Ends(f, g)
  BY <1>3, <1>4, <1>5, <1>6, <1>7, <1>8 DEF Ends, Put, WithDone, Passed, Top
<1>10. Suits(f, frames, 1)
  BY <1>1, <1>4, TopPassed DEF Punctual
<1>11. IsFrame(h[n])
  BY <1>5, <1>6, <1>10, OuterFrame
<1>12. g.late = h[n].late
  BY <1>8, <1>11, SameLate
<1>13. f.late = Top.late
  BY <1>4, PunctualStack, SameLate
<1>. QED
  BY <1>1, <1>5, <1>6, <1>9, <1>12, <1>13, EndsPunctual

LEMMA PassedPunctual ==
    ASSUME Punctual, Goto(Passed(Top)), UNCHANGED collector
    PROVE  LateInv'
<1>1. PICK f : f = Passed(Top)
  OBVIOUS
<1>2. f.late = Top.late
  BY <1>1, PunctualStack, SameLate
<1>. QED
  BY <1>1, <1>2, GotoPunctual

LEMMA EnterLoopPunctual == Punctual /\ EnterLoop => LateInv'
<1>. SUFFICES ASSUME Punctual, EnterLoop PROVE LateInv'
  OBVIOUS
<1>1. UNCHANGED collector
  BY DEF EnterLoop
<1>2. CASE Goto(Passed(Top))
  BY <1>1, <1>2, PassedPunctual
<1>3. CASE frames' = <<LoopFrame(Step), Passed(Top)>> \o Tail(frames)
  <2>1. PICK f : f = LoopFrame(Step)
    OBVIOUS
  <2>2. ~f.late
    BY <2>1 DEF LoopFrame, Frame
  <2>. QED BY <1>1, <1>3, <2>1, <2>2, PushPunctual
<1>. QED
  BY <1>2, <1>3 DEF EnterLoop, LoopFrame

LEMMA CallHelperPunctual == Punctual /\ CallHelper => LateInv'
<1>. SUFFICES ASSUME Punctual, CallHelper PROVE LateInv'
  OBVIOUS
<1>1. UNCHANGED collector /\ frames' = <<HelperFrame(Step), Passed(Top)>> \o Tail(frames)
  BY DEF CallHelper, HelperFrame
<1>2. PICK f : f = HelperFrame(Step)
  OBVIOUS
<1>3. ~f.late
  BY <1>2 DEF HelperFrame, Frame
<1>. QED
  BY <1>1, <1>2, <1>3, PushPunctual

LEMMA NextItemPunctual == Punctual /\ NextItem => LateInv'
<1>. SUFFICES ASSUME Punctual, NextItem PROVE LateInv'
  OBVIOUS
<1>1. UNCHANGED collector
  BY DEF NextItem
<1>2. PICK label : Goto(ItemFrame(label))
  BY DEF NextItem, ItemFrame
<1>3. PICK top : top = Top
  OBVIOUS
<1>4. PICK f : f = ItemFrame(label)
  OBVIOUS
<1>5. f = [top EXCEPT !.rest = top.body, !.item = @ + 1, !.label = label,
                      !.got = {}, !.lost = {}]
  BY <1>3, <1>4 DEF ItemFrame
<1>6. IsFrame(top)
  BY <1>3, PunctualStack
<1>7. f.late = top.late
  BY <1>5, <1>6 DEF IsFrame
<1>. QED
  BY <1>1, <1>2, <1>3, <1>4, <1>7, GotoPunctual

LEMMA HelperReturnsPunctual == Punctual /\ HelperReturns => LateInv'
<1>. SUFFICES ASSUME Punctual, HelperReturns PROVE LateInv'
  OBVIOUS
<1>1. Running /\ Top.failed # "" /\ UNCHANGED collector
  BY DEF HelperReturns
<1>2. PICK r : r = Tail(frames)
  OBVIOUS
<1>3. PICK t : t = Tail(r)
  OBVIOUS
<1>4. PICK f : f = CallerFrame
  OBVIOUS
<1>5. PICK q : q = <<f>> \o t
  OBVIOUS
<1>6. frames' = q
  BY <1>2, <1>3, <1>4, <1>5 DEF HelperReturns, CallerFrame
<1>7. Live(frames) /\ Len(frames) - 1 > 0
  <2>1. Live(frames) /\ Depth > 0
    BY <1>1, Innermost DEF Punctual
  <2>. QED BY <2>1 DEF Depth
<1>8. Live(r) /\ r[1] = frames[2]
  BY <1>2, <1>7, SecondOfLive
<1>9. IsStack(r) /\ r # <<>> /\ 1 \in 1 .. Len(r)
  BY <1>8, TopOfLive DEF Fits
<1>10. IsFrame(r[1])
  BY <1>8, TopOfLive DEF FrameFits
<1>11. f.late = r[1].late
  <2>1. PICK caller : caller = r[1]
    OBVIOUS
  <2>2. PICK got : got = caller.got \cup Top.got
    OBVIOUS
  <2>3. PICK lost : lost = caller.lost \cup Top.lost
    OBVIOUS
  <2>4. f = [caller EXCEPT !.got = got, !.lost = lost]
    BY <1>4, <1>8, <2>1, <2>2, <2>3 DEF CallerFrame
  <2>5. IsFrame(caller)
    BY <1>10, <2>1
  <2>6. f.late = caller.late
    BY <2>4, <2>5 DEF IsFrame
  <2>. QED BY <2>1, <2>6
<1>12. collector \notin Incremental => NotLate(r)
  BY <1>2, PunctualStack, PopNotLate
<1>13. collector \notin Incremental => ~f.late
  BY <1>9, <1>11, <1>12 DEF NotLate
<1>14. IsStack(t)
  BY <1>3, <1>9, PopStack
<1>15. collector \notin Incremental => NotLate(t)
  BY <1>3, <1>9, <1>12, PopNotLate
<1>16. collector \notin Incremental => NotLate(q)
  BY <1>5, <1>13, <1>14, <1>15, PushNotLate
<1>. QED
  BY <1>1, <1>6, <1>16, StillPunctual

LEMMA DereferencePunctual == Punctual /\ Dereference => LateInv'
<1>. SUFFICES ASSUME Punctual, Dereference PROVE LateInv'
  OBVIOUS
<1>1. UNCHANGED collector
  BY DEF Dereference
<1>2. CASE Goto(Passed(Top))
  BY <1>1, <1>2, PassedPunctual
<1>3. CASE verdict' = "panic"
  BY <1>3 DEF LateInv, Running
<1>. QED
  BY <1>2, <1>3 DEF Dereference

LEMMA ReturnNilPunctual == Punctual /\ ReturnNil => LateInv'
<1>. SUFFICES ASSUME Punctual, ReturnNil PROVE LateInv'
  OBVIOUS
<1>1. UNCHANGED collector /\ Return(IF Top.late THEN "error" ELSE "nil")
  BY DEF ReturnNil
<1>2. PICK result \in {"nil", "error"} : Return(result)
  BY <1>1
<1>. QED
  BY <1>1, <1>2, ReturnPunctual

LEMMA NextLate == Foreknown /\ LateInv /\ [UpdateNext]_updateVars => LateInv'
<1>. SUFFICES ASSUME Foreknown, LateInv, [UpdateNext]_updateVars PROVE LateInv'
  OBVIOUS
<1>1. CASE UNCHANGED updateVars
  <2>1. UNCHANGED <<collector, frames, verdict>>
    BY <1>1 DEF updateVars
  <2>. QED BY <2>1 DEF LateInv, NotLate, Running
<1>2. Running => Punctual
  BY DEF Punctual, Foreknown
<1>3. CASE Obtain BY <1>2, <1>3, ObtainPunctual DEF Obtain, At
<1>4. CASE Miss BY <1>2, <1>4, MissPunctual DEF Miss, At
<1>5. CASE Act BY <1>2, <1>5, ActPunctual DEF Act, At
<1>6. CASE Holds BY <1>2, <1>6, HoldsPunctual DEF Holds, At
<1>7. CASE Fails BY <1>2, <1>7, FailsPunctual DEF Fails, At
<1>8. CASE FlagSet BY <1>2, <1>8, FlagSetPunctual DEF FlagSet, At
<1>9. CASE FlagClear BY <1>2, <1>9, FlagClearPunctual DEF FlagClear, At
<1>10. CASE EnterLoop BY <1>2, <1>10, EnterLoopPunctual DEF EnterLoop, At
<1>11. CASE NextItem BY <1>2, <1>11, NextItemPunctual DEF NextItem
<1>12. CASE LeaveLoop BY <1>2, <1>12, PopPunctual DEF LeaveLoop
<1>13. CASE CallHelper BY <1>2, <1>13, CallHelperPunctual DEF CallHelper, At
<1>14. CASE HelperReturns BY <1>2, <1>14, HelperReturnsPunctual DEF HelperReturns
<1>15. CASE NewLabels BY <1>2, <1>15, NewLabelsPunctual DEF NewLabels, At
<1>16. CASE OldLabels BY <1>2, <1>16, OldLabelsPunctual DEF OldLabels, At
<1>17. CASE SendSamples BY <1>2, <1>17, PassedPunctual DEF SendSamples, At
<1>18. CASE Dereference BY <1>2, <1>18, DereferencePunctual DEF Dereference, At
<1>19. CASE ReturnNil BY <1>2, <1>19, ReturnNilPunctual DEF ReturnNil
<1>. QED
  BY <1>1, <1>3, <1>4, <1>5, <1>6, <1>7, <1>8, <1>9, <1>10, <1>11, <1>12, <1>13,
     <1>14, <1>15, <1>16, <1>17, <1>18, <1>19 DEF UpdateNext

LEMMA InitLate == UpdateInit => LateInv
<1>. SUFFICES ASSUME UpdateInit PROVE LateInv
  OBVIOUS
<1>1. PICK f : f = Frame(Script[collector])
  OBVIOUS
<1>2. PICK q : q = <<f>>
  OBVIOUS
<1>3. frames = q
  BY <1>1, <1>2 DEF UpdateInit
<1>4. Len(q) = 1 /\ q[1] = f
  BY <1>2, OneStack
<1>5. ~f.late
  BY <1>1 DEF Frame
<1>6. ASSUME NEW i \in 1 .. Len(q) PROVE ~q[i].late
  <2>1. i = 1
    BY <1>4
  <2>. QED BY <1>4, <1>5, <2>1
<1>. QED
  BY <1>3, <1>6 DEF LateInv, NotLate
-----------------------------------------------------------------------------
LEMMA SparedVerdict ==
    ASSUME FailureSentNothing, NEW result, Spares(result),
           UNCHANGED <<collector, seen>>, verdict' \in {verdict, result}
    PROVE  FailureSentNothing'
BY DEF FailureSentNothing, Spares

LEMMA NextSpared ==
    Foreknown /\ LateInv /\ FailureSentNothing /\ [UpdateNext]_updateVars
      => FailureSentNothing'
<1>. SUFFICES ASSUME Foreknown, LateInv, FailureSentNothing, [UpdateNext]_updateVars
              PROVE  FailureSentNothing'
  OBVIOUS
<1>1. CASE UNCHANGED <<collector, seen, verdict>>
  BY <1>1 DEF FailureSentNothing
<1>2. CASE Miss
  <2>1. UNCHANGED <<collector, seen>> /\ At("read") /\ ~Got(Step.what)
    BY <1>2 DEF Miss
  <2>2. PICK reaction \in {Step.missing, Step.failing} : verdict' \in {verdict, reaction}
    BY <1>2, MissVerdict
  <2>3. Spares(reaction)
    BY <2>1, ReadSpares
  <2>. QED BY <2>1, <2>2, <2>3, SparedVerdict
<1>3. CASE Act
  <2>1. UNCHANGED <<collector, seen>> /\ At("do") /\ React(Step.reaction)
    BY <1>3 DEF Act
  <2>2. PICK reaction : reaction = Step.reaction
    OBVIOUS
  <2>3. verdict' \in {verdict, reaction}
    BY <2>1, <2>2, ReactVerdict
  <2>4. Spares(reaction)
    BY <2>1, <2>2, DoSpares
  <2>. QED BY <2>1, <2>3, <2>4, SparedVerdict
<1>4. CASE OldLabels
  <2>1. UNCHANGED <<collector, seen>> /\ React("skip")
    BY <1>4 DEF OldLabels
  <2>2. verdict' = verdict
    BY <2>1, ReactVerdict
  <2>. QED BY <2>1, <2>2 DEF FailureSentNothing
<1>5. CASE SendSamples
  <2>1. Running /\ UNCHANGED verdict
    BY <1>5 DEF SendSamples, At
  <2>. QED BY <2>1 DEF FailureSentNothing, Running
<1>6. CASE Dereference
  <2>1. UNCHANGED <<collector, seen>> /\ verdict' \in {verdict, "panic"}
    BY <1>6 DEF Dereference
  <2>2. Spares("panic")
    BY DEF Spares
  <2>. QED BY <2>1, <2>2, SparedVerdict
<1>7. CASE ReturnNil
  <2>1. /\ Running /\ UNCHANGED <<collector, seen>>
        /\ Return(IF Top.late THEN "error" ELSE "nil")
    BY <1>7 DEF ReturnNil
  <2>2. Punctual
    BY <2>1 DEF Punctual, Foreknown
  <2>3. collector \notin Incremental => ~Top.late
    BY <2>2, PunctualStack
  <2>4. PICK result : result = IF Top.late THEN "error" ELSE "nil"
    OBVIOUS
  <2>5. result \in {"nil", "error"} /\ (collector \notin Incremental => result = "nil")
    BY <2>3, <2>4
  <2>6. Spares(result)
    BY <2>5 DEF Spares
  <2>7. verdict' \in {verdict, result}
    BY <2>1, <2>4, ReturnVerdict
  <2>. QED BY <2>1, <2>6, <2>7, SparedVerdict
<1>. QED
  BY <1>1, <1>2, <1>3, <1>4, <1>5, <1>6, <1>7 DEF UpdateNext, updateVars, Obtain, Holds,
     Fails, FlagSet, FlagClear, EnterLoop, NextItem, LeaveLoop, CallHelper, HelperReturns,
     NewLabels

\* What an Update keeps: a stack of frames, each at a place that was judged.
DisciplineInv == StackInv /\ SeenInv /\ KnownInv

LEMMA NextDiscipline == DisciplineInv /\ [UpdateNext]_updateVars => DisciplineInv'
BY NextStack, NextSeen, NextKnown DEF DisciplineInv

LEMMA InitDiscipline == UpdateInit => DisciplineInv
BY InitStack, InitKnown DEF DisciplineInv

LEMMA DisciplineForeknown == DisciplineInv => Foreknown
BY DEF DisciplineInv, Foreknown, SeenInv
-----------------------------------------------------------------------------
\* No collector but those of Unbacked sends a value it did not read, in a loop
\* of however many items: not after a read that failed and was ignored, not of
\* an item whose read was skipped, not of one that another item read.
THEOREM SendsOnlyWhatWasRead == UpdateSpec => []OnlyWhatWasRead
<1>1. UpdateInit => DisciplineInv /\ OnlyWhatWasRead
  BY InitDiscipline DEF UpdateInit, OnlyWhatWasRead
<1>2. DisciplineInv /\ OnlyWhatWasRead /\ [UpdateNext]_updateVars
        => (DisciplineInv /\ OnlyWhatWasRead)'
  BY NextDiscipline, DisciplineForeknown, NextBacked
<1>. QED
  BY <1>1, <1>2, PTL DEF UpdateSpec

\* No Update uses what it did not obtain, so none ends the agent by a panic, but
\* in the accesses that MayPanic names: the other accesses of the same collector
\* are guarded, in a loop of however many items and behind every branch.
THEOREM NeverPanics == UpdateSpec => []NoPanic
<1>1. UpdateInit => DisciplineInv /\ NoPanic
  BY InitDiscipline DEF UpdateInit, NoPanic
<1>2. DisciplineInv /\ NoPanic /\ [UpdateNext]_updateVars => (DisciplineInv /\ NoPanic)'
  BY NextDiscipline, DisciplineForeknown, NextUnpanicked
<1>. QED
  BY <1>1, <1>2, PTL DEF UpdateSpec

\* An Update that ends with no data or with an error has sent nothing, but for
\* the collectors that LateNoData and Incremental name: what can end it so
\* comes before the first sample, in every loop and helper.
THEOREM FailuresSendNothing == UpdateSpec => []FailureSentNothing
<1>1. UpdateInit => DisciplineInv /\ LateInv /\ FailureSentNothing
  BY InitDiscipline, InitLate DEF UpdateInit, FailureSentNothing
<1>2. DisciplineInv /\ LateInv /\ FailureSentNothing /\ [UpdateNext]_updateVars
        => (DisciplineInv /\ LateInv /\ FailureSentNothing)'
  BY NextDiscipline, DisciplineForeknown, NextLate, NextSpared
<1>. QED
  BY <1>1, <1>2, PTL DEF UpdateSpec
=============================================================================
