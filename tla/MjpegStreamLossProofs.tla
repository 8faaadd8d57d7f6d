----------------------- MODULE MjpegStreamLossProofs -----------------------
(***************************************************************************)
(* Proofs about MjpegStream under losses: which flushes a lost chunk can   *)
(* damage, how much the client gathers, and that the stream implements     *)
(* StreamPromise.  Every flush and every chunk is an interval of the bytes *)
(* encoded, and the chunks still to come are a chain of intervals; what    *)
(* the client has is told from where that chain begins.                    *)
(***************************************************************************)
EXTENDS MjpegStreamProofs

-----------------------------------------------------------------------------
(* The bytes after a up to b *)

Between(a, b) == [i \in 1..(b - a) |-> a + i]

LEMMA BetweenType ==
  ASSUME NEW a \in Nat, NEW b \in Nat, a <= b
  PROVE  /\ Between(a, b) \in Seq(Nat) /\ Len(Between(a, b)) = b - a
         /\ \A i \in 1..(b - a) : Between(a, b)[i] = a + i
BY DEF Between

LEMMA BetweenNone ==
  ASSUME NEW a \in Nat
  PROVE  Between(a, a) = <<>>
<1>1. Between(a, a) \in Seq(Nat) /\ Len(Between(a, a)) = 0
  BY BetweenType
<1> QED
  BY <1>1, EmptySeq

LEMMA BetweenEnds ==
  ASSUME NEW a \in Nat, NEW b \in Nat, a < b
  PROVE  /\ Between(a, b)[1] = a + 1 /\ Between(a, b)[Len(Between(a, b))] = b
         /\ Between(a, b) # <<>>
<1>1. Len(Between(a, b)) = b - a /\ \A i \in 1..(b - a) : Between(a, b)[i] = a + i
  BY BetweenType
<1>2. 1 \in 1..(b - a) /\ b - a \in 1..(b - a) /\ a + (b - a) = b
  OBVIOUS
<1>3. Between(a, b) # <<>>
  BY <1>1
<1> HIDE DEF Between
<1> QED
  BY <1>1, <1>2, <1>3

LEMMA BetweenRange ==
  ASSUME NEW a \in Nat, NEW b \in Nat, a <= b
  PROVE  \A x \in Range(Between(a, b)) : x \in Nat /\ a < x /\ x <= b
<1>1. \A i \in 1..(b - a) : Between(a, b)[i] = a + i
  BY BetweenType
<1>2. DOMAIN Between(a, b) = 1..(b - a)
  BY DEF Between
<1> QED
  BY <1>1, <1>2 DEF Range

LEMMA BetweenJoins ==
  ASSUME NEW a \in Nat, NEW b \in Nat, NEW c \in Nat, a <= b, b <= c
  PROVE  Cat(Between(a, b), Between(b, c)) = Between(a, c)
<1> DEFINE s == Between(a, b)  t == Between(b, c)  u == Between(a, c)
<1>a. s \in Seq(Nat) /\ Len(s) = b - a /\ \A i \in 1..(b - a) : s[i] = a + i
  BY BetweenType
<1>b. t \in Seq(Nat) /\ Len(t) = c - b /\ \A i \in 1..(c - b) : t[i] = b + i
  BY BetweenType
<1>c. u \in Seq(Nat) /\ Len(u) = c - a /\ \A i \in 1..(c - a) : u[i] = a + i
  <2>1. a <= c
    OBVIOUS
  <2> QED
    BY <2>1, BetweenType
<1> HIDE DEF s, t, u
<1>1. /\ s \in Seq(Nat) /\ Len(s) = b - a /\ \A i \in 1..(b - a) : s[i] = a + i
      /\ t \in Seq(Nat) /\ Len(t) = c - b /\ \A i \in 1..(c - b) : t[i] = b + i
      /\ u \in Seq(Nat) /\ Len(u) = c - a /\ \A i \in 1..(c - a) : u[i] = a + i
  BY <1>a, <1>b, <1>c
<1>2. /\ Cat(s, t) \in Seq(Nat) /\ Len(Cat(s, t)) = Len(s) + Len(t)
      /\ \A i \in 1..Len(s) : Cat(s, t)[i] = s[i]
      /\ \A i \in 1..Len(Cat(s, t)) : i > Len(s) => Cat(s, t)[i] = t[i - Len(s)]
  BY <1>1, CatElements, CatType
<1>3. ASSUME NEW i \in 1..Len(u) PROVE Cat(s, t)[i] = u[i]
  <2>1. CASE i <= b - a
    BY <1>1, <1>2, <2>1
  <2>2. CASE i > b - a
    <3>1. i - Len(s) \in 1..(c - b) /\ Cat(s, t)[i] = t[i - Len(s)]
      BY <1>1, <1>2, <2>2
    <3> QED
      BY <1>1, <3>1
  <2> QED
    BY <1>1, <2>1, <2>2
<1>4. Cat(s, t) = u
  <2> DEFINE w == Cat(s, t)
  <2>1. w \in Seq(Nat) /\ Len(w) = Len(u) /\ \A i \in 1..Len(w) : w[i] = u[i]
    BY <1>1, <1>2, <1>3
  <2> HIDE DEF w
  <2>2. w = u
    BY <1>1, <2>1, SeqEqual
  <2> QED
    BY <2>2 DEF w
<1> QED
  BY <1>4 DEF s, t, u

LEMMA BetweenCut ==
  ASSUME NEW a \in Nat, NEW b \in Nat, a <= b, NEW i \in 0..(b - a), NEW j \in i..(b - a)
  PROVE  SubSeq(Between(a, b), i + 1, j) = Between(a + i, a + j)
<1> DEFINE s == Between(a, b)  t == SubSeq(s, i + 1, j)  u == Between(a + i, a + j)
<1>1. s \in Seq(Nat) /\ Len(s) = b - a /\ \A k \in 1..(b - a) : s[k] = a + k
  BY BetweenType
<1>2. u \in Seq(Nat) /\ Len(u) = j - i /\ \A k \in 1..(j - i) : u[k] = a + i + k
  <2>1. a + i \in Nat /\ a + j \in Nat /\ a + i <= a + j /\ (a + j) - (a + i) = j - i
    OBVIOUS
  <2> QED
    BY <2>1, BetweenType
<1> HIDE DEF s, u
<1>3. t \in Seq(Nat) /\ Len(t) = j - i /\ \A k \in 1..(j - i) : t[k] = s[i + k]
  <2>1. \A k \in (i + 1)..j : s[k] \in Nat
    BY <1>1
  <2>2. \A k \in 1..(j - i) : i + 1 + k - 1 = i + k
    OBVIOUS
  <2> QED
    BY <2>1, <2>2, SubSeqProperties
<1> HIDE DEF t
<1>4. \A k \in 1..(j - i) : t[k] = u[k]
  BY <1>1, <1>2, <1>3
<1>5. t = u
  BY <1>2, <1>3, <1>4, SeqEqual
<1> QED
  BY <1>5 DEF s, t, u

(* Heads and tails of one sequence behind another. *)
LEMMA CatHeadTail ==
  ASSUME NEW S, NEW s \in Seq(S), NEW t \in Seq(S), s # <<>>
  PROVE  /\ Cat(s, t) # <<>> /\ Cat(s, t)[1] = Head(s)
         /\ Tail(Cat(s, t)) = Cat(Tail(s), t)
<1>1. /\ Cat(s, t) \in Seq(S) /\ Len(Cat(s, t)) = Len(s) + Len(t)
      /\ Len(s) \in Nat \ {0} /\ Len(t) \in Nat
      /\ \A i \in 1..Len(s) : Cat(s, t)[i] = s[i]
      /\ \A i \in 1..Len(Cat(s, t)) : i > Len(s) => Cat(s, t)[i] = t[i - Len(s)]
  BY CatElements, CatType, EmptySeq
<1>2. Cat(s, t) # <<>> /\ Cat(s, t)[1] = Head(s)
  BY <1>1
<1> DEFINE w == Cat(s, t)  h == Tail(s)
<1>3. h \in Seq(S) /\ Len(h) = Len(s) - 1 /\ \A i \in 1..Len(h) : h[i] = s[i + 1]
  BY HeadTailProperties
<1>4. Tail(w) \in Seq(S) /\ Len(Tail(w)) = Len(w) - 1 /\ \A i \in 1..Len(Tail(w)) : Tail(w)[i] = w[i + 1]
  BY <1>1, <1>2, HeadTailProperties
<1> HIDE DEF w, h
<1>5. /\ Cat(h, t) \in Seq(S) /\ Len(Cat(h, t)) = Len(h) + Len(t)
      /\ \A i \in 1..Len(h) : Cat(h, t)[i] = h[i]
      /\ \A i \in 1..Len(Cat(h, t)) : i > Len(h) => Cat(h, t)[i] = t[i - Len(h)]
  BY <1>3, CatElements, CatType
<1>6. Len(Tail(w)) = Len(Cat(h, t))
  BY <1>1, <1>3, <1>4, <1>5 DEF w
<1>7. ASSUME NEW i \in 1..Len(Tail(w)) PROVE Tail(w)[i] = Cat(h, t)[i]
  <2>1. i + 1 \in 1..Len(w) /\ Tail(w)[i] = w[i + 1]
    BY <1>1, <1>4 DEF w
  <2>2. CASE i <= Len(h)
    <3>1. i \in 1..Len(h) /\ i + 1 \in 1..Len(s)
      BY <1>1, <1>3, <2>2
    <3>2. w[i + 1] = s[i + 1] /\ Cat(h, t)[i] = h[i]
      BY <1>1, <1>5, <3>1 DEF w
    <3> QED
      BY <1>3, <2>1, <3>1, <3>2
  <2>3. CASE i > Len(h)
    <3>1. i + 1 > Len(s) /\ (i + 1) - Len(s) = i - Len(h)
      BY <1>1, <1>3, <2>3
    <3>2. w[i + 1] = t[i - Len(h)]
      BY <1>1, <2>1, <3>1 DEF w
    <3> QED
      BY <1>5, <1>6, <2>1, <2>3, <3>2
  <2> QED
    BY <1>1, <1>3, <2>2, <2>3
<1>8. Tail(w) = Cat(h, t)
  BY <1>4, <1>5, <1>6, <1>7, SeqEqual
<1> QED
  BY <1>2, <1>8 DEF w, h

LEMMA CatOne ==
  ASSUME NEW S, NEW s \in Seq(S), NEW t \in Seq(S), t # <<>>
  PROVE  Cat(Append(s, Head(t)), Tail(t)) = Cat(s, t)
<1>1. Head(t) \in S /\ Tail(t) \in Seq(S) /\ <<Head(t)>> \in Seq(S)
  BY HeadTailProperties
<1>2. Append(s, Head(t)) = Cat(s, <<Head(t)>>)
  BY <1>1, AppendIsConcat DEF Cat
<1>3. Cat(<<Head(t)>>, Tail(t)) = t
  BY HeadTailProperties, ConcatProperties DEF Cat
<1>4. Cat(Cat(s, <<Head(t)>>), Tail(t)) = Cat(s, Cat(<<Head(t)>>, Tail(t)))
  <2> DEFINE h == <<Head(t)>>  r == Tail(t)
  <2>1. h \in Seq(S) /\ r \in Seq(S)
    BY <1>1
  <2> HIDE DEF h, r
  <2>2. Cat(Cat(s, h), r) = Cat(s, Cat(h, r))
    BY <2>1, CatAssociative
  <2> QED
    BY <2>2 DEF h, r
<1> QED
  BY <1>2, <1>3, <1>4

(* Their elements as sets. *)
LEMMA RangeCat ==
  ASSUME NEW S, NEW s \in Seq(S), NEW t \in Seq(S)
  PROVE  \A x \in Range(Cat(s, t)) : x \in Range(s) \/ x \in Range(t)
<1>1. /\ Len(Cat(s, t)) = Len(s) + Len(t) /\ Len(s) \in Nat /\ Len(t) \in Nat
      /\ \A i \in 1..Len(s) : Cat(s, t)[i] = s[i]
      /\ \A i \in 1..Len(Cat(s, t)) : i > Len(s) => Cat(s, t)[i] = t[i - Len(s)]
      /\ Cat(s, t) \in Seq(S)
  BY CatElements, CatType
<1>2. /\ DOMAIN s = 1..Len(s) /\ DOMAIN t = 1..Len(t)
      /\ DOMAIN Cat(s, t) = 1..Len(Cat(s, t))
  BY <1>1
<1> SUFFICES ASSUME NEW i \in 1..Len(Cat(s, t))
             PROVE  Cat(s, t)[i] \in Range(s) \/ Cat(s, t)[i] \in Range(t)
  BY <1>2 DEF Range
<1>3. CASE i <= Len(s)
  BY <1>1, <1>2, <1>3 DEF Range
<1>4. CASE i > Len(s)
  <2>1. i - Len(s) \in 1..Len(t)
    BY <1>1, <1>4
  <2> QED
    BY <1>1, <1>2, <1>4, <2>1 DEF Range
<1> QED
  BY <1>1, <1>3, <1>4

LEMMA RangeAppend ==
  ASSUME NEW S, NEW s \in Seq(S), NEW x \in S
  PROVE  Range(Append(s, x)) = Range(s) \union {x}
<1>1. /\ Append(s, x) \in Seq(S) /\ Len(Append(s, x)) = Len(s) + 1 /\ Len(s) \in Nat
      /\ \A i \in 1..Len(s) : Append(s, x)[i] = s[i]
      /\ Append(s, x)[Len(s) + 1] = x
  BY AppendProperties
<1>2. DOMAIN s = 1..Len(s) /\ DOMAIN Append(s, x) = 1..(Len(s) + 1)
  BY <1>1
<1>3. 1..(Len(s) + 1) = 1..Len(s) \union {Len(s) + 1}
  BY <1>1
<1> DEFINE w == Append(s, x)
<1>4. \A y \in Range(w) : y \in Range(s) \/ y = x
  BY <1>1, <1>2, <1>3 DEF Range
<1>5. \A y \in Range(s) : y \in Range(w)
  BY <1>1, <1>2, <1>3 DEF Range
<1>6. x \in Range(w)
  BY <1>1, <1>2, <1>3 DEF Range
<1> QED
  BY <1>4, <1>5, <1>6

-----------------------------------------------------------------------------
(* Flushes and chunks as intervals.  These are about any sequences of them, *)
(* not about a state.                                                      *)

FlushEnd(fs, f) == IF f = 0 THEN 0 ELSE fs[f][Len(fs[f])]

FlushesGood(fs, most) ==
  \A f \in 1..Len(fs) :
    /\ FlushEnd(fs, f) \in Nat
    /\ FlushEnd(fs, f - 1) < FlushEnd(fs, f)
    /\ FlushEnd(fs, f) <= FlushEnd(fs, f - 1) + most
    /\ fs[f] = Between(FlushEnd(fs, f - 1), FlushEnd(fs, f))

Lo(c) == c.data[1] - 1
Hi(c) == c.data[Len(c.data)]

ChunkGood(fs, c) ==
  /\ c.flush \in 1..Len(fs)
  /\ Lo(c) \in Nat /\ Hi(c) \in Nat
  /\ c.data = Between(Lo(c), Hi(c))
  /\ FlushEnd(fs, c.flush - 1) <= Lo(c) /\ Lo(c) < Hi(c) /\ Hi(c) <= FlushEnd(fs, c.flush)
  /\ c.head = Independent <=> Hi(c) = FlushEnd(fs, c.flush)

Follows(c, d) ==
  /\ Lo(d) = Hi(c)
  /\ d.flush = IF c.head = Independent THEN c.flush + 1 ELSE c.flush

Chain(fs, rest) ==
  /\ \A i \in 1..Len(rest) : ChunkGood(fs, rest[i])
  /\ \A i \in 1..(Len(rest) - 1) : Follows(rest[i], rest[i + 1])
  /\ rest # <<>> => /\ rest[Len(rest)].head = Independent
                    /\ rest[Len(rest)].flush = Len(fs)

(* Where the chain begins: how many flushes lie before it, and the byte.   *)
SettledOf(fs, rest) == IF rest = <<>> THEN Len(fs) ELSE rest[1].flush - 1
AtOf(fs, rest) == IF rest = <<>> THEN FlushEnd(fs, Len(fs)) ELSE Lo(rest[1])

LEMMA EndType ==
  ASSUME NEW fs, NEW most, Len(fs) \in Nat, FlushesGood(fs, most)
  PROVE  \A f \in 0..Len(fs) : FlushEnd(fs, f) \in Nat
BY DEF FlushesGood, FlushEnd

LEMMA EndGrows ==
  ASSUME NEW fs, NEW most, Len(fs) \in Nat, FlushesGood(fs, most),
         NEW f \in 0..Len(fs), NEW g \in f..Len(fs)
  PROVE  FlushEnd(fs, f) <= FlushEnd(fs, g)
<1> DEFINE S == {n \in Nat : f + n <= Len(fs) => FlushEnd(fs, f) <= FlushEnd(fs, f + n)}
<1>1. \A h \in 0..Len(fs) : FlushEnd(fs, h) \in Nat
  BY EndType
<1>2. 0 \in S
  BY <1>1
<1>3. ASSUME NEW n \in Nat, n \in S PROVE n + 1 \in S
  <2> SUFFICES ASSUME f + (n + 1) <= Len(fs) PROVE FlushEnd(fs, f) <= FlushEnd(fs, f + (n + 1))
    OBVIOUS
  <2>1. f + n \in 0..Len(fs) /\ f + (n + 1) \in 1..Len(fs) /\ (f + (n + 1)) - 1 = f + n
    OBVIOUS
  <2>2. FlushEnd(fs, f) <= FlushEnd(fs, f + n)
    BY <1>3, <2>1
  <2>3. FlushEnd(fs, f + n) < FlushEnd(fs, f + (n + 1))
    BY <2>1 DEF FlushesGood
  <2> QED
    BY <1>1, <2>1, <2>2, <2>3
<1> HIDE DEF S
<1>4. Nat \subseteq S
  BY <1>2, <1>3, SetInduction
<1>5. g - f \in Nat /\ f + (g - f) = g
  OBVIOUS
<1> QED
  BY <1>4, <1>5 DEF S

(* Another flush leaves the ends of those before as they were. *)
LEMMA FlushesGrow ==
  ASSUME NEW fs \in Seq(Seq(Nat)), NEW most \in Nat, FlushesGood(fs, most),
         NEW e \in Nat, FlushEnd(fs, Len(fs)) < e, e <= FlushEnd(fs, Len(fs)) + most,
         NEW b \in Seq(Nat), b = Between(FlushEnd(fs, Len(fs)), e)
  PROVE  /\ FlushesGood(Append(fs, b), most)
         /\ Len(Append(fs, b)) = Len(fs) + 1
         /\ \A f \in 0..Len(fs) : FlushEnd(Append(fs, b), f) = FlushEnd(fs, f)
         /\ \A f \in 1..Len(fs) : Append(fs, b)[f] = fs[f]
         /\ FlushEnd(Append(fs, b), Len(fs) + 1) = e
<1> DEFINE gs == Append(fs, b)
<1>1. /\ gs \in Seq(Seq(Nat)) /\ Len(gs) = Len(fs) + 1 /\ Len(fs) \in Nat
      /\ \A f \in 1..Len(fs) : gs[f] = fs[f]
      /\ gs[Len(fs) + 1] = b
  BY AppendProperties
<1> HIDE DEF gs
<1>2. \A f \in 0..Len(fs) : FlushEnd(gs, f) = FlushEnd(fs, f)
  BY <1>1 DEF FlushEnd
<1>3. FlushEnd(gs, Len(fs) + 1) = e
  <2>1. b[Len(b)] = e
    <3>1. FlushEnd(fs, Len(fs)) \in Nat
      BY <1>1, EndType
    <3> QED
      BY <3>1, BetweenEnds
  <2> QED
    BY <1>1, <2>1 DEF FlushEnd
<1>4. FlushesGood(gs, most)
  <2> SUFFICES ASSUME NEW f \in 1..Len(gs)
               PROVE  /\ FlushEnd(gs, f) \in Nat
                      /\ FlushEnd(gs, f - 1) < FlushEnd(gs, f)
                      /\ FlushEnd(gs, f) <= FlushEnd(gs, f - 1) + most
                      /\ gs[f] = Between(FlushEnd(gs, f - 1), FlushEnd(gs, f))
    BY DEF FlushesGood
  <2>1. CASE f <= Len(fs)
    <3>1. f \in 1..Len(fs) /\ f \in 0..Len(fs) /\ f - 1 \in 0..Len(fs)
      BY <1>1, <2>1
    <3> QED
      BY <1>1, <1>2, <3>1 DEF FlushesGood
  <2>2. CASE f = Len(fs) + 1
    <3>1. f - 1 = Len(fs) /\ Len(fs) \in 0..Len(fs)
      BY <1>1, <2>2
    <3> QED
      BY <1>1, <1>2, <1>3, <2>2, <3>1
  <2> QED
    BY <1>1, <2>1, <2>2
<1> QED
  BY <1>1, <1>2, <1>3, <1>4 DEF gs

(* The chain begins inside the flush after those settled. *)
LEMMA ChainBegins ==
  ASSUME NEW fs, NEW most \in Nat, Len(fs) \in Nat, FlushesGood(fs, most),
         NEW S, NEW rest \in Seq(S), Chain(fs, rest)
  PROVE  /\ SettledOf(fs, rest) \in 0..Len(fs) /\ AtOf(fs, rest) \in Nat
         /\ FlushEnd(fs, SettledOf(fs, rest)) \in Nat
         /\ FlushEnd(fs, SettledOf(fs, rest)) <= AtOf(fs, rest)
         /\ AtOf(fs, rest) <= FlushEnd(fs, SettledOf(fs, rest)) + most
         /\ rest # <<>> => /\ ChunkGood(fs, rest[1])
                           /\ rest[1].flush = SettledOf(fs, rest) + 1
                           /\ SettledOf(fs, rest) + 1 \in 1..Len(fs)
<1>1. \A h \in 0..Len(fs) : FlushEnd(fs, h) \in Nat
  BY EndType
<1>2. CASE rest = <<>>
  BY <1>1, <1>2 DEF SettledOf, AtOf
<1>3. CASE rest # <<>>
  <2> DEFINE c == rest[1]
  <2>1. 1 \in 1..Len(rest)
    BY <1>3, EmptySeq
  <2>2. ChunkGood(fs, c)
    BY <2>1 DEF Chain
  <2> HIDE DEF c
  <2>3. /\ c.flush \in 1..Len(fs) /\ Lo(c) \in Nat /\ Hi(c) \in Nat
        /\ FlushEnd(fs, c.flush - 1) <= Lo(c) /\ Lo(c) < Hi(c) /\ Hi(c) <= FlushEnd(fs, c.flush)
    BY <2>2 DEF ChunkGood
  <2>4. FlushEnd(fs, c.flush) <= FlushEnd(fs, c.flush - 1) + most
    BY <2>3 DEF FlushesGood
  <2>5. c.flush - 1 \in 0..Len(fs) /\ c.flush \in 0..Len(fs)
    BY <2>3
  <2>6. SettledOf(fs, rest) = c.flush - 1 /\ AtOf(fs, rest) = Lo(c)
    BY <1>3 DEF SettledOf, AtOf, c
  <2>7. /\ AtOf(fs, rest) <= FlushEnd(fs, SettledOf(fs, rest)) + most
        /\ FlushEnd(fs, SettledOf(fs, rest)) \in Nat
    BY <1>1, <2>3, <2>4, <2>5, <2>6
  <2> QED
    BY <2>2, <2>3, <2>5, <2>6, <2>7 DEF c
<1> QED
  BY <1>2, <1>3

(* When its first chunk is gone, a chain is left that begins where the     *)
(* chunk ends, and in the next flush if the chunk was a last one.          *)
LEMMA ChainTail ==
  ASSUME NEW fs, NEW most \in Nat, Len(fs) \in Nat, FlushesGood(fs, most),
         NEW S, NEW rest \in Seq(S), Chain(fs, rest), rest # <<>>
  PROVE  /\ Chain(fs, Tail(rest))
         /\ AtOf(fs, Tail(rest)) = Hi(rest[1])
         /\ SettledOf(fs, Tail(rest)) =
              IF rest[1].head = Independent THEN rest[1].flush ELSE rest[1].flush - 1
<1> DEFINE r == Tail(rest)  c == rest[1]
<1>1. /\ r \in Seq(S) /\ Len(r) = Len(rest) - 1 /\ \A i \in 1..Len(r) : r[i] = rest[i + 1]
      /\ Len(rest) \in Nat \ {0}
  BY HeadTailProperties, EmptySeq
<1> HIDE DEF r
<1>2. ChunkGood(fs, c)
  BY <1>1 DEF Chain
<1>3. Chain(fs, r)
  <2>1. ASSUME NEW i \in 1..Len(r) PROVE ChunkGood(fs, r[i])
    BY <1>1 DEF Chain
  <2>2. ASSUME NEW i \in 1..(Len(r) - 1) PROVE Follows(r[i], r[i + 1])
    <3>1. /\ i + 1 \in 1..(Len(rest) - 1) /\ i \in 1..Len(r) /\ i + 1 \in 1..Len(r)
      BY <1>1
    <3>2. Follows(rest[i + 1], rest[(i + 1) + 1])
      BY <3>1 DEF Chain
    <3> QED
      BY <1>1, <3>1, <3>2
  <2>3. ASSUME r # <<>> PROVE r[Len(r)].head = Independent /\ r[Len(r)].flush = Len(fs)
    <3>1. Len(r) \in 1..Len(r) /\ Len(r) + 1 = Len(rest)
      BY <1>1, <2>3, EmptySeq
    <3>2. r[Len(r)] = rest[Len(rest)]
      BY <1>1, <3>1
    <3> QED
      BY <3>2 DEF Chain
  <2> QED
    BY <2>1, <2>2, <2>3 DEF Chain
<1> DEFINE Begins == /\ AtOf(fs, r) = Hi(c)
                     /\ SettledOf(fs, r) = IF c.head = Independent THEN c.flush ELSE c.flush - 1
<1>4. ASSUME r = <<>> PROVE Begins
  <2>1. Len(rest) = 1
    BY <1>1, <1>4
  <2>2. c.head = Independent /\ c.flush = Len(fs)
    BY <2>1 DEF Chain
  <2>3. Hi(c) = FlushEnd(fs, Len(fs))
    BY <1>2, <2>2 DEF ChunkGood
  <2> QED
    BY <1>4, <2>2, <2>3 DEF SettledOf, AtOf
<1>5. ASSUME r # <<>> PROVE Begins
  <2>1. 1 \in 1..Len(r) /\ 1 \in 1..(Len(rest) - 1)
    BY <1>1, <1>5, EmptySeq
  <2>2. Follows(c, r[1])
    <3>1. Follows(rest[1], rest[1 + 1])
      BY <2>1 DEF Chain
    <3> QED
      BY <1>1, <2>1, <3>1
  <2>3. c.flush \in Nat
    BY <1>2 DEF ChunkGood
  <2>4. /\ Lo(r[1]) = Hi(c)
        /\ r[1].flush - 1 = IF c.head = Independent THEN c.flush ELSE c.flush - 1
    BY <2>2, <2>3 DEF Follows
  <2> QED
    BY <1>5, <2>4 DEF SettledOf, AtOf
<1> QED
  BY <1>3, <1>4, <1>5 DEF r

(* The chunks of one flush, from its beginning to its end. *)
Cover(fs, chunks) ==
  /\ chunks # <<>>
  /\ \A i \in 1..Len(chunks) : /\ ChunkGood(fs, chunks[i]) /\ chunks[i].flush = Len(fs)
                               /\ chunks[i].head = Independent <=> i = Len(chunks)
  /\ Lo(chunks[1]) = FlushEnd(fs, Len(fs) - 1)
  /\ \A i \in 1..(Len(chunks) - 1) : Lo(chunks[i + 1]) = Hi(chunks[i])

LEMMA ChainGrows ==
  ASSUME NEW fs, NEW gs, Len(fs) \in Nat, Len(gs) = Len(fs) + 1,
         \A f \in 0..Len(fs) : FlushEnd(gs, f) = FlushEnd(fs, f),
         NEW S, NEW rest \in Seq(S), Chain(fs, rest), NEW chunks \in Seq(S), Cover(gs, chunks)
  PROVE  /\ Chain(gs, Cat(rest, chunks))
         /\ AtOf(gs, Cat(rest, chunks)) = AtOf(fs, rest)
         /\ SettledOf(gs, Cat(rest, chunks)) = SettledOf(fs, rest)
<1> DEFINE w == Cat(rest, chunks)  n == Len(rest)
<1>1. /\ w \in Seq(S) /\ Len(w) = n + Len(chunks) /\ n \in Nat /\ Len(chunks) \in Nat
      /\ \A i \in 1..n : w[i] = rest[i]
      /\ \A i \in 1..Len(chunks) : w[n + i] = chunks[i]
  <2>1. w \in Seq(S)
    BY CatType
  <2>2. /\ Len(Cat(rest, chunks)) = Len(rest) + Len(chunks)
        /\ Len(rest) \in Nat /\ Len(chunks) \in Nat
        /\ \A i \in 1..Len(rest) : Cat(rest, chunks)[i] = rest[i]
        /\ \A i \in 1..Len(chunks) : Cat(rest, chunks)[Len(rest) + i] = chunks[i]
    BY CatElements
  <2> QED
    BY <2>1, <2>2
<1>2. Len(chunks) > 0
  BY <1>1, EmptySeq DEF Cover
<1> HIDE DEF w, n
<1>3. ASSUME NEW c, ChunkGood(fs, c) PROVE ChunkGood(gs, c)
  <2>1. c.flush \in 1..Len(gs) /\ c.flush \in 0..Len(fs) /\ c.flush - 1 \in 0..Len(fs)
    BY <1>3 DEF ChunkGood
  <2> QED
    BY <1>3, <2>1 DEF ChunkGood
<1>4. ASSUME NEW i \in 1..Len(w) PROVE ChunkGood(gs, w[i])
  <2>1. CASE i <= n
    BY <1>1, <1>3, <2>1 DEF Chain, n
  <2>2. CASE i > n
    <3>1. i - n \in 1..Len(chunks) /\ i = n + (i - n)
      BY <1>1, <2>2
    <3>2. w[i] = chunks[i - n]
      BY <1>1, <3>1
    <3> QED
      BY <3>1, <3>2 DEF Cover
  <2> QED
    BY <1>1, <2>1, <2>2
<1>5. ASSUME NEW i \in 1..(Len(w) - 1) PROVE Follows(w[i], w[i + 1])
  <2>1. CASE i < n
    <3>1. i \in 1..(n - 1) /\ i \in 1..n /\ i + 1 \in 1..n
      BY <1>1, <2>1
    <3>2. Follows(rest[i], rest[i + 1])
      BY <3>1 DEF Chain, n
    <3> QED
      BY <1>1, <3>1, <3>2
  <2>2. CASE i = n
    <3>1. n \in 1..n /\ rest # <<>> /\ i + 1 = n + 1 /\ 1 \in 1..Len(chunks)
      BY <1>1, <1>2, <2>2 DEF n
    <3>2. rest[n].head = Independent /\ rest[n].flush = Len(fs) /\ ChunkGood(fs, rest[n])
      BY <3>1 DEF Chain, n
    <3>3. Hi(rest[n]) = FlushEnd(fs, Len(fs))
      BY <3>2 DEF ChunkGood
    <3>4. Lo(chunks[1]) = FlushEnd(fs, Len(fs)) /\ chunks[1].flush = Len(fs) + 1
      <4>1. Len(gs) - 1 = Len(fs) /\ Len(fs) \in 0..Len(fs)
        OBVIOUS
      <4> QED
        BY <3>1, <4>1 DEF Cover
    <3>5. w[i] = rest[n] /\ w[i + 1] = chunks[1]
      BY <1>1, <2>2, <3>1
    <3> QED
      BY <3>2, <3>3, <3>4, <3>5 DEF Follows
  <2>3. CASE i > n
    <3> DEFINE j == i - n
    <3>1. j \in 1..(Len(chunks) - 1) /\ j + 1 \in 1..Len(chunks) /\ j \in 1..Len(chunks)
          /\ i = n + j /\ i + 1 = n + (j + 1) /\ j # Len(chunks)
      BY <1>1, <2>3
    <3> HIDE DEF j
    <3>2. w[i] = chunks[j] /\ w[i + 1] = chunks[j + 1]
      BY <1>1, <3>1
    <3>3. /\ Lo(chunks[j + 1]) = Hi(chunks[j]) /\ chunks[j].head # Independent
          /\ chunks[j].flush = Len(gs) /\ chunks[j + 1].flush = Len(gs)
      BY <3>1 DEF Cover
    <3> QED
      BY <3>2, <3>3 DEF Follows
  <2> QED
    BY <1>1, <2>1, <2>2, <2>3
<1>6. w # <<>> /\ w[Len(w)].head = Independent /\ w[Len(w)].flush = Len(gs)
  <2>1. Len(chunks) \in 1..Len(chunks) /\ Len(w) > 0
    BY <1>1, <1>2
  <2>2. w[Len(w)] = chunks[Len(chunks)]
    BY <1>1, <2>1
  <2> QED
    BY <1>1, <2>1, <2>2 DEF Cover
<1>7. Chain(gs, w)
  BY <1>4, <1>5, <1>6 DEF Chain
<1>8. AtOf(gs, w) = AtOf(fs, rest) /\ SettledOf(gs, w) = SettledOf(fs, rest)
  <2>1. CASE rest = <<>>
    <3>1. w[1] = chunks[1] /\ 1 \in 1..Len(chunks)
      BY <1>1, <1>2, <2>1 DEF n
    <3>2. /\ Lo(chunks[1]) = FlushEnd(fs, Len(fs)) /\ chunks[1].flush = Len(fs) + 1
      <4>1. Len(gs) - 1 = Len(fs) /\ Len(fs) \in 0..Len(fs)
        OBVIOUS
      <4> QED
        BY <3>1, <4>1 DEF Cover
    <3> QED
      BY <1>6, <2>1, <3>1, <3>2 DEF AtOf, SettledOf
  <2>2. CASE rest # <<>>
    <3>1. w[1] = rest[1]
      BY <1>1, <2>2, EmptySeq DEF n
    <3> QED
      BY <1>6, <2>2, <3>1 DEF AtOf, SettledOf
  <2> QED
    BY <2>1, <2>2
<1> QED
  BY <1>7, <1>8 DEF w

-----------------------------------------------------------------------------
(* What the server cuts a buffer into *)

LEMMA LargestFits ==
  /\ LargestFlush \in Nat
  /\ \A s \in Sizes : MinFlush - 1 + s <= LargestFlush
  /\ LargestFlush + 1 < 128 * MaxFlush
<1> DEFINE largest == CHOOSE s \in Sizes : \A t \in Sizes : t <= s
<1>1. PICK most \in Sizes : (\A s \in Sizes : s <= most) /\ MinFlush + most < 128 * MaxFlush
  BY LargestAssumption
<1>2. largest \in Sizes /\ \A t \in Sizes : t <= largest
  BY <1>1
<1>3. LargestFlush = MinFlush - 1 + largest
  BY DEF LargestFlush
<1> HIDE DEF largest
<1>4. most \in Nat /\ largest \in Nat /\ largest <= most /\ most <= largest
  BY <1>1, <1>2, SizesAssumption
<1>5. MinFlush \in Nat \ {0} /\ MaxFlush \in Nat
  BY FlushAssumption
<1>6. largest = most
  BY <1>4
<1>7. \A s \in Sizes : s \in Nat
  BY SizesAssumption
<1> QED
  BY <1>1, <1>2, <1>3, <1>4, <1>5, <1>6, <1>7

(* There are fewer chunks than numbers before the one of a last chunk. *)
LEMMA FewChunks ==
  ASSUME Len(buffer) \in Nat, Len(buffer) <= LargestFlush, BufferSize > MaxFlush
  PROVE  FullChunks \in Nat \ {0} /\ FullChunks <= 127
<1>1. FullChunks \in Nat \ {0}
  BY Cuts
<1>2. MaxFlush \in Nat \ {0}
  BY Thresholds
<1> DEFINE k == FullChunks  size == BufferSize  r == size % MaxFlush
<1>3. size \in Nat /\ size < 128 * MaxFlush
  BY <1>2, LargestFits DEF BufferSize
<1>4. k = size \div MaxFlush
  BY DEF FullChunks
<1> HIDE DEF k, size
<1>5. k \in Nat /\ r \in 0..(MaxFlush - 1) /\ size = (MaxFlush * k) + r
  BY <1>2, <1>3, <1>4, Euclid
<1> HIDE DEF r
<1>6. ASSUME k >= 128 PROVE FALSE
  <2>1. 128 * MaxFlush <= k * MaxFlush /\ k * MaxFlush = MaxFlush * k /\ 128 * MaxFlush \in Nat
    BY <1>2, <1>5, <1>6, Multiples
  <2> QED
    BY <1>2, <1>3, <1>5, <2>1
<1>7. k <= 127
  BY <1>5, <1>6
<1> QED
  BY <1>1, <1>7 DEF k

LEMMA ChunksCover ==
  ASSUME NEW e \in Nat, NEW g \in Nat, e < g, buffer \in Seq(Nat), buffer = Between(e, g),
         Len(buffer) <= LargestFlush, BufferSize > MaxFlush, ~Exact,
         NEW gs, Len(flushes) \in Nat, Len(gs) = Len(flushes) + 1,
         FlushEnd(gs, Len(flushes)) = e, FlushEnd(gs, Len(gs)) = g
  PROVE  Cover(gs, Chunks)
<1>1. Len(buffer) = g - e /\ Len(buffer) \in Nat
  <2>1. e <= g /\ g - e \in Nat
    OBVIOUS
  <2>2. Len(Between(e, g)) = g - e
    BY <2>1, BetweenType
  <2>3. Len(buffer) = Len(Between(e, g))
    OBVIOUS
  <2> QED
    BY <2>1, <2>2, <2>3
<1>2. /\ FullChunks \in Nat \ {0} /\ NumChunks \in Nat \ {0} /\ NumChunks = FullChunks + 1
      /\ \A i \in 0..NumChunks : Cut(i) \in 0..Len(buffer)
      /\ \A i \in 1..NumChunks : Cut(i - 1) < Cut(i)
      /\ Cut(NumChunks) = Len(buffer)
  BY <1>1, Cuts DEF NumChunks
<1>3. FullChunks <= 127
  BY <1>1, FewChunks
<1>4. Len(Chunks) = NumChunks
  BY <1>1, <1>2, ChunksCut
<1>5. ASSUME NEW i \in 1..NumChunks
      PROVE  /\ Lo(Chunks[i]) = e + Cut(i - 1) /\ Hi(Chunks[i]) = e + Cut(i)
             /\ Chunks[i].flush = Len(gs)
             /\ Chunks[i].data = Between(Lo(Chunks[i]), Hi(Chunks[i]))
             /\ Chunks[i].head = Independent <=> i = NumChunks
             /\ Cut(i) = Len(buffer) <=> i = NumChunks
             /\ Cut(i - 1) \in 0..Len(buffer) /\ Cut(i) \in 0..Len(buffer) /\ Cut(i - 1) < Cut(i)
  <2> DEFINE a == Cut(i - 1)  b == Cut(i)
  <2>1. a \in 0..Len(buffer) /\ b \in 0..Len(buffer) /\ a < b
    <3>1. i \in 0..NumChunks /\ i - 1 \in 0..NumChunks
      BY <1>2
    <3> QED
      BY <1>2, <3>1
  <2>2. Chunks[i].data = SubSeq(buffer, a + 1, b) /\ Chunks[i].flush = Len(gs)
    BY <1>1, ChunksCut DEF Chunk
  <2>3. Chunks[i].head = IF i <= FullChunks THEN i - 1 ELSE Independent
    BY <1>1, ChunksCut
  <2>4. Chunks[i].head = Independent <=> i = NumChunks
    <3>1. CASE i <= FullChunks
      BY <1>2, <1>3, <2>3, <3>1 DEF Independent
    <3>2. CASE ~(i <= FullChunks)
      BY <1>2, <2>3, <3>2
    <3> QED
      BY <3>1, <3>2
  <2>5. b = Len(buffer) <=> i = NumChunks
    <3>1. ASSUME i # NumChunks PROVE b < Len(buffer)
      <4>1. i + 1 \in 1..NumChunks /\ (i + 1) - 1 = i /\ i + 1 \in 0..NumChunks
        BY <1>2, <3>1
      <4>2. Cut((i + 1) - 1) < Cut(i + 1) /\ Cut(i + 1) \in 0..Len(buffer)
        BY <1>2, <4>1
      <4> QED
        BY <1>1, <2>1, <4>1, <4>2
    <3>2. ASSUME i = NumChunks PROVE b = Len(buffer)
      BY <1>2, <3>2
    <3>3. b = Len(buffer) => ~(b < Len(buffer))
      BY <1>1
    <3> QED
      BY <3>1, <3>2, <3>3
  <2> HIDE DEF a, b
  <2>6. Chunks[i].data = Between(e + a, e + b)
    <3>1. a \in 0..(g - e) /\ b \in a..(g - e) /\ e <= g
      BY <1>1, <2>1
    <3>2. SubSeq(Between(e, g), a + 1, b) = Between(e + a, e + b)
      BY <3>1, BetweenCut
    <3> QED
      BY <2>2, <3>2
  <2>7. Lo(Chunks[i]) = e + a /\ Hi(Chunks[i]) = e + b
    <3>1. e + a \in Nat /\ e + b \in Nat /\ e + a < e + b
      BY <1>1, <2>1
    <3>2. Between(e + a, e + b)[1] = (e + a) + 1
          /\ Between(e + a, e + b)[Len(Between(e + a, e + b))] = e + b
      BY <3>1, BetweenEnds
    <3> QED
      BY <2>6, <3>1, <3>2 DEF Lo, Hi
  <2> QED
    BY <2>1, <2>2, <2>4, <2>5, <2>6, <2>7 DEF a, b
<1>6. ASSUME NEW i \in 1..NumChunks PROVE ChunkGood(gs, Chunks[i])
  <2>1. Len(gs) - 1 = Len(flushes) /\ Len(gs) \in 1..Len(gs)
    OBVIOUS
  <2>2. /\ Lo(Chunks[i]) \in Nat /\ Hi(Chunks[i]) \in Nat /\ e <= Lo(Chunks[i])
        /\ Lo(Chunks[i]) < Hi(Chunks[i]) /\ Hi(Chunks[i]) <= g
        /\ (Hi(Chunks[i]) = g <=> i = NumChunks)
    <3>1. Hi(Chunks[i]) = g <=> Cut(i) = Len(buffer)
      <4>1. /\ Hi(Chunks[i]) = e + Cut(i) /\ Cut(i) \in Int /\ g = e + Len(buffer)
        BY <1>1, <1>5
      <4> HIDE DEF Cut
      <4> QED
        BY <1>1, <4>1
    <3> QED
      BY <1>1, <1>5, <3>1
  <2> QED
    BY <1>5, <2>1, <2>2 DEF ChunkGood
<1>7. Lo(Chunks[1]) = FlushEnd(gs, Len(gs) - 1)
  <2>1. 1 \in 1..NumChunks /\ Cut(1 - 1) = 0 /\ Len(gs) - 1 = Len(flushes)
    BY <1>2 DEF Cut
  <2> QED
    BY <1>5, <2>1
<1>8. ASSUME NEW i \in 1..(NumChunks - 1) PROVE Lo(Chunks[i + 1]) = Hi(Chunks[i])
  <2>1. i \in 1..NumChunks /\ i + 1 \in 1..NumChunks /\ (i + 1) - 1 = i
    BY <1>2
  <2> QED
    BY <1>5, <2>1
<1>9. Chunks # <<>>
  BY <1>2, <1>4
<1> QED
  BY <1>4, <1>5, <1>6, <1>7, <1>8, <1>9 DEF Cover

(* A buffer that is sent as it is. *)
LEMMA WholeCover ==
  ASSUME NEW e \in Nat, NEW g \in Nat, e < g, buffer = Between(e, g),
         NEW gs, Len(flushes) \in Nat, Len(gs) = Len(flushes) + 1,
         FlushEnd(gs, Len(flushes)) = e, FlushEnd(gs, Len(gs)) = g
  PROVE  Cover(gs, <<Chunk(Independent, buffer)>>)
<1> DEFINE c == Chunk(Independent, buffer)  chunks == <<c>>
<1>1. c.data = Between(e, g) /\ c.head = Independent /\ c.flush = Len(gs)
  BY DEF Chunk
<1>2. Len(chunks) = 1 /\ chunks[1] = c /\ chunks # <<>>
  OBVIOUS
<1> HIDE DEF c, chunks
<1>3. Lo(c) = e /\ Hi(c) = g
  <2>1. Between(e, g)[1] = e + 1 /\ Between(e, g)[Len(Between(e, g))] = g
    BY BetweenEnds
  <2> QED
    BY <1>1, <2>1 DEF Lo, Hi
<1>4. Len(gs) - 1 = Len(flushes) /\ Len(gs) \in 1..Len(gs)
  OBVIOUS
<1>5. ChunkGood(gs, c)
  BY <1>1, <1>3, <1>4 DEF ChunkGood
<1>6. Cover(gs, chunks)
  BY <1>1, <1>2, <1>3, <1>4, <1>5 DEF Cover
<1> QED
  BY <1>6 DEF chunks, c

-----------------------------------------------------------------------------
(* What the client has, told from where the chain begins: n flushes are     *)
(* settled, the last of them ends at start, and a is the byte before the   *)
(* first chunk still to come; p is gathered, o is written, mi is missed.   *)

Unhurt(mi, f) ==
  /\ \A m \in mi : m.flush # f
  /\ [flush |-> f - 1, head |-> Independent] \notin mi

LastsIn(mi) == Cardinality({m \in mi : m.head = Independent})

MissedGood(n, mi) ==
  \A m \in mi : m.flush \in Nat /\ m.flush <= n + 1 /\ (m.head = Independent => m.flush <= n)

UpToByte(o, a) == \A w \in Range(o) : \A b \in Range(w) : b <= a

Behind(a, p, o) == (\A b \in Range(p) : b <= a) /\ UpToByte(o, a)

CleanStart(n, start, a, p, o, mi) ==
  Unhurt(mi, n + 1) => p = Between(start, a) /\ UpToByte(o, start)

AllWritten(fs, n, o, mi) == \A f \in 1..n : Unhurt(mi, f) => fs[f] \in Range(o)

Gathered(start, a, p, mi, most) == Len(p) <= (LastsIn(mi) * most) + (a - start)

ClientGood(fs, n, start, a, p, o, mi, most) ==
  /\ MissedGood(n, mi)
  /\ Behind(a, p, o)
  /\ CleanStart(n, start, a, p, o, mi)
  /\ AllWritten(fs, n, o, mi)
  /\ Gathered(start, a, p, mi, most)

LEMMA UpToLater ==
  ASSUME NEW o \in Seq(Seq(Nat)), NEW a \in Nat, NEW b \in Nat, a <= b, UpToByte(o, a)
  PROVE  UpToByte(o, b)
<1> SUFFICES ASSUME NEW w \in Range(o), NEW x \in Range(w) PROVE x <= b
  BY DEF UpToByte
<1>1. x <= a
  BY DEF UpToByte
<1>2. x \in Nat
  <2>1. w \in Seq(Nat)
    BY DEF Range
  <2> QED
    BY <2>1 DEF Range
<1> QED
  BY <1>1, <1>2

LEMMA LastsType ==
  ASSUME NEW mi, IsFiniteSet(mi)
  PROVE  LastsIn(mi) \in Nat /\ IsFiniteSet({m \in mi : m.head = Independent})
<1>1. IsFiniteSet({m \in mi : m.head = Independent})
  BY FS_Subset
<1> QED
  BY <1>1, FS_CardinalityType DEF LastsIn

LEMMA UnhurtBefore ==
  ASSUME NEW mi, NEW x, NEW f, Unhurt(mi \union {x}, f)
  PROVE  Unhurt(mi, f)
BY DEF Unhurt

(* Another flush: nothing of what the client has is about it. *)
LEMMA ClientWaits ==
  ASSUME NEW fs, NEW gs, NEW n \in Nat, NEW start, NEW a, NEW p, NEW o, NEW mi, NEW most,
         ClientGood(fs, n, start, a, p, o, mi, most), \A f \in 1..n : gs[f] = fs[f]
  PROVE  ClientGood(gs, n, start, a, p, o, mi, most)
<1>1. AllWritten(gs, n, o, mi)
  BY DEF ClientGood, AllWritten
<1> QED
  BY <1>1 DEF ClientGood

(* A chunk that is not a last one is lost. *)
LEMMA ClientMisses ==
  ASSUME NEW fs, NEW n \in Nat, NEW start \in Nat, NEW a \in Nat, NEW p \in Seq(Nat),
         NEW o \in Seq(Seq(Nat)), NEW mi, IsFiniteSet(mi), NEW most \in Nat,
         ClientGood(fs, n, start, a, p, o, mi, most),
         NEW h, h # Independent, NEW b \in Nat, a <= b
  PROVE  /\ ClientGood(fs, n, start, b, p, o, mi \union {[flush |-> n + 1, head |-> h]}, most)
         /\ ~Unhurt(mi \union {[flush |-> n + 1, head |-> h]}, n + 1)
<1> DEFINE x == [flush |-> n + 1, head |-> h]  mj == mi \union {x}
<1>1. x \in mj /\ x.flush = n + 1 /\ x.head # Independent
  OBVIOUS
<1> HIDE DEF x
<1>2. MissedGood(n, mj)
  BY <1>1 DEF ClientGood, MissedGood
<1>3. Behind(b, p, o)
  <2>1. UpToByte(o, b)
    BY UpToLater DEF ClientGood, Behind
  <2>2. \A y \in Range(p) : y \in Nat /\ y <= a
    BY DEF ClientGood, Behind, Range
  <2> QED
    BY <2>1, <2>2 DEF Behind
<1>4. ~Unhurt(mj, n + 1)
  BY <1>1 DEF Unhurt
<1>5. AllWritten(fs, n, o, mj)
  BY UnhurtBefore DEF ClientGood, AllWritten
<1>6. Gathered(start, b, p, mj, most)
  <2>1. {m \in mj : m.head = Independent} = {m \in mi : m.head = Independent}
    BY <1>1
  <2>2. LastsIn(mj) = LastsIn(mi)
    BY <2>1 DEF LastsIn
  <2>3. LastsIn(mi) \in Nat
    BY LastsType
  <2> DEFINE k == LastsIn(mi) * most
  <2>4. k \in Nat
    BY <2>3
  <2> HIDE DEF k
  <2>5. Len(p) <= k + (a - start)
    BY DEF ClientGood, Gathered, k
  <2>6. Len(p) <= k + (b - start)
    BY <2>4, <2>5
  <2> QED
    BY <2>2, <2>6 DEF Gathered, k
<1>7. ClientGood(fs, n, start, b, p, o, mj, most)
  BY <1>2, <1>3, <1>4, <1>5, <1>6 DEF ClientGood, CleanStart
<1> QED
  BY <1>4, <1>7 DEF x

(* A last chunk is lost, for the first time of this flush. *)
LEMMA ClientMissesLast ==
  ASSUME NEW fs, NEW n \in Nat, NEW start \in Nat, NEW a \in Nat, NEW p \in Seq(Nat),
         NEW o \in Seq(Seq(Nat)), NEW mi, IsFiniteSet(mi), NEW most \in Nat,
         ClientGood(fs, n, start, a, p, o, mi, most), a <= start + most,
         NEW b \in Nat, a <= b
  PROVE  /\ ClientGood(fs, n + 1, b, b, p, o,
                       mi \union {[flush |-> n + 1, head |-> Independent]}, most)
         /\ ~Unhurt(mi \union {[flush |-> n + 1, head |-> Independent]}, n + 2)
<1> DEFINE x == [flush |-> n + 1, head |-> Independent]  mj == mi \union {x}
<1>1. x \in mj /\ x.flush = n + 1 /\ x.head = Independent
      /\ x = [flush |-> (n + 2) - 1, head |-> Independent]
  OBVIOUS
<1>2. x \notin mi
  <2>1. ASSUME x \in mi PROVE FALSE
    <3>1. x.flush <= n
      BY <1>1, <2>1 DEF ClientGood, MissedGood
    <3> QED
      BY <1>1, <3>1
  <2> QED
    BY <2>1
<1>3. ~Unhurt(mj, n + 2) /\ ~Unhurt(mj, n + 1)
  BY <1>1 DEF Unhurt
<1> HIDE DEF x
<1>4. MissedGood(n + 1, mj)
  <2> SUFFICES ASSUME NEW m \in mj
               PROVE  /\ m.flush \in Nat /\ m.flush <= (n + 1) + 1
                      /\ m.head = Independent => m.flush <= n + 1
    BY DEF MissedGood
  <2>1. CASE m = x
    BY <1>1, <2>1
  <2>2. CASE m \in mi
    <3>1. m.flush \in Nat /\ m.flush <= n + 1
      BY <2>2 DEF ClientGood, MissedGood
    <3>2. m.flush <= (n + 1) + 1
      BY <3>1
    <3> QED
      BY <3>1, <3>2
  <2> QED
    BY <2>1, <2>2
<1>5. Behind(b, p, o)
  <2>1. UpToByte(o, b)
    BY UpToLater DEF ClientGood, Behind
  <2>2. \A y \in Range(p) : y \in Nat /\ y <= a
    BY DEF ClientGood, Behind, Range
  <2> QED
    BY <2>1, <2>2 DEF Behind
<1>6. AllWritten(fs, n + 1, o, mj)
  <2> SUFFICES ASSUME NEW f \in 1..(n + 1), Unhurt(mj, f) PROVE fs[f] \in Range(o)
    BY DEF AllWritten
  <2>1. f # n + 1
    BY <1>3
  <2>2. f \in 1..n
    BY <2>1
  <2>3. Unhurt(mi, f)
    BY UnhurtBefore
  <2> QED
    BY <2>2, <2>3 DEF ClientGood, AllWritten
<1>7. Gathered(b, b, p, mj, most)
  <2> DEFINE L == {m \in mi : m.head = Independent}
  <2>1. {m \in mj : m.head = Independent} = L \union {x} /\ x \notin L
    BY <1>1, <1>2
  <2>2. IsFiniteSet(L) /\ LastsIn(mi) = Cardinality(L) /\ LastsIn(mi) \in Nat
    BY LastsType DEF LastsIn
  <2> HIDE DEF L
  <2>3. LastsIn(mj) = LastsIn(mi) + 1
    BY <2>1, <2>2, FS_AddElement DEF LastsIn
  <2> DEFINE k == LastsIn(mi)
  <2>4. k \in Nat /\ k * most \in Nat /\ (k + 1) * most = (k * most) + most
    BY <2>2
  <2>5. Len(p) <= (k * most) + (a - start)
    BY DEF ClientGood, Gathered
  <2>6. LastsIn(mj) * most = (k * most) + most
    BY <2>3, <2>4
  <2> HIDE DEF k
  <2> DEFINE km == k * most
  <2>7. km \in Nat /\ Len(p) <= km + (a - start) /\ LastsIn(mj) * most = km + most
    BY <2>4, <2>5, <2>6
  <2> HIDE DEF km
  <2>8. Len(p) <= km + most
    BY <2>7
  <2> QED
    BY <2>7, <2>8 DEF Gathered
<1>8. ClientGood(fs, n + 1, b, b, p, o, mj, most)
  <2>1. (n + 1) + 1 = n + 2
    OBVIOUS
  <2>2. CleanStart(n + 1, b, b, p, o, mj)
    BY <1>3, <2>1 DEF CleanStart
  <2> QED
    BY <1>4, <1>5, <1>6, <1>7, <2>2 DEF ClientGood
<1> QED
  BY <1>3, <1>8 DEF x

(* A chunk that is not a last one is received. *)
LEMMA ClientGathers ==
  ASSUME NEW fs, NEW n \in Nat, NEW start \in Nat, NEW a \in Nat, NEW p \in Seq(Nat),
         NEW o \in Seq(Seq(Nat)), NEW mi, IsFiniteSet(mi), NEW most \in Nat,
         ClientGood(fs, n, start, a, p, o, mi, most), start <= a,
         NEW b \in Nat, a <= b
  PROVE  ClientGood(fs, n, start, b, Cat(p, Between(a, b)), o, mi, most)
<1> DEFINE d == Between(a, b)  q == Cat(p, d)
<1>1. d \in Seq(Nat) /\ Len(d) = b - a /\ \A y \in Range(d) : y \in Nat /\ y <= b
  BY BetweenType, BetweenRange
<1>2. Len(q) = Len(p) + Len(d) /\ Len(p) \in Nat
  BY <1>1, CatElements
<1>3. \A y \in Range(q) : y \in Range(p) \/ y \in Range(d)
  BY <1>1, RangeCat
<1>4. p = Between(start, a) => q = Between(start, b)
  BY BetweenJoins
<1> HIDE DEF d, q
<1>5. Behind(b, q, o)
  <2>1. UpToByte(o, b)
    BY UpToLater DEF ClientGood, Behind
  <2>2. \A y \in Range(p) : y \in Nat /\ y <= a
    BY DEF ClientGood, Behind, Range
  <2>3. \A y \in Range(q) : y <= b
    BY <1>1, <1>3, <2>2
  <2> QED
    BY <2>1, <2>3 DEF Behind
<1>6. CleanStart(n, start, b, q, o, mi)
  BY <1>4 DEF ClientGood, CleanStart
<1>7. Gathered(start, b, q, mi, most)
  <2> DEFINE k == LastsIn(mi) * most
  <2>1. k \in Nat
    <3>1. LastsIn(mi) \in Nat
      BY LastsType
    <3> QED
      BY <3>1
  <2>2. Len(p) <= k + (a - start)
    BY DEF ClientGood, Gathered
  <2> HIDE DEF k
  <2>3. Len(q) <= k + (b - start)
    BY <1>1, <1>2, <2>1, <2>2
  <2> QED
    BY <2>3 DEF Gathered, k
<1>8. ClientGood(fs, n, start, b, q, o, mi, most)
  BY <1>5, <1>6, <1>7 DEF ClientGood
<1> QED
  BY <1>8 DEF q, d

(* With a chunk behind it, it ends as the chunk does. *)
LEMMA GatheredEnds ==
  ASSUME NEW p \in Seq(Nat), NEW a \in Nat, NEW b \in Nat, a < b
  PROVE  /\ Cat(p, Between(a, b)) \in Seq(Nat) /\ Cat(p, Between(a, b)) # <<>>
         /\ Cat(p, Between(a, b))[Len(Cat(p, Between(a, b)))] = b
<1> DEFINE d == Between(a, b)  q == Cat(p, d)
<1>1. d[Len(d)] = b
  BY BetweenEnds
<1>2. d \in Seq(Nat) /\ Len(d) = b - a
  <2>1. a <= b
    OBVIOUS
  <2> QED
    BY <2>1, BetweenType
<1> HIDE DEF d
<1>a. Cat(p, d) \in Seq(Nat)
  BY <1>2, CatType
<1>b. /\ Len(Cat(p, d)) = Len(p) + Len(d) /\ Len(p) \in Nat
      /\ \A i \in 1..Len(d) : Cat(p, d)[Len(p) + i] = d[i]
  <2>1. ASSUME NEW e \in Seq(Nat)
        PROVE  /\ Len(Cat(p, e)) = Len(p) + Len(e) /\ Len(p) \in Nat
               /\ \A i \in 1..Len(e) : Cat(p, e)[Len(p) + i] = e[i]
    BY CatElements
  <2> QED
    BY <1>2, <2>1
<1>3. /\ Cat(p, d) \in Seq(Nat) /\ Len(Cat(p, d)) = Len(p) + Len(d) /\ Len(p) \in Nat
      /\ \A i \in 1..Len(d) : Cat(p, d)[Len(p) + i] = d[i]
  BY <1>a, <1>b
<1> HIDE DEF q
<1>4. q \in Seq(Nat) /\ q # <<>> /\ q[Len(q)] = b
  <2>1. Len(d) \in 1..Len(d) /\ Len(q) > 0
    BY <1>2, <1>3 DEF q
  <2>2. Cat(p, d)[Len(p) + Len(d)] = d[Len(d)]
    BY <1>3, <2>1
  <2> QED
    BY <1>1, <1>3, <2>1, <2>2 DEF q
<1> QED
  BY <1>4 DEF q, d

(* What is gathered up to the end of a flush is written: it is the flush   *)
(* if that is unhurt, and the next flush is then unhurt.                   *)
LEMMA ClientWrites ==
  ASSUME NEW fs, NEW n \in Nat, NEW start \in Nat, NEW b \in Nat, NEW q \in Seq(Nat),
         NEW o \in Seq(Seq(Nat)), NEW mi, IsFiniteSet(mi), NEW most \in Nat,
         ClientGood(fs, n, start, b, q, o, mi, most), fs[n + 1] = Between(start, b)
  PROVE  /\ ClientGood(fs, n + 1, b, b, <<>>, Append(o, q), mi, most)
         /\ Unhurt(mi, n + 1) => q = fs[n + 1]
         /\ Unhurt(mi, n + 2)
<1> DEFINE r == Append(o, q)
<1>1. Unhurt(mi, n + 1) => q = fs[n + 1]
  BY DEF ClientGood, CleanStart
<1>2. Unhurt(mi, n + 2)
  <2>1. ASSUME NEW m \in mi PROVE m.flush # n + 2
    <3>1. m.flush \in Nat /\ m.flush <= n + 1
      BY DEF ClientGood, MissedGood
    <3> QED
      BY <3>1
  <2>2. ASSUME [flush |-> (n + 2) - 1, head |-> Independent] \in mi PROVE FALSE
    <3> DEFINE x == [flush |-> (n + 2) - 1, head |-> Independent]
    <3>1. x \in mi /\ x.head = Independent /\ x.flush = n + 1
      BY <2>2
    <3> HIDE DEF x
    <3>2. x.flush <= n
      BY <3>1 DEF ClientGood, MissedGood
    <3> QED
      BY <3>1, <3>2
  <2> QED
    BY <2>1, <2>2 DEF Unhurt
<1>3. r \in Seq(Seq(Nat)) /\ Range(r) = Range(o) \union {q}
  BY RangeAppend
<1> HIDE DEF r
<1>4. MissedGood(n + 1, mi)
  <2> SUFFICES ASSUME NEW m \in mi
               PROVE  /\ m.flush \in Nat /\ m.flush <= (n + 1) + 1
                      /\ m.head = Independent => m.flush <= n + 1
    BY DEF MissedGood
  <2>1. m.flush \in Nat /\ m.flush <= n + 1
    BY DEF ClientGood, MissedGood
  <2> QED
    BY <2>1
<1>5. UpToByte(r, b)
  <2>1. \A y \in Range(q) : y <= b
    BY DEF ClientGood, Behind
  <2>2. UpToByte(o, b)
    BY DEF ClientGood, Behind
  <2> QED
    BY <1>3, <2>1, <2>2 DEF UpToByte
<1>6. Range(<<>>) = {}
  BY DEF Range
<1>7. AllWritten(fs, n + 1, r, mi)
  <2> SUFFICES ASSUME NEW f \in 1..(n + 1), Unhurt(mi, f) PROVE fs[f] \in Range(r)
    BY DEF AllWritten
  <2>1. CASE f = n + 1
    BY <1>1, <1>3, <2>1
  <2>2. CASE f # n + 1
    <3>1. f \in 1..n
      BY <2>2
    <3> QED
      BY <1>3, <3>1 DEF ClientGood, AllWritten
  <2> QED
    BY <2>1, <2>2
<1>8. Gathered(b, b, <<>>, mi, most)
  <2> DEFINE k == LastsIn(mi) * most
  <2>1. k \in Nat
    <3>1. LastsIn(mi) \in Nat
      BY LastsType
    <3> QED
      BY <3>1
  <2> HIDE DEF k
  <2>2. Len(<<>>) <= k + (b - b)
    BY <2>1
  <2> QED
    BY <2>2 DEF Gathered, k
<1>9. CleanStart(n + 1, b, b, <<>>, r, mi)
  BY <1>5, BetweenNone DEF CleanStart
<1>10. ClientGood(fs, n + 1, b, b, <<>>, r, mi, most)
  BY <1>4, <1>5, <1>6, <1>7, <1>8, <1>9 DEF ClientGood, Behind
<1> QED
  BY <1>1, <1>2, <1>10 DEF r

-----------------------------------------------------------------------------
(* The server: what it gathers begins where the last flush ended *)

Small(at, b, e, fs) ==
  /\ at = "pack" => Len(b) < MinFlush
  /\ at = "send" => b = <<>>
  /\ Len(b) <= LargestFlush
  /\ FlushEnd(fs, Len(fs)) <= e
  /\ b = Between(FlushEnd(fs, Len(fs)), e)

ServerGood == ~aligned => Small(pc, buffer, encoded, flushes) /\ FlushesGood(flushes, LargestFlush)

LEMMA MoreTypes ==
  ASSUME TypeOK
  PROVE  /\ flushes \in Seq(Seq(Nat)) /\ Len(flushes) \in Nat /\ encoded \in Nat
         /\ Rest \in Seq(ChunkType) /\ Rest = Cat(net, unsent)
         /\ IsFiniteSet(missed)
<1>1. encoded \in Nat /\ IsFiniteSet(missed) /\ flushes \in Seq(Seq(Bytes))
  BY DEF TypeOK
<1>2. Bytes \subseteq Nat
  BY <1>1 DEF Bytes
<1>3. Seq(Bytes) \subseteq Seq(Nat)
  BY <1>2, SeqMonotonic
<1>4. flushes \in Seq(Seq(Nat))
  BY <1>1, <1>3, SeqMonotonic
<1>5. Rest = Cat(net, unsent)
  BY DEF Rest, Cat
<1>6. net \in Seq(ChunkType) /\ unsent \in Seq(ChunkType)
  BY StreamParts
<1>7. Cat(net, unsent) \in Seq(ChunkType)
  BY <1>6, CatType
<1> QED
  BY <1>1, <1>4, <1>5, <1>7

(* What is flushed is one flush more. *)
LEMMA FlushGrows ==
  ASSUME TypeOK, ServerGood, ~aligned, pc = "flush", BufferSize > MinFlush,
         flushes' = Append(flushes, buffer)
  PROVE  /\ FlushesGood(flushes', LargestFlush)
         /\ Len(flushes') = Len(flushes) + 1
         /\ \A f \in 0..Len(flushes) : FlushEnd(flushes', f) = FlushEnd(flushes, f)
         /\ \A f \in 1..Len(flushes) : flushes'[f] = flushes[f]
         /\ FlushEnd(flushes', Len(flushes')) = encoded
         /\ FlushEnd(flushes, Len(flushes)) \in Nat /\ FlushEnd(flushes, Len(flushes)) < encoded
         /\ buffer # <<>>
<1> DEFINE end == FlushEnd(flushes, Len(flushes))
<1>1. /\ flushes \in Seq(Seq(Nat)) /\ Len(flushes) \in Nat /\ encoded \in Nat /\ buffer \in Seq(Nat)
  BY MoreTypes, StreamParts
<1>2. /\ FlushesGood(flushes, LargestFlush) /\ end <= encoded /\ buffer = Between(end, encoded)
      /\ Len(buffer) <= LargestFlush
  BY DEF ServerGood, Small
<1>3. end \in Nat
  BY <1>1, <1>2, EndType
<1>4. LargestFlush \in Nat
  BY LargestFits
<1> HIDE DEF end
<1>5. Len(buffer) = encoded - end
  BY <1>1, <1>2, <1>3, BetweenType
<1>6. Len(buffer) >= 1
  BY <1>1, Thresholds DEF BufferSize
<1>7. end < encoded /\ encoded <= end + LargestFlush
  BY <1>1, <1>2, <1>3, <1>4, <1>5, <1>6
<1>8. /\ FlushesGood(Append(flushes, buffer), LargestFlush)
      /\ Len(Append(flushes, buffer)) = Len(flushes) + 1
      /\ \A f \in 0..Len(flushes) : FlushEnd(Append(flushes, buffer), f) = FlushEnd(flushes, f)
      /\ \A f \in 1..Len(flushes) : Append(flushes, buffer)[f] = flushes[f]
      /\ FlushEnd(Append(flushes, buffer), Len(flushes) + 1) = encoded
  BY <1>1, <1>2, <1>4, <1>7, FlushesGrow DEF end
<1>9. buffer # <<>>
  BY <1>6
<1> QED
  BY <1>3, <1>7, <1>8, <1>9 DEF end

LEMMA ServerInit == Init => ServerGood
<1> SUFFICES ASSUME Init PROVE Small(pc, buffer, encoded, flushes) /\ FlushesGood(flushes, LargestFlush)
  BY DEF ServerGood
<1>1. Len(flushes) = 0 /\ FlushEnd(flushes, 0) = 0
  BY DEF Init, FlushEnd
<1>2. Len(buffer) = 0 /\ pc = "pack" /\ buffer = Between(0, 0)
  BY BetweenNone DEF Init
<1> QED
  BY <1>1, <1>2, LargestFits, Thresholds DEF Init, Small, FlushesGood

LEMMA ServerStep == TypeOK /\ ServerGood /\ [Next]_vars => ServerGood'
<1> SUFFICES ASSUME TypeOK, ServerGood, [Next]_vars, ~aligned'
             PROVE  Small(pc', buffer', encoded', flushes') /\ FlushesGood(flushes', LargestFlush)
  BY DEF ServerGood
<1>1. ~aligned
  BY StreamStep
<1>2. Small(pc, buffer, encoded, flushes) /\ FlushesGood(flushes, LargestFlush)
  BY <1>1 DEF ServerGood
<1>3. ASSUME NEW n \in Sizes, Pack(n) PROVE Small(pc', buffer', encoded', flushes')
  <2> DEFINE end == FlushEnd(flushes, Len(flushes))
  <2>1. /\ pc = "pack" /\ pc' = "flush" /\ flushes' = flushes /\ encoded' = encoded + n
        /\ buffer' = Cat(buffer, [i \in 1..n |-> encoded + i])
    BY <1>3 DEF Pack, Cat
  <2>2. /\ n \in Nat /\ encoded \in Nat /\ buffer \in Seq(Nat) /\ Len(flushes) \in Nat
    BY MoreTypes, StreamParts, SizesAssumption
  <2>3. end \in Nat
    BY <1>2, <2>2, EndType
  <2>4. end <= encoded /\ buffer = Between(end, encoded) /\ Len(buffer) < MinFlush
    BY <1>2, <2>1 DEF Small
  <2>5. [i \in 1..n |-> encoded + i] = Between(encoded, encoded + n)
    <3>1. (encoded + n) - encoded = n
      BY <2>2
    <3> QED
      BY <3>1 DEF Between
  <2> HIDE DEF end
  <2>6. buffer' = Between(end, encoded + n)
    <3>1. encoded + n \in Nat /\ encoded <= encoded + n
      BY <2>2
    <3> QED
      BY <2>1, <2>2, <2>3, <2>4, <2>5, <3>1, BetweenJoins
  <2>7. Len(buffer) = encoded - end /\ Len(buffer') = (encoded + n) - end
    <3>1. encoded + n \in Nat /\ end <= encoded + n
      BY <2>2, <2>3, <2>4
    <3>2. Len(Between(end, encoded)) = encoded - end
      BY <2>2, <2>3, <2>4, BetweenType
    <3>3. Len(Between(end, encoded + n)) = (encoded + n) - end
      BY <2>3, <3>1, BetweenType
    <3> QED
      BY <2>4, <2>6, <3>2, <3>3
  <2>8. Len(buffer') <= LargestFlush
    <3>1. MinFlush - 1 + n <= LargestFlush /\ LargestFlush \in Nat /\ MinFlush \in Nat
      BY LargestFits, Thresholds
    <3> QED
      BY <2>2, <2>3, <2>4, <2>7, <3>1
  <2>9. end <= encoded + n
    BY <2>2, <2>3, <2>4
  <2> QED
    BY <2>1, <2>6, <2>8, <2>9 DEF Small, end
<1>4. ASSUME KeepBuffering PROVE Small(pc', buffer', encoded', flushes')
  <2>1. /\ pc' = "pack" /\ buffer' = buffer /\ encoded' = encoded /\ flushes' = flushes
        /\ Len(buffer) + 1 <= MinFlush
    BY <1>4 DEF KeepBuffering, BufferSize
  <2>2. Len(buffer) < MinFlush
    BY <2>1, WholeType, Thresholds
  <2> QED
    BY <1>2, <2>1, <2>2 DEF Small
<1>5. ASSUME pc = "flush", BufferSize > MinFlush, flushes' = Append(flushes, buffer),
             buffer' = <<>>, encoded' = encoded
      PROVE  Small(pc', buffer', encoded', flushes') /\ FlushesGood(flushes', LargestFlush)
  <2>1. FlushesGood(flushes', LargestFlush) /\ FlushEnd(flushes', Len(flushes')) = encoded
    BY <1>1, <1>5, FlushGrows
  <2>2. encoded \in Nat /\ Between(encoded, encoded) = <<>>
    BY MoreTypes, BetweenNone
  <2>3. Len(<<>>) < MinFlush /\ Len(<<>>) <= LargestFlush
    BY Thresholds, LargestFits
  <2> QED
    BY <1>5, <2>1, <2>2, <2>3 DEF Small
<1>6. ASSUME FlushInChunks
      PROVE  Small(pc', buffer', encoded', flushes') /\ FlushesGood(flushes', LargestFlush)
  <2>1. /\ pc = "flush" /\ BufferSize > MaxFlush /\ flushes' = Append(flushes, buffer)
        /\ buffer' = AfterChunks /\ encoded' = encoded /\ ~Exact
    BY <1>6 DEF FlushInChunks
  <2>2. BufferSize > MinFlush
    BY <2>1, WholeType, FlushAssumption DEF BufferSize
  <2>3. buffer' = <<>>
    BY <2>1 DEF AfterChunks
  <2> QED
    BY <1>5, <2>1, <2>2, <2>3
<1>7. ASSUME FlushWhole
      PROVE  Small(pc', buffer', encoded', flushes') /\ FlushesGood(flushes', LargestFlush)
  <2>1. /\ pc = "flush" /\ BufferSize \in (MinFlush + 1)..MaxFlush
        /\ flushes' = Append(flushes, buffer) /\ buffer' = <<>> /\ encoded' = encoded
    BY <1>7 DEF FlushWhole
  <2>2. BufferSize > MinFlush
    BY <2>1, Thresholds
  <2> QED
    BY <1>5, <2>1, <2>2
<1>8. ASSUME SendChunk PROVE Small(pc', buffer', encoded', flushes')
  <2>1. /\ pc = "send" /\ pc' \in {"pack", "send"} /\ buffer' = buffer
        /\ encoded' = encoded /\ flushes' = flushes
    BY <1>8 DEF SendChunk
  <2>2. buffer = <<>> /\ Len(<<>>) < MinFlush
    BY <1>2, <2>1, Thresholds DEF Small
  <2> QED
    BY <1>2, <2>1, <2>2 DEF Small
<1>9. ASSUME UNCHANGED serverVars PROVE Small(pc', buffer', encoded', flushes')
  BY <1>2, <1>9 DEF serverVars
<1>10. ASSUME flushes' = flushes PROVE FlushesGood(flushes', LargestFlush)
  BY <1>2, <1>10
<1> QED
  <2>1. ASSUME NEW n \in Sizes, Pack(n) PROVE flushes' = flushes
    BY <2>1 DEF Pack
  <2>2. KeepBuffering \/ SendChunk \/ UNCHANGED serverVars => flushes' = flushes
    BY DEF KeepBuffering, SendChunk, serverVars
  <2>3. Lose \/ ReceiveChunk \/ UNCHANGED vars => UNCHANGED serverVars
    BY DEF Lose, ReceiveChunk, vars
  <2> QED
    BY <1>3, <1>4, <1>6, <1>7, <1>8, <1>9, <1>10, <2>1, <2>2, <2>3 DEF Next

LEMMA ServerAlways == Spec => [](TypeOK /\ ServerGood)
<1>1. Init => ServerGood
  BY ServerInit
<1>2. TypeOK /\ ServerGood /\ [Next]_vars => ServerGood'
  BY ServerStep
<1> QED
  BY <1>1, <1>2, StreamTypes, PTL DEF Spec

(* The server's video thread, for any thresholds and frame sizes: a flush  *)
(* that leaves bytes in the buffer to be sent again has filled its last    *)
(* chunk to the last byte; there is no other way.                          *)
THEOREM OnlyAlignedFlushesDoNotEnd == Spec => [](~aligned => EveryFlushEnds)
<1>1. TypeOK /\ ServerGood => (~aligned => EveryFlushEnds)
  <2> SUFFICES ASSUME TypeOK, ServerGood, ~aligned, pc = "pack" PROVE BufferSize <= MinFlush
    BY DEF EveryFlushEnds
  <2>1. Len(buffer) < MinFlush /\ Len(buffer) \in Nat
    BY WholeType DEF ServerGood, Small
  <2> QED
    BY <2>1, Thresholds DEF BufferSize
<1> QED
  BY <1>1, ServerAlways, PTL

-----------------------------------------------------------------------------
(* Server, network and client together *)

At == AtOf(flushes, Rest)
Start == FlushEnd(flushes, Settled)

NetGood ==
  ~SaveVideo /\ ~aligned =>
    /\ Chain(flushes, Rest)
    /\ ClientGood(flushes, Settled, Start, At, payload, output, missed, LargestFlush)

(* The same of the next state, with what it is a function of spelled out. *)
NextIsGood(n, a) ==
  /\ Chain(flushes', Rest') /\ Settled' = n
  /\ AtOf(flushes', Rest') = a
  /\ ClientGood(flushes', n, FlushEnd(flushes', n), a, payload', output', missed', LargestFlush)

NothingSent ==
  SaveVideo => net = <<>> /\ unsent = <<>> /\ payload = <<>> /\ output = <<>>

LEMMA SameSettled ==
  ASSUME TypeOK
  PROVE  Settled = SettledOf(flushes, Rest)
BY MoreTypes DEF Settled, SettledOf

LEMMA SameUndamaged ==
  ASSUME NEW f
  PROVE  Undamaged(f) <=> Unhurt(missed, f)
BY DEF Undamaged, Unhurt

(* The next state of the chain, seen from the states of its parts. *)
LEMMA SettledNext ==
  ASSUME TypeOK'
  PROVE  Settled' = SettledOf(flushes', Rest')
<1>1. Rest' \in Seq(ChunkType)
  <2>1. Bytes' \subseteq Nat /\ Len(flushes') \in Nat
    BY DEF TypeOK, Bytes
  <2>2. Seq(Bytes') \subseteq Seq(Nat)
    BY <2>1, SeqMonotonic
  <2>3. Datagrams' \subseteq ChunkType
    BY <2>1, <2>2 DEF Datagrams, ChunkType
  <2>4. Seq(Datagrams') \subseteq Seq(ChunkType)
    BY <2>3, SeqMonotonic
  <2>5. net' \in Seq(ChunkType) /\ unsent' \in Seq(ChunkType)
    BY <2>4 DEF TypeOK
  <2> QED
    BY <2>5, ConcatProperties DEF Rest
<1> QED
  BY <1>1 DEF Settled, SettledOf

(* The chunk that arrives or is lost next. *)
LEMMA NextChunk ==
  ASSUME TypeOK, ServerGood, NetGood, ~SaveVideo, ~aligned, net # <<>>,
         net' = Tail(net), UNCHANGED serverVars, TypeOK'
  PROVE  LET c == Head(net)
             n == Settled
         IN /\ n \in Nat /\ n + 1 \in 1..Len(flushes) /\ c.flush = n + 1
            /\ Start \in Nat /\ At \in Nat /\ Hi(c) \in Nat
            /\ Start <= At /\ At <= Start + LargestFlush /\ At < Hi(c)
            /\ c.data = Between(At, Hi(c))
            /\ Chain(flushes', Rest') /\ AtOf(flushes', Rest') = Hi(c)
            /\ Settled' = IF c.head = Independent THEN n + 1 ELSE n
            /\ c.head = Independent =>
                 Hi(c) = FlushEnd(flushes, n + 1) /\ flushes[n + 1] = Between(Start, Hi(c))
            /\ flushes' = flushes /\ aligned' = aligned
            /\ LargestFlush \in Nat
<1> DEFINE c == Head(net)
<1>1. /\ net \in Seq(ChunkType) /\ unsent \in Seq(ChunkType) /\ Rest \in Seq(ChunkType)
      /\ Rest = Cat(net, unsent) /\ Len(flushes) \in Nat
  BY StreamParts, MoreTypes
<1>2. unsent' = unsent /\ flushes' = flushes /\ aligned' = aligned
  BY DEF serverVars
<1>3. Rest' = Cat(Tail(net), unsent)
  BY <1>2 DEF Rest, Cat
<1>4. Rest # <<>> /\ Rest[1] = c /\ Rest' = Tail(Rest)
  BY <1>1, <1>3, CatHeadTail
<1>5. /\ FlushesGood(flushes, LargestFlush) /\ Chain(flushes, Rest) /\ LargestFlush \in Nat
  BY LargestFits DEF ServerGood, NetGood
<1>6. Settled = SettledOf(flushes, Rest) /\ Settled' = SettledOf(flushes', Rest')
  BY SameSettled, SettledNext
<1> HIDE DEF c
<1>7. /\ Settled \in 0..Len(flushes) /\ At \in Nat /\ Start \in Nat
      /\ Start <= At /\ At <= Start + LargestFlush
      /\ ChunkGood(flushes, c) /\ c.flush = Settled + 1 /\ Settled + 1 \in 1..Len(flushes)
  BY <1>1, <1>4, <1>5, <1>6, ChainBegins DEF At, Start
<1>8. At = Lo(c)
  BY <1>4 DEF At, AtOf
<1>9. /\ Lo(c) < Hi(c) /\ Hi(c) \in Nat /\ c.data = Between(Lo(c), Hi(c))
      /\ c.head = Independent <=> Hi(c) = FlushEnd(flushes, c.flush)
  BY <1>7 DEF ChunkGood
<1>10. /\ Chain(flushes, Rest') /\ AtOf(flushes, Rest') = Hi(c)
       /\ SettledOf(flushes, Rest') = IF c.head = Independent THEN c.flush ELSE c.flush - 1
  BY <1>1, <1>4, <1>5, ChainTail
<1>11. Settled' = IF c.head = Independent THEN Settled + 1 ELSE Settled
  BY <1>2, <1>6, <1>7, <1>10
<1>12. flushes[Settled + 1] = Between(Start, FlushEnd(flushes, Settled + 1))
  <2>1. (Settled + 1) - 1 = Settled
    BY <1>7
  <2> QED
    BY <1>5, <1>7, <2>1 DEF FlushesGood, Start
<1> QED
  BY <1>2, <1>5, <1>7, <1>8, <1>9, <1>10, <1>11, <1>12 DEF c

(* A state that neither loses nor receives nor flushes. *)
Quiet == Rest' = Rest /\ UNCHANGED <<flushes, missed, payload, output>>

LEMMA SendIsQuiet ==
  ASSUME TypeOK, SendChunk
  PROVE  Quiet
<1>1. net \in Seq(ChunkType) /\ unsent \in Seq(ChunkType) /\ unsent # <<>>
  BY StreamParts DEF SendChunk, TypeOK
<1>2. net' = Append(net, Head(unsent)) /\ unsent' = Tail(unsent)
  BY DEF SendChunk
<1>3. Cat(Append(net, Head(unsent)), Tail(unsent)) = Cat(net, unsent)
  BY <1>1, CatOne
<1>4. Rest' = Cat(Append(net, Head(unsent)), Tail(unsent)) /\ Rest = Cat(net, unsent)
  BY <1>2 DEF Rest, Cat
<1>5. UNCHANGED <<flushes, missed, payload, output>>
  BY DEF SendChunk, clientVars
<1> QED
  BY <1>3, <1>4, <1>5 DEF Quiet

(* A flush of which the chunks are the next to be sent. *)
Flushed(chunks) ==
  /\ unsent' = chunks
  /\ chunks \in Seq(ChunkType) /\ Cover(flushes', chunks)
  /\ pc = "flush" /\ BufferSize > MinFlush
  /\ flushes' = Append(flushes, buffer)
  /\ UNCHANGED <<net, missed, payload, output>>

LEMMA WholeFlushed ==
  ASSUME TypeOK, ServerGood, ~SaveVideo, ~aligned, FlushWhole
  PROVE  Flushed(<<Chunk(Independent, buffer)>>)
<1> DEFINE chunks == <<Chunk(Independent, buffer)>>
<1>1. /\ pc = "flush" /\ unsent' = chunks /\ flushes' = Append(flushes, buffer)
      /\ UNCHANGED <<net, missed, payload, output>>
      /\ BufferSize \in (MinFlush + 1)..MaxFlush
  BY DEF FlushWhole, Emit, clientVars
<1>2. BufferSize > MinFlush
  BY <1>1, Thresholds
<1>3. /\ Len(flushes') = Len(flushes) + 1 /\ Len(flushes) \in 0..Len(flushes)
      /\ \A f \in 0..Len(flushes) : FlushEnd(flushes', f) = FlushEnd(flushes, f)
      /\ FlushEnd(flushes', Len(flushes')) = encoded /\ encoded \in Nat
      /\ FlushEnd(flushes, Len(flushes)) \in Nat /\ FlushEnd(flushes, Len(flushes)) < encoded
      /\ Len(flushes) \in Nat
  <2>1. Len(flushes) \in Nat /\ encoded \in Nat
    BY MoreTypes
  <2> QED
    BY <1>1, <1>2, <2>1, FlushGrows
<1>4. buffer = Between(FlushEnd(flushes, Len(flushes)), encoded)
  BY DEF ServerGood, Small
<1>5. Cover(flushes', chunks)
  BY <1>3, <1>4, WholeCover
<1>6. chunks \in Seq(ChunkType)
  <2>1. buffer \in Seq(Nat) /\ Len(flushes) + 1 \in Nat
    BY <1>3, StreamParts
  <2>2. Chunk(Independent, buffer) \in ChunkType
    BY <2>1 DEF Chunk, ChunkType, Independent
  <2> QED
    BY <2>2
<1> HIDE DEF chunks
<1>7. Flushed(chunks)
  BY <1>1, <1>2, <1>5, <1>6 DEF Flushed
<1> QED
  BY <1>7 DEF chunks

LEMMA ChunksFlushed ==
  ASSUME TypeOK, ServerGood, ~SaveVideo, ~aligned, ~aligned', FlushInChunks
  PROVE  Flushed(Chunks)
<1>1. /\ pc = "flush" /\ unsent' = Chunks /\ flushes' = Append(flushes, buffer)
      /\ UNCHANGED <<net, missed, payload, output>>
      /\ BufferSize > MaxFlush /\ ~Exact
  BY DEF FlushInChunks, Emit, clientVars
<1>2. BufferSize > MinFlush
  BY <1>1, WholeType, FlushAssumption DEF BufferSize
<1>3. /\ Len(flushes') = Len(flushes) + 1 /\ Len(flushes) \in 0..Len(flushes)
      /\ \A f \in 0..Len(flushes) : FlushEnd(flushes', f) = FlushEnd(flushes, f)
      /\ FlushEnd(flushes', Len(flushes')) = encoded /\ encoded \in Nat
      /\ FlushEnd(flushes, Len(flushes)) \in Nat /\ FlushEnd(flushes, Len(flushes)) < encoded
      /\ Len(flushes) \in Nat
  <2>1. Len(flushes) \in Nat /\ encoded \in Nat
    BY MoreTypes
  <2> QED
    BY <1>1, <1>2, <2>1, FlushGrows
<1>4. /\ buffer = Between(FlushEnd(flushes, Len(flushes)), encoded) /\ Len(buffer) <= LargestFlush
      /\ buffer \in Seq(Nat)
  BY StreamParts DEF ServerGood, Small
<1>5. Cover(flushes', Chunks)
  BY <1>1, <1>3, <1>4, ChunksCover
<1>6. Chunks \in Seq(ChunkType)
  <2> DEFINE Some == [head : Nat, data : Seq(Nat) \ {<<>>}, flush : {Len(flushes) + 1}]
  <2>1. Chunks \in Seq(Some)
    BY <1>1, <1>4, ChunksJoin
  <2>2. Some \subseteq ChunkType
    BY <1>3 DEF ChunkType
  <2> QED
    BY <2>1, <2>2, SeqMonotonic
<1> QED
  BY <1>1, <1>2, <1>5, <1>6 DEF Flushed

LEMMA FlushKeeps ==
  ASSUME TypeOK, TypeOK', ServerGood, NetGood, ~SaveVideo, ~aligned, NEW chunks, Flushed(chunks)
  PROVE  NextIsGood(Settled, At)
<1>1. /\ Rest \in Seq(ChunkType) /\ Rest = Cat(net, unsent) /\ Len(flushes) \in Nat
      /\ net \in Seq(ChunkType) /\ chunks \in Seq(ChunkType)
  BY StreamParts, MoreTypes DEF Flushed
<1>2. unsent = <<>>
  BY DEF Flushed, TypeOK
<1>3. Rest = net /\ Rest' = Cat(Rest, chunks)
  <2>1. Rest = net
    BY <1>1, <1>2, CatEmpty
  <2>2. Rest' = Cat(net, chunks)
    BY DEF Flushed, Rest, Cat
  <2> QED
    BY <2>1, <2>2
<1>4. /\ Len(flushes') = Len(flushes) + 1
      /\ \A f \in 0..Len(flushes) : FlushEnd(flushes', f) = FlushEnd(flushes, f)
      /\ \A f \in 1..Len(flushes) : flushes'[f] = flushes[f]
  BY FlushGrows DEF Flushed
<1>5. /\ FlushesGood(flushes, LargestFlush) /\ Chain(flushes, Rest) /\ LargestFlush \in Nat
      /\ Cover(flushes', chunks)
  BY LargestFits DEF ServerGood, NetGood, Flushed
<1>6. Settled = SettledOf(flushes, Rest) /\ Settled' = SettledOf(flushes', Rest')
  BY SameSettled, SettledNext
<1>7. /\ Chain(flushes', Cat(Rest, chunks))
      /\ AtOf(flushes', Cat(Rest, chunks)) = AtOf(flushes, Rest)
      /\ SettledOf(flushes', Cat(Rest, chunks)) = SettledOf(flushes, Rest)
  BY <1>1, <1>4, <1>5, ChainGrows
<1>8. Settled \in 0..Len(flushes)
  BY <1>1, <1>5, <1>6, ChainBegins
<1>9. FlushEnd(flushes', Settled) = Start /\ \A f \in 1..Settled : flushes'[f] = flushes[f]
  BY <1>1, <1>4, <1>8 DEF Start
<1>10. ClientGood(flushes, Settled, Start, At, payload, output, missed, LargestFlush)
  BY DEF NetGood
<1>11. ClientGood(flushes', Settled, Start, At, payload, output, missed, LargestFlush)
  <2>1. Settled \in Nat
    BY <1>8
  <2> QED
    BY <1>9, <1>10, <2>1, ClientWaits
<1>12. payload' = payload /\ output' = output /\ missed' = missed
  BY DEF Flushed
<1> QED
  BY <1>3, <1>6, <1>7, <1>9, <1>11, <1>12 DEF NextIsGood, At

LEMMA QuietKeeps ==
  ASSUME TypeOK, NetGood, ~SaveVideo, ~aligned, Quiet
  PROVE  NextIsGood(Settled, At)
<1>1. Settled' = Settled
  BY DEF Quiet, Settled
<1> QED
  BY <1>1 DEF Quiet, NetGood, NextIsGood, At, Start

(* A lost chunk.  The flush after those settled is then hurt. *)
LEMMA LoseKeeps ==
  ASSUME TypeOK, TypeOK', ServerGood, NetGood, ~SaveVideo, ~aligned, Lose
  PROVE  /\ \E n \in Nat, a \in Nat :
              NextIsGood(n, a) /\ n \in {Settled, Settled + 1} /\ ~Unhurt(missed', n + 1)
         /\ Settled \in Nat /\ Settled + 1 \in 1..Len(flushes)
         /\ flushes' = flushes /\ aligned' = aligned /\ output' = output
<1> DEFINE c == Head(net)  n == Settled  x == [flush |-> c.flush, head |-> c.head]
<1>1. /\ net # <<>> /\ net' = Tail(net) /\ UNCHANGED serverVars /\ payload' = payload
      /\ output' = output /\ missed' = missed \union {x}
  BY DEF Lose, clientVars
<1>2. /\ n \in Nat /\ n + 1 \in 1..Len(flushes) /\ c.flush = n + 1
      /\ Start \in Nat /\ At \in Nat /\ Hi(c) \in Nat
      /\ Start <= At /\ At <= Start + LargestFlush /\ At < Hi(c)
      /\ Chain(flushes', Rest') /\ AtOf(flushes', Rest') = Hi(c)
      /\ Settled' = IF c.head = Independent THEN n + 1 ELSE n
      /\ c.head = Independent => Hi(c) = FlushEnd(flushes, n + 1)
      /\ flushes' = flushes /\ aligned' = aligned /\ LargestFlush \in Nat
  BY <1>1, NextChunk
<1>3. ClientGood(flushes, n, Start, At, payload, output, missed, LargestFlush)
  BY DEF NetGood
<1>4. /\ payload \in Seq(Nat) /\ output \in Seq(Seq(Nat)) /\ IsFiniteSet(missed)
      /\ At <= Hi(c)
  <2>1. payload \in Seq(Nat) /\ output \in Seq(Seq(Nat))
    BY StreamParts
  <2>2. IsFiniteSet(missed)
    BY MoreTypes
  <2>3. At <= Hi(c)
    BY <1>2
  <2> QED
    BY <2>1, <2>2, <2>3
<1>5. x = [flush |-> n + 1, head |-> c.head]
  BY <1>2
<1>6. Start = FlushEnd(flushes, n)
  BY DEF Start
<1> HIDE DEF c, n
<1>7. ASSUME c.head # Independent
      PROVE  NextIsGood(n, Hi(c)) /\ ~Unhurt(missed', n + 1)
  <2>1. /\ ClientGood(flushes, n, Start, Hi(c), payload, output,
                      missed \union {[flush |-> n + 1, head |-> c.head]}, LargestFlush)
        /\ ~Unhurt(missed \union {[flush |-> n + 1, head |-> c.head]}, n + 1)
    BY <1>2, <1>3, <1>4, <1>7, ClientMisses
  <2>2. missed' = missed \union {[flush |-> n + 1, head |-> c.head]}
    BY <1>1, <1>5
  <2> QED
    BY <1>1, <1>2, <1>6, <1>7, <2>1, <2>2 DEF NextIsGood
<1>8. ASSUME c.head = Independent
      PROVE  NextIsGood(n + 1, Hi(c)) /\ ~Unhurt(missed', (n + 1) + 1)
  <2>1. /\ ClientGood(flushes, n + 1, Hi(c), Hi(c), payload, output,
                      missed \union {[flush |-> n + 1, head |-> Independent]}, LargestFlush)
        /\ ~Unhurt(missed \union {[flush |-> n + 1, head |-> Independent]}, n + 2)
    BY <1>2, <1>3, <1>4, ClientMissesLast
  <2>2. missed' = missed \union {[flush |-> n + 1, head |-> Independent]} /\ (n + 1) + 1 = n + 2
    BY <1>1, <1>2, <1>5, <1>8
  <2> QED
    BY <1>1, <1>2, <1>8, <2>1, <2>2 DEF NextIsGood
<1>9. n + 1 \in Nat
  BY <1>2
<1> QED
  BY <1>1, <1>2, <1>7, <1>8, <1>9 DEF n

(* A chunk received: gathered, or with the last one of its flush written. *)
LEMMA ReceiveKeeps ==
  ASSUME TypeOK, TypeOK', ServerGood, NetGood, ~SaveVideo, ~aligned, ReceiveChunk
  PROVE  /\ \/ /\ \E a \in Nat : NextIsGood(Settled, a)
               /\ output' = output
            \/ /\ \E a \in Nat : NextIsGood(Settled + 1, a)
               /\ Unhurt(missed', Settled + 2)
               /\ \E bytes \in Seq(Nat) \ {<<>>} :
                    /\ output' = Append(output, bytes)
                    /\ bytes[Len(bytes)] = FlushEnd(flushes, Settled + 1)
                    /\ Unhurt(missed, Settled + 1) => bytes = flushes[Settled + 1]
         /\ Settled \in Nat /\ Settled + 1 \in 1..Len(flushes)
         /\ flushes' = flushes /\ aligned' = aligned /\ missed' = missed
<1> DEFINE c == Head(net)  n == Settled  bytes == Cat(payload, Between(At, Hi(c)))
<1>1. /\ net # <<>> /\ net' = Tail(net) /\ UNCHANGED serverVars /\ missed' = missed
      /\ \/ /\ c.head # Independent
            /\ payload' = Cat(payload, c.data) /\ output' = output
         \/ /\ c.head = Independent
            /\ payload' = <<>> /\ output' = Append(output, Cat(payload, c.data))
  BY DEF ReceiveChunk, AfterWrite, Cat
<1>2. /\ n \in Nat /\ n + 1 \in 1..Len(flushes)
      /\ Start \in Nat /\ At \in Nat /\ Hi(c) \in Nat
      /\ Start <= At /\ At < Hi(c) /\ c.data = Between(At, Hi(c))
      /\ Chain(flushes', Rest') /\ AtOf(flushes', Rest') = Hi(c)
      /\ Settled' = IF c.head = Independent THEN n + 1 ELSE n
      /\ c.head = Independent =>
           Hi(c) = FlushEnd(flushes, n + 1) /\ flushes[n + 1] = Between(Start, Hi(c))
      /\ flushes' = flushes /\ aligned' = aligned /\ LargestFlush \in Nat
  BY <1>1, NextChunk
<1>3. ClientGood(flushes, n, Start, At, payload, output, missed, LargestFlush)
  BY DEF NetGood
<1>4. /\ payload \in Seq(Nat) /\ output \in Seq(Seq(Nat)) /\ IsFiniteSet(missed)
      /\ At <= Hi(c)
  <2>1. payload \in Seq(Nat) /\ output \in Seq(Seq(Nat))
    BY StreamParts
  <2>2. IsFiniteSet(missed)
    BY MoreTypes
  <2>3. At <= Hi(c)
    BY <1>2
  <2> QED
    BY <2>1, <2>2, <2>3
<1>5. Start = FlushEnd(flushes, n)
  BY DEF Start
<1>6. bytes \in Seq(Nat)
  <2>1. Between(At, Hi(c)) \in Seq(Nat)
    BY <1>2, <1>4, BetweenType
  <2> QED
    BY <1>4, <2>1, CatType
<1> HIDE DEF c, n
<1>7. ASSUME c.head # Independent PROVE NextIsGood(n, Hi(c)) /\ output' = output
  <2>1. ClientGood(flushes, n, Start, Hi(c), bytes, output, missed, LargestFlush)
    BY <1>2, <1>3, <1>4, ClientGathers
  <2>2. payload' = bytes /\ output' = output
    BY <1>1, <1>2, <1>7
  <2> QED
    BY <1>1, <1>2, <1>5, <1>7, <2>1, <2>2 DEF NextIsGood
<1>8. ASSUME c.head = Independent
      PROVE  /\ NextIsGood(n + 1, Hi(c))
             /\ Unhurt(missed', n + 2) /\ bytes # <<>>
             /\ output' = Append(output, bytes)
             /\ bytes[Len(bytes)] = FlushEnd(flushes, n + 1)
             /\ Unhurt(missed, n + 1) => bytes = flushes[n + 1]
  <2>a. ClientGood(flushes, n, Start, Hi(c), bytes, output, missed, LargestFlush)
    BY <1>2, <1>3, <1>4, ClientGathers
  <2>b. bytes # <<>> /\ bytes[Len(bytes)] = Hi(c)
    BY <1>2, <1>4, GatheredEnds
  <2>3. /\ ClientGood(flushes, n, Start, Hi(c), bytes, output, missed, LargestFlush)
        /\ bytes # <<>> /\ bytes[Len(bytes)] = Hi(c)
    BY <2>a, <2>b
  <2>4. flushes[n + 1] = Between(Start, Hi(c))
    BY <1>2, <1>8
  <2> HIDE DEF bytes
  <2>1. /\ ClientGood(flushes, n + 1, Hi(c), Hi(c), <<>>,
                      Append(output, bytes), missed, LargestFlush)
        /\ Unhurt(missed, n + 1) => bytes = flushes[n + 1]
        /\ Unhurt(missed, n + 2) /\ bytes # <<>> /\ bytes[Len(bytes)] = Hi(c)
    BY <1>2, <1>4, <1>6, <2>3, <2>4, ClientWrites
  <2> USE DEF bytes
  <2>2. payload' = <<>> /\ output' = Append(output, bytes)
    BY <1>1, <1>2, <1>8
  <2> HIDE DEF bytes
  <2> QED
    BY <1>1, <1>2, <1>8, <2>1, <2>2 DEF NextIsGood
<1> HIDE DEF bytes
<1>9. c.head # Independent \/ c.head = Independent
  OBVIOUS
<1>10. \/ /\ \E a \in Nat : NextIsGood(n, a)
          /\ output' = output
       \/ /\ \E a \in Nat : NextIsGood(n + 1, a)
          /\ Unhurt(missed', n + 2)
          /\ \E b \in Seq(Nat) \ {<<>>} :
               /\ output' = Append(output, b)
               /\ b[Len(b)] = FlushEnd(flushes, n + 1)
               /\ Unhurt(missed, n + 1) => b = flushes[n + 1]
  BY <1>2, <1>6, <1>7, <1>8, <1>9
<1> QED
  BY <1>1, <1>2, <1>10 DEF n

LEMMA NetInit == Init => NetGood /\ NothingSent
<1> SUFFICES ASSUME Init
             PROVE  /\ Chain(flushes, Rest)
                    /\ ClientGood(flushes, Settled, Start, At, payload, output, missed, LargestFlush)
                    /\ NothingSent
  BY DEF NetGood
<1>1. Rest = <<>> /\ Len(Rest) = 0 /\ Len(flushes) = 0 /\ Settled = 0 /\ Start = 0 /\ At = 0
  <2>1. Rest = <<>>
    BY ConcatEmptySeq, EmptySeq DEF Init, Rest
  <2>2. Len(flushes) = 0
    BY DEF Init
  <2> QED
    BY <2>1, <2>2 DEF Settled, Start, At, AtOf, FlushEnd
<1>2. Chain(flushes, Rest)
  BY <1>1 DEF Chain
<1>3. payload = <<>> /\ output = <<>> /\ missed = {} /\ Range(<<>>) = {}
  BY DEF Init, Range
<1>4. Gathered(0, 0, <<>>, {}, LargestFlush)
  <2> DEFINE k == LastsIn({}) * LargestFlush
  <2>1. k \in Nat
    <3>1. LastsIn({}) \in Nat /\ LargestFlush \in Nat
      BY LastsType, FS_EmptySet, LargestFits
    <3> QED
      BY <3>1
  <2> HIDE DEF k
  <2>2. Len(<<>>) <= k + (0 - 0)
    BY <2>1
  <2> QED
    BY <2>2 DEF Gathered, k
<1>5. ClientGood(flushes, 0, 0, 0, <<>>, <<>>, {}, LargestFlush)
  BY <1>3, <1>4, BetweenNone DEF ClientGood, MissedGood, Behind, UpToByte, CleanStart, AllWritten
<1>6. NothingSent
  BY DEF Init, NothingSent
<1> QED
  BY <1>1, <1>2, <1>3, <1>5, <1>6

(* What a step does to the network and the client. *)
LEMMA NetStep ==
  ASSUME TypeOK, ServerGood, NetGood, [Next]_vars, ~SaveVideo, ~aligned'
  PROVE  /\ ~aligned
         /\ \/ Quiet
            \/ \E chunks : Flushed(chunks)
            \/ Lose \/ ReceiveChunk
<1>1. ~aligned
  BY StreamStep
<1>2. ASSUME NEW n \in Sizes, Pack(n) PROVE Quiet
  BY <1>2 DEF Pack, Quiet, Rest, clientVars
<1>3. CASE KeepBuffering
  BY <1>1, <1>3 DEF KeepBuffering, Quiet, Rest, clientVars
<1>4. CASE FlushInChunks
  BY <1>1, <1>4, ChunksFlushed
<1>5. CASE FlushWhole
  BY <1>1, <1>5, WholeFlushed
<1>6. CASE SendChunk
  BY <1>1, <1>6, SendIsQuiet
<1>7. CASE UNCHANGED vars
  BY <1>1, <1>7 DEF vars, serverVars, clientVars, Quiet, Rest
<1> QED
  BY <1>1, <1>2, <1>3, <1>4, <1>5, <1>6, <1>7 DEF Next

LEMMA NetKept == TypeOK /\ ServerGood /\ NetGood /\ [Next]_vars => NetGood'
<1> SUFFICES ASSUME TypeOK, ServerGood, NetGood, [Next]_vars, ~SaveVideo, ~aligned'
             PROVE  /\ Chain(flushes', Rest')
                    /\ ClientGood(flushes', Settled', Start', At', payload', output', missed', LargestFlush)
  BY DEF NetGood
<1>1. TypeOK'
  BY TypesStep
<1>2. ~aligned /\ (Quiet \/ (\E chunks : Flushed(chunks)) \/ Lose \/ ReceiveChunk)
  BY NetStep
<1>3. \E n, a : NextIsGood(n, a)
  BY <1>1, <1>2, QuietKeeps, FlushKeeps, LoseKeeps, ReceiveKeeps
<1>4. Start' = FlushEnd(flushes', Settled') /\ At' = AtOf(flushes', Rest')
  BY DEF Start, At
<1> QED
  BY <1>3, <1>4 DEF NextIsGood

LEMMA NothingSentKept == TypeOK /\ NothingSent /\ [Next]_vars => NothingSent'
<1> SUFFICES ASSUME TypeOK, NothingSent, [Next]_vars, SaveVideo
             PROVE  net' = <<>> /\ unsent' = <<>> /\ payload' = <<>> /\ output' = <<>>
  BY DEF NothingSent
<1>1. net = <<>> /\ unsent = <<>> /\ payload = <<>> /\ output = <<>>
  BY DEF NothingSent
<1>2. ~SendChunk /\ ~Lose /\ ~ReceiveChunk
  BY <1>1 DEF SendChunk, TypeOK, Lose, ReceiveChunk
<1>3. UNCHANGED <<net, payload, output>> /\ unsent' = <<>>
  <2>1. ASSUME NEW n \in Sizes, Pack(n) PROVE UNCHANGED <<net, payload, output>> /\ unsent' = <<>>
    BY <1>1, <2>1 DEF Pack, clientVars
  <2>2. CASE KeepBuffering
    BY <1>1, <2>2 DEF KeepBuffering, clientVars
  <2>3. CASE FlushInChunks
    BY <2>3 DEF FlushInChunks, Emit, clientVars
  <2>4. CASE FlushWhole
    BY <2>4 DEF FlushWhole, Emit, clientVars
  <2>5. CASE UNCHANGED vars
    BY <1>1, <2>5 DEF vars, serverVars, clientVars
  <2> QED
    BY <1>2, <2>1, <2>2, <2>3, <2>4, <2>5 DEF Next
<1> QED
  BY <1>1, <1>3

LEMMA NetAlways == Spec => [](TypeOK /\ ServerGood /\ NetGood /\ NothingSent)
<1>1. Init => NetGood /\ NothingSent
  BY NetInit
<1>2. TypeOK /\ ServerGood /\ NetGood /\ [Next]_vars => NetGood'
  BY NetKept
<1>3. TypeOK /\ NothingSent /\ [Next]_vars => NothingSent'
  BY NothingSentKept
<1> QED
  BY <1>1, <1>2, <1>3, ServerAlways, PTL DEF Spec

-----------------------------------------------------------------------------
(* What follows for the client *)

LEMMA PayloadIsBounded ==
  ASSUME TypeOK, ServerGood, NetGood, NothingSent, ~aligned
  PROVE  Len(payload) <= (LastsMissed + 1) * LargestFlush
<1> DEFINE m == LastsMissed  k == m * LargestFlush
<1>1. m \in Nat /\ LargestFlush \in Nat
  <2>1. LastsMissed = LastsIn(missed) /\ LastsIn(missed) \in Nat
    BY MoreTypes, LastsType DEF LastsMissed, LastsIn
  <2> QED
    BY <2>1, LargestFits
<1>2. k \in Nat /\ (m + 1) * LargestFlush = k + LargestFlush
  BY <1>1
<1> HIDE DEF k
<1>3. CASE SaveVideo
  <2>1. Len(payload) = 0
    BY <1>3 DEF NothingSent
  <2> QED
    BY <1>1, <1>2, <2>1
<1>4. CASE ~SaveVideo
  <2>1. /\ Chain(flushes, Rest) /\ FlushesGood(flushes, LargestFlush)
        /\ ClientGood(flushes, Settled, Start, At, payload, output, missed, LargestFlush)
        /\ Rest \in Seq(ChunkType) /\ Len(flushes) \in Nat
    BY <1>4, MoreTypes DEF NetGood, ServerGood
  <2>2. Settled = SettledOf(flushes, Rest)
    BY SameSettled
  <2>3. At \in Nat /\ Start \in Nat /\ At <= Start + LargestFlush
    BY <1>1, <2>1, <2>2, ChainBegins DEF At, Start
  <2>4. Len(payload) <= k + (At - Start)
    BY <2>1 DEF ClientGood, Gathered, LastsIn, LastsMissed, k
  <2>5. Len(payload) \in Nat
    BY StreamParts
  <2> HIDE DEF m
  <2>6. Len(payload) <= k + LargestFlush
    BY <1>1, <1>2, <2>3, <2>4, <2>5
  <2>7. Len(payload) <= (m + 1) * LargestFlush
    BY <1>2, <2>6
  <2> QED
    BY <2>7 DEF m
<1> QED
  BY <1>3, <1>4

(* The client, for any thresholds, frame sizes and losses: what it gathers *)
(* before it writes is at most one flush of the largest size, and one more *)
(* for every last chunk that was lost.                                     *)
THEOREM StreamPayloadBounded == Spec => []PayloadBounded
<1>1. TypeOK /\ ServerGood /\ NetGood /\ NothingSent => PayloadBounded
  BY PayloadIsBounded DEF PayloadBounded
<1> QED
  BY <1>1, NetAlways, PTL

(* A flush that the client has a byte of in its output is settled, or it   *)
(* is hurt.                                                                *)
LEMMA WrittenIsWhole ==
  ASSUME TypeOK, ServerGood, NetGood, ~SaveVideo, ~aligned,
         NEW f \in 1..Len(flushes), Undamaged(f),
         NEW w \in Range(output), flushes[f][1] \in Range(w)
  PROVE  flushes[f] \in Range(output)
<1> DEFINE n == Settled
<1>1. /\ Chain(flushes, Rest) /\ FlushesGood(flushes, LargestFlush) /\ LargestFlush \in Nat
      /\ ClientGood(flushes, n, Start, At, payload, output, missed, LargestFlush)
      /\ Rest \in Seq(ChunkType) /\ Len(flushes) \in Nat /\ Unhurt(missed, f)
  BY MoreTypes, SameUndamaged, LargestFits DEF NetGood, ServerGood
<1>2. n = SettledOf(flushes, Rest) /\ At = AtOf(flushes, Rest) /\ Start = FlushEnd(flushes, n)
  BY SameSettled DEF At, Start
<1> HIDE DEF n
<1>3. /\ n \in 0..Len(flushes) /\ At \in Nat /\ Start \in Nat
      /\ Rest # <<>> => /\ ChunkGood(flushes, Rest[1]) /\ Rest[1].flush = n + 1
                        /\ n + 1 \in 1..Len(flushes)
  BY <1>1, <1>2, ChainBegins
<1>4. /\ FlushEnd(flushes, f - 1) \in Nat /\ FlushEnd(flushes, f) \in Nat
      /\ flushes[f][1] = FlushEnd(flushes, f - 1) + 1
  <2> DEFINE a == FlushEnd(flushes, f - 1)  b == FlushEnd(flushes, f)
  <2>1. b \in Nat /\ a < b /\ flushes[f] = Between(a, b)
    BY <1>1 DEF FlushesGood
  <2>2. f - 1 \in 0..Len(flushes)
    BY <1>1
  <2>3. a \in Nat
    BY <1>1, <2>2, EndType
  <2> HIDE DEF a, b
  <2>4. Between(a, b)[1] = a + 1
    BY <2>1, <2>3, BetweenEnds
  <2> QED
    BY <2>1, <2>3, <2>4 DEF a, b
<1>5. CASE f <= n
  <2>1. f \in 1..n
    BY <1>1, <1>3, <1>5
  <2> QED
    BY <1>1, <2>1 DEF ClientGood, AllWritten
<1>6. ASSUME f = n + 1 PROVE FALSE
  <2>1. UpToByte(output, Start)
    BY <1>1, <1>6 DEF ClientGood, CleanStart
  <2>2. flushes[f][1] <= Start
    BY <2>1 DEF UpToByte
  <2>3. f - 1 = n
    BY <1>3, <1>6
  <2> QED
    BY <1>2, <1>3, <1>4, <2>2, <2>3
<1>7. ASSUME f > n + 1 PROVE FALSE
  <2>1. n + 1 \in 0..Len(flushes) /\ f - 1 \in (n + 1)..Len(flushes) /\ n # Len(flushes)
    BY <1>1, <1>3, <1>7
  <2>2. FlushEnd(flushes, n + 1) <= FlushEnd(flushes, f - 1)
    BY <1>1, <2>1, EndGrows
  <2>3. Rest # <<>>
    BY <1>2, <2>1 DEF SettledOf
  <2>4. /\ At = Lo(Rest[1]) /\ Lo(Rest[1]) < Hi(Rest[1]) /\ Hi(Rest[1]) \in Nat
        /\ Hi(Rest[1]) <= FlushEnd(flushes, n + 1)
    BY <1>2, <1>3, <2>3 DEF ChunkGood, AtOf
  <2>5. FlushEnd(flushes, n + 1) \in Nat
    BY <1>1, <2>1, EndType
  <2>6. flushes[f][1] <= At
    BY <1>1 DEF ClientGood, Behind, UpToByte
  <2> QED
    BY <1>3, <1>4, <2>2, <2>4, <2>5, <2>6
<1> QED
  BY <1>1, <1>3, <1>5, <1>6, <1>7

(* Server, network and client, for any thresholds, frame sizes and losses: *)
(* a flush of which nothing is lost, and not the end of the one before     *)
(* either, is written in one go and with nothing of another, or nothing of *)
(* it has been written yet.                                                *)
THEOREM StreamContainsLoss == Spec => []LossIsContained
<1>1. TypeOK /\ ServerGood /\ NetGood /\ NothingSent => LossIsContained
  <2> SUFFICES ASSUME TypeOK, ServerGood, NetGood, NothingSent, ~aligned,
                      NEW f \in DOMAIN flushes, Undamaged(f),
                      NEW w \in Range(output), flushes[f][1] \in Range(w)
               PROVE  flushes[f] \in Range(output)
    BY DEF LossIsContained
  <2>1. f \in 1..Len(flushes)
    BY MoreTypes, LenProperties
  <2>2. ~SaveVideo
    BY DEF NothingSent, Range
  <2> QED
    BY <2>1, <2>2, WrittenIsWhole
<1> QED
  BY <1>1, NetAlways, PTL

-----------------------------------------------------------------------------
(* The stream implements StreamPromise.  Flushing is Flush; a chunk lost is *)
(* Damage, or JoinNext if it is a last one; a last one received is          *)
(* WriteWhole or WriteDamaged; all the rest is no step of the promise.      *)

LEMMA FrontOfAppend ==
  ASSUME NEW S, NEW s \in Seq(S), NEW x \in S
  PROVE  Append(s, x) # <<>> /\ Front(Append(s, x)) = s /\ Last(Append(s, x)) = x
<1> DEFINE w == Append(s, x)
<1>1. /\ w \in Seq(S) /\ Len(w) = Len(s) + 1 /\ Len(s) \in Nat
      /\ \A i \in 1..Len(s) : w[i] = s[i]
      /\ w[Len(s) + 1] = x
  BY AppendProperties
<1> HIDE DEF w
<1>2. w # <<>> /\ Last(w) = x
  BY <1>1 DEF Last
<1>3. Front(w) = s
  <2> DEFINE h == SubSeq(w, 1, Len(s))
  <2>1. h \in Seq(S) /\ Len(h) = Len(s) /\ \A i \in 1..Len(s) : h[i] = w[i]
    <3>1. \A i \in 1..Len(s) : w[i] \in S
      BY <1>1
    <3>2. \A i \in 1..Len(s) : 1 + i - 1 = i
      OBVIOUS
    <3> QED
      BY <1>1, <3>1, <3>2, SubSeqProperties
  <2> HIDE DEF h
  <2>2. h = s
    BY <1>1, <2>1, SeqEqual
  <2>3. Len(w) - 1 = Len(s)
    BY <1>1
  <2> QED
    BY <2>2, <2>3 DEF Front, h
<1> QED
  BY <1>2, <1>3 DEF w

Hurt == ~Undamaged(Settled + 1)

(* Hurt in the next state, when n flushes are settled there. *)
LEMMA HurtNext ==
  ASSUME NEW n, NEW a, NextIsGood(n, a)
  PROVE  Settled' = n /\ Hurt' = ~Unhurt(missed', n + 1) /\ Hurt \in BOOLEAN /\ Hurt' \in BOOLEAN
BY DEF NextIsGood, Hurt, Undamaged, Unhurt

LEMMA HurtNow == Hurt = ~Unhurt(missed, Settled + 1)
BY DEF Hurt, Undamaged, Unhurt

(* The promise has these operators from an instance of its own. *)
LEMMA SameEnds ==
  ASSUME NEW s
  PROVE  Promise!Front(s) = Front(s) /\ Promise!Last(s) = Last(s)
BY DEF Promise!Front, Promise!Last, Front, Last

LEMMA PromiseQuiet ==
  ASSUME ~aligned, ~aligned', Quiet
  PROVE  UNCHANGED Promise!promiseVars
<1>1. Settled' = Settled
  BY DEF Quiet, Settled
<1>2. (~Undamaged(Settled + 1))' = ~Undamaged(Settled + 1)
  BY <1>1 DEF Quiet, Undamaged
<1>3. (SaveVideo \/ aligned)' = (SaveVideo \/ aligned)
  OBVIOUS
<1> QED
  BY <1>1, <1>2, <1>3 DEF Quiet, Promise!promiseVars

LEMMA PromiseFlush ==
  ASSUME TypeOK, TypeOK', ServerGood, NetGood, ~SaveVideo, ~aligned, NEW chunks, Flushed(chunks)
  PROVE  Promise!Flush
<1>1. NextIsGood(Settled, At)
  BY FlushKeeps
<1>2. Settled' = Settled /\ Hurt' = Hurt
  <2>1. missed' = missed
    BY DEF Flushed
  <2> QED
    BY <1>1, <2>1, HurtNext, HurtNow
<1>3. /\ flushes \in Seq(Seq(Nat)) /\ buffer \in Seq(Nat) /\ buffer # <<>>
      /\ flushes' = Append(flushes, buffer) /\ output' = output
  BY MoreTypes, StreamParts, FlushGrows DEF Flushed
<1>4. flushes' # <<>> /\ Front(flushes') = flushes /\ Last(flushes') = buffer
  BY <1>3, FrontOfAppend
<1> QED
  BY <1>2, <1>3, <1>4, SameEnds DEF Promise!Flush, Promise!Extends, Hurt

LEMMA PromiseLose ==
  ASSUME TypeOK, TypeOK', ServerGood, NetGood, ~SaveVideo, ~aligned, Lose
  PROVE  Promise!Damage \/ Promise!JoinNext
<1>1. /\ \E n \in Nat, a \in Nat :
           NextIsGood(n, a) /\ n \in {Settled, Settled + 1} /\ ~Unhurt(missed', n + 1)
      /\ Settled \in Nat /\ Settled + 1 \in 1..Len(flushes)
      /\ flushes' = flushes /\ output' = output
  BY LoseKeeps
<1>2. Settled' \in {Settled, Settled + 1} /\ Hurt' = TRUE
  BY <1>1, HurtNext
<1>3. Settled < Len(flushes)
  BY <1>1, MoreTypes
<1> QED
  BY <1>1, <1>2, <1>3 DEF Promise!Damage, Promise!JoinNext, Promise!Settle, Hurt

LEMMA PromiseReceive ==
  ASSUME TypeOK, TypeOK', ServerGood, NetGood, ~SaveVideo, ~aligned, ~aligned', ReceiveChunk
  PROVE  UNCHANGED Promise!promiseVars \/ Promise!WriteWhole \/ Promise!WriteDamaged
<1>1. /\ Settled \in Nat /\ Settled + 1 \in 1..Len(flushes)
      /\ flushes' = flushes /\ missed' = missed
  BY ReceiveKeeps
<1>2. CASE (\E a \in Nat : NextIsGood(Settled, a)) /\ output' = output
  <2>1. Settled' = Settled /\ Hurt' = Hurt
    BY <1>1, <1>2, HurtNext, HurtNow
  <2>2. (SaveVideo \/ aligned)' = (SaveVideo \/ aligned)
    OBVIOUS
  <2> QED
    BY <1>1, <1>2, <2>1, <2>2 DEF Promise!promiseVars, Hurt
<1>3. ASSUME NEW a \in Nat, NextIsGood(Settled + 1, a), Unhurt(missed', Settled + 2),
             NEW bytes \in Seq(Nat) \ {<<>>}, output' = Append(output, bytes),
             bytes[Len(bytes)] = FlushEnd(flushes, Settled + 1),
             Unhurt(missed, Settled + 1) => bytes = flushes[Settled + 1]
      PROVE  Promise!WriteWhole \/ Promise!WriteDamaged
  <2>1. Settled' = Settled + 1 /\ Hurt' = FALSE
    <3>1. (Settled + 1) + 1 = Settled + 2
      BY <1>1
    <3> QED
      BY <1>3, <3>1, HurtNext
  <2>2. Settled < Len(flushes)
    BY <1>1, MoreTypes
  <2>3. output' # <<>> /\ Front(output') = output /\ Last(output') = bytes
    <3>1. output \in Seq(Seq(Nat))
      BY StreamParts
    <3> QED
      BY <1>3, <3>1, FrontOfAppend
  <2>4. Last(bytes) = Last(flushes[Settled + 1])
    <3>1. FlushEnd(flushes, Settled + 1) = flushes[Settled + 1][Len(flushes[Settled + 1])]
      BY <1>1 DEF FlushEnd
    <3> QED
      BY <1>3, <3>1 DEF Last
  <2>5. Hurt = FALSE => bytes = flushes[Settled + 1]
    BY <1>3, HurtNow
  <2>6. Hurt \in BOOLEAN
    BY HurtNow
  <2>7. CASE Hurt = FALSE
    BY <1>1, <1>3, <2>1, <2>2, <2>5, <2>7 DEF Promise!WriteWhole, Promise!Settle, Hurt
  <2>8. CASE Hurt = TRUE
    BY <1>1, <1>3, <2>1, <2>2, <2>3, <2>4, <2>8, SameEnds
       DEF Promise!WriteDamaged, Promise!Settle, Promise!Extends, Hurt
  <2> QED
    BY <2>6, <2>7, <2>8
<1> QED
  BY <1>2, <1>3, ReceiveKeeps

LEMMA StepKeepsStreamPromise ==
  ASSUME TypeOK, ServerGood, NetGood, [Next]_vars
  PROVE  [Promise!PromiseNext]_(Promise!promiseVars)
<1>1. CASE (SaveVideo \/ aligned)'
  BY <1>1 DEF Promise!PromiseNext
<1>2. CASE ~SaveVideo /\ ~aligned'
  <2>1. TypeOK'
    BY TypesStep
  <2>2. ~aligned /\ (Quiet \/ (\E chunks : Flushed(chunks)) \/ Lose \/ ReceiveChunk)
    BY <1>2, NetStep
  <2>3. \/ UNCHANGED Promise!promiseVars
        \/ Promise!Flush \/ Promise!Damage \/ Promise!WriteWhole \/ Promise!WriteDamaged
        \/ Promise!JoinNext
    BY <1>2, <2>1, <2>2, PromiseQuiet, PromiseFlush, PromiseLose, PromiseReceive
  <2>4. ~(SaveVideo \/ aligned) /\ ~(SaveVideo \/ aligned)'
    BY <1>2, <2>2
  <2> QED
    BY <2>3, <2>4 DEF Promise!PromiseNext
<1> QED
  BY <1>1, <1>2

LEMMA StreamPromiseInit == Init => Promise!PromiseInit
<1> SUFFICES ASSUME Init PROVE Promise!PromiseInit
  OBVIOUS
<1>1. Rest = <<>> /\ Len(flushes) = 0
  <2>1. Rest = <<>>
    BY ConcatEmptySeq, EmptySeq DEF Init, Rest
  <2> QED
    BY <2>1 DEF Init
<1>2. Settled = 0 /\ ~Undamaged(Settled + 1) = FALSE
  BY <1>1 DEF Init, Settled, Undamaged
<1>3. (SaveVideo \/ aligned) \in BOOLEAN
  OBVIOUS
<1> QED
  BY <1>2, <1>3 DEF Init, Promise!PromiseInit

(* For any thresholds, frame sizes and losses, chunks, their numbers and   *)
(* the client's gathering implement the promise of StreamPromise.          *)
THEOREM StreamPromiseKept == Spec => KeepsStreamPromise
<1>1. TypeOK /\ ServerGood /\ NetGood /\ [Next]_vars => [Promise!PromiseNext]_(Promise!promiseVars)
  BY StepKeepsStreamPromise
<1> QED
  BY <1>1, StreamPromiseInit, NetAlways, PTL DEF Spec, KeepsStreamPromise, Promise!PromiseSpec
=============================================================================
