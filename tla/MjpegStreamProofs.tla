------------------------- MODULE MjpegStreamProofs -------------------------
(***************************************************************************)
(* Proofs about MjpegStream.  First what FlattenSeq does, by induction on  *)
(* the number of sequences; then that cutting and joining match; then the  *)
(* invariants, for any thresholds, frame sizes and losses.                 *)
(***************************************************************************)
EXTENDS MjpegStream, FiniteSetTheorems, SequenceTheorems, WellFoundedInduction, TLAPS

-----------------------------------------------------------------------------
(* Induction, stated for a set: the least natural number outside it would  *)
(* have a predecessor inside.                                              *)
LEMMA SetInduction ==
  ASSUME NEW S, 0 \in S, \A n \in Nat : n \in S => n + 1 \in S
  PROVE  Nat \subseteq S
<1> SUFFICES ASSUME ~(Nat \subseteq S) PROVE FALSE
  OBVIOUS
<1> DEFINE Missing == Nat \ S
<1>1. IsWellFoundedOn(OpToRel(<, Nat), Nat)
  BY NatLessThanWellFounded
<1>2. Missing \subseteq Nat /\ Missing # {}
  OBVIOUS
<1> HIDE DEF Missing
<1>3. \E x \in Missing : \A y \in Missing : ~(<<y, x>> \in OpToRel(<, Nat))
  BY <1>1, <1>2, WFMin
<1>4. PICK x \in Missing : \A y \in Missing : ~(y < x)
  BY <1>2, <1>3 DEF OpToRel
<1> QED
  <2>1. x \in Nat /\ x # 0 /\ x \notin S
    BY <1>4 DEF Missing
  <2>2. x - 1 \in Nat /\ x - 1 < x /\ x = (x - 1) + 1
    BY <2>1
  <2>3. x - 1 \in S
    BY <2>2, <1>4 DEF Missing
  <2> QED
    BY <2>1, <2>2, <2>3

(* One sequence behind another.  Of \o itself the provers know too much,   *)
(* which keeps them from using what is said here.                          *)
Cat(s, t) == s \o t

LEMMA CatType ==
  ASSUME NEW S, NEW s \in Seq(S), NEW t \in Seq(S)
  PROVE  Cat(s, t) \in Seq(S)
BY DEF Cat

LEMMA CatEmpty ==
  ASSUME NEW S, NEW s \in Seq(S)
  PROVE  Cat(s, <<>>) = s /\ Cat(<<>>, s) = s
BY ConcatEmptySeq DEF Cat

LEMMA CatAssociative ==
  ASSUME NEW S, NEW s \in Seq(S), NEW t \in Seq(S), NEW u \in Seq(S)
  PROVE  Cat(Cat(s, t), u) = Cat(s, Cat(t, u))
BY DEF Cat

(* The function that FlattenSeq computes with: its i-th value is the first *)
(* i sequences joined.                                                     *)
Joined(seqs) ==
  CHOOSE flatten :
    flatten = [i \in 1..Len(seqs) |-> IF i = 1 THEN seqs[i] ELSE flatten[i-1] \o seqs[i]]

LEMMA FlattenJoined ==
  ASSUME NEW seqs
  PROVE  FlattenSeq(seqs) = IF Len(seqs) = 0 THEN seqs ELSE Joined(seqs)[Len(seqs)]
BY DEF FlattenSeq, Joined

LEMMA JoinedExists ==
  ASSUME NEW seqs, Len(seqs) \in Nat
  PROVE  Joined(seqs) =
           [i \in 1..Len(seqs) |-> IF i = 1 THEN seqs[i] ELSE Joined(seqs)[i-1] \o seqs[i]]
<1> DEFINE Step(f, n) == [i \in 1..n |-> IF i = 1 THEN seqs[i] ELSE f[i-1] \o seqs[i]]
           Good == {n \in Nat : \E f : f = Step(f, n)}
<1>1. 0 \in Good
  <2> DEFINE f == [i \in 1..0 |-> i]
  <2>1. f = Step(f, 0)
    OBVIOUS
  <2> QED
    BY <2>1
<1>2. ASSUME NEW n \in Nat, n \in Good PROVE n + 1 \in Good
  <2>1. PICK f : f = Step(f, n)
    BY <1>2
  <2> DEFINE g == [i \in 1..(n+1) |-> IF i = 1 THEN seqs[i] ELSE f[i-1] \o seqs[i]]
  <2>2. \A i \in 1..n : g[i] = f[i]
    <3> TAKE i \in 1..n
    <3>1. Step(f, n)[i] = IF i = 1 THEN seqs[i] ELSE f[i-1] \o seqs[i]
      OBVIOUS
    <3>2. i \in 1..(n+1)
      OBVIOUS
    <3>3. g[i] = IF i = 1 THEN seqs[i] ELSE f[i-1] \o seqs[i]
      BY <3>2
    <3> HIDE DEF Step, g
    <3> QED
      BY <3>1, <3>3, <2>1
  <2>3. \A i \in 1..(n+1) : i # 1 => i - 1 \in 1..n
    OBVIOUS
  <2>4. \A i \in 1..(n+1) : g[i] = IF i = 1 THEN seqs[i] ELSE g[i-1] \o seqs[i]
    <3> TAKE i \in 1..(n+1)
    <3>1. g[i] = IF i = 1 THEN seqs[i] ELSE f[i-1] \o seqs[i]
      OBVIOUS
    <3>2. i # 1 => g[i-1] = f[i-1]
      BY <2>2, <2>3
    <3> HIDE DEF g
    <3> QED
      BY <3>1, <3>2
  <2>5. g = Step(g, n + 1)
    <3>1. g = [i \in 1..(n+1) |-> g[i]]
      OBVIOUS
    <3>2. Step(g, n + 1) = [i \in 1..(n+1) |-> IF i = 1 THEN seqs[i] ELSE g[i-1] \o seqs[i]]
      OBVIOUS
    <3> HIDE DEF g
    <3> QED
      BY <3>1, <3>2, <2>4
  <2> HIDE DEF g, Step
  <2> QED
    BY <2>5
<1> HIDE DEF Good
<1>3. Nat \subseteq Good
  BY <1>1, <1>2, SetInduction
<1>4. PICK f : f = Step(f, Len(seqs))
  BY <1>3 DEF Good
<1> QED
  BY <1>4 DEF Joined

LEMMA JoinedStep ==
  ASSUME NEW seqs, NEW n \in Nat, Len(seqs) = n
  PROVE  \A i \in 1..n :
           Joined(seqs)[i] = IF i = 1 THEN seqs[i] ELSE Cat(Joined(seqs)[i-1], seqs[i])
<1> DEFINE f == Joined(seqs)
<1>1. f = [i \in 1..n |-> IF i = 1 THEN seqs[i] ELSE Cat(f[i-1], seqs[i])]
  BY JoinedExists DEF Cat
<1> HIDE DEF f
<1>2. \A i \in 1..n : f[i] = IF i = 1 THEN seqs[i] ELSE Cat(f[i-1], seqs[i])
  BY <1>1
<1> QED
  BY <1>2 DEF f

LEMMA JoinedType ==
  ASSUME NEW S, NEW seqs \in Seq(Seq(S))
  PROVE  \A i \in 1..Len(seqs) : Joined(seqs)[i] \in Seq(S)
<1>1. Len(seqs) \in Nat /\ \A i \in 1..Len(seqs) : seqs[i] \in Seq(S)
  BY ElementOfSeq
<1>2. \A i \in 1..Len(seqs) :
        Joined(seqs)[i] = IF i = 1 THEN seqs[i] ELSE Cat(Joined(seqs)[i-1], seqs[i])
  BY <1>1, JoinedStep
<1> DEFINE Good == {n \in Nat : n \in 1..Len(seqs) => Joined(seqs)[n] \in Seq(S)}
<1>3. 0 \in Good
  BY <1>1
<1>4. ASSUME NEW n \in Nat, n \in Good PROVE n + 1 \in Good
  <2> SUFFICES ASSUME n + 1 \in 1..Len(seqs) PROVE Joined(seqs)[n+1] \in Seq(S)
    OBVIOUS
  <2>1. CASE n = 0
    <3>1. n + 1 = 1
      BY <2>1
    <3> QED
      BY <3>1, <1>1, <1>2
  <2>2. CASE n # 0
    <3>1. n \in 1..Len(seqs) /\ n + 1 # 1 /\ (n + 1) - 1 = n
      BY <2>2, <1>1
    <3>2. Joined(seqs)[n] \in Seq(S)
      BY <3>1, <1>4
    <3>3. Joined(seqs)[n + 1] = Cat(Joined(seqs)[n], seqs[n + 1])
      BY <3>1, <1>2
    <3> QED
      BY <3>2, <3>3, <1>1, CatType
  <2> QED
    BY <2>1, <2>2
<1> HIDE DEF Good
<1>5. Nat \subseteq Good
  BY <1>3, <1>4, SetInduction
<1> QED
  BY <1>5, <1>1 DEF Good

LEMMA FlattenType ==
  ASSUME NEW S, NEW seqs \in Seq(Seq(S))
  PROVE  FlattenSeq(seqs) \in Seq(S)
<1>1. Len(seqs) \in Nat /\ (Len(seqs) = 0 => seqs = <<>>)
  BY LenProperties, EmptySeq
<1>2. CASE Len(seqs) = 0
  <2>1. FlattenSeq(seqs) = <<>>
    BY <1>1, <1>2, FlattenJoined
  <2> QED
    BY <2>1
<1>3. CASE Len(seqs) # 0
  BY <1>1, <1>3, FlattenJoined, JoinedType
<1> QED
  BY <1>2, <1>3

LEMMA FlattenEmpty == FlattenSeq(<<>>) = <<>>
BY FlattenJoined

LEMMA FlattenAppend ==
  ASSUME NEW S, NEW seqs \in Seq(Seq(S)), NEW x \in Seq(S)
  PROVE  FlattenSeq(Append(seqs, x)) = Cat(FlattenSeq(seqs), x)
<1> DEFINE more == Append(seqs, x)
<1>1. /\ more \in Seq(Seq(S)) /\ Len(more) = Len(seqs) + 1 /\ Len(seqs) \in Nat
      /\ more[Len(seqs) + 1] = x
      /\ \A i \in 1..Len(seqs) : more[i] = seqs[i]
  OBVIOUS
<1> HIDE DEF more
<1>2. \A i \in 1..Len(seqs) :
        Joined(seqs)[i] = IF i = 1 THEN seqs[i] ELSE Cat(Joined(seqs)[i-1], seqs[i])
  BY <1>1, JoinedStep
<1>3. \A i \in 1..(Len(seqs) + 1) :
        Joined(more)[i] = IF i = 1 THEN more[i] ELSE Cat(Joined(more)[i-1], more[i])
  BY <1>1, JoinedStep
<1> DEFINE Good == {n \in Nat : n \in 1..Len(seqs) => Joined(more)[n] = Joined(seqs)[n]}
<1>4. 0 \in Good
  OBVIOUS
<1>5. ASSUME NEW n \in Nat, n \in Good PROVE n + 1 \in Good
  <2> SUFFICES ASSUME n + 1 \in 1..Len(seqs) PROVE Joined(more)[n+1] = Joined(seqs)[n+1]
    OBVIOUS
  <2>0. n + 1 \in 1..(Len(seqs) + 1) /\ more[n + 1] = seqs[n + 1]
    BY <1>1
  <2>1. CASE n = 0
    <3>1. n + 1 = 1
      BY <2>1
    <3> QED
      BY <3>1, <1>1, <1>2, <1>3, <2>0
  <2>2. CASE n # 0
    <3>1. n \in 1..Len(seqs) /\ n + 1 # 1 /\ (n + 1) - 1 = n
      BY <2>2, <1>1
    <3>2. Joined(more)[n] = Joined(seqs)[n]
      BY <3>1, <1>5
    <3>3. Joined(seqs)[n + 1] = Cat(Joined(seqs)[n], seqs[n + 1])
      BY <3>1, <1>2
    <3>4. Joined(more)[n + 1] = Cat(Joined(more)[n], more[n + 1])
      BY <3>1, <1>3, <2>0
    <3> QED
      BY <3>2, <3>3, <3>4, <2>0
  <2> QED
    BY <2>1, <2>2
<1> HIDE DEF Good
<1>6. Nat \subseteq Good
  BY <1>4, <1>5, SetInduction
<1>7. FlattenSeq(more) = Joined(more)[Len(seqs) + 1]
  BY <1>1, FlattenJoined
<1>8. CASE Len(seqs) = 0
  <2>1. seqs = <<>>
    BY <1>8, EmptySeq
  <2>2. FlattenSeq(more) = x
    BY <1>1, <1>3, <1>7, <1>8
  <2> QED
    BY <2>1, <2>2, FlattenEmpty, CatEmpty DEF more
<1>9. CASE Len(seqs) # 0
  <2>1. Len(seqs) \in 1..Len(seqs) /\ Len(seqs) + 1 # 1 /\ (Len(seqs) + 1) - 1 = Len(seqs)
    BY <1>9, <1>1
  <2>2. FlattenSeq(seqs) = Joined(seqs)[Len(seqs)]
    BY <1>9, FlattenJoined
  <2>3. Joined(more)[Len(seqs)] = Joined(seqs)[Len(seqs)]
    BY <2>1, <1>1, <1>6 DEF Good
  <2>4. Joined(more)[Len(seqs) + 1] = Cat(Joined(more)[Len(seqs)], more[Len(seqs) + 1])
    <3>1. Len(seqs) + 1 \in 1..(Len(seqs) + 1)
      BY <1>1
    <3> QED
      BY <3>1, <2>1, <1>3
  <2> QED
    BY <2>2, <2>3, <2>4, <1>1, <1>7 DEF more
<1> QED
  BY <1>8, <1>9

LEMMA FlattenHead ==
  ASSUME NEW S, NEW seqs \in Seq(Seq(S)), seqs # <<>>
  PROVE  FlattenSeq(seqs) = Cat(Head(seqs), FlattenSeq(Tail(seqs)))
<1> DEFINE rest == Tail(seqs)
<1>1. /\ rest \in Seq(Seq(S)) /\ Len(seqs) = Len(rest) + 1 /\ Len(rest) \in Nat
      /\ Head(seqs) = seqs[1] /\ seqs[1] \in Seq(S)
      /\ \A i \in 1..Len(rest) : rest[i] = seqs[i + 1] /\ rest[i] \in Seq(S)
  BY HeadTailProperties, ElementOfSeq
<1> HIDE DEF rest
<1>2. \A i \in 1..(Len(rest) + 1) :
        Joined(seqs)[i] = IF i = 1 THEN seqs[i] ELSE Cat(Joined(seqs)[i-1], seqs[i])
  <2>1. Len(rest) + 1 \in Nat
    BY <1>1
  <2> QED
    BY <2>1, <1>1, JoinedStep
<1>3. \A i \in 1..Len(rest) :
        Joined(rest)[i] = IF i = 1 THEN rest[i] ELSE Cat(Joined(rest)[i-1], rest[i])
  BY <1>1, JoinedStep
<1>4. \A i \in 1..Len(rest) : Joined(rest)[i] \in Seq(S)
  BY <1>1, JoinedType
<1> DEFINE Good == {n \in Nat : n \in 1..Len(rest) =>
                                  Joined(seqs)[n + 1] = Cat(seqs[1], Joined(rest)[n])}
<1>5. 0 \in Good
  OBVIOUS
<1>6. ASSUME NEW n \in Nat, n \in Good PROVE n + 1 \in Good
  <2> SUFFICES ASSUME n + 1 \in 1..Len(rest)
               PROVE  Joined(seqs)[(n + 1) + 1] = Cat(seqs[1], Joined(rest)[n + 1])
    <3>1. n + 1 \in Nat
      OBVIOUS
    <3> QED
      BY <3>1, Zenon
  <2>1. /\ (n + 1) + 1 \in 1..(Len(rest) + 1) /\ (n + 1) + 1 # 1 /\ ((n + 1) + 1) - 1 = n + 1
        /\ n + 1 \in 1..(Len(rest) + 1)
    BY <1>1
  <2>2. Joined(seqs)[(n + 1) + 1] = Cat(Joined(seqs)[n + 1], rest[n + 1])
    BY <2>1, <1>1, <1>2
  <2>3. CASE n = 0
    <3>1. n + 1 = 1
      BY <2>3
    <3>2. Joined(seqs)[n + 1] = seqs[1] /\ Joined(rest)[n + 1] = rest[n + 1]
      BY <3>1, <2>1, <1>2, <1>3
    <3> QED
      BY <2>2, <3>2
  <2>4. CASE n # 0
    <3>1. n \in 1..Len(rest) /\ n + 1 # 1 /\ (n + 1) - 1 = n
      BY <2>4, <1>1
    <3>2. Joined(seqs)[n + 1] = Cat(seqs[1], Joined(rest)[n])
      BY <3>1, <1>6
    <3>3. Joined(rest)[n + 1] = Cat(Joined(rest)[n], rest[n + 1])
      BY <3>1, <1>3
    <3>4. seqs[1] \in Seq(S) /\ Joined(rest)[n] \in Seq(S) /\ rest[n + 1] \in Seq(S)
      BY <3>1, <1>1, <1>4
    <3>5. Cat(Cat(seqs[1], Joined(rest)[n]), rest[n + 1]) = Cat(seqs[1], Cat(Joined(rest)[n], rest[n + 1]))
      BY <3>4, CatAssociative
    <3> QED
      BY <2>2, <3>2, <3>3, <3>5
  <2> QED
    BY <2>3, <2>4
<1> HIDE DEF Good
<1>7. Nat \subseteq Good
  BY <1>5, <1>6, SetInduction
<1>8. FlattenSeq(seqs) = Joined(seqs)[Len(rest) + 1]
  BY <1>1, FlattenJoined
<1>9. CASE Len(rest) = 0
  <2>1. FlattenSeq(seqs) = seqs[1] /\ FlattenSeq(rest) = <<>>
    BY <1>8, <1>9, <1>2, <1>1, EmptySeq, FlattenEmpty
  <2> QED
    BY <2>1, <1>1, CatEmpty DEF rest
<1>10. CASE Len(rest) # 0
  <2>1. Len(rest) \in 1..Len(rest)
    BY <1>10, <1>1
  <2>2. FlattenSeq(rest) = Joined(rest)[Len(rest)]
    BY <1>10, FlattenJoined
  <2>3. Joined(seqs)[Len(rest) + 1] = Cat(seqs[1], Joined(rest)[Len(rest)])
    BY <2>1, <1>7, <1>1 DEF Good
  <2> QED
    BY <2>2, <2>3, <1>8, <1>1 DEF rest
<1> QED
  BY <1>9, <1>10

-----------------------------------------------------------------------------
(* A sequence cut into pieces, one from each cut to the next, is what the  *)
(* pieces are together.                                                    *)
LEMMA CatSubSeq ==
  ASSUME NEW S, NEW s \in Seq(S), NEW a \in 0..Len(s), NEW b \in a..Len(s)
  PROVE  Cat(SubSeq(s, 1, a), SubSeq(s, a + 1, b)) = SubSeq(s, 1, b)
BY DEF Cat

LEMMA FlattenCuts ==
  ASSUME NEW S, NEW s \in Seq(S), NEW n \in Nat, NEW cut \in [0..n -> 0..Len(s)],
         cut[0] = 0, \A i \in 1..n : cut[i - 1] <= cut[i],
         NEW pieces \in Seq(Seq(S)), Len(pieces) = n, n > 0,
         \A i \in 1..n : pieces[i] = SubSeq(s, cut[i - 1] + 1, cut[i])
  PROVE  FlattenSeq(pieces) = SubSeq(s, 1, cut[n])
<1>1. \A i \in 1..n :
        Joined(pieces)[i] = IF i = 1 THEN pieces[i] ELSE Cat(Joined(pieces)[i-1], pieces[i])
  BY JoinedStep
<1> DEFINE Good == {m \in Nat : m \in 1..n => Joined(pieces)[m] = SubSeq(s, 1, cut[m])}
<1>2. 0 \in Good
  OBVIOUS
<1>3. ASSUME NEW m \in Nat, m \in Good PROVE m + 1 \in Good
  <2> SUFFICES ASSUME m + 1 \in 1..n PROVE Joined(pieces)[m + 1] = SubSeq(s, 1, cut[m + 1])
    <3>1. m + 1 \in Nat
      OBVIOUS
    <3> QED
      BY <3>1, Zenon
  <2>1. /\ (m + 1) - 1 = m /\ m \in 0..n /\ m + 1 \in 0..n
        /\ pieces[m + 1] = SubSeq(s, cut[m] + 1, cut[m + 1])
        /\ cut[m] \in 0..Len(s) /\ cut[m + 1] \in cut[m]..Len(s)
    <3>1. (m + 1) - 1 = m /\ m \in 0..n /\ m + 1 \in 0..n
      OBVIOUS
    <3>2. cut[m] \in 0..Len(s) /\ cut[m + 1] \in 0..Len(s) /\ cut[m] <= cut[m + 1]
      BY <3>1
    <3>3. pieces[m + 1] = SubSeq(s, cut[m] + 1, cut[m + 1])
      BY <3>1
    <3> QED
      BY <3>1, <3>2, <3>3
  <2>2. CASE m = 0
    <3>1. m + 1 = 1 /\ cut[m] = 0
      BY <2>2
    <3>2. Joined(pieces)[m + 1] = pieces[m + 1]
      BY <1>1, <3>1
    <3>3. cut[m] + 1 = 1
      BY <3>1
    <3>4. pieces[m + 1] = SubSeq(s, 1, cut[m + 1])
      BY <2>1, <3>3
    <3> QED
      BY <3>2, <3>4
  <2>3. CASE m # 0
    <3>1. m \in 1..n /\ m + 1 # 1
      BY <2>3
    <3>2. Joined(pieces)[m + 1] = Cat(Joined(pieces)[m], pieces[m + 1])
      BY <1>1, <2>1, <3>1
    <3>3. Joined(pieces)[m] = SubSeq(s, 1, cut[m])
      BY <1>3, <3>1
    <3> QED
      BY <2>1, <3>2, <3>3, CatSubSeq
  <2> QED
    BY <2>2, <2>3
<1> HIDE DEF Good
<1>4. Nat \subseteq Good
  BY <1>2, <1>3, SetInduction
<1>5. Joined(pieces)[n] = SubSeq(s, 1, cut[n])
  BY <1>4 DEF Good
<1> QED
  BY <1>5, FlattenJoined

-----------------------------------------------------------------------------
(* The bytes of a sequence of chunks *)

ChunkType == [head : Nat, data : Seq(Nat), flush : Nat]

DataSeq(chunks) == [i \in DOMAIN chunks |-> chunks[i].data]

LEMMA DataSeqType ==
  ASSUME NEW chunks \in Seq(ChunkType)
  PROVE  /\ DataSeq(chunks) \in Seq(Seq(Nat)) /\ Len(DataSeq(chunks)) = Len(chunks)
         /\ \A i \in 1..Len(chunks) : DataSeq(chunks)[i] = chunks[i].data
<1>1. Len(chunks) \in Nat /\ DOMAIN chunks = 1..Len(chunks)
  BY LenProperties
<1>2. \A i \in 1..Len(chunks) : chunks[i].data \in Seq(Nat)
  <2> TAKE i \in 1..Len(chunks)
  <2>1. chunks[i] \in ChunkType
    BY ElementOfSeq
  <2> QED
    BY <2>1 DEF ChunkType
<1>3. DataSeq(chunks) = [i \in 1..Len(chunks) |-> chunks[i].data]
  BY <1>1 DEF DataSeq
<1> QED
  BY <1>1, <1>2, <1>3

LEMMA DataIs ==
  ASSUME NEW chunks
  PROVE  DataOf(chunks) = FlattenSeq(DataSeq(chunks))
BY DEF DataOf, DataSeq

LEMMA DataType ==
  ASSUME NEW chunks \in Seq(ChunkType)
  PROVE  DataOf(chunks) \in Seq(Nat)
BY DataIs, DataSeqType, FlattenType

LEMMA DataEmpty == DataOf(<<>>) = <<>>
<1>1. DataSeq(<<>>) = <<>>
  BY DEF DataSeq
<1> QED
  BY <1>1, DataIs, FlattenEmpty

LEMMA DataAppend ==
  ASSUME NEW chunks \in Seq(ChunkType), NEW c \in ChunkType
  PROVE  DataOf(Append(chunks, c)) = Cat(DataOf(chunks), c.data)
<1>1. c.data \in Seq(Nat)
  BY DEF ChunkType
<1>2. DataSeq(Append(chunks, c)) = Append(DataSeq(chunks), c.data)
  BY DEF DataSeq, ChunkType
<1> QED
  BY <1>1, <1>2, DataIs, DataSeqType, FlattenAppend

LEMMA DataHead ==
  ASSUME NEW chunks \in Seq(ChunkType), chunks # <<>>
  PROVE  /\ Head(chunks) \in ChunkType /\ Tail(chunks) \in Seq(ChunkType)
         /\ DataOf(chunks) = Cat(Head(chunks).data, DataOf(Tail(chunks)))
<1>1. Head(chunks) \in ChunkType /\ Tail(chunks) \in Seq(ChunkType)
  OBVIOUS
<1>2. DataSeq(chunks) \in Seq(Seq(Nat)) /\ DataSeq(chunks) # <<>>
  BY DataSeqType, EmptySeq
<1>3. Head(DataSeq(chunks)) = Head(chunks).data
  BY DEF DataSeq, ChunkType
<1>4. Tail(DataSeq(chunks)) = DataSeq(Tail(chunks))
  <2>1. /\ Tail(chunks) \in Seq(ChunkType) /\ Len(Tail(chunks)) = Len(chunks) - 1
        /\ \A i \in 1..Len(Tail(chunks)) : Tail(chunks)[i] = chunks[i + 1]
        /\ Len(chunks) \in Nat
    BY HeadTailProperties
  <2>2. /\ Len(Tail(DataSeq(chunks))) = Len(chunks) - 1
        /\ Tail(DataSeq(chunks)) \in Seq(Seq(Nat))
        /\ \A i \in 1..(Len(chunks) - 1) : Tail(DataSeq(chunks))[i] = DataSeq(chunks)[i + 1]
    BY <1>2, DataSeqType, HeadTailProperties
  <2>3. /\ Len(DataSeq(Tail(chunks))) = Len(chunks) - 1
        /\ DataSeq(Tail(chunks)) \in Seq(Seq(Nat))
        /\ \A i \in 1..(Len(chunks) - 1) : DataSeq(Tail(chunks))[i] = chunks[i + 1].data
    BY <2>1, DataSeqType
  <2>4. \A i \in 1..(Len(chunks) - 1) : DataSeq(chunks)[i + 1] = chunks[i + 1].data
    BY <2>1, DataSeqType
  <2> DEFINE l == Tail(DataSeq(chunks))  r == DataSeq(Tail(chunks))
  <2>5. /\ l \in Seq(Seq(Nat)) /\ r \in Seq(Seq(Nat)) /\ Len(l) = Len(r)
        /\ \A i \in 1..Len(l) : l[i] = r[i]
    BY <2>2, <2>3, <2>4
  <2> HIDE DEF l, r
  <2>6. l = r
    BY <2>5, SeqEqual
  <2> QED
    BY <2>6 DEF l, r
<1> QED
  BY <1>1, <1>2, <1>3, <1>4, DataIs, FlattenHead

LEMMA DataOne ==
  ASSUME NEW c \in ChunkType
  PROVE  DataOf(<<c>>) = c.data
<1>1. <<>> \in Seq(ChunkType) /\ Append(<<>>, c) = <<c>> /\ c.data \in Seq(Nat)
  BY DEF ChunkType
<1> QED
  BY <1>1, DataAppend, DataEmpty, CatEmpty

-----------------------------------------------------------------------------
(* How FlushInChunks cuts the buffer: after every MaxFlush bytes, the byte *)
(* before the buffer counted, and at its end.                              *)

NumChunks == IF Exact THEN FullChunks ELSE FullChunks + 1

Cut(i) ==
  IF i = 0 THEN 0 ELSE IF i <= FullChunks THEN (i * MaxFlush) - 1 ELSE Len(buffer)

LEMMA Euclid ==
  ASSUME NEW d \in Nat \ {0}, NEW t \in Nat
  PROVE  t \div d \in Nat /\ t % d \in 0..(d - 1) /\ t = (d * (t \div d)) + (t % d)
OBVIOUS

LEMMA Multiples ==
  ASSUME NEW d \in Nat \ {0}, NEW i \in Nat, NEW j \in Nat, i <= j
  PROVE  /\ i * d \in Nat /\ j * d \in Nat /\ i * d <= j * d /\ i * d = d * i
         /\ (i + 1) * d = (i * d) + d
OBVIOUS

LEMMA Thresholds == MaxFlush \in Nat \ {0, 1} /\ MinFlush \in Nat \ {0}
BY FlushAssumption

LEMMA Cuts ==
  ASSUME Len(buffer) \in Nat, BufferSize > MaxFlush
  PROVE  /\ FullChunks \in Nat \ {0} /\ NumChunks \in Nat \ {0}
         /\ \A i \in 0..NumChunks : Cut(i) \in 0..Len(buffer)
         /\ \A i \in 1..NumChunks : Cut(i - 1) < Cut(i)
         /\ Cut(NumChunks) = Len(buffer)
<1> DEFINE size == BufferSize
           k == FullChunks
           r == size % MaxFlush
<1>1. size = Len(buffer) + 1 /\ size \in Nat
  BY DEF BufferSize
<1>2. k \in Nat /\ r \in 0..(MaxFlush - 1) /\ size = (MaxFlush * k) + r /\ (Exact <=> r = 0)
  <2>1. MaxFlush \in Nat \ {0}
    BY Thresholds
  <2>2. k = size \div MaxFlush /\ (Exact <=> r = 0)
    BY DEF FullChunks, Exact
  <2> HIDE DEF size, k
  <2> QED
    BY <1>1, <2>1, <2>2, Euclid DEF r
<1> HIDE DEF size, k, r
<1>3. size > MaxFlush
  BY DEF size
<1>4. k # 0
  BY <1>2, <1>3, Thresholds
<1>5. NumChunks = IF r = 0 THEN k ELSE k + 1
  BY <1>2 DEF NumChunks, k
<1>6. \A i \in 1..k : /\ Cut(i) = (i * MaxFlush) - 1 /\ (i * MaxFlush) \in Nat
                       /\ i * MaxFlush <= MaxFlush * k /\ MaxFlush <= i * MaxFlush
                       /\ (i + 1) * MaxFlush = (i * MaxFlush) + MaxFlush
  <2> TAKE i \in 1..k
  <2>1. i \in Nat /\ i # 0 /\ i <= k /\ MaxFlush \in Nat \ {0}
    BY <1>2, Thresholds
  <2>2. /\ i * MaxFlush \in Nat /\ i * MaxFlush <= k * MaxFlush /\ k * MaxFlush = MaxFlush * k
        /\ (i + 1) * MaxFlush = (i * MaxFlush) + MaxFlush
    BY <1>2, <2>1, Multiples
  <2>3. 1 * MaxFlush <= i * MaxFlush /\ 1 * MaxFlush = MaxFlush
    BY <2>1, Multiples
  <2>4. Cut(i) = (i * MaxFlush) - 1
    BY <2>1 DEF Cut, k
  <2> QED
    BY <2>2, <2>3, <2>4
<1>7. Cut(0) = 0 /\ (r # 0 => Cut(k + 1) = Len(buffer))
  BY <1>2 DEF Cut, k
<1>8. \A i \in 0..NumChunks : i = 0 \/ i \in 1..k \/ (r # 0 /\ i = k + 1)
  BY <1>2, <1>5
<1>9. k * MaxFlush = MaxFlush * k /\ MaxFlush * k \in Nat
  BY <1>2, Thresholds
<1>10. Cut(k) = (MaxFlush * k) - 1
  BY <1>2, <1>4, <1>6, <1>9
<1>11. \A i \in 0..NumChunks : Cut(i) \in 0..Len(buffer)
  <2> TAKE i \in 0..NumChunks
  <2>1. CASE i = 0
    BY <2>1, <1>7
  <2>2. CASE i \in 1..k
    <3>1. Cut(i) = (i * MaxFlush) - 1 /\ i * MaxFlush \in Nat /\ i * MaxFlush <= MaxFlush * k
      BY <2>2, <1>6
    <3>2. MaxFlush <= i * MaxFlush
      BY <2>2, <1>6
    <3>3. MaxFlush * k \in Nat /\ MaxFlush * k <= Len(buffer) + 1
      BY <1>1, <1>2, <1>9
    <3> QED
      BY <3>1, <3>2, <3>3, Thresholds
  <2>3. CASE r # 0 /\ i = k + 1
    BY <2>3, <1>7
  <2> QED
    BY <1>8, <2>1, <2>2, <2>3
<1>12. \A i \in 1..NumChunks : Cut(i - 1) < Cut(i)
  <2> TAKE i \in 1..NumChunks
  <2>1. CASE i = 1
    BY <2>1, <1>2, <1>4, <1>6, <1>7, Thresholds
  <2>2. CASE i # 1 /\ i \in 1..k
    <3>1. i - 1 \in 1..k /\ (i - 1) + 1 = i
      BY <2>2, <1>2
    <3>2. i * MaxFlush = ((i - 1) * MaxFlush) + MaxFlush
      BY <3>1, <1>6
    <3> QED
      BY <3>1, <3>2, <2>2, <1>6, Thresholds
  <2>3. CASE r # 0 /\ i = k + 1
    <3>1. i - 1 = k
      BY <2>3, <1>2
    <3> QED
      BY <3>1, <2>3, <1>1, <1>2, <1>7, <1>9, <1>10
  <2>4. i \in 0..NumChunks /\ i # 0
    BY <1>2, <1>5
  <2> QED
    BY <1>8, <2>1, <2>2, <2>3, <2>4
<1>13. Cut(NumChunks) = Len(buffer)
  BY <1>1, <1>2, <1>5, <1>7, <1>9, <1>10
<1> QED
  BY <1>2, <1>4, <1>5, <1>11, <1>12, <1>13 DEF k

LEMMA ChunkForm ==
  ASSUME NEW c, NEW h \in Nat, NEW d, c = Chunk(h, d)
  PROVE  c = Chunk(c.head, d) /\ c.head \in Nat /\ c.head = h
BY DEF Chunk

(* The chunks are the pieces between the cuts, numbered but for the last.  *)
LEMMA ChunksCut ==
  ASSUME Len(buffer) \in Nat, BufferSize > MaxFlush
  PROVE  /\ Chunks = [i \in 1..NumChunks |-> Chunks[i]]
         /\ \A i \in 1..NumChunks :
              /\ Chunks[i] = Chunk(Chunks[i].head, SubSeq(buffer, Cut(i - 1) + 1, Cut(i)))
              /\ Chunks[i].head \in Nat
              /\ Chunks[i].head = IF i <= FullChunks THEN i - 1 ELSE Independent
<1> DEFINE k == FullChunks
           middle == [i \in 1..(k - 1) |-> MiddleChunk(i)]
           last == IF Exact THEN <<>> ELSE <<LastChunk(k)>>
           Pieces == {FirstChunk, LastChunk(k)} \union {MiddleChunk(i) : i \in 1..(k - 1)}
<1>1. k \in Nat \ {0} /\ NumChunks = IF Exact THEN k ELSE k + 1
  BY Cuts DEF NumChunks
<1>2. Chunks = (<<FirstChunk>> \o middle) \o last
  BY DEF Chunks
<1> HIDE DEF k
<1>3. /\ <<FirstChunk>> \in Seq(Pieces) /\ Len(<<FirstChunk>>) = 1 /\ <<FirstChunk>>[1] = FirstChunk
      /\ middle \in Seq(Pieces) /\ Len(middle) = k - 1
      /\ \A i \in 1..(k - 1) : middle[i] = MiddleChunk(i)
  BY <1>1
<1>4. /\ last \in Seq(Pieces) /\ Len(last) = (IF Exact THEN 0 ELSE 1)
      /\ ~Exact => last[1] = LastChunk(k)
  <2>1. LastChunk(k) \in Pieces
    OBVIOUS
  <2> HIDE DEF Pieces
  <2>2. CASE Exact
    BY <2>2
  <2>3. CASE ~Exact
    <3>1. last = <<LastChunk(k)>>
      BY <2>3
    <3> QED
      BY <3>1, <2>1, <2>3
  <2> QED
    BY <2>2, <2>3
<1> HIDE DEF Pieces, middle, last
<1> DEFINE front == <<FirstChunk>> \o middle
<1>5. /\ front \in Seq(Pieces) /\ Len(front) = k /\ front[1] = FirstChunk
      /\ \A i \in 2..k : front[i] = MiddleChunk(i - 1)
  <2>1. front \in Seq(Pieces) /\ Len(front) = k
    BY <1>1, <1>3, ConcatProperties
  <2>2. \A i \in 1..k : front[i] = IF i <= 1 THEN <<FirstChunk>>[i] ELSE middle[i - 1]
    BY <1>1, <1>3, ConcatProperties
  <2> HIDE DEF front
  <2>3. front[1] = FirstChunk
    BY <1>1, <1>3, <2>2
  <2>4. \A i \in 2..k : front[i] = MiddleChunk(i - 1)
    <3> TAKE i \in 2..k
    <3>1. i \in 1..k /\ ~(i <= 1) /\ i - 1 \in 1..(k - 1)
      BY <1>1
    <3> QED
      BY <3>1, <2>2, <1>3
  <2> QED
    BY <2>1, <2>3, <2>4
<1>6. Chunks = front \o last
  BY <1>2
<1> HIDE DEF front
<1>7. /\ Chunks \in Seq(Pieces) /\ Len(Chunks) = NumChunks
      /\ \A i \in 1..NumChunks : Chunks[i] = IF i <= k THEN front[i] ELSE last[i - k]
  BY <1>1, <1>4, <1>5, <1>6, ConcatProperties
<1>8. Chunks = [i \in 1..NumChunks |-> Chunks[i]]
  BY <1>7
<1>9. ASSUME NEW i \in 1..NumChunks
      PROVE  /\ Chunks[i] = Chunk(Chunks[i].head, SubSeq(buffer, Cut(i - 1) + 1, Cut(i)))
             /\ Chunks[i].head \in Nat
             /\ Chunks[i].head = IF i <= k THEN i - 1 ELSE Independent
  <2>1. CASE i = 1
    <3>1. Chunks[i] = FirstChunk
      BY <2>1, <1>1, <1>5, <1>7
    <3>2. Cut(i - 1) + 1 = 1 /\ Cut(i) = MaxFlush - 1
      BY <2>1, <1>1, Thresholds DEF Cut, k
    <3> QED
      <4>1. Chunks[i] = Chunk(0, SubSeq(buffer, Cut(i - 1) + 1, Cut(i)))
        BY <3>1, <3>2 DEF FirstChunk
      <4> QED
        BY <2>1, <1>1, <4>1, ChunkForm
  <2>2. CASE i # 1 /\ i <= k
    <3>1. Chunks[i] = MiddleChunk(i - 1) /\ i - 1 \in Nat
      BY <2>2, <1>1, <1>5, <1>7
    <3>2. i - 1 # 0 /\ i - 1 <= FullChunks /\ i # 0 /\ i <= FullChunks /\ (i - 1) + 1 = i
      BY <2>2, <1>1 DEF k
    <3>3. Cut(i - 1) + 1 = (i - 1) * MaxFlush /\ Cut(i) = (((i - 1) + 1) * MaxFlush) - 1
      <4>1. (i - 1) * MaxFlush \in Int
        BY <3>1, Thresholds
      <4> QED
        BY <3>2, <4>1 DEF Cut
    <3> QED
      <4>1. Chunks[i] = Chunk(i - 1, SubSeq(buffer, Cut(i - 1) + 1, Cut(i)))
        BY <3>1, <3>3 DEF MiddleChunk
      <4> QED
        BY <2>2, <4>1, <3>1, ChunkForm
  <2>3. CASE ~(i <= k)
    <3>1. i = k + 1 /\ ~Exact
      BY <2>3, <1>1
    <3>2. Chunks[i] = LastChunk(k)
      BY <3>1, <2>3, <1>1, <1>4, <1>7
    <3>3. Cut(i - 1) + 1 = k * MaxFlush /\ Cut(i) = Len(buffer)
      <4>1. k * MaxFlush \in Int
        BY <1>1, Thresholds
      <4>2. i - 1 = k /\ i # 0 /\ ~(i <= k)
        BY <3>1, <1>1
      <4> QED
        BY <4>1, <4>2, <1>1 DEF Cut, k
    <3> QED
      <4>1. Chunks[i] = Chunk(Independent, SubSeq(buffer, Cut(i - 1) + 1, Cut(i)))
        BY <3>2, <3>3 DEF LastChunk
      <4>2. Independent \in Nat
        BY DEF Independent
      <4> QED
        BY <2>3, <4>1, <4>2, ChunkForm
  <2> QED
    BY <2>1, <2>2, <2>3, <1>1
<1> QED
  BY <1>8, <1>9 DEF k

(* What is sent or saved of a buffer is the buffer, byte by byte. *)
LEMMA ChunksJoin ==
  ASSUME NEW S, buffer \in Seq(S), BufferSize > MaxFlush
  PROVE  /\ Chunks \in Seq([head : Nat, data : Seq(S) \ {<<>>}, flush : {Len(flushes) + 1}])
         /\ Chunks # <<>>
         /\ DataOf(Chunks) = buffer
<1> DEFINE n == NumChunks
           cut == [i \in 0..n |-> Cut(i)]
           Some == [head : Nat, data : Seq(S) \ {<<>>}, flush : {Len(flushes) + 1}]
<1>1. Len(buffer) \in Nat /\ \A i \in 1..Len(buffer) : buffer[i] \in S
  BY LenProperties, ElementOfSeq
<1>2. /\ n \in Nat \ {0} /\ cut \in [0..n -> 0..Len(buffer)]
      /\ \A i \in 1..n : cut[i - 1] < cut[i] /\ cut[i - 1] = Cut(i - 1) /\ cut[i] = Cut(i)
      /\ cut[0] = 0 /\ cut[n] = Len(buffer)
  <2>1. n \in Nat \ {0} /\ \A i \in 1..n : i - 1 \in 0..n /\ i \in 0..n
    BY <1>1, Cuts
  <2>2. Cut(0) = 0
    BY DEF Cut
  <2> HIDE DEF n
  <2>3. \A i \in 0..n : Cut(i) \in 0..Len(buffer)
    BY <1>1, Cuts DEF n
  <2>4. (\A i \in 1..n : Cut(i - 1) < Cut(i)) /\ Cut(n) = Len(buffer)
    BY <1>1, Cuts DEF n
  <2> QED
    BY <2>1, <2>2, <2>3, <2>4
<1> HIDE DEF cut
<1>3. /\ Chunks = [i \in 1..n |-> Chunks[i]]
      /\ \A i \in 1..n :
           /\ Chunks[i] = Chunk(Chunks[i].head, SubSeq(buffer, cut[i - 1] + 1, cut[i]))
           /\ Chunks[i].head \in Nat
  BY <1>1, <1>2, ChunksCut
<1> HIDE DEF n
<1>4. \A i \in 1..n : /\ Chunks[i] \in Some
                       /\ Chunks[i].data = SubSeq(buffer, cut[i - 1] + 1, cut[i])
                       /\ Chunks[i].data \in Seq(S)
  <2> TAKE i \in 1..n
  <2> DEFINE piece == SubSeq(buffer, cut[i - 1] + 1, cut[i])
  <2>1. i - 1 \in 0..n /\ i \in 0..n
    BY <1>2
  <2>2. /\ cut[i - 1] + 1 \in Int /\ cut[i] \in Int /\ cut[i - 1] + 1 <= cut[i]
        /\ \A j \in (cut[i - 1] + 1)..cut[i] : j \in 1..Len(buffer)
    BY <1>1, <1>2, <2>1
  <2>3. piece \in Seq(S) /\ Len(piece) > 0
    BY <2>2, <1>1, SubSeqProperties
  <2> HIDE DEF piece
  <2>4. piece # <<>>
    BY <2>3
  <2>5. Chunks[i] = [head |-> Chunks[i].head, data |-> piece, flush |-> Len(flushes) + 1]
    BY <1>3 DEF Chunk, piece
  <2>6. Chunks[i] \in Some /\ Chunks[i].data = piece
    <3>1. Chunks[i].head \in Nat
      BY <1>3
    <3> DEFINE h == Chunks[i].head
    <3> HIDE DEF h
    <3>2. h \in Nat /\ Chunks[i] = [head |-> h, data |-> piece, flush |-> Len(flushes) + 1]
      BY <2>5, <3>1 DEF h
    <3> QED
      BY <3>2, <2>3, <2>4
  <2> QED
    BY <2>6, <2>3 DEF piece
<1> HIDE DEF Some
<1>5. Chunks \in Seq(Some) /\ Len(Chunks) = n
  <2> DEFINE f == [i \in 1..n |-> Chunks[i]]
  <2>1. f \in [1..n -> Some]
    BY <1>4
  <2> HIDE DEF f
  <2>2. f \in Seq(Some) /\ Len(f) = n
    BY <2>1, <1>2
  <2> QED
    BY <2>2, <1>3 DEF f
<1>6. DataSeq(Chunks) = [i \in 1..n |-> Chunks[i].data]
  BY <1>2, <1>5, LenProperties DEF DataSeq
<1>7. /\ DataSeq(Chunks) \in Seq(Seq(S)) /\ Len(DataSeq(Chunks)) = n
      /\ \A i \in 1..n : DataSeq(Chunks)[i] = SubSeq(buffer, cut[i - 1] + 1, cut[i])
  <2> DEFINE f == [i \in 1..n |-> Chunks[i].data]
  <2>1. f \in [1..n -> Seq(S)] /\ \A i \in 1..n : f[i] = SubSeq(buffer, cut[i - 1] + 1, cut[i])
    BY <1>4
  <2> HIDE DEF f
  <2>2. f \in Seq(Seq(S)) /\ Len(f) = n
    BY <2>1, <1>2
  <2> QED
    BY <2>1, <2>2, <1>6 DEF f
<1>8. FlattenSeq(DataSeq(Chunks)) = SubSeq(buffer, 1, cut[n])
  <2> DEFINE pieces == DataSeq(Chunks)
  <2>1. \A i \in 1..n : cut[i - 1] <= cut[i]
    <3> TAKE i \in 1..n
    <3>1. i - 1 \in 0..n /\ i \in 0..n
      BY <1>2
    <3> QED
      BY <3>1, <1>2
  <2>2. n \in Nat /\ n > 0
    BY <1>2
  <2> HIDE DEF pieces
  <2>3. FlattenSeq(pieces) = SubSeq(buffer, 1, cut[n])
    BY <2>1, <2>2, <1>2, <1>7, FlattenCuts DEF pieces
  <2> QED
    BY <2>3 DEF pieces
<1>9. SubSeq(buffer, 1, cut[n]) = buffer
  BY <1>2
<1>10. Chunks # <<>>
  BY <1>2, <1>5
<1> QED
  BY <1>5, <1>8, <1>9, <1>10, DataIs DEF Some

-----------------------------------------------------------------------------
(* Types *)

LEMMA WholeType ==
  ASSUME TypeOK
  PROVE  buffer \in Seq(Bytes) /\ Len(buffer) \in Nat /\ Len(flushes) \in Nat
BY DEF TypeOK

LEMMA OldChunks ==
  ASSUME Bytes \subseteq Bytes', Len(flushes) \in Nat, Len(flushes') \in Nat,
         Len(flushes) <= Len(flushes')
  PROVE  /\ Seq(Bytes) \subseteq Seq(Bytes') /\ Seq(Seq(Bytes)) \subseteq Seq(Seq(Bytes'))
         /\ Datagrams \subseteq Datagrams' /\ Seq(Datagrams) \subseteq Seq(Datagrams')
<1>1. Seq(Bytes) \subseteq Seq(Bytes')
  BY SeqMonotonic
<1>2. Seq(Seq(Bytes)) \subseteq Seq(Seq(Bytes'))
  BY <1>1, SeqMonotonic
<1>3. 1..Len(flushes) \subseteq 1..Len(flushes')
  OBVIOUS
<1>4. Datagrams \subseteq Datagrams'
  BY <1>1, <1>3 DEF Datagrams
<1> QED
  BY <1>1, <1>2, <1>4, SeqMonotonic

LEMMA TypesInit == Init => TypeOK
<1> SUFFICES ASSUME Init PROVE TypeOK
  OBVIOUS
<1>1. IsFiniteSet(missed) /\ Cardinality(missed) = 0
  BY FS_EmptySet DEF Init
<1>2. encoded \in Nat /\ frames \in 0..MaxFrames /\ Cardinality(missed) <= MaxLost
  BY <1>1, BoundsAssumption DEF Init
<1>3. /\ frame \in Seq(Bytes) /\ buffer \in Seq(Bytes) /\ file \in Seq(Bytes)
      /\ unsent \in Seq(Datagrams) /\ net \in Seq(Datagrams)
      /\ payload \in Seq(Bytes) /\ output \in Seq(Seq(Bytes)) /\ flushes \in Seq(Seq(Bytes))
  BY DEF Init
<1> QED
  BY <1>1, <1>2, <1>3 DEF Init, TypeOK

LEMMA TypesFlush ==
  ASSUME TypeOK, NEW saved \in Seq(Bytes),
         NEW chunks \in Seq([head : Nat, data : Seq(Bytes) \ {<<>>}, flush : {Len(flushes) + 1}]),
         chunks # <<>>, pc = "flush", Emit(chunks, saved), flushes' = Append(flushes, buffer),
         buffer' \in Seq(Bytes), aligned' \in BOOLEAN,
         UNCHANGED <<frame, encoded, frames, net, missed, clientVars>>
  PROVE  TypeOK'
<1>1. Bytes' = Bytes /\ Len(flushes) \in Nat /\ Len(flushes') = Len(flushes) + 1
      /\ flushes' \in Seq(Seq(Bytes))
  BY WholeType DEF TypeOK, Bytes
<1>2. Seq(Datagrams) \subseteq Seq(Datagrams')
  BY <1>1, OldChunks
<1>3. chunks \in Seq(Datagrams')
  <2>1. [head : Nat, data : Seq(Bytes) \ {<<>>}, flush : {Len(flushes) + 1}] \subseteq Datagrams'
    BY <1>1 DEF Datagrams
  <2> QED
    BY <2>1, SeqMonotonic
<1>4. unsent = <<>>
  BY DEF TypeOK
<1>5. pc' \in {"pack", "send"} /\ (pc' = "send" <=> unsent' # <<>>)
  BY SaveVideoAssumption DEF Emit
<1>6. unsent' \in Seq(Datagrams')
  BY <1>3 DEF Emit
<1>7. file' \in Seq(Bytes)
  <2>1. file \in Seq(Bytes)
    BY DEF TypeOK
  <2>2. file \o saved \in Seq(Bytes)
    BY <2>1, ConcatProperties
  <2> QED
    BY <2>1, <2>2 DEF Emit
<1>8. net' \in Seq(Datagrams')
  BY <1>2 DEF TypeOK
<1> QED
  BY <1>1, <1>5, <1>6, <1>7, <1>8 DEF TypeOK, clientVars

LEMMA TypesStep == TypeOK /\ [Next]_vars => TypeOK'
<1> SUFFICES ASSUME TypeOK, [Next]_vars PROVE TypeOK'
  OBVIOUS
<1>1. ASSUME NEW n \in Sizes, Pack(n) PROVE TypeOK'
  <2>1. n \in Nat /\ encoded \in Nat /\ encoded' = encoded + n /\ frames' \in 0..MaxFrames
    BY <1>1, SizesAssumption, BoundsAssumption DEF Pack, TypeOK
  <2>2. Bytes \subseteq Bytes'
    BY <2>1 DEF Bytes
  <2>3. /\ Seq(Bytes) \subseteq Seq(Bytes') /\ Seq(Seq(Bytes)) \subseteq Seq(Seq(Bytes'))
        /\ Seq(Datagrams) \subseteq Seq(Datagrams')
    BY <1>1, <2>2, WholeType, OldChunks DEF Pack
  <2>4. frame' \in Seq(Bytes')
    <3>1. frame' = [i \in 1..n |-> encoded + i]
      BY <1>1 DEF Pack
    <3>2. \A i \in 1..n : encoded + i \in Bytes'
      BY <2>1 DEF Bytes
    <3> QED
      BY <2>1, <3>1, <3>2
  <2>5. buffer' \in Seq(Bytes')
    <3>1. buffer' = buffer \o frame' /\ buffer \in Seq(Bytes')
      BY <1>1, <2>3 DEF Pack, TypeOK
    <3> QED
      BY <2>4, <3>1, ConcatProperties
  <2>6. unsent' \in Seq(Datagrams') /\ net' \in Seq(Datagrams')
    BY <1>1, <2>3 DEF Pack, TypeOK, clientVars
  <2>7. file' \in Seq(Bytes') /\ payload' \in Seq(Bytes') /\ output' \in Seq(Seq(Bytes'))
        /\ flushes' \in Seq(Seq(Bytes'))
    BY <1>1, <2>3 DEF Pack, TypeOK, clientVars
  <2>8. pc' = "flush" /\ unsent' = <<>> /\ aligned' = aligned /\ missed' = missed
    BY <1>1 DEF Pack, TypeOK, clientVars
  <2> QED
    BY <2>1, <2>4, <2>5, <2>6, <2>7, <2>8 DEF TypeOK
<1>2. CASE KeepBuffering
  <2>1. Bytes' = Bytes /\ Datagrams' = Datagrams
    BY <1>2 DEF KeepBuffering, Bytes, Datagrams
  <2> QED
    BY <1>2, <2>1 DEF KeepBuffering, TypeOK, clientVars
<1>3. CASE FlushInChunks
  <2>1. /\ Chunks \in Seq([head : Nat, data : Seq(Bytes) \ {<<>>}, flush : {Len(flushes) + 1}])
        /\ Chunks # <<>> /\ DataOf(Chunks) = buffer
    BY <1>3, WholeType, ChunksJoin DEF FlushInChunks
  <2>2. AfterChunks \in Seq(Bytes)
    <3>1. 0 \in Bytes
      BY DEF TypeOK, Bytes
    <3>2. Numbered \in [1..Len(buffer) -> Bytes]
      BY <3>1, WholeType, ElementOfSeq DEF Numbered, Overwritten
    <3>3. Numbered \in Seq(Bytes)
      BY <3>2, WholeType
    <3> QED
      BY <3>3 DEF AfterChunks
  <2>3. Emit(Chunks, DataOf(Chunks))
    BY <1>3 DEF FlushInChunks, DataOf
  <2>4. aligned' \in BOOLEAN
    BY <1>3 DEF FlushInChunks, TypeOK, Exact
  <2>5. /\ pc = "flush" /\ flushes' = Append(flushes, buffer) /\ buffer' = AfterChunks
        /\ UNCHANGED <<frame, encoded, frames, net, missed, clientVars>>
    BY <1>3 DEF FlushInChunks
  <2> QED
    BY <2>1, <2>2, <2>3, <2>4, <2>5, WholeType, TypesFlush
<1>4. CASE FlushWhole
  <2> DEFINE whole == Chunk(Independent, buffer)
             Whole == [head : Nat, data : Seq(Bytes) \ {<<>>}, flush : {Len(flushes) + 1}]
  <2>1. buffer # <<>>
    BY <1>4, Thresholds, EmptySeq DEF FlushWhole, BufferSize
  <2>2. whole \in Whole
    BY <2>1, WholeType DEF Chunk, Independent
  <2>3. /\ pc = "flush" /\ Emit(<<whole>>, frame) /\ flushes' = Append(flushes, buffer)
        /\ buffer' = <<>> /\ aligned' = aligned
        /\ UNCHANGED <<frame, encoded, frames, net, missed, clientVars>>
    BY <1>4 DEF FlushWhole
  <2> HIDE DEF whole, Whole
  <2>4. <<whole>> \in Seq(Whole) /\ <<whole>> # <<>>
    BY <2>2
  <2>5. buffer' \in Seq(Bytes) /\ aligned' \in BOOLEAN /\ frame \in Seq(Bytes)
    BY <2>3 DEF TypeOK
  <2> QED
    BY <2>3, <2>4, <2>5, TypesFlush DEF Whole
<1>5. CASE SendChunk
  <2>1. Bytes' = Bytes /\ Datagrams' = Datagrams
    BY <1>5 DEF SendChunk, Bytes, Datagrams
  <2>2. unsent \in Seq(Datagrams) /\ unsent # <<>> /\ net \in Seq(Datagrams)
    BY <1>5 DEF SendChunk, TypeOK
  <2>3. /\ unsent' \in Seq(Datagrams) /\ net' \in Seq(Datagrams)
        /\ pc' \in {"pack", "send"} /\ (pc' = "send" <=> unsent' # <<>>)
    <3>1. Head(unsent) \in Datagrams /\ Tail(unsent) \in Seq(Datagrams)
          /\ Len(Tail(unsent)) = Len(unsent) - 1 /\ Len(unsent) \in Nat
      BY <2>2, HeadTailProperties
    <3>2. Len(unsent) = 1 <=> Tail(unsent) = <<>>
      <4> DEFINE rest == Tail(unsent)
      <4>1. rest \in Seq(Datagrams) /\ Len(rest) = Len(unsent) - 1 /\ Len(unsent) \in Nat
        BY <3>1
      <4> HIDE DEF rest
      <4>2. Len(rest) = 0 <=> rest = <<>>
        BY <4>1, EmptySeq
      <4> QED
        BY <4>1, <4>2 DEF rest
    <3> QED
      BY <1>5, <2>2, <3>1, <3>2 DEF SendChunk
  <2> QED
    BY <1>5, <2>1, <2>3 DEF SendChunk, TypeOK, clientVars
<1>6. CASE Lose
  <2>1. Bytes' = Bytes /\ Datagrams' = Datagrams
    BY <1>6 DEF Lose, serverVars, Bytes, Datagrams
  <2>2. net' \in Seq(Datagrams)
    BY <1>6 DEF Lose, TypeOK
  <2>3. IsFiniteSet(missed') /\ Cardinality(missed') <= MaxLost
    <3> DEFINE m == [flush |-> Head(net).flush, head |-> Head(net).head]
    <3>1. /\ missed' = missed \union {m} /\ IsFiniteSet(missed)
          /\ Cardinality(missed) < MaxLost
      BY <1>6 DEF Lose, TypeOK
    <3> HIDE DEF m
    <3>2. /\ IsFiniteSet(missed') /\ Cardinality(missed) \in Nat
          /\ Cardinality(missed') \in {Cardinality(missed), Cardinality(missed) + 1}
      BY <3>1, FS_AddElement, FS_CardinalityType
    <3> QED
      BY <3>1, <3>2, BoundsAssumption
  <2> QED
    BY <1>6, <2>1, <2>2, <2>3 DEF Lose, TypeOK, serverVars, clientVars
<1>7. CASE ReceiveChunk
  <2>1. Bytes' = Bytes /\ Datagrams' = Datagrams
    BY <1>7 DEF ReceiveChunk, serverVars, Bytes, Datagrams
  <2> DEFINE bytes == payload \o Head(net).data
  <2>2. net \in Seq(Datagrams) /\ net # <<>> /\ net' = Tail(net)
    BY <1>7 DEF ReceiveChunk, TypeOK
  <2>3. bytes \in Seq(Bytes)
    <3>1. Head(net) \in Datagrams
      BY <2>2
    <3>2. Head(net).data \in Seq(Bytes) /\ payload \in Seq(Bytes)
      BY <3>1 DEF Datagrams, TypeOK
    <3> QED
      BY <3>2, ConcatProperties
  <2>4. \/ payload' = bytes /\ output' = output
        \/ payload' = <<>> /\ output' = Append(output, bytes)
    BY <1>7 DEF ReceiveChunk, AfterWrite
  <2> HIDE DEF bytes
  <2>5. payload' \in Seq(Bytes) /\ output' \in Seq(Seq(Bytes)) /\ net' \in Seq(Datagrams)
    <3>1. net' \in Seq(Datagrams)
      BY <2>2
    <3>2. output \in Seq(Seq(Bytes))
      BY DEF TypeOK
    <3>3. CASE payload' = bytes /\ output' = output
      BY <2>3, <3>1, <3>2, <3>3
    <3>4. CASE payload' = <<>> /\ output' = Append(output, bytes)
      <4>1. Append(output, bytes) \in Seq(Seq(Bytes)) /\ <<>> \in Seq(Bytes)
        BY <2>3, <3>2
      <4> QED
        BY <3>1, <3>4, <4>1
    <3> QED
      BY <2>4, <3>3, <3>4
  <2> QED
    BY <1>7, <2>1, <2>5 DEF ReceiveChunk, TypeOK, serverVars
<1>8. CASE UNCHANGED vars
  <2>1. Bytes' = Bytes /\ Datagrams' = Datagrams
    BY <1>8 DEF vars, serverVars, Bytes, Datagrams
  <2> QED
    BY <1>8, <2>1 DEF vars, serverVars, clientVars, TypeOK
<1> QED
  BY <1>1, <1>2, <1>3, <1>4, <1>5, <1>6, <1>7, <1>8 DEF Next

(* Type correctness, for any thresholds, frame sizes and losses: no chunk  *)
(* that is sent or under way is empty, there is something to send exactly  *)
(* while the thread sends, and no more is lost than the bound allows.      *)
THEOREM StreamTypes == Spec => []TypeOK
<1>1. Init => TypeOK
  BY TypesInit
<1>2. TypeOK /\ [Next]_vars => TypeOK'
  BY TypesStep
<1> QED
  BY <1>1, <1>2, PTL DEF Spec

-----------------------------------------------------------------------------
(* The stream: what is written, gathered by the client, under way, being   *)
(* sent, and gathered by the server, one behind another.  Joining, sending *)
(* and cutting move bytes from one part of it to the next.                 *)

StreamOf(a, p, d, u, b) == Cat(Cat(Cat(Cat(a, p), d), u), b)

Stream == StreamOf(FlattenSeq(output), payload, DataOf(net), DataOf(unsent), buffer)

LEMMA StreamMoves ==
  ASSUME NEW a \in Seq(Nat), NEW p \in Seq(Nat), NEW d \in Seq(Nat), NEW u \in Seq(Nat),
         NEW b \in Seq(Nat), NEW x \in Seq(Nat)
  PROVE  /\ StreamOf(a, p, d, u, b) \in Seq(Nat)
         /\ StreamOf(a, p, d, u, Cat(b, x)) = Cat(StreamOf(a, p, d, u, b), x)
         /\ StreamOf(a, p, d, b, <<>>) = StreamOf(a, p, d, <<>>, b)
         /\ StreamOf(a, p, Cat(d, x), u, b) = StreamOf(a, p, d, Cat(x, u), b)
         /\ StreamOf(Cat(a, p), <<>>, d, u, b) = StreamOf(a, p, d, u, b)
<1>1. /\ Cat(a, p) \in Seq(Nat) /\ Cat(Cat(a, p), d) \in Seq(Nat)
      /\ Cat(Cat(Cat(a, p), d), u) \in Seq(Nat) /\ StreamOf(a, p, d, u, b) \in Seq(Nat)
  BY CatType DEF StreamOf
<1>2. StreamOf(a, p, d, u, Cat(b, x)) = Cat(StreamOf(a, p, d, u, b), x)
  BY <1>1, CatAssociative DEF StreamOf
<1>3. StreamOf(a, p, d, b, <<>>) = StreamOf(a, p, d, <<>>, b)
  <2>1. Cat(Cat(Cat(a, p), d), b) \in Seq(Nat)
    BY <1>1, CatType
  <2> QED
    BY <1>1, <2>1, CatEmpty DEF StreamOf
<1>4. StreamOf(a, p, Cat(d, x), u, b) = StreamOf(a, p, d, Cat(x, u), b)
  <2>1. Cat(Cat(a, p), Cat(d, x)) = Cat(Cat(Cat(a, p), d), x)
    BY <1>1, CatAssociative
  <2>2. Cat(Cat(Cat(Cat(a, p), d), x), u) = Cat(Cat(Cat(a, p), d), Cat(x, u))
    BY <1>1, CatAssociative
  <2> QED
    BY <2>1, <2>2 DEF StreamOf
<1>5. StreamOf(Cat(a, p), <<>>, d, u, b) = StreamOf(a, p, d, u, b)
  BY <1>1, CatEmpty DEF StreamOf
<1> QED
  BY <1>1, <1>2, <1>3, <1>4, <1>5

LEMMA StreamGathers ==
  ASSUME NEW a \in Seq(Nat), NEW p \in Seq(Nat), NEW d \in Seq(Nat), NEW u \in Seq(Nat),
         NEW b \in Seq(Nat), NEW x \in Seq(Nat)
  PROVE  StreamOf(a, Cat(p, x), d, u, b) = StreamOf(a, p, Cat(x, d), u, b)
<1>1. Cat(a, p) \in Seq(Nat) /\ Cat(a, Cat(p, x)) = Cat(Cat(a, p), x)
  BY CatType, CatAssociative
<1>2. Cat(Cat(Cat(a, p), x), d) = Cat(Cat(a, p), Cat(x, d))
  BY <1>1, CatAssociative
<1> QED
  BY <1>1, <1>2 DEF StreamOf

(* What is lost is cut out of the middle. *)
LEMMA StreamLoss ==
  ASSUME NEW a \in Seq(Nat), NEW p \in Seq(Nat), NEW d \in Seq(Nat), NEW u \in Seq(Nat),
         NEW b \in Seq(Nat), NEW x \in Seq(Nat)
  PROVE  /\ StreamOf(a, p, Cat(x, d), u, b) = Cat(Cat(Cat(a, p), x), Cat(Cat(d, u), b))
         /\ StreamOf(a, p, d, u, b) = Cat(Cat(a, p), Cat(Cat(d, u), b))
         /\ Cat(a, p) \in Seq(Nat) /\ Cat(Cat(d, u), b) \in Seq(Nat)
<1>1. /\ Cat(a, p) \in Seq(Nat) /\ Cat(d, u) \in Seq(Nat) /\ Cat(Cat(d, u), b) \in Seq(Nat)
      /\ Cat(Cat(a, p), x) \in Seq(Nat)
  BY CatType
<1>2. \A h \in Seq(Nat) : Cat(Cat(Cat(h, d), u), b) = Cat(h, Cat(Cat(d, u), b))
  <2> TAKE h \in Seq(Nat)
  <2>1. Cat(Cat(h, d), u) = Cat(h, Cat(d, u))
    BY CatAssociative
  <2>2. Cat(Cat(h, Cat(d, u)), b) = Cat(h, Cat(Cat(d, u), b))
    BY <1>1, CatAssociative
  <2> QED
    BY <2>1, <2>2
<1>3. Cat(Cat(a, p), Cat(x, d)) = Cat(Cat(Cat(a, p), x), d)
  BY <1>1, CatAssociative
<1> QED
  BY <1>1, <1>2, <1>3 DEF StreamOf

LEMMA StreamParts ==
  ASSUME TypeOK
  PROVE  /\ FlattenSeq(output) \in Seq(Nat) /\ payload \in Seq(Nat)
         /\ DataOf(net) \in Seq(Nat) /\ DataOf(unsent) \in Seq(Nat) /\ buffer \in Seq(Nat)
         /\ output \in Seq(Seq(Nat)) /\ net \in Seq(ChunkType) /\ unsent \in Seq(ChunkType)
         /\ Stream \in Seq(Nat)
<1>1. Bytes \subseteq Nat /\ Len(flushes) \in Nat
  BY WholeType DEF TypeOK, Bytes
<1>2. Seq(Bytes) \subseteq Seq(Nat)
  BY <1>1, SeqMonotonic
<1>3. Datagrams \subseteq ChunkType
  BY <1>1, <1>2 DEF Datagrams, ChunkType
<1>4. payload \in Seq(Nat) /\ buffer \in Seq(Nat)
  BY <1>2 DEF TypeOK
<1>5. output \in Seq(Seq(Nat))
  BY <1>2, SeqMonotonic DEF TypeOK
<1>6. net \in Seq(ChunkType) /\ unsent \in Seq(ChunkType)
  BY <1>3, SeqMonotonic DEF TypeOK
<1>7. FlattenSeq(output) \in Seq(Nat) /\ DataOf(net) \in Seq(Nat) /\ DataOf(unsent) \in Seq(Nat)
  BY <1>5, <1>6, FlattenType, DataType
<1> QED
  BY <1>4, <1>5, <1>6, <1>7, StreamMoves DEF Stream

(* The three things a step can do to the stream, unless a flush fills its  *)
(* last chunk: leave it, add a frame, take something out.                  *)
Same == Stream' = Stream /\ encoded' = encoded

Longer ==
  \E n \in Nat : /\ Stream' = Cat(Stream, [i \in 1..n |-> encoded + i])
                 /\ encoded' = encoded + n

Thinner ==
  /\ SaveVideo \/ missed' # {}
  /\ encoded' = encoded
  /\ \E s \in Seq(Nat), x \in Seq(Nat), t \in Seq(Nat) :
       Stream = Cat(Cat(s, x), t) /\ Stream' = Cat(s, t)

LEMMA StreamStep ==
  ASSUME TypeOK, [Next]_vars, ~aligned'
  PROVE  /\ missed \subseteq missed' /\ ~aligned
         /\ Same \/ Longer \/ Thinner
<1> DEFINE a == FlattenSeq(output)  d == DataOf(net)  u == DataOf(unsent)
<1>1. /\ a \in Seq(Nat) /\ payload \in Seq(Nat) /\ d \in Seq(Nat) /\ u \in Seq(Nat)
      /\ buffer \in Seq(Nat) /\ output \in Seq(Seq(Nat)) /\ net \in Seq(ChunkType)
      /\ unsent \in Seq(ChunkType) /\ Stream \in Seq(Nat)
      /\ Stream = StreamOf(a, payload, d, u, buffer)
  BY StreamParts DEF Stream
<1>2. Stream' = StreamOf(a', payload', d', u', buffer')
  BY DEF Stream
<1> HIDE DEF a, d, u
<1>3. ASSUME NEW n \in Sizes, Pack(n) PROVE missed' = missed /\ aligned' = aligned /\ Longer
  <2>1. /\ frame' = [i \in 1..n |-> encoded + i] /\ buffer' = Cat(buffer, frame')
        /\ encoded' = encoded + n /\ missed' = missed /\ aligned' = aligned
        /\ a' = a /\ payload' = payload /\ d' = d /\ u' = u
    BY <1>3 DEF Pack, clientVars, Cat, a, d, u
  <2>2. n \in Nat /\ frame' \in Seq(Nat)
    BY <2>1, SizesAssumption DEF TypeOK
  <2>3. Stream' = Cat(Stream, frame')
    BY <1>1, <1>2, <2>1, <2>2, StreamMoves
  <2> QED
    BY <2>1, <2>2, <2>3 DEF Longer
<1>4. CASE KeepBuffering
  <2>1. /\ missed' = missed /\ aligned' = aligned /\ encoded' = encoded /\ buffer' = buffer
        /\ a' = a /\ payload' = payload /\ d' = d /\ u' = u
    BY <1>4 DEF KeepBuffering, clientVars, a, d, u
  <2> QED
    BY <1>1, <1>2, <2>1 DEF Same
<1>5. ASSUME NEW chunks, NEW saved, DataOf(chunks) = buffer, Emit(chunks, saved), pc = "flush",
             buffer' = <<>>, UNCHANGED <<encoded, net, missed, clientVars>>
      PROVE  missed' = missed /\ (Same \/ Thinner)
  <2>1. /\ missed' = missed /\ encoded' = encoded
        /\ a' = a /\ payload' = payload /\ d' = d
    BY <1>5 DEF clientVars, a, d
  <2>2. unsent = <<>> /\ u = <<>>
    BY <1>5, DataEmpty DEF TypeOK, u
  <2>3. CASE ~SaveVideo
    <3>1. u' = buffer
      BY <1>5, <2>3 DEF Emit, u
    <3>2. Stream' = StreamOf(a, payload, d, buffer, <<>>)
      BY <1>2, <1>5, <2>1, <3>1
    <3> QED
      BY <1>1, <2>1, <2>2, <3>2, StreamMoves DEF Same
  <2>4. CASE SaveVideo
    <3>1. u' = <<>>
      BY <1>5, <2>4, DataEmpty DEF Emit, u
    <3> DEFINE s == Cat(Cat(Cat(a, payload), d), u)
    <3>2. Stream = Cat(s, buffer) /\ Stream' = Cat(s, <<>>)
      BY <1>1, <1>2, <1>5, <2>1, <2>2, <3>1 DEF StreamOf
    <3>3. s \in Seq(Nat)
      BY <1>1, CatType
    <3> HIDE DEF s
    <3>4. Cat(s, buffer) \in Seq(Nat) /\ Cat(Cat(s, buffer), <<>>) = Cat(s, buffer) /\ <<>> \in Seq(Nat)
      BY <1>1, <3>3, CatType, CatEmpty
    <3> QED
      BY <1>1, <2>1, <2>4, <3>2, <3>3, <3>4 DEF Thinner
  <2> QED
    BY <2>1, <2>3, <2>4
<1>6. CASE FlushInChunks
  <2>1. ~Exact /\ ~aligned
    BY <1>6 DEF FlushInChunks
  <2>2. DataOf(Chunks) = buffer
    BY <1>1, <1>6, ChunksJoin DEF FlushInChunks
  <2>3. /\ Emit(Chunks, DataOf(Chunks)) /\ pc = "flush" /\ buffer' = <<>>
        /\ UNCHANGED <<encoded, net, missed, clientVars>>
    BY <1>6, <2>1 DEF FlushInChunks, DataOf, AfterChunks
  <2> QED
    BY <1>5, <2>1, <2>2, <2>3
<1>7. CASE FlushWhole
  <2>1. /\ Emit(<<Chunk(Independent, buffer)>>, frame) /\ pc = "flush" /\ buffer' = <<>>
        /\ aligned' = aligned /\ UNCHANGED <<encoded, net, missed, clientVars>>
    BY <1>7 DEF FlushWhole
  <2>2. DataOf(<<Chunk(Independent, buffer)>>) = buffer
    <3>1. Chunk(Independent, buffer) \in ChunkType /\ Chunk(Independent, buffer).data = buffer
      BY <1>1, WholeType DEF Chunk, ChunkType, Independent
    <3> QED
      BY <3>1, DataOne
  <2> QED
    BY <1>5, <2>1, <2>2
<1>8. CASE SendChunk
  <2>1. unsent # <<>>
    BY <1>8 DEF SendChunk, TypeOK
  <2> DEFINE x == Head(unsent).data
  <2>2. /\ net' = Append(net, Head(unsent)) /\ unsent' = Tail(unsent) /\ buffer' = buffer
        /\ missed' = missed /\ aligned' = aligned /\ encoded' = encoded
        /\ a' = a /\ payload' = payload
    BY <1>8 DEF SendChunk, clientVars, a
  <2>3. /\ Head(unsent) \in ChunkType /\ Tail(unsent) \in Seq(ChunkType) /\ u = Cat(x, u')
    BY <1>1, <2>1, <2>2, DataHead DEF u
  <2>4. d' = Cat(d, x)
    BY <1>1, <2>2, <2>3, DataAppend DEF d
  <2>5. x \in Seq(Nat) /\ u' \in Seq(Nat)
    BY <2>2, <2>3, DataType DEF ChunkType, u
  <2> HIDE DEF x
  <2>6. StreamOf(a, payload, Cat(d, x), u', buffer) = StreamOf(a, payload, d, Cat(x, u'), buffer)
    BY <1>1, <2>5, StreamMoves
  <2>7. Stream' = StreamOf(a, payload, Cat(d, x), u', buffer)
    BY <1>2, <2>2, <2>4
  <2> QED
    BY <1>1, <2>2, <2>3, <2>6, <2>7 DEF Same
<1>9. CASE Lose
  <2>1. net # <<>>
    BY <1>9 DEF Lose
  <2> DEFINE x == Head(net).data
  <2>2. /\ net' = Tail(net) /\ unsent' = unsent /\ buffer' = buffer /\ u' = u
        /\ aligned' = aligned /\ encoded' = encoded /\ a' = a /\ payload' = payload
        /\ missed \subseteq missed' /\ missed' # {}
    BY <1>9 DEF Lose, serverVars, clientVars, a, u
  <2>3. /\ Head(net) \in ChunkType /\ Tail(net) \in Seq(ChunkType) /\ d = Cat(x, d')
    BY <1>1, <2>1, <2>2, DataHead DEF d
  <2>4. x \in Seq(Nat) /\ d' \in Seq(Nat)
    BY <2>2, <2>3, DataType DEF ChunkType, d
  <2> HIDE DEF x
  <2> DEFINE s == Cat(a, payload)  t == Cat(Cat(d', u), buffer)
  <2>5. Stream' = StreamOf(a, payload, d', u, buffer)
    BY <1>2, <2>2
  <2>6. Stream = StreamOf(a, payload, Cat(x, d'), u, buffer)
    BY <1>1, <2>3
  <2>7. s \in Seq(Nat) /\ t \in Seq(Nat) /\ Stream = Cat(Cat(s, x), t) /\ Stream' = Cat(s, t)
    BY <1>1, <2>4, <2>5, <2>6, StreamLoss
  <2> HIDE DEF s, t
  <2> QED
    BY <2>2, <2>4, <2>7 DEF Thinner
<1>10. CASE ReceiveChunk
  <2>1. net # <<>>
    BY <1>10 DEF ReceiveChunk
  <2> DEFINE x == Head(net).data
  <2>2. /\ net' = Tail(net) /\ unsent' = unsent /\ buffer' = buffer /\ u' = u
        /\ aligned' = aligned /\ encoded' = encoded /\ missed' = missed
        /\ \/ payload' = Cat(payload, x) /\ output' = output
           \/ payload' = <<>> /\ output' = Append(output, Cat(payload, x))
    BY <1>10 DEF ReceiveChunk, serverVars, AfterWrite, Cat, u
  <2>3. /\ Head(net) \in ChunkType /\ Tail(net) \in Seq(ChunkType) /\ d = Cat(x, d')
    BY <1>1, <2>1, <2>2, DataHead DEF d
  <2>4. x \in Seq(Nat) /\ d' \in Seq(Nat)
    BY <2>2, <2>3, DataType DEF ChunkType, d
  <2> HIDE DEF x
  <2>5. Cat(payload, x) \in Seq(Nat)
    BY <1>1, <2>4, CatType
  <2>6. StreamOf(a, Cat(payload, x), d', u, buffer) = Stream
    <3> DEFINE dd == d'
    <3>1. dd \in Seq(Nat)
      BY <2>4
    <3> HIDE DEF dd
    <3>2. StreamOf(a, Cat(payload, x), dd, u, buffer) = StreamOf(a, payload, Cat(x, dd), u, buffer)
      <4>1. /\ a \in Seq(Nat) /\ payload \in Seq(Nat) /\ dd \in Seq(Nat) /\ u \in Seq(Nat)
            /\ buffer \in Seq(Nat) /\ x \in Seq(Nat)
        BY <1>1, <2>4, <3>1
      <4> QED
        BY ONLY <4>1, StreamGathers
    <3>3. StreamOf(a, Cat(payload, x), d', u, buffer) = StreamOf(a, payload, Cat(x, d'), u, buffer)
      BY <3>2 DEF dd
    <3>4. Stream = StreamOf(a, payload, Cat(x, d'), u, buffer)
      BY <1>1, <2>3
    <3> QED
      BY <3>3, <3>4
  <2>7. CASE payload' = Cat(payload, x) /\ output' = output
    <3>1. a' = a
      BY <2>7 DEF a
    <3> QED
      BY <1>2, <2>2, <2>6, <2>7, <3>1 DEF Same
  <2>8. CASE payload' = <<>> /\ output' = Append(output, Cat(payload, x))
    <3>1. a' = Cat(a, Cat(payload, x))
      BY <1>1, <2>5, <2>8, FlattenAppend DEF a
    <3>2. StreamOf(Cat(a, Cat(payload, x)), <<>>, d', u, buffer) = StreamOf(a, Cat(payload, x), d', u, buffer)
      BY <1>1, <2>4, <2>5, StreamMoves
    <3> QED
      BY <1>2, <2>2, <2>6, <2>8, <3>1, <3>2 DEF Same
  <2> QED
    BY <2>2, <2>7, <2>8
<1>11. CASE UNCHANGED vars
  <2>1. /\ missed' = missed /\ aligned' = aligned /\ encoded' = encoded /\ buffer' = buffer
        /\ a' = a /\ payload' = payload /\ d' = d /\ u' = u
    BY <1>11 DEF vars, serverVars, clientVars, a, d, u
  <2> QED
    BY <1>1, <1>2, <2>1 DEF Same
<1> QED
  BY <1>3, <1>4, <1>6, <1>7, <1>8, <1>9, <1>10, <1>11 DEF Next

LEMMA StreamInit == Init => Stream = <<>> /\ encoded = 0
<1> SUFFICES ASSUME Init PROVE Stream = <<>> /\ encoded = 0
  OBVIOUS
<1>1. FlattenSeq(output) = <<>> /\ DataOf(net) = <<>> /\ DataOf(unsent) = <<>>
  BY FlattenEmpty, DataEmpty DEF Init
<1>2. payload = <<>> /\ buffer = <<>> /\ encoded = 0
  BY DEF Init
<1>3. Cat(<<>>, <<>>) = <<>>
  BY CatEmpty, EmptySeq
<1> QED
  BY <1>1, <1>2, <1>3 DEF Stream, StreamOf

(* The elements of one sequence behind another. *)
LEMMA CatElements ==
  ASSUME NEW S, NEW s \in Seq(S), NEW t \in Seq(S)
  PROVE  /\ Len(Cat(s, t)) = Len(s) + Len(t) /\ Len(s) \in Nat /\ Len(t) \in Nat
         /\ \A i \in 1..Len(s) : Cat(s, t)[i] = s[i]
         /\ \A i \in 1..Len(t) : Cat(s, t)[Len(s) + i] = t[i]
         /\ \A i \in 1..Len(Cat(s, t)) : i > Len(s) => Cat(s, t)[i] = t[i - Len(s)]
BY ConcatProperties DEF Cat

-----------------------------------------------------------------------------
(* With nothing lost the stream is what was encoded. *)

LEMMA UpToGrows ==
  ASSUME NEW e \in Nat, NEW n \in Nat
  PROVE  Cat(UpTo(e), [i \in 1..n |-> e + i]) = UpTo(e + n)
<1> DEFINE f == [i \in 1..n |-> e + i]
<1>1. UpTo(e) \in Seq(Nat) /\ Len(UpTo(e)) = e /\ f \in Seq(Nat) /\ Len(f) = n
      /\ UpTo(e + n) \in Seq(Nat) /\ Len(UpTo(e + n)) = e + n
  BY DEF UpTo
<1> DEFINE u == UpTo(e)
<1>2. /\ Cat(u, f) \in Seq(Nat) /\ Len(Cat(u, f)) = e + n
      /\ \A i \in 1..e : Cat(u, f)[i] = u[i]
      /\ \A i \in 1..(e + n) : i > e => Cat(u, f)[i] = f[i - e]
  <2>1. u \in Seq(Nat) /\ Len(u) = e /\ f \in Seq(Nat) /\ Len(f) = n
    BY <1>1
  <2> HIDE DEF u, f
  <2>2. Cat(u, f) \in Seq(Nat)
    BY <2>1, CatType
  <2>3. /\ Len(Cat(u, f)) = Len(u) + Len(f)
        /\ \A i \in 1..Len(u) : Cat(u, f)[i] = u[i]
        /\ \A i \in 1..Len(Cat(u, f)) : i > Len(u) => Cat(u, f)[i] = f[i - Len(u)]
    BY <2>1, CatElements
  <2> QED
    BY <2>1, <2>2, <2>3
<1>3. ASSUME NEW i \in 1..(e + n) PROVE Cat(UpTo(e), f)[i] = UpTo(e + n)[i]
  <2>1. CASE i <= e
    <3>1. i \in 1..e /\ u[i] = i /\ UpTo(e + n)[i] = i
      BY <2>1 DEF UpTo
    <3> HIDE DEF u, f
    <3>2. Cat(u, f)[i] = u[i]
      BY <1>2, <3>1
    <3> QED
      BY <3>1, <3>2 DEF u
  <2>2. CASE i > e
    <3>1. i - e \in 1..n /\ f[i - e] = i
      BY <2>2
    <3> QED
      BY <1>2, <2>2, <3>1 DEF UpTo
  <2> QED
    BY <2>1, <2>2
<1> HIDE DEF f
<1>4. Cat(UpTo(e), f) = UpTo(e + n)
  BY <1>1, <1>2, <1>3, SeqEqual
<1> QED
  BY <1>4 DEF f

Whole == ~SaveVideo /\ missed = {} /\ ~aligned => Stream = UpTo(encoded)

LEMMA WholeStep == TypeOK /\ Whole /\ [Next]_vars => Whole'
<1> SUFFICES ASSUME TypeOK, Whole, [Next]_vars, ~SaveVideo, missed' = {}, ~aligned'
             PROVE  Stream' = UpTo(encoded')
  BY DEF Whole
<1>1. missed \subseteq missed' /\ ~aligned /\ (Same \/ Longer \/ Thinner)
  BY StreamStep
<1>2. Stream = UpTo(encoded)
  BY <1>1 DEF Whole
<1>3. CASE Same
  BY <1>2, <1>3 DEF Same
<1>4. CASE Longer
  <2>1. PICK n \in Nat : /\ Stream' = Cat(Stream, [i \in 1..n |-> encoded + i])
                         /\ encoded' = encoded + n
    BY <1>4 DEF Longer
  <2>2. encoded \in Nat
    BY DEF TypeOK
  <2> QED
    BY <1>2, <2>1, <2>2, UpToGrows
<1> QED
  BY <1>1, <1>3, <1>4 DEF Thinner

(* Server and client together, for any thresholds and frame sizes: while   *)
(* no datagram is lost and no flush fills its last chunk, the stream, from *)
(* the client's output to the server's buffer, is what was encoded, each   *)
(* byte once and in its place.                                             *)
THEOREM StreamIsWhole == Spec => []NoByteLostOrRepeated
<1>1. Init => Whole
  <2>1. UpTo(0) = <<>>
    BY DEF UpTo
  <2> QED
    BY <2>1, StreamInit DEF Whole
<1>2. TypeOK /\ Whole /\ [Next]_vars => Whole'
  BY WholeStep
<1>3. Whole => NoByteLostOrRepeated
  BY DEF Whole, NoByteLostOrRepeated, Stream, StreamOf, Cat
<1> QED
  BY <1>1, <1>2, <1>3, StreamTypes, PTL DEF Spec

-----------------------------------------------------------------------------
(* Whatever is lost, the stream goes forward. *)

Increasing(s) == \A i, j \in 1..Len(s) : i < j => s[i] < s[j]

LEMMA IncreasingPrefix ==
  ASSUME NEW s \in Seq(Nat), NEW t \in Seq(Nat), Increasing(Cat(s, t))
  PROVE  Increasing(s)
<1>1. /\ Len(Cat(s, t)) = Len(s) + Len(t) /\ Len(s) \in Nat /\ Len(t) \in Nat
      /\ \A i \in 1..Len(s) : Cat(s, t)[i] = s[i]
  BY CatElements
<1> SUFFICES ASSUME NEW i \in 1..Len(s), NEW j \in 1..Len(s), i < j PROVE s[i] < s[j]
  BY DEF Increasing
<1>2. i \in 1..Len(Cat(s, t)) /\ j \in 1..Len(Cat(s, t))
  BY <1>1
<1> QED
  BY <1>1, <1>2 DEF Increasing

(* Forward, and nothing that has not been encoded. *)
Below(s, e) == Increasing(s) /\ \A i \in 1..Len(s) : s[i] <= e

LEMMA BelowCut ==
  ASSUME NEW s \in Seq(Nat), NEW x \in Seq(Nat), NEW t \in Seq(Nat), NEW e \in Nat,
         Below(Cat(Cat(s, x), t), e)
  PROVE  Below(Cat(s, t), e)
<1> DEFINE w == Cat(Cat(s, x), t)  v == Cat(s, t)
           at(i) == IF i <= Len(s) THEN i ELSE i + Len(x)
<1>1. Cat(s, x) \in Seq(Nat)
  BY CatType
<1>a. /\ Len(Cat(s, x)) = Len(s) + Len(x) /\ Len(s) \in Nat /\ Len(x) \in Nat /\ Len(t) \in Nat
      /\ \A i \in 1..Len(s) : Cat(s, x)[i] = s[i]
  BY CatElements
<1>b. /\ Len(w) = Len(Cat(s, x)) + Len(t)
      /\ \A i \in 1..Len(Cat(s, x)) : w[i] = Cat(s, x)[i]
      /\ \A i \in 1..Len(w) : i > Len(Cat(s, x)) => w[i] = t[i - Len(Cat(s, x))]
  <2> DEFINE h == Cat(s, x)
  <2>1. h \in Seq(Nat)
    BY <1>1
  <2> HIDE DEF h
  <2>2. /\ Len(Cat(h, t)) = Len(h) + Len(t)
        /\ \A i \in 1..Len(h) : Cat(h, t)[i] = h[i]
        /\ \A i \in 1..Len(Cat(h, t)) : i > Len(h) => Cat(h, t)[i] = t[i - Len(h)]
    BY <2>1, CatElements
  <2> QED
    BY <2>2 DEF h
<1>c. /\ Len(v) = Len(s) + Len(t)
      /\ \A i \in 1..Len(s) : v[i] = s[i]
      /\ \A i \in 1..Len(v) : i > Len(s) => v[i] = t[i - Len(s)]
  BY CatElements
<1> HIDE DEF w, v
<1>2. /\ Len(Cat(s, x)) = Len(s) + Len(x) /\ Len(s) \in Nat /\ Len(x) \in Nat /\ Len(t) \in Nat
      /\ \A i \in 1..Len(s) : Cat(s, x)[i] = s[i]
      /\ Len(w) = Len(Cat(s, x)) + Len(t)
      /\ \A i \in 1..Len(Cat(s, x)) : w[i] = Cat(s, x)[i]
      /\ \A i \in 1..Len(w) : i > Len(Cat(s, x)) => w[i] = t[i - Len(Cat(s, x))]
      /\ Len(v) = Len(s) + Len(t)
      /\ \A i \in 1..Len(s) : v[i] = s[i]
      /\ \A i \in 1..Len(v) : i > Len(s) => v[i] = t[i - Len(s)]
  BY <1>a, <1>b, <1>c
<1>3. ASSUME NEW i \in 1..Len(v) PROVE at(i) \in 1..Len(w) /\ v[i] = w[at(i)]
  <2>1. CASE i <= Len(s)
    BY <1>2, <2>1
  <2>2. CASE i > Len(s)
    <3>1. at(i) = i + Len(x) /\ at(i) \in 1..Len(w) /\ at(i) > Len(Cat(s, x))
      BY <1>2, <2>2
    <3>2. at(i) - Len(Cat(s, x)) = i - Len(s)
      BY <1>2, <2>2, <3>1
    <3> QED
      BY <1>2, <2>2, <3>1, <3>2
  <2> QED
    BY <1>2, <2>1, <2>2
<1>4. \A i, j \in 1..Len(v) : i < j => at(i) < at(j)
  BY <1>2
<1> HIDE DEF at
<1>5. Increasing(w) /\ \A i \in 1..Len(w) : w[i] <= e
  BY DEF Below, w
<1>6. Increasing(v)
  BY <1>3, <1>4, <1>5 DEF Increasing
<1>7. \A i \in 1..Len(v) : v[i] <= e
  BY <1>3, <1>5
<1> QED
  BY <1>6, <1>7 DEF Below, v

LEMMA BelowGrows ==
  ASSUME NEW s \in Seq(Nat), NEW e \in Nat, NEW n \in Nat, Below(s, e)
  PROVE  Below(Cat(s, [i \in 1..n |-> e + i]), e + n)
<1> DEFINE f == [i \in 1..n |-> e + i]  v == Cat(s, f)
<1>1. f \in Seq(Nat) /\ Len(f) = n /\ \A i \in 1..n : f[i] = e + i
  OBVIOUS
<1> HIDE DEF f
<1>2. /\ Len(v) = Len(s) + n /\ Len(s) \in Nat
      /\ \A i \in 1..Len(s) : v[i] = s[i]
      /\ \A i \in 1..Len(v) : i > Len(s) => v[i] = f[i - Len(s)]
  BY <1>1, CatElements
<1>3. \A i \in 1..Len(s) : s[i] \in Nat
  OBVIOUS
<1> HIDE DEF v
<1>4. \A i \in 1..Len(v) : i <= Len(s) => v[i] \in Nat /\ v[i] = s[i] /\ v[i] <= e
  BY <1>2, <1>3 DEF Below
<1>5. \A i \in 1..Len(v) : i > Len(s) => v[i] = e + (i - Len(s)) /\ i - Len(s) \in 1..n
  BY <1>1, <1>2
<1>6. \A i \in 1..Len(v) : v[i] <= e + n
  BY <1>2, <1>4, <1>5
<1>7. ASSUME NEW i \in 1..Len(v), NEW j \in 1..Len(v), i < j PROVE v[i] < v[j]
  <2>1. CASE j <= Len(s)
    <3>1. i \in 1..Len(s) /\ j \in 1..Len(s) /\ s[i] < s[j]
      BY <1>2, <1>7, <2>1 DEF Below, Increasing
    <3> QED
      BY <1>4, <2>1, <3>1
  <2>2. CASE i <= Len(s) /\ j > Len(s)
    BY <1>2, <1>4, <1>5, <2>2
  <2>3. CASE i > Len(s)
    BY <1>2, <1>5, <1>7, <2>3
  <2> QED
    BY <1>2, <2>1, <2>2, <2>3
<1> QED
  BY <1>6, <1>7 DEF Below, Increasing, f, v

Forward == ~aligned => Below(Stream, encoded)

LEMMA ForwardStep == TypeOK /\ Forward /\ [Next]_vars => Forward'
<1> SUFFICES ASSUME TypeOK, Forward, [Next]_vars, ~aligned' PROVE Below(Stream', encoded')
  BY DEF Forward
<1>1. ~aligned /\ (Same \/ Longer \/ Thinner)
  BY StreamStep
<1>2. Below(Stream, encoded) /\ encoded \in Nat /\ Stream \in Seq(Nat)
  BY <1>1, StreamParts DEF Forward, TypeOK
<1>3. CASE Same
  BY <1>2, <1>3 DEF Same
<1>4. CASE Longer
  BY <1>2, <1>4, BelowGrows DEF Longer
<1>5. CASE Thinner
  BY <1>2, <1>5, BelowCut DEF Thinner
<1> QED
  BY <1>1, <1>3, <1>4, <1>5

(* The client, whatever datagrams are lost and wherever the stream is cut: *)
(* no byte is written twice or after one that was encoded later, as long   *)
(* as no flush fills its last chunk.                                       *)
THEOREM StreamGoesForward == Spec => []OnlyForward
<1>1. Init => Forward
  <2>1. Len(<<>>) = 0
    OBVIOUS
  <2> QED
    BY <2>1, StreamInit DEF Forward, Below, Increasing
<1>2. TypeOK /\ Forward /\ [Next]_vars => Forward'
  BY ForwardStep
<1>3. TypeOK /\ Forward => OnlyForward
  <2> SUFFICES ASSUME TypeOK, Forward, ~aligned PROVE OnlyForward
    BY DEF OnlyForward
  <2> DEFINE s == FlattenSeq(output)
             t == Cat(Cat(Cat(payload, DataOf(net)), DataOf(unsent)), buffer)
  <2>1. s \in Seq(Nat) /\ t \in Seq(Nat) /\ Stream = Cat(s, t)
    <3> DEFINE p == payload  d == DataOf(net)  u == DataOf(unsent)
    <3>1. /\ s \in Seq(Nat) /\ p \in Seq(Nat) /\ d \in Seq(Nat) /\ u \in Seq(Nat)
          /\ buffer \in Seq(Nat) /\ Stream = StreamOf(s, p, d, u, buffer)
          /\ t = Cat(Cat(Cat(p, d), u), buffer)
      BY StreamParts DEF Stream
    <3> HIDE DEF s, p, d, u, t
    <3>2. Cat(p, d) \in Seq(Nat) /\ Cat(Cat(p, d), u) \in Seq(Nat) /\ t \in Seq(Nat)
      BY <3>1, CatType
    <3>3. Cat(Cat(s, p), d) = Cat(s, Cat(p, d))
      BY <3>1, CatAssociative
    <3>4. Cat(Cat(s, Cat(p, d)), u) = Cat(s, Cat(Cat(p, d), u))
      BY <3>1, <3>2, CatAssociative
    <3>5. Cat(Cat(s, Cat(Cat(p, d), u)), buffer) = Cat(s, t)
      BY <3>1, <3>2, CatAssociative
    <3> QED
      BY <3>1, <3>2, <3>3, <3>4, <3>5 DEF StreamOf
  <2> HIDE DEF s, t
  <2>2. Increasing(s)
    BY <2>1, IncreasingPrefix DEF Forward, Below
  <2>3. \A i \in 2..Len(s) : s[i - 1] < s[i]
    <3> SUFFICES ASSUME NEW i \in 2..Len(s) PROVE s[i - 1] < s[i]
      OBVIOUS
    <3>1. i - 1 \in 1..Len(s) /\ i \in 1..Len(s) /\ i - 1 < i
      BY <2>1
    <3> QED
      BY <2>2, <3>1 DEF Increasing
  <2> QED
    BY <2>3 DEF OnlyForward, s
<1> QED
  BY <1>1, <1>2, <1>3, StreamTypes, PTL DEF Spec

-----------------------------------------------------------------------------
(* The -o file.  A frame that is large enough is flushed by itself. *)

EveryFrameFlushed == \A s \in Sizes : s >= MinFlush

SavedGood ==
  SaveVideo /\ ~aligned =>
    /\ pc = "pack" => buffer = <<>> /\ file = UpTo(encoded)
    /\ pc = "flush" => /\ frame = buffer /\ Len(buffer) >= MinFlush
                       /\ Cat(file, buffer) = UpTo(encoded)
    /\ pc # "send"

LEMMA SavedInit == Init => SavedGood
<1>1. UpTo(0) = <<>>
  BY DEF UpTo
<1> QED
  BY <1>1 DEF Init, SavedGood

LEMMA SavedStep ==
  ASSUME EveryFrameFlushed
  PROVE  TypeOK /\ SavedGood /\ [Next]_vars => SavedGood'
<1> SUFFICES ASSUME TypeOK, SavedGood, [Next]_vars, SaveVideo, ~aligned'
             PROVE  /\ pc' = "pack" => buffer' = <<>> /\ file' = UpTo(encoded')
                    /\ pc' = "flush" => /\ frame' = buffer' /\ Len(buffer') >= MinFlush
                                       /\ Cat(file', buffer') = UpTo(encoded')
                    /\ pc' # "send"
  BY DEF SavedGood
<1> DEFINE Goal == /\ pc' = "pack" => buffer' = <<>> /\ file' = UpTo(encoded')
                   /\ pc' = "flush" => /\ frame' = buffer' /\ Len(buffer') >= MinFlush
                                      /\ Cat(file', buffer') = UpTo(encoded')
                   /\ pc' # "send"
<1>1. ~aligned
  BY StreamStep
<1>2. /\ pc = "pack" => buffer = <<>> /\ file = UpTo(encoded)
      /\ pc = "flush" => /\ frame = buffer /\ Len(buffer) >= MinFlush
                         /\ Cat(file, buffer) = UpTo(encoded)
      /\ pc # "send"
  BY <1>1 DEF SavedGood
<1>3. ASSUME NEW n \in Sizes, Pack(n) PROVE Goal
  <2>1. /\ pc = "pack" /\ pc' = "flush" /\ file' = file /\ encoded' = encoded + n
        /\ frame' = [i \in 1..n |-> encoded + i] /\ buffer' = Cat(buffer, frame')
    BY <1>3 DEF Pack, Cat
  <2>2. n \in Nat /\ n >= MinFlush /\ encoded \in Nat
    BY SizesAssumption DEF EveryFrameFlushed, TypeOK
  <2> DEFINE f == [i \in 1..n |-> encoded + i]
  <2>3. f \in Seq(Nat) /\ Len(f) = n
    BY <2>2
  <2> HIDE DEF f
  <2>4. buffer' = f /\ frame' = f
    BY <1>2, <2>1, <2>3, CatEmpty DEF f
  <2>5. Cat(UpTo(encoded), f) = UpTo(encoded + n)
    BY <2>2, UpToGrows DEF f
  <2> QED
    BY <1>2, <2>1, <2>2, <2>3, <2>4, <2>5
<1>4. ~KeepBuffering
  <2>1. Len(buffer) \in Nat /\ MinFlush \in Nat
    BY WholeType, Thresholds
  <2> QED
    BY <1>2, <2>1 DEF KeepBuffering, BufferSize
<1>5. CASE FlushInChunks
  <2>1. /\ pc = "flush" /\ BufferSize > MaxFlush /\ ~Exact /\ encoded' = encoded /\ pc' = "pack"
        /\ file' = Cat(file, DataOf(Chunks)) /\ buffer' = <<>>
    BY <1>5 DEF FlushInChunks, Emit, AfterChunks, DataOf, Cat
  <2>2. DataOf(Chunks) = buffer
    BY <2>1, WholeType, ChunksJoin
  <2> QED
    BY <1>2, <2>1, <2>2
<1>6. CASE FlushWhole
  <2>1. /\ pc = "flush" /\ encoded' = encoded /\ pc' = "pack"
        /\ file' = Cat(file, frame) /\ buffer' = <<>>
    BY <1>6 DEF FlushWhole, Emit, Cat
  <2> QED
    BY <1>2, <2>1
<1>7. ~SendChunk
  BY <1>2 DEF SendChunk
<1>8. CASE Lose \/ ReceiveChunk \/ UNCHANGED vars
  <2>1. UNCHANGED serverVars
    BY <1>8 DEF Lose, ReceiveChunk, vars
  <2> QED
    BY <1>2, <2>1 DEF serverVars
<1> QED
  BY <1>3, <1>4, <1>5, <1>6, <1>7, <1>8 DEF Next

(* The server with -o, for any thresholds: gathering is what the file      *)
(* loses video by.  If every frame is large enough to be flushed by itself *)
(* the file holds all that was encoded, unless a flush fills its last      *)
(* chunk.                                                                  *)
THEOREM SavedUnlessGathered ==
  ASSUME EveryFrameFlushed
  PROVE  Spec => []SavedVideoComplete
<1>1. TypeOK /\ SavedGood /\ [Next]_vars => SavedGood'
  BY SavedStep
<1>2. TypeOK /\ SavedGood => SavedVideoComplete
  <2> SUFFICES ASSUME TypeOK, SavedGood, SaveVideo, pc = "pack", ~aligned
               PROVE  Cat(file, buffer) = UpTo(encoded)
    BY DEF SavedVideoComplete, Cat
  <2>1. buffer = <<>> /\ file = UpTo(encoded) /\ file \in Seq(Bytes)
    BY DEF SavedGood, TypeOK
  <2> QED
    BY <2>1, CatEmpty
<1> QED
  BY <1>1, <1>2, SavedInit, StreamTypes, PTL DEF Spec
=============================================================================
