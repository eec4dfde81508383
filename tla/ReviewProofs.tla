------------------------------ MODULE ReviewProofs ------------------------------
(***************************************************************************)
(* For every catalog, whatever the judges send and however they vote, for  *)
(* every conversation that is rated anew: Review accepts nothing without   *)
(* grounds and rejects nothing without one, a rating is about the answer   *)
(* that gets its status, and what rate_existing returns is sound.          *)
(***************************************************************************)
EXTENDS Review, FiniteSetTheorems, SequenceTheorems, TLAPS

-----------------------------------------------------------------------------
(***************************************************************************)
(* A concatenation of sequences.                                           *)
(***************************************************************************)

\* Induction over the numbers up to n.
LEMMA Reaches ==
    ASSUME NEW n \in Nat, NEW good, 1 \in good,
           \A i \in 1 .. n - 1 : i \in good => i + 1 \in good
    PROVE  1 .. n \subseteq good
  <1> DEFINE R   == OpToRel(<, Nat)
             bad == (1 .. n) \ good
  <1> SUFFICES ASSUME bad # {} PROVE FALSE
    OBVIOUS
  <1>1. IsWellFoundedOn(R, Nat)
    BY NatLessThanWellFounded
  <1>2. bad \subseteq Nat
    OBVIOUS
  <1>3. PICK m \in bad : \A k \in bad : ~(<<k, m>> \in R)
    <2> HIDE DEF R, bad
    <2> QED BY <1>1, <1>2, WFMin
  <1>4. \A k \in bad : ~(k < m)
    <2>1. \A i, j \in Nat : i < j => <<i, j>> \in R
      BY DEF OpToRel
    <2> HIDE DEF R, bad
    <2> QED BY <1>2, <1>3, <2>1
  <1>5. m # 1 /\ m - 1 \in 1 .. n
    OBVIOUS
  <1>6. m - 1 \in good
    BY <1>4, <1>5
  <1> QED BY <1>5, <1>6

\* The recursion FlattenSeq is defined by.
Joined(seqs, f, i) == IF i = 1 THEN seqs[i] ELSE f[i - 1] \o seqs[i]

Joins(f, seqs) == f = [i \in 1 .. Len(seqs) |-> Joined(seqs, f, i)]

LEMMA FlattenByRecursion ==
    ASSUME NEW seqs, Len(seqs) # 0
    PROVE  FlattenSeq(seqs) = (CHOOSE f : Joins(f, seqs))[Len(seqs)]
  BY DEF FlattenSeq, Joins, Joined

HasJoins(S, seqs) == \E f \in [1 .. Len(seqs) -> Seq(S)] : Joins(f, seqs)

JoinsUpTo(n, f, S, seqs) ==
    \A i \in 1 .. n : f[i] \in Seq(S) /\ f[i] = Joined(seqs, f, i)

LEMMA JoinsExist ==
    ASSUME NEW S, NEW seqs \in Seq(Seq(S)), seqs # <<>>
    PROVE  HasJoins(S, seqs)
  <1> DEFINE N == Len(seqs)
             good == {n \in 1 .. N : \E f : JoinsUpTo(n, f, S, seqs)}
  <1>1. N \in Nat \ {0}
    OBVIOUS
  <1>2. 1 \in good
    <2> DEFINE f == [i \in 1 .. N |-> seqs[1]]
    <2>1. JoinsUpTo(1, f, S, seqs)
      BY <1>1 DEF JoinsUpTo, Joined
    <2> HIDE DEF f
    <2> QED BY <1>1, <2>1
  <1>3. ASSUME NEW n \in 1 .. N - 1, n \in good
        PROVE  n + 1 \in good
    <2>1. PICK f : JoinsUpTo(n, f, S, seqs)
      BY <1>3
    <2> DEFINE g == [i \in 1 .. N |-> IF i <= n THEN f[i] ELSE f[n] \o seqs[n + 1]]
    <2>2. f[n] \in Seq(S) /\ seqs[n + 1] \in Seq(S) /\ f[n] \o seqs[n + 1] \in Seq(S)
      BY <1>3, <2>1 DEF JoinsUpTo
    <2>3. ASSUME NEW i \in 1 .. n + 1 PROVE g[i] \in Seq(S) /\ g[i] = Joined(seqs, g, i)
      <3>1. CASE i <= n
        <4>1. g[i] = f[i] /\ (i # 1 => g[i - 1] = f[i - 1])
          BY <1>3, <2>3, <3>1
        <4> HIDE DEF g
        <4> QED BY <2>1, <3>1, <4>1 DEF JoinsUpTo, Joined
      <3>2. CASE i = n + 1
        <4>1. n + 1 \in 1 .. N /\ ~(n + 1 <= n) /\ n \in 1 .. N /\ n <= n /\ n + 1 # 1
          BY <1>3
        <4>2. g[n + 1] = f[n] \o seqs[n + 1] /\ g[n] = f[n]
          BY <4>1
        <4>3. i = n + 1 /\ i - 1 = n
          BY <1>3, <3>2
        <4> HIDE DEF g
        <4>4. Joined(seqs, g, n + 1) = f[n] \o seqs[n + 1]
          BY <4>1, <4>2, <4>3 DEF Joined
        <4>5. g[n + 1] \in Seq(S) /\ g[n + 1] = Joined(seqs, g, n + 1)
          BY <2>2, <4>2, <4>4
        <4> QED BY <4>3, <4>5, Zenon
      <3>3. i <= n \/ i = n + 1
        BY <1>3
      <3> HIDE DEF g
      <3> QED BY <3>1, <3>2, <3>3
    <2> HIDE DEF g
    <2>4. JoinsUpTo(n + 1, g, S, seqs)
      BY <2>3 DEF JoinsUpTo
    <2> QED BY <1>3, <2>4
  <1> HIDE DEF good
  <1>4. N \in good
    <2>1. 1 .. N \subseteq good
      BY <1>1, <1>2, <1>3, Reaches
    <2> QED BY <1>1, <2>1
  <1>5. PICK f : JoinsUpTo(N, f, S, seqs)
    BY <1>4 DEF good
  <1> DEFINE h == [i \in 1 .. N |-> f[i]]
  <1>6. h \in [1 .. Len(seqs) -> Seq(S)]
    BY <1>5 DEF JoinsUpTo
  <1>7. \A i \in 1 .. N : h[i] = Joined(seqs, h, i)
    BY <1>1, <1>5 DEF JoinsUpTo, Joined
  <1>8. h = [i \in 1 .. N |-> h[i]]
    OBVIOUS
  <1> HIDE DEF h
  <1>9. Joins(h, seqs)
    BY <1>7, <1>8 DEF Joins
  <1> QED BY <1>6, <1>9 DEF HasJoins

LEMMA JoinsUnique ==
    ASSUME NEW seqs, Len(seqs) \in Nat \ {0}, NEW f, NEW g, Joins(f, seqs), Joins(g, seqs)
    PROVE  f[Len(seqs)] = g[Len(seqs)]
  <1> DEFINE good == {i \in 1 .. Len(seqs) : f[i] = g[i]}
  <1>1. \A i \in 1 .. Len(seqs) : f[i] = Joined(seqs, f, i) /\ g[i] = Joined(seqs, g, i)
    BY DEF Joins
  <1>2. 1 \in good
    BY <1>1 DEF Joined
  <1>3. \A i \in 1 .. Len(seqs) - 1 : i \in good => i + 1 \in good
    BY <1>1 DEF Joined
  <1>4. 1 .. Len(seqs) \subseteq good
    <2> HIDE DEF good
    <2> QED BY <1>2, <1>3, Reaches
  <1> QED BY <1>4

\* FlattenSeq by its steps.
IsFlattening(f, S, seqs) ==
    /\ f \in [1 .. Len(seqs) -> Seq(S)]
    /\ f[1] = seqs[1]
    /\ \A i \in 2 .. Len(seqs) : f[i] = f[i - 1] \o seqs[i]
    /\ FlattenSeq(seqs) = f[Len(seqs)]

HasFlattening(S, seqs) == \E f : IsFlattening(f, S, seqs)

LEMMA FlattenSteps ==
    ASSUME NEW S, NEW seqs \in Seq(Seq(S)), seqs # <<>>
    PROVE  HasFlattening(S, seqs)
  <1>1. Len(seqs) \in Nat \ {0}
    OBVIOUS
  <1>2. HasJoins(S, seqs)
    BY JoinsExist
  <1>3. PICK f \in [1 .. Len(seqs) -> Seq(S)] : Joins(f, seqs)
    BY <1>2 DEF HasJoins
  <1> DEFINE g == CHOOSE g : Joins(g, seqs)
  <1>4. Joins(g, seqs)
    BY <1>3
  <1>5. FlattenSeq(seqs) = g[Len(seqs)]
    BY <1>1, FlattenByRecursion
  <1> HIDE DEF g
  <1>6. FlattenSeq(seqs) = f[Len(seqs)]
    BY <1>1, <1>3, <1>4, <1>5, JoinsUnique
  <1>7. \A i \in 1 .. Len(seqs) : f[i] = Joined(seqs, f, i)
    BY <1>3 DEF Joins
  <1>8. f[1] = seqs[1]
    <2>1. f[1] = Joined(seqs, f, 1)
      BY <1>1, <1>7
    <2> QED BY <2>1 DEF Joined
  <1>9. ASSUME NEW i \in 2 .. Len(seqs) PROVE f[i] = f[i - 1] \o seqs[i]
    <2>1. i \in 1 .. Len(seqs) /\ i # 1
      BY <1>1
    <2> QED BY <1>7, <2>1 DEF Joined
  <1>10. IsFlattening(f, S, seqs)
    BY <1>3, <1>6, <1>8, <1>9 DEF IsFlattening
  <1> QED BY <1>10 DEF HasFlattening

\* A concatenation of sequences over S is one, of the elements they have.
LEMMA FlattenElements ==
    ASSUME NEW S, NEW seqs \in Seq(Seq(S))
    PROVE  /\ FlattenSeq(seqs) \in Seq(S)
           /\ Range(FlattenSeq(seqs)) = UNION {Range(seqs[k]) : k \in DOMAIN seqs}
  <1>1. CASE seqs = <<>>
    <2>1. FlattenSeq(seqs) = <<>>
      BY <1>1 DEF FlattenSeq
    <2>2. DOMAIN seqs = {} /\ DOMAIN FlattenSeq(seqs) = {}
      <3>1. seqs = <<>> /\ DOMAIN seqs = 1 .. Len(seqs) /\ Len(seqs) = 0
        BY <1>1
      <3>2. DOMAIN seqs = {}
        BY <3>1
      <3> QED BY <2>1, <3>1, <3>2
    <2>3. FlattenSeq(seqs) \in Seq(S)
      BY <2>1
    <2>4. Range(FlattenSeq(seqs)) = {}
      BY <2>2 DEF Range
    <2>5. UNION {Range(seqs[k]) : k \in DOMAIN seqs} = {}
      BY <2>2
    <2> QED BY <2>3, <2>4, <2>5
  <1>2. CASE seqs # <<>>
    <2>1. HasFlattening(S, seqs)
      BY <1>2, FlattenSteps
    <2>2. PICK f : IsFlattening(f, S, seqs)
      BY <2>1 DEF HasFlattening
    <2>3. Len(seqs) \in Nat \ {0} /\ DOMAIN seqs = 1 .. Len(seqs)
      BY <1>2
    <2> DEFINE from(n) == UNION {Range(seqs[k]) : k \in 1 .. n}
               good    == {n \in 1 .. Len(seqs) : Range(f[n]) = from(n)}
    <2>4. 1 \in good
      <3>1. from(1) = Range(seqs[1])
        OBVIOUS
      <3> HIDE DEF from
      <3> QED BY <2>2, <2>3, <3>1 DEF IsFlattening
    <2>5. ASSUME NEW n \in 1 .. Len(seqs) - 1, n \in good
          PROVE  n + 1 \in good
      <3>1. n + 1 \in 2 .. Len(seqs) /\ n + 1 \in 1 .. Len(seqs) /\ n \in 1 .. Len(seqs)
        BY <2>3
      <3>2. f[n + 1] = f[n] \o seqs[n + 1]
        <4> DEFINE m == n + 1
        <4>1. m \in 2 .. Len(seqs) /\ m - 1 = n
          BY <3>1
        <4> HIDE DEF m
        <4>2. f[m] = f[m - 1] \o seqs[m]
          BY <2>2, <4>1 DEF IsFlattening
        <4> QED BY <4>1, <4>2 DEF m
      <3>3. f[n] \in Seq(S) /\ seqs[n + 1] \in Seq(S)
        <4>1. f \in [1 .. Len(seqs) -> Seq(S)]
          BY <2>2 DEF IsFlattening
        <4> QED BY <2>3, <3>1, <4>1
      <3>4. Range(f[n + 1]) = Range(f[n]) \cup Range(seqs[n + 1])
        BY <3>2, <3>3, RangeConcatenation
      <3>5. from(n + 1) = from(n) \cup Range(seqs[n + 1])
        <4>1. 1 .. n + 1 = (1 .. n) \cup {n + 1}
          OBVIOUS
        <4> QED BY <4>1
      <3> HIDE DEF from
      <3> QED BY <2>5, <3>1, <3>4, <3>5
    <2>6. Len(seqs) \in good
      <3> HIDE DEF good
      <3>1. 1 .. Len(seqs) \subseteq good
        BY <2>3, <2>4, <2>5, Reaches
      <3> QED BY <2>3, <3>1
    <2>7. f[Len(seqs)] \in Seq(S) /\ FlattenSeq(seqs) = f[Len(seqs)]
      BY <2>2, <2>3 DEF IsFlattening
    <2> QED BY <2>3, <2>6, <2>7
  <1> QED BY <1>1, <1>2

\* A finite set as a sequence has the set's elements.
LEMMA SetToSeqElements ==
    ASSUME NEW T, IsFiniteSet(T)
    PROVE  SetToSeq(T) \in Seq(T) /\ Range(SetToSeq(T)) = T
  <1> DEFINE n == Cardinality(T)
             f == SetToSeq(T)
  <1>1. n \in Nat /\ ExistsBijection(1 .. n, T)
    BY FS_CardinalityType
  <1>2. \E g \in [1 .. n -> T] : IsInjective(g)
    BY <1>1 DEF ExistsBijection, Bijection, Injection
  <1>3. f \in [1 .. n -> T] /\ IsInjective(f)
    BY <1>2 DEF SetToSeq
  <1> HIDE DEF f, n
  <1>4. f \in Injection(1 .. n, T)
    BY <1>3 DEF Injection
  <1>5. f \in Surjection(1 .. n, T)
    <2>1. IsFiniteSet(1 .. n) /\ Cardinality(1 .. n) = n
      BY <1>1, FS_Interval
    <2> QED BY <1>4, <2>1, FS_Injection DEF n
  <1>6. Range(f) = T
    BY <1>3, <1>5 DEF Surjection, Range
  <1> QED BY <1>1, <1>3, <1>6 DEF f
-----------------------------------------------------------------------------
(***************************************************************************)
(* A filtered sequence.                                                    *)
(***************************************************************************)

\* What becomes of every place.
Pieces(s, kept) == [i \in DOMAIN s |-> IF i \in kept THEN <<s[i]>> ELSE <<>>]

LEMMA PiecesAre ==
    ASSUME NEW S, NEW s \in Seq(S), NEW kept
    PROVE  /\ Pieces(s, kept) \in Seq(Seq(S))
           /\ DOMAIN Pieces(s, kept) = DOMAIN s /\ Len(Pieces(s, kept)) = Len(s)
           /\ Filtered(s, kept) = FlattenSeq(Pieces(s, kept))
  <1>1. DOMAIN s = 1 .. Len(s) /\ Len(s) \in Nat
    OBVIOUS
  <1>2. \A i \in 1 .. Len(s) : (IF i \in kept THEN <<s[i]>> ELSE <<>>) \in Seq(S)
    <2> TAKE i \in 1 .. Len(s)
    <2>1. s[i] \in S
      OBVIOUS
    <2> QED BY <2>1
  <1>3. Pieces(s, kept) = [i \in 1 .. Len(s) |-> IF i \in kept THEN <<s[i]>> ELSE <<>>]
    BY <1>1 DEF Pieces
  <1>4. Pieces(s, kept) \in [1 .. Len(s) -> Seq(S)]
    BY <1>2, <1>3
  <1> QED BY <1>1, <1>4 DEF Filtered, Pieces

LEMMA FilteredElements ==
    ASSUME NEW S, NEW s \in Seq(S), NEW kept
    PROVE  /\ Filtered(s, kept) \in Seq(S)
           /\ Range(Filtered(s, kept)) = {s[i] : i \in kept \cap DOMAIN s}
  <1> DEFINE pieces == Pieces(s, kept)
  <1>1. /\ pieces \in Seq(Seq(S)) /\ DOMAIN pieces = DOMAIN s
        /\ Filtered(s, kept) = FlattenSeq(pieces)
    BY PiecesAre
  <1>2. /\ FlattenSeq(pieces) \in Seq(S)
        /\ Range(FlattenSeq(pieces)) = UNION {Range(pieces[k]) : k \in DOMAIN pieces}
    <2> HIDE DEF pieces
    <2> QED BY <1>1, FlattenElements
  <1>3. ASSUME NEW i \in DOMAIN s
        PROVE  Range(pieces[i]) = IF i \in kept THEN {s[i]} ELSE {}
    <2>1. pieces[i] = IF i \in kept THEN <<s[i]>> ELSE <<>>
      BY DEF Pieces
    <2> HIDE DEF pieces
    <2>2. CASE i \in kept
      <3>1. pieces[i] = <<s[i]>>
        BY <2>1, <2>2
      <3>2. Range(<<s[i]>>) = {s[i]}
        BY DEF Range
      <3> QED BY <2>2, <3>1, <3>2
    <2>3. CASE i \notin kept
      <3>1. pieces[i] = <<>>
        BY <2>1, <2>3
      <3>2. DOMAIN pieces[i] = {}
        BY <3>1
      <3>3. Range(pieces[i]) = {}
        BY <3>2 DEF Range
      <3> QED BY <2>3, <3>3
    <2> QED BY <2>2, <2>3
  <1>4. UNION {Range(pieces[k]) : k \in DOMAIN pieces} = {s[i] : i \in kept \cap DOMAIN s}
    <2> HIDE DEF pieces
    <2> QED BY <1>1, <1>3
  <1> HIDE DEF pieces
  <1> QED BY <1>1, <1>2, <1>4

\* Keeping just the first n elements is cutting the rest.
LEMMA FilteredPrefix ==
    ASSUME NEW S, NEW s \in Seq(S), NEW kept, NEW n \in 0 .. Len(s),
           \A i \in 1 .. Len(s) : i \in kept <=> i <= n
    PROVE  Filtered(s, kept) = SubSeq(s, 1, n)
  <1> DEFINE pieces == Pieces(s, kept)
  <1>1. /\ pieces \in Seq(Seq(S)) /\ Len(pieces) = Len(s)
        /\ Filtered(s, kept) = FlattenSeq(pieces)
    BY PiecesAre
  <1>2. Len(s) \in Nat /\ DOMAIN s = 1 .. Len(s)
    OBVIOUS
  <1>3. \A i \in 1 .. Len(s) : pieces[i] = IF i <= n THEN <<s[i]>> ELSE <<>>
    BY <1>2 DEF Pieces
  <1> HIDE DEF pieces
  <1>4. CASE s = <<>>
    <2>1. pieces = <<>>
      BY <1>1, <1>4
    <2>2. FlattenSeq(pieces) = <<>>
      BY <2>1 DEF FlattenSeq
    <2>3. n = 0
      BY <1>4
    <2>4. SubSeq(s, 1, 0) = <<>>
      BY SubSeqEmpty
    <2> QED BY <1>1, <2>2, <2>3, <2>4
  <1>5. CASE s # <<>>
    <2>1. HasFlattening(S, pieces)
      <3>1. pieces # <<>>
        BY <1>1, <1>5
      <3> QED BY <1>1, <3>1, FlattenSteps
    <2>2. PICK f : IsFlattening(f, S, pieces)
      BY <2>1 DEF HasFlattening
    <2>3. Len(s) \in Nat \ {0}
      BY <1>5
    <2> DEFINE upTo(i) == IF i <= n THEN i ELSE n
               good    == {i \in 1 .. Len(s) : f[i] = SubSeq(s, 1, upTo(i))}
    <2>4. 1 \in good
      <3>1. f[1] = pieces[1]
        BY <2>2 DEF IsFlattening
      <3>2. 1 \in 1 .. Len(s) /\ n \in Nat
        BY <2>3
      <3>3. f[1] = IF 1 <= n THEN <<s[1]>> ELSE <<>>
        BY <1>3, <3>1, <3>2
      <3>4. CASE 1 <= n
        <4>1. SubSeq(s, 1, 1) = SubSeq(s, 1, 1 - 1) \o <<s[1]>>
          BY <3>2, SubSeqRecursiveSecond
        <4>2. SubSeq(s, 1, 0) = <<>>
          BY SubSeqEmpty
        <4>3. s[1] \in S /\ <<s[1]>> \in Seq(S)
          BY <3>2
        <4>4. <<>> \o <<s[1]>> = <<s[1]>>
          BY <4>3, ConcatEmptySeq
        <4>5. 1 - 1 = 0
          OBVIOUS
        <4>6. SubSeq(s, 1, 1) = <<s[1]>>
          BY <4>1, <4>2, <4>4, <4>5
        <4>7. upTo(1) = 1
          BY <3>4
        <4>8. f[1] = SubSeq(s, 1, upTo(1))
          BY <3>3, <3>4, <4>6, <4>7
        <4> QED BY <3>2, <4>8
      <3>5. CASE ~(1 <= n)
        <4>1. n = 0
          BY <3>2, <3>5
        <4>2. SubSeq(s, 1, 0) = <<>>
          BY SubSeqEmpty
        <4>3. upTo(1) = 0
          BY <4>1
        <4>4. f[1] = SubSeq(s, 1, upTo(1))
          BY <3>3, <3>5, <4>2, <4>3
        <4> QED BY <3>2, <4>4
      <3> QED BY <3>4, <3>5
    <2>5. ASSUME NEW i \in 1 .. Len(s) - 1, i \in good
          PROVE  i + 1 \in good
      <3> DEFINE m == i + 1
      <3>1. m \in 2 .. Len(s) /\ m - 1 = i /\ m \in 1 .. Len(s) /\ i \in 1 .. Len(s)
        BY <2>3
      <3> HIDE DEF m
      <3>2. f[m] = f[i] \o pieces[m]
        <4>1. f[m] = f[m - 1] \o pieces[m]
          BY <1>1, <2>2, <3>1 DEF IsFlattening
        <4> QED BY <3>1, <4>1
      <3>3. f[i] = SubSeq(s, 1, upTo(i)) /\ f[i] \in Seq(S)
        <4>1. f \in [1 .. Len(s) -> Seq(S)]
          BY <1>1, <2>2 DEF IsFlattening
        <4> QED BY <2>5, <3>1, <4>1
      <3>4. CASE m <= n
        <4>1. upTo(i) = i /\ i <= n
          BY <3>1, <3>4
        <4>2. pieces[m] = <<s[m]>>
          BY <1>3, <3>1, <3>4
        <4>3. f[m] = SubSeq(s, 1, i) \o <<s[m]>>
          BY <3>2, <3>3, <4>1, <4>2
        <4>4. SubSeq(s, 1, m) = SubSeq(s, 1, m - 1) \o <<s[m]>>
          BY <3>1, SubSeqRecursiveSecond
        <4>5. f[m] = SubSeq(s, 1, m)
          BY <3>1, <4>3, <4>4
        <4> QED BY <3>1, <3>4, <4>5 DEF m
      <3>5. CASE ~(m <= n)
        <4>1. f[m] = f[i] \o <<>>
          BY <1>3, <3>1, <3>2, <3>5
        <4>2. f[m] = f[i]
          BY <3>3, <4>1, ConcatEmptySeq
        <4>3. upTo(i) = n /\ upTo(m) = n
          BY <3>1, <3>5
        <4> QED BY <3>1, <3>3, <4>2, <4>3 DEF m
      <3> QED BY <3>4, <3>5
    <2>6. Len(s) \in good
      <3> HIDE DEF good
      <3>1. 1 .. Len(s) \subseteq good
        BY <2>3, <2>4, <2>5, Reaches
      <3> QED BY <2>3, <3>1
    <2>7. f[Len(s)] = SubSeq(s, 1, n)
      <3>1. upTo(Len(s)) = n
        <4>1. n \in Nat /\ n <= Len(s)
          BY <1>2
        <4> DEFINE l == Len(s)
        <4>2. l \in Nat
          BY <1>2
        <4> HIDE DEF l
        <4>3. (IF l <= n THEN l ELSE n) = n
          BY <4>1, <4>2 DEF l
        <4> QED BY <4>3 DEF l
      <3> HIDE DEF upTo
      <3> QED BY <2>6, <3>1
    <2>8. FlattenSeq(pieces) = f[Len(s)]
      BY <1>1, <2>2 DEF IsFlattening
    <2> QED BY <1>1, <2>7, <2>8
  <1> QED BY <1>4, <1>5

LEMMA AppendedOne ==
    ASSUME NEW s, s \in Seq(Range(s)), NEW e
    PROVE  /\ Append(s, e) \in Seq(Range(Append(s, e)))
           /\ Len(Append(s, e)) = Len(s) + 1 /\ Len(s) \in Nat
           /\ DOMAIN Append(s, e) = 1 .. Len(s) + 1 /\ DOMAIN s = 1 .. Len(s)
           /\ Append(s, e)[Len(s) + 1] = e
           /\ \A i \in 1 .. Len(s) : Append(s, e)[i] = s[i]
  <1> DEFINE S == Range(s) \cup {e}
             a == Append(s, e)
  <1>1. s \in Seq(S) /\ e \in S
    <2> DEFINE R == Range(s)
    <2> HIDE DEF R
    <2>1. s \in Seq(R) /\ R \subseteq R \cup {e}
      BY DEF R
    <2>2. s \in Seq(R \cup {e})
      BY <2>1
    <2> QED BY <2>2 DEF R
  <1> HIDE DEF S
  <1>2. /\ a \in Seq(S) /\ Len(a) = Len(s) + 1 /\ Len(s) \in Nat
        /\ DOMAIN a = 1 .. Len(s) + 1 /\ DOMAIN s = 1 .. Len(s)
        /\ a[Len(s) + 1] = e /\ \A i \in 1 .. Len(s) : a[i] = s[i]
    BY <1>1
  <1> HIDE DEF a
  <1>3. a \in Seq(Range(a))
    <2>1. \A i \in 1 .. Len(a) : a[i] \in Range(a)
      BY <1>2 DEF Range
    <2>2. a = [i \in 1 .. Len(a) |-> a[i]]
      BY <1>2
    <2>3. Len(a) \in Nat
      BY <1>2
    <2>4. a \in [1 .. Len(a) -> Range(a)]
      BY <2>1, <2>2
    <2> QED BY <2>3, <2>4
  <1> QED BY <1>2, <1>3 DEF a

-----------------------------------------------------------------------------
(***************************************************************************)
(* The questions of a rating.                                              *)
(***************************************************************************)

\* A context whose subjects can be listed.
IsContext(context) ==
    /\ IsFiniteSet(context.claims)
    /\ IsFiniteSet(context.requirements)
    /\ IsFiniteSet(context.history_binding)

LEMMA SubjectsFinite ==
    ASSUME NEW context, IsContext(context), NEW template
    PROVE  IsFiniteSet(Subjects(template, context))
  <1>1. IsFiniteSet({Singleton})
    BY FS_Singleton
  <1>2. IsFiniteSet(format_requirements(context))
    <2>1. format_requirements(context) \subseteq context.requirements
      BY DEF format_requirements
    <2> QED BY <2>1, FS_Subset DEF IsContext
  <1> QED BY <1>1, <1>2 DEF Subjects, IsContext

\* A question asks an item that applies, of one of its subjects.
Asked(q, context) ==
    \E i \in DOMAIN Catalog :
        /\ Applies(Catalog[i].applies_when, context)
        /\ q.template = Catalog[i]
        /\ q.subject \in Subjects(Catalog[i], context)

\* Every subject of every item that applies is asked about.
IsAsked(i, subject, context) ==
    \E q \in Range(Plan(context)) : q.template = Catalog[i] /\ q.subject = subject

\* The questions about one item.
AsksAbout(template, context) == AsksOf(template, SetToSeq(Subjects(template, context)))

LEMMA AsksAboutItem ==
    ASSUME NEW context, IsContext(context), NEW template
    PROVE  /\ AsksAbout(template, context) \in Seq(Range(AsksAbout(template, context)))
           /\ \A q \in Range(AsksAbout(template, context)) :
                 q.template = template /\ q.subject \in Subjects(template, context)
           /\ \A x \in Subjects(template, context) :
                 \E q \in Range(AsksAbout(template, context)) :
                     q.template = template /\ q.subject = x
  <1> DEFINE T == Subjects(template, context)
             s == SetToSeq(T)
             a == AsksAbout(template, context)
  <1>1. s \in Seq(T) /\ Range(s) = T
    <2>1. IsFiniteSet(T)
      BY SubjectsFinite
    <2> HIDE DEF T
    <2> QED BY <2>1, SetToSeqElements
  <1>2. a = [i \in 1 .. Len(s) |-> [template |-> template, subject |-> s[i]]]
    BY DEF AsksAbout, AsksOf
  <1> HIDE DEF T, s, a
  <1>3. Len(s) \in Nat /\ DOMAIN s = 1 .. Len(s)
    BY <1>1
  <1>4. DOMAIN a = 1 .. Len(s) /\ \A i \in 1 .. Len(s) : a[i] \in Range(a)
    BY <1>2 DEF Range
  <1>5. a \in Seq(Range(a))
    <2>1. a \in [1 .. Len(s) -> Range(a)]
      BY <1>2, <1>4
    <2> QED BY <1>3, <2>1
  <1>6. \A q \in Range(a) : q.template = template /\ q.subject \in T
    <2> SUFFICES ASSUME NEW i \in 1 .. Len(s)
                 PROVE  a[i].template = template /\ a[i].subject \in T
      BY <1>4 DEF Range
    <2>1. s[i] \in T
      BY <1>1, <1>3
    <2> QED BY <1>2, <2>1
  <1>7. ASSUME NEW x \in T
        PROVE  \E q \in Range(a) : q.template = template /\ q.subject = x
    <2>1. PICK i \in 1 .. Len(s) : s[i] = x
      BY <1>1, <1>3, <1>7 DEF Range
    <2>2. a[i].template = template /\ a[i].subject = x
      BY <1>2, <2>1
    <2> QED BY <1>4, <2>2
  <1> QED BY <1>5, <1>6, <1>7 DEF T, a

LEMMA PlanAsks ==
    ASSUME NEW context, IsContext(context)
    PROVE  /\ Plan(context) \in Seq(Range(Plan(context)))
           /\ \A q \in Range(Plan(context)) : Asked(q, context)
           /\ \A i \in DOMAIN Catalog :
                 Applies(Catalog[i].applies_when, context) =>
                     \A x \in Subjects(Catalog[i], context) : IsAsked(i, x, context)
  <1> DEFINE T     == Range(Catalog)
             kept  == {i \in DOMAIN Catalog : Applies(Catalog[i].applies_when, context)}
             asked == applicable_rubric_items(context)
             parts == [i \in DOMAIN asked |-> AsksAbout(asked[i], context)]
             U     == UNION {Range(parts[i]) : i \in DOMAIN parts}
  <1>1. Catalog \in Seq(T) /\ DOMAIN Catalog = 1 .. Len(Catalog)
    <2>1. \E S : Catalog \in Seq(S)
      BY CatalogAssumption
    <2>2. PICK S : Catalog \in Seq(S)
      BY <2>1
    <2>3. Catalog \in [1 .. Len(Catalog) -> Range(Catalog)] /\ Len(Catalog) \in Nat
      BY <2>2 DEF Range
    <2> QED BY <2>3
  <1>2. asked = Filtered(Catalog, kept)
    BY DEF applicable_rubric_items
  <1>3. kept \cap DOMAIN Catalog = kept
    OBVIOUS
  <1>4. asked \in Seq(T) /\ Range(asked) = {Catalog[i] : i \in kept}
    <2> HIDE DEF T, kept, asked
    <2> QED BY <1>1, <1>2, <1>3, FilteredElements
  <1>5. Plan(context) = FlattenSeq(parts)
    BY DEF Plan, AsksAbout
  <1>6. DOMAIN parts = 1 .. Len(asked) /\ Len(asked) \in Nat /\ DOMAIN asked = 1 .. Len(asked)
    <2> HIDE DEF asked
    <2> QED BY <1>4
  <1>7. \A i \in DOMAIN asked : parts[i] = AsksAbout(asked[i], context)
    OBVIOUS
  <1>8. \A i \in DOMAIN parts : parts[i] \in Seq(U)
    <2> TAKE i \in DOMAIN parts
    <2>1. parts[i] \in Seq(Range(parts[i]))
      <3>1. parts[i] = AsksAbout(asked[i], context)
        BY <1>6, <1>7
      <3> HIDE DEF parts, asked
      <3>2. AsksAbout(asked[i], context) \in Seq(Range(AsksAbout(asked[i], context)))
        BY AsksAboutItem
      <3> QED BY <3>1, <3>2, Zenon
    <2>2. Range(parts[i]) \subseteq U
      <3> HIDE DEF parts
      <3> QED OBVIOUS
    <2> HIDE DEF U, parts
    <2> DEFINE R == Range(parts[i])
    <2> HIDE DEF R
    <2>3. parts[i] \in Seq(R) /\ R \subseteq U
      BY <2>1, <2>2 DEF R
    <2> QED BY <2>3
  <1> HIDE DEF T, kept, asked, parts, U
  <1>9. parts \in Seq(Seq(U))
    <2>1. parts \in [1 .. Len(asked) -> Seq(U)]
      <3>1. parts = [i \in DOMAIN parts |-> parts[i]]
        BY DEF parts
      <3> QED BY <1>6, <1>8, <3>1
    <2> QED BY <1>6, <2>1
  <1>10. Plan(context) \in Seq(U) /\ Range(Plan(context)) = U
    <2>1. FlattenSeq(parts) \in Seq(U)
      BY <1>9, FlattenElements
    <2>2. Range(FlattenSeq(parts)) = UNION {Range(parts[k]) : k \in DOMAIN parts}
      BY <1>9, FlattenElements
    <2> QED BY <1>5, <2>1, <2>2 DEF U
  <1>11. ASSUME NEW q \in U PROVE Asked(q, context)
    <2>1. PICK k \in DOMAIN parts : q \in Range(parts[k])
      BY <1>11 DEF U
    <2>2. parts[k] = AsksAbout(asked[k], context) /\ asked[k] \in Range(asked)
      BY <1>6, <1>7, <2>1 DEF Range
    <2>3. PICK i \in kept : asked[k] = Catalog[i]
      BY <1>4, <2>2
    <2>4. q \in Range(AsksAbout(Catalog[i], context))
      BY <2>1, <2>2, <2>3
    <2>5. q.template = Catalog[i] /\ q.subject \in Subjects(Catalog[i], context)
      BY <2>4, AsksAboutItem
    <2> QED BY <2>3, <2>5 DEF Asked, kept
  <1>12. ASSUME NEW i \in DOMAIN Catalog, Applies(Catalog[i].applies_when, context),
                NEW x \in Subjects(Catalog[i], context)
         PROVE  IsAsked(i, x, context)
    <2>1. Catalog[i] \in Range(asked)
      BY <1>4, <1>12 DEF kept
    <2>2. PICK k \in DOMAIN asked : asked[k] = Catalog[i]
      BY <2>1 DEF Range
    <2>3. parts[k] = AsksAbout(Catalog[i], context)
      BY <1>7, <2>2
    <2>4. PICK q \in Range(AsksAbout(Catalog[i], context)) : q.template = Catalog[i] /\ q.subject = x
      BY <1>12, AsksAboutItem
    <2>5. q \in U
      BY <1>6, <2>2, <2>3, <2>4 DEF U
    <2> QED BY <1>10, <2>4, <2>5 DEF IsAsked
  <1> QED BY <1>10, <1>11, <1>12, Zenon

\* An item with this predicate has these subjects.
SubjectsAre(predicate, context, T) ==
    \A template : template.applies_when = predicate => Subjects(template, context) = T

\* The named item is asked of each of its subjects.
LEMMA GateIsAsked ==
    ASSUME NEW context, IsContext(context), NEW id, NEW predicate, IsGate(id, predicate),
           Applies(predicate, context), NEW T, NEW x \in T, SubjectsAre(predicate, context, T)
    PROVE  \E q \in Range(Plan(context)) :
               /\ q.template.template_id = id /\ q.template.default_use = "gate"
               /\ q.subject = x
  <1>1. PICK i \in DOMAIN Catalog :
            Catalog[i] = [template_id |-> id, applies_when |-> predicate, default_use |-> "gate"]
    BY DEF IsGate
  <1>2. Catalog[i].applies_when = predicate
    BY <1>1
  <1>3. Subjects(Catalog[i], context) = T
    BY <1>2 DEF SubjectsAre
  <1>4. IsAsked(i, x, context)
    BY <1>2, <1>3, PlanAsks
  <1>5. PICK q \in Range(Plan(context)) : q.template = Catalog[i] /\ q.subject = x
    BY <1>4 DEF IsAsked
  <1>6. q.template.template_id = id /\ q.template.default_use = "gate"
    BY <1>1, <1>5
  <1> QED BY <1>5, <1>6

\* The named item is asked of nothing else.
LEMMA OnlyGateAsks ==
    ASSUME NEW context, IsContext(context), NEW id, NEW predicate, IsGate(id, predicate),
           NEW q \in Range(Plan(context)), q.template.template_id = id
    PROVE  Applies(predicate, context) /\ q.subject \in Subjects(q.template, context)
               /\ q.template.applies_when = predicate
  <1>1. Asked(q, context)
    BY PlanAsks
  <1>2. PICK i \in DOMAIN Catalog :
            /\ Applies(Catalog[i].applies_when, context)
            /\ q.template = Catalog[i]
            /\ q.subject \in Subjects(Catalog[i], context)
    BY <1>1 DEF Asked
  <1>3. Catalog[i].applies_when = predicate
    BY <1>2 DEF IsGate
  <1> QED BY <1>2, <1>3

-----------------------------------------------------------------------------
(***************************************************************************)
(* Votes, checks and verdicts.                                             *)
(***************************************************************************)

LEMMA ConsensusType ==
    ASSUME NEW votes
    PROVE  consensus(votes) \in {"ERROR", "MET", "NOT_MET", "UNKNOWN"}
  BY DEF consensus

\* Both judges have the verdict that is agreed on.
LEMMA ConsensusOfTwo ==
    ASSUME NEW a, NEW b
    PROVE  /\ consensus(<<a, b>>) = "MET" => a = "MET" /\ b = "MET"
           /\ consensus(<<a, b>>) = "NOT_MET" => a = "NOT_MET" /\ b = "NOT_MET"
  <1>1. <<a, b>>[1] = a /\ <<a, b>>[2] = b
    OBVIOUS
  <1> QED BY <1>1 DEF consensus

LEMMA Agreement ==
    ASSUME NEW votes \in JudgeVerdicts \X JudgeVerdicts
    PROVE  /\ consensus(votes) \in {"MET", "NOT_MET", "UNKNOWN"}
           /\ consensus(votes) = "MET" => votes = <<"MET", "MET">>
           /\ consensus(votes) = "NOT_MET" => votes = <<"NOT_MET", "NOT_MET">>
  <1>1. PICK a \in JudgeVerdicts, b \in JudgeVerdicts : votes = <<a, b>>
    OBVIOUS
  <1>2. Len(<<a, b>>) = 2 /\ DOMAIN <<a, b>> = {1, 2}
        /\ <<a, b>>[1] = a /\ <<a, b>>[2] = b
    OBVIOUS
  <1>3. a # "ERROR" /\ b # "ERROR"
    BY DEF JudgeVerdicts
  <1>4. consensus(<<a, b>>) # "ERROR"
    BY <1>2, <1>3 DEF consensus
  <1> QED BY <1>1, <1>4, ConsensusType, ConsensusOfTwo

LEMMA ComputationResult ==
    ASSUME NEW first, NEW second, NEW c, c = verify_computation_inventories(first, second)
    PROVE  /\ c.verdict \in {"MET", "NOT_MET", "UNKNOWN"}
           /\ c.verdict = "MET" => IsExact(c.typed_rule_inputs)
  <1> DEFINE e == Expression(first)
             exact == IsExact(e)
  <1>1. CASE c = [verdict |-> "UNKNOWN", typed_rule_inputs |-> None]
    BY <1>1
  <1>2. CASE c = [verdict |-> IF exact THEN "MET" ELSE "NOT_MET", typed_rule_inputs |-> e]
    <2>1. c.typed_rule_inputs = e /\ c.verdict = IF exact THEN "MET" ELSE "NOT_MET"
      BY <1>2
    <2>2. c.verdict = "MET" => exact
      <3> HIDE DEF exact
      <3> QED BY <2>1
    <2>3. exact => IsExact(c.typed_rule_inputs)
      <3> HIDE DEF e
      <3> QED BY <2>1, Zenon
    <2> HIDE DEF exact, e
    <2> QED BY <2>1, <2>2, <2>3
  <1> HIDE DEF e, exact
  <1>3. \/ c = [verdict |-> "UNKNOWN", typed_rule_inputs |-> None]
        \/ c = [verdict |-> IF exact THEN "MET" ELSE "NOT_MET", typed_rule_inputs |-> e]
    <2> DEFINE apart == \/ {first.coverage, second.coverage} # {"MET"}
                        \/ Expression(first) # Expression(second)
    <2>1. c = IF apart THEN [verdict |-> "UNKNOWN", typed_rule_inputs |-> None]
              ELSE [verdict |-> IF IsExact(Expression(first)) THEN "MET" ELSE "NOT_MET",
                    typed_rule_inputs |-> Expression(first)]
      BY DEF verify_computation_inventories
    <2> HIDE DEF apart
    <2> QED BY <2>1, Zenon DEF exact, e
  <1> QED BY <1>1, <1>2, <1>3

\* Nothing is missing, nothing is there twice or in addition.
Faultless(check) == check.missing \cup check.unexpected \cup check.duplicates = {}

LEMMA CountResult ==
    ASSUME NEW counts
    PROVE  /\ CountCheck(counts).verdict \in {"MET", "NOT_MET"}
           /\ CountCheck(counts).verdict # "NOT_MET" => Faultless(CountCheck(counts))
  <1> DEFINE missing    == {c.scope : c \in {d \in counts : d.reported < d.expected}}
             unexpected == {c.scope : c \in {d \in counts : d.reported > d.expected}}
  <1>1. CountCheck(counts) =
            [verdict |-> IF missing \cup unexpected = {} THEN "MET" ELSE "NOT_MET",
             missing |-> missing, unexpected |-> unexpected, duplicates |-> {}]
    BY DEF CountCheck
  <1> HIDE DEF missing, unexpected
  <1> QED BY <1>1 DEF Faultless

LEMMA MembersResult ==
    ASSUME NEW expected, NEW observed, NEW explicit, NEW c, c # None,
           c = compare_complete_set(expected, observed, explicit)
    PROVE  /\ c.verdict \in {"MET", "NOT_MET"}
           /\ c.verdict # "NOT_MET" => Faultless(c)
  <1> DEFINE missing    == Range(expected) \ Range(observed)
             unexpected == Range(observed) \ Range(expected)
             duplicates == Duplicates(observed)
  <1>1. c = [verdict |-> IF missing \cup unexpected \cup duplicates = {}
                         THEN "MET" ELSE "NOT_MET",
             missing |-> missing, unexpected |-> unexpected, duplicates |-> duplicates]
    BY DEF compare_complete_set
  <1> HIDE DEF missing, unexpected, duplicates
  <1> QED BY <1>1 DEF Faultless

LEMMA SetResult ==
    ASSUME NEW first, NEW second, NEW c, c # None, c = verify_set_inventories(first, second)
    PROVE  /\ c.verdict \in {"MET", "NOT_MET"}
           /\ c.verdict # "NOT_MET" => Faultless(c)
  <1>1. \/ c = CountCheck(first.counts)
        \/ c = compare_complete_set(first.expected_members, first.reported_members,
                                    first.empty_scope_is_explicit)
    BY DEF verify_set_inventories
  <1> QED BY <1>1, CountResult, MembersResult

\* What a check of the controller may be.
IsComputation(check) ==
    /\ check.verdict \in {"MET", "NOT_MET", "UNKNOWN"}
    /\ check.verdict = "MET" => IsExact(check.typed_rule_inputs)

IsSetCheck(check) ==
    /\ check.verdict \in {"MET", "NOT_MET"}
    /\ check.verdict # "NOT_MET" => Faultless(check)

\* Whatever an item's verdict is, it never says more than the two votes.
LEMMA VerdictOfItem ==
    ASSUME NEW template, NEW votes \in JudgeVerdicts \X JudgeVerdicts, NEW coverage,
           NEW computed, NEW set, NEW verdict,
           verdict = ItemVerdict(template, votes, coverage, computed, set),
           set = None \/ IsSetCheck(set),
           template.template_id = "C_COMPUTATION" => IsComputation(computed)
    PROVE  /\ verdict \in {"MET", "NOT_MET", "UNKNOWN", "ERROR"}
           /\ verdict = "MET" =>
                 /\ votes = <<"MET", "MET">>
                 /\ template.template_id = "C_COVERAGE" => coverage = "MET"
                 /\ template.template_id = "C_COMPUTATION" => computed.verdict = "MET"
                 /\ template.template_id = "C_SET_COMPLETE" => set # None /\ Faultless(set)
           /\ verdict = "NOT_MET" =>
                 \/ votes = <<"NOT_MET", "NOT_MET">>
                 \/ template.template_id = "C_COMPUTATION" /\ computed.verdict = "NOT_MET"
                 \/ set # None /\ set.verdict = "NOT_MET"
  <1> DEFINE v == consensus(votes)
             w == consensus(<<v, coverage>>)
  <1>1. /\ v \in {"MET", "NOT_MET", "UNKNOWN"}
        /\ v = "MET" => votes = <<"MET", "MET">>
        /\ v = "NOT_MET" => votes = <<"NOT_MET", "NOT_MET">>
    BY Agreement
  <1>2. /\ w \in {"ERROR", "MET", "NOT_MET", "UNKNOWN"}
        /\ w = "MET" => v = "MET" /\ coverage = "MET"
        /\ w = "NOT_MET" => v = "NOT_MET"
    <2> HIDE DEF v
    <2> QED BY ConsensusType, ConsensusOfTwo
  <1>3. CASE template.template_id = "C_COVERAGE"
    <2>1. verdict = w
      BY <1>3 DEF ItemVerdict
    <2> HIDE DEF v, w
    <2> QED BY <1>1, <1>2, <1>3, <2>1
  <1>4. CASE template.template_id = "C_COMPUTATION"
    <2>1. verdict = IF computed.verdict # "MET" THEN computed.verdict ELSE v
      BY <1>4 DEF ItemVerdict
    <2> HIDE DEF v, w
    <2> QED BY <1>1, <1>4, <2>1 DEF IsComputation
  <1>5. CASE template.template_id = "C_SET_COMPLETE"
    <2>1. verdict = IF set = None THEN IF v = "MET" THEN "UNKNOWN" ELSE v
                    ELSE IF set.verdict = "NOT_MET" THEN "NOT_MET" ELSE v
      BY <1>5 DEF ItemVerdict
    <2> HIDE DEF v, w
    <2> QED BY <1>1, <1>5, <2>1 DEF IsSetCheck
  <1>6. CASE template.template_id \notin {"C_COVERAGE", "C_COMPUTATION", "C_SET_COMPLETE"}
    <2>1. verdict = v
      BY <1>6 DEF ItemVerdict
    <2> HIDE DEF v, w
    <2> QED BY <1>1, <1>6, <2>1
  <1> QED BY <1>3, <1>4, <1>5, <1>6

\* A gate's verdict reaches the rating; the others do not.
LEMMA AggregateOfGates ==
    ASSUME NEW decided,
           \A k \in DOMAIN decided :
               decided[k].verdict \in {"MET", "NOT_MET", "UNKNOWN", "ERROR"}
    PROVE  LET aggregate == aggregate_rating(GateVerdictsOf(decided)) IN
           /\ aggregate \in {"PASS", "FAIL", "ABSTAIN", "ERROR"}
           /\ aggregate = "PASS" =>
                 \A k \in DOMAIN decided :
                     decided[k].template.default_use = "gate" => decided[k].verdict = "MET"
           /\ aggregate = "FAIL" =>
                 \E k \in DOMAIN decided :
                     /\ decided[k].template.default_use = "gate"
                     /\ decided[k].verdict = "NOT_MET"
  <1> DEFINE gates == GateVerdictsOf(decided)
  <1>1. \A k \in DOMAIN decided :
            decided[k].template.default_use = "gate" => decided[k].verdict \in gates
    BY DEF GateVerdictsOf
  <1>2. \A v \in gates : \E k \in DOMAIN decided :
            decided[k].template.default_use = "gate" /\ decided[k].verdict = v
    BY DEF GateVerdictsOf
  <1> HIDE DEF gates
  <1>3. aggregate_rating(gates) \in {"PASS", "FAIL", "ABSTAIN", "ERROR"}
    BY DEF aggregate_rating
  <1>4. aggregate_rating(gates) = "PASS" =>
            {"ERROR", "NOT_MET", "UNKNOWN"} \cap gates = {}
    BY DEF aggregate_rating
  <1>5. aggregate_rating(gates) = "FAIL" => "NOT_MET" \in gates
    BY DEF aggregate_rating
  <1>6. aggregate_rating(gates) = "PASS" =>
            \A k \in DOMAIN decided :
                decided[k].template.default_use = "gate" => decided[k].verdict = "MET"
    BY <1>1, <1>4
  <1>7. aggregate_rating(gates) = "FAIL" =>
            \E k \in DOMAIN decided :
                decided[k].template.default_use = "gate" /\ decided[k].verdict = "NOT_MET"
    BY <1>2, <1>5
  <1> QED BY <1>3, <1>6, <1>7 DEF gates

-----------------------------------------------------------------------------
(***************************************************************************)
(* The inductive invariant, part by part.                                  *)
(***************************************************************************)

\* The steps at which a turn is under review, before and after its claims.
BeforeClaims == {"fit", "requirements", "answer", "claims", "holistic"}

AfterClaim == {"computation", "set", "plan", "items", "aggregate", "repair"}

Reviewing == pc \in BeforeClaims \cup AfterClaim

\* Where each mode and each caller can be.
PlaceOK ==
    /\ caller \in Callers /\ settings \in Settings
    /\ pc \in BeforeClaims \cup AfterClaim \cup Ends \cup {"next", "conclude"}
    /\ pc = "holistic" => ~Detailed
    /\ pc \in AfterClaim \cup {"fit", "requirements", "claims"} => Detailed
    /\ pc \in {"requirements", "answer", "repair"} => caller = "synthesize"
    /\ pc \in {"next", "conclude"} => caller = "rate"

\* A record with the fields of a draft.
DraftFields ==
    {"index", "instruction", "question", "answer", "requirements", "repaired"}

IsDraft(t) == t = [field \in DraftFields |-> t[field]]

TurnOK ==
    Reviewing =>
        /\ IsDraft(turn)
        /\ turn.index = Len(transcript) + 1
        /\ IsFiniteSet(turn.requirements)
        /\ \/ pc \in {"requirements", "answer"} \/ (pc = "fit" /\ caller = "synthesize")
           \/ turn.answer \in Answers
        /\ pc = "repair" => ~turn.repaired

\* What the controller's checks of two extractions can come to.
ComputationOK ==
    \/ computation = None
    \/ \E first, second \in ComputationInventories :
          computation = verify_computation_inventories(first, second)

SetCheckOK ==
    \/ set_check = None
    \/ \E first, second \in SetInventories :
          set_check = verify_set_inventories(first, second)

\* What is found out step by step, all of it about the answer under review.
FoundOK ==
    /\ pc \in BeforeClaims \cup {"next"} =>
          inventories = <<>> /\ items = <<>> /\ computation = None /\ set_check = None
    /\ pc \in {"computation", "set", "plan"} => items = <<>>
    /\ pc \in AfterClaim =>
          \E first, second \in ClaimInventories[turn.answer] :
              inventories = <<first, second>>
    /\ Reviewing /\ Detailed /\ pc # "fit" => fits = <<"MET", "MET">>
    /\ pc = "set" => turn.instruction.family = "visible_count"
    /\ pc \in {"plan", "items", "aggregate", "repair"}
             /\ turn.instruction.family = "grounded_calculation"
          => computation # None
    /\ ComputationOK /\ SetCheckOK

\* An item answers a question of the plan.
Decides(item, q) == item.template = q.template /\ item.subject = q.subject

ItemOK(item) ==
    /\ \E q \in Range(Plan(Context)) : Decides(item, q)
    /\ item.about = turn.answer
    /\ item.votes \in Ballots
    /\ item.verdict = ItemVerdict(item.template, item.votes, Coverage, computation, set_check)

\* Every planned question is decided or still to be asked, and no other.
AsksOK ==
    /\ (pc = "items") = (asks # <<>>)
    /\ pc = "items" => asks \in Seq(Range(Plan(Context)))
    /\ pc \in {"items", "aggregate", "repair"} =>
          /\ items \in Seq(Range(items))
          /\ \A k \in DOMAIN items : ItemOK(items[k])
          /\ \A q \in Range(Plan(Context)) :
                q \in Range(asks) \/ \E k \in DOMAIN items : Decides(items[k], q)
    /\ pc = "repair" => aggregate_rating(GateVerdictsOf(items)) = "FAIL"

\* What every turn that has a status is worth.
TurnSound(t) ==
    /\ t.status \in TurnStatuses
    /\ IsOfItsAnswer(t)
    /\ t.status = "REJECTED" => Refuted(t)
    /\ t.status = "COMMITTED" => HasGrounds(t)

RatedOK ==
    /\ rated \in Seq(Range(rated))
    /\ \A i \in DOMAIN rated : TurnSound(rated[i])

\* The public text of the first n rated turns.
Told(n) == [k \in 1 .. n |-> Text(rated[k])]

\* One turn of synthesize_image, on a history the store has.
SynthesizeOK ==
    caller = "synthesize" =>
        /\ Len(rated) <= 1
        /\ Reviewing => rated = <<>> /\ transcript \in Histories

\* The loop of rate_existing: the rated turns are a prefix of the stored ones.
RateOK ==
    caller = "rate" =>
        /\ stored \in Stored
        /\ Len(rated) <= Len(stored)
        /\ \A i \in DOMAIN rated :
              /\ Text(rated[i]) = Text(stored[i])
              /\ rated[i].history = Told(i - 1)
              /\ i < Len(rated) => rated[i].status = "COMMITTED"
        /\ GoesOn(rated) /\ (Reviewing \/ pc = "next") => transcript = Told(Len(rated))
        /\ Reviewing =>
              /\ GoesOn(rated)
              /\ Len(rated) < Len(stored)
              /\ Text(turn) = Text(stored[Len(rated) + 1])
        /\ pc = "conclude" => ~(Len(rated) < Len(stored) /\ GoesOn(rated))

OutcomeOK ==
    /\ outcome = None \/ outcome.status \in TurnStatuses \cup {"QUALITY_CANDIDATE"}
    /\ ReratedSound

ReviewInv ==
    /\ PlaceOK /\ TurnOK /\ FoundOK /\ AsksOK /\ RatedOK /\ SynthesizeOK /\ RateOK /\ OutcomeOK
-----------------------------------------------------------------------------
(***************************************************************************)
(* What a status says of the turn that gets it.                            *)
(***************************************************************************)

LEMMA RatedFields ==
    ASSUME NEW aggregate, NEW votes, NEW decided
    PROVE  LET t == Rated(aggregate, votes, decided) IN
           /\ t.index = turn.index /\ t.instruction = turn.instruction
           /\ t.question = turn.question /\ t.answer = turn.answer
           /\ t.requirements = turn.requirements /\ t.history = transcript
           /\ t.fits = votes /\ t.inventories = inventories
           /\ t.computation = computation /\ t.set_check = set_check
           /\ t.items = decided /\ t.status = TurnStatus(aggregate)
  BY DEF Rated

LEMMA StatusOf ==
    ASSUME NEW aggregate
    PROVE  /\ TurnStatus(aggregate) \in TurnStatuses
           /\ TurnStatus(aggregate) = "COMMITTED" => aggregate = "PASS"
           /\ TurnStatus(aggregate) = "REJECTED" => aggregate = "FAIL"
  BY DEF TurnStatus, TurnStatuses

\* What both judges found of the answer, claim by claim.
LEMMA FoundClaims ==
    ASSUME ReviewInv, pc \in AfterClaim
    PROVE  /\ inventories = <<inventories[1], inventories[2]>>
           /\ inventories[1] \in ClaimInventories[turn.answer]
           /\ inventories[2] \in ClaimInventories[turn.answer]
           /\ turn.answer \in Answers
           /\ ClaimUnion \subseteq Claims /\ IsFiniteSet(ClaimUnion)
           /\ \A c \in ClaimUnion : c.answer = turn.answer
           /\ \A c \in inventories[1].claims : c \in ClaimUnion
           /\ \A c \in inventories[2].claims : c \in ClaimUnion
  <1>1. turn.answer \in Answers
    BY DEF ReviewInv, TurnOK, Reviewing, AfterClaim
  <1>2. \E first, second \in ClaimInventories[turn.answer] : inventories = <<first, second>>
    BY DEF ReviewInv, FoundOK
  <1>3. PICK first \in ClaimInventories[turn.answer], second \in ClaimInventories[turn.answer] :
            inventories = <<first, second>>
    BY <1>2
  <1>4. /\ first.claims \in SUBSET Claims /\ IsFiniteSet(first.claims)
        /\ second.claims \in SUBSET Claims /\ IsFiniteSet(second.claims)
        /\ \A c \in first.claims \cup second.claims : c.answer = turn.answer
    BY <1>1, JudgesAssumption
  <1>5. ClaimUnion = first.claims \cup second.claims
    BY <1>3 DEF ClaimUnion
  <1>6. IsFiniteSet(ClaimUnion)
    BY <1>4, <1>5, FS_Union
  <1> QED BY <1>1, <1>3, <1>4, <1>5, <1>6

LEMMA ContextOfTurn ==
    ASSUME ReviewInv, pc \in AfterClaim
    PROVE  /\ IsContext(Context)
           /\ Context.claims = ClaimUnion /\ Context.requirements = turn.requirements
           /\ Context.computed = (computation # None)
           /\ Context.exhaustive = (turn.instruction.family = "visible_count")
  <1> DEFINE history == {r \in turn.requirements : r.source # turn.index}
             computed == computation # None
             exhaustive == turn.instruction.family = "visible_count"
  <1>1. /\ Context.claims = ClaimUnion /\ Context.requirements = turn.requirements
        /\ Context.history_binding = history /\ Context.computed = computed
        /\ Context.exhaustive = exhaustive
    <2> DEFINE prose == turn.answer \in Prose
    <2>1. Context = RubricContext(turn.index, turn.instruction.profile, prose,
                                  turn.requirements, ClaimUnion, computed, history, exhaustive)
      BY DEF Context
    <2> HIDE DEF prose, computed, history, exhaustive
    <2> QED BY <2>1 DEF RubricContext
  <1>2. IsFiniteSet(turn.requirements)
    BY DEF ReviewInv, TurnOK, Reviewing
  <1>3. IsFiniteSet(history)
    <2>1. history \subseteq turn.requirements
      OBVIOUS
    <2> HIDE DEF history
    <2> QED BY <1>2, <2>1, FS_Subset
  <1>4. IsFiniteSet(ClaimUnion)
    BY FoundClaims
  <1> QED BY <1>1, <1>2, <1>3, <1>4 DEF IsContext

LEMMA ChecksOfTurn ==
    ASSUME ReviewInv
    PROVE  /\ computation = None \/ IsComputation(computation)
           /\ set_check = None \/ IsSetCheck(set_check)
  <1>1. computation = None \/ IsComputation(computation)
    BY ComputationResult DEF ReviewInv, FoundOK, ComputationOK, IsComputation
  <1>2. set_check = None \/ IsSetCheck(set_check)
    BY SetResult DEF ReviewInv, FoundOK, SetCheckOK, IsSetCheck
  <1> QED BY <1>1, <1>2

\* An item that was decided, by what its verdict says.
LEMMA DecidedItem ==
    ASSUME ReviewInv, pc \in {"items", "aggregate", "repair"}, NEW k \in DOMAIN items
    PROVE  /\ items[k].verdict \in {"MET", "NOT_MET", "UNKNOWN", "ERROR"}
           /\ items[k].verdict = "MET" =>
                 /\ items[k].votes = <<"MET", "MET">>
                 /\ items[k].template.template_id = "C_COVERAGE" => Coverage = "MET"
                 /\ items[k].template.template_id = "C_COMPUTATION" => computation.verdict = "MET"
                 /\ items[k].template.template_id = "C_SET_COMPLETE" =>
                       set_check # None /\ Faultless(set_check)
           /\ items[k].verdict = "NOT_MET" =>
                 \/ items[k].votes = <<"NOT_MET", "NOT_MET">>
                 \/ computation # None /\ computation.verdict = "NOT_MET"
                 \/ set_check # None /\ set_check.verdict = "NOT_MET"
           /\ items[k].about = turn.answer
           /\ items[k].template.template_id = "C_CLAIM" => items[k].subject \in ClaimUnion
  <1> DEFINE item == items[k]
  <1>1. ItemOK(item)
    BY DEF ReviewInv, AsksOK
  <1> HIDE DEF item
  <1>2. PICK q \in Range(Plan(Context)) : Decides(item, q)
    BY <1>1 DEF ItemOK
  <1>3. item.template = q.template /\ item.subject = q.subject
    BY <1>2 DEF Decides
  <1>4. /\ IsContext(Context) /\ Context.computed = (computation # None)
        /\ Context.claims = ClaimUnion
    BY ContextOfTurn DEF AfterClaim
  <1>5. item.template.template_id = "C_COMPUTATION" => computation # None
    <2> SUFFICES ASSUME q.template.template_id = "C_COMPUTATION" PROVE computation # None
      BY <1>3
    <2>1. Applies("has_computation", Context)
      BY <1>4, CatalogAssumption, OnlyGateAsks
    <2> QED BY <1>4, <2>1 DEF Applies
  <1>6. item.template.template_id = "C_CLAIM" => item.subject \in ClaimUnion
    <2> SUFFICES ASSUME q.template.template_id = "C_CLAIM" PROVE q.subject \in ClaimUnion
      BY <1>3
    <2>1. /\ q.subject \in Subjects(q.template, Context)
          /\ q.template.applies_when = "each_factual_claim"
      BY <1>4, CatalogAssumption, OnlyGateAsks
    <2>2. Subjects(q.template, Context) = ClaimUnion
      BY <1>4, <2>1 DEF Subjects
    <2> QED BY <2>1, <2>2
  <1>7. item.votes \in JudgeVerdicts \X JudgeVerdicts
    BY <1>1, JudgesAssumption DEF ItemOK
  <1>8. item.verdict = ItemVerdict(item.template, item.votes, Coverage, computation, set_check)
    BY <1>1 DEF ItemOK
  <1>9. set_check = None \/ IsSetCheck(set_check)
    BY ChecksOfTurn
  <1>10. item.template.template_id = "C_COMPUTATION" => IsComputation(computation)
    BY <1>5, ChecksOfTurn
  <1>11. /\ item.verdict \in {"MET", "NOT_MET", "UNKNOWN", "ERROR"}
         /\ item.verdict = "MET" =>
               /\ item.votes = <<"MET", "MET">>
               /\ item.template.template_id = "C_COVERAGE" => Coverage = "MET"
               /\ item.template.template_id = "C_COMPUTATION" => computation.verdict = "MET"
               /\ item.template.template_id = "C_SET_COMPLETE" =>
                     set_check # None /\ Faultless(set_check)
         /\ item.verdict = "NOT_MET" =>
               \/ item.votes = <<"NOT_MET", "NOT_MET">>
               \/ item.template.template_id = "C_COMPUTATION" /\ computation.verdict = "NOT_MET"
               \/ set_check # None /\ set_check.verdict = "NOT_MET"
    BY <1>7, <1>8, <1>9, <1>10, VerdictOfItem
  <1>12. item.about = turn.answer
    BY <1>1 DEF ItemOK
  <1> QED BY <1>5, <1>6, <1>11, <1>12 DEF item

\* Both judges and the controller say yes.
Passed(id, x) ==
    \E k \in DOMAIN items :
        /\ items[k].template.template_id = id /\ items[k].subject = x
        /\ items[k].verdict = "MET" /\ items[k].votes = <<"MET", "MET">>

\* When all gates have passed, so has the named item for each of its subjects.
LEMMA GatePassed ==
    ASSUME ReviewInv, pc \in {"aggregate", "repair"},
           aggregate_rating(GateVerdictsOf(items)) = "PASS",
           NEW id, NEW predicate, IsGate(id, predicate), Applies(predicate, Context),
           NEW T, NEW x \in T, SubjectsAre(predicate, Context, T)
    PROVE  Passed(id, x)
  <1>1. IsContext(Context)
    BY ContextOfTurn DEF AfterClaim
  <1>2. PICK q \in Range(Plan(Context)) :
            /\ q.template.template_id = id /\ q.template.default_use = "gate"
            /\ q.subject = x
    BY <1>1, GateIsAsked
  <1>3. asks = <<>>
    BY DEF ReviewInv, AsksOK
  <1>4. q \notin Range(asks)
    <2>1. DOMAIN asks = {}
      BY <1>3
    <2> QED BY <2>1 DEF Range
  <1>5. PICK k \in DOMAIN items : Decides(items[k], q)
    BY <1>2, <1>4 DEF ReviewInv, AsksOK
  <1>6. items[k].template = q.template /\ items[k].subject = q.subject
    BY <1>5 DEF Decides
  <1>7. \A j \in DOMAIN items : items[j].verdict \in {"MET", "NOT_MET", "UNKNOWN", "ERROR"}
    BY DecidedItem
  <1>8. items[k].verdict = "MET"
    BY <1>2, <1>6, <1>7, AggregateOfGates
  <1>9. items[k].votes = <<"MET", "MET">>
    BY <1>8, DecidedItem
  <1> QED BY <1>2, <1>6, <1>8, <1>9 DEF Passed

\* What passing all gates says of a turn, judge by judge.
LEMMA PassHasGrounds ==
    ASSUME ReviewInv, pc \in {"aggregate", "repair"}, NEW t,
           t = Rated("PASS", fits, items),
           aggregate_rating(GateVerdictsOf(items)) = "PASS"
    PROVE  HasGrounds(t)
  <1>1. Detailed /\ fits = <<"MET", "MET">>
    BY DEF ReviewInv, PlaceOK, FoundOK, Reviewing, AfterClaim
  <1>2. /\ t.fits = fits /\ t.inventories = inventories /\ t.requirements = turn.requirements
        /\ t.instruction = turn.instruction /\ t.computation = computation
        /\ t.set_check = set_check /\ t.items = items
    BY RatedFields
  <1>3. /\ Context.claims = ClaimUnion /\ Context.requirements = turn.requirements
        /\ Context.computed = (computation # None)
        /\ Context.exhaustive = (turn.instruction.family = "visible_count")
    BY ContextOfTurn DEF AfterClaim
  <1>4. /\ inventories = <<inventories[1], inventories[2]>>
        /\ \A c \in inventories[1].claims : c \in ClaimUnion
        /\ \A c \in inventories[2].claims : c \in ClaimUnion
    BY FoundClaims DEF AfterClaim
  <1>5. ASSUME NEW id, NEW predicate \in {"always", "has_computation", "exhaustive_request"},
               IsGate(id, predicate), Applies(predicate, Context)
        PROVE  Passed(id, Singleton)
    <2>1. SubjectsAre(predicate, Context, {Singleton})
      BY <1>5 DEF Subjects, SubjectsAre
    <2>2. Singleton \in {Singleton}
      OBVIOUS
    <2> QED BY <1>5, <2>1, <2>2, GatePassed
  <1>6. ASSUME NEW id, NEW x, Passed(id, x) PROVE BothMet(t, id, x)
    BY <1>2, <1>6 DEF Passed, BothMet
  <1>7. Passed("R_CORE", Singleton) /\ Passed("C_COVERAGE", Singleton)
    <2>1. IsGate("R_CORE", "always") /\ IsGate("C_COVERAGE", "always")
      BY CatalogAssumption
    <2>2. Applies("always", Context)
      BY DEF Applies
    <2> QED BY <1>5, <2>1, <2>2
  <1>8. inventories[1].coverage = "MET" /\ inventories[2].coverage = "MET"
    <2>1. Coverage = "MET"
      BY <1>7, DecidedItem DEF Passed
    <2> QED BY <2>1, ConsensusOfTwo DEF Coverage
  <1>9. ASSUME NEW c \in ClaimUnion PROVE BothMet(t, "C_CLAIM", c)
    <2>1. SubjectsAre("each_factual_claim", Context, ClaimUnion)
      BY <1>3 DEF Subjects, SubjectsAre
    <2>2. Applies("each_factual_claim", Context)
      BY <1>3, <1>9 DEF Applies
    <2>3. IsGate("C_CLAIM", "each_factual_claim")
      BY CatalogAssumption
    <2>4. Passed("C_CLAIM", c)
      BY <1>9, <2>1, <2>2, <2>3, GatePassed
    <2> QED BY <1>6, <2>4
  <1>10. ASSUME NEW r \in turn.requirements PROVE BothMet(t, "R_REQUIREMENT", r)
    <2>1. SubjectsAre("each_public_requirement", Context, turn.requirements)
      BY <1>3 DEF Subjects, SubjectsAre
    <2>2. Applies("each_public_requirement", Context)
      BY <1>3, <1>10 DEF Applies
    <2>3. IsGate("R_REQUIREMENT", "each_public_requirement")
      BY CatalogAssumption
    <2>4. Passed("R_REQUIREMENT", r)
      BY <1>10, <2>1, <2>2, <2>3, GatePassed
    <2> QED BY <1>6, <2>4
  <1>11. ASSUME turn.instruction.family = "grounded_calculation"
         PROVE  IsExact(computation.typed_rule_inputs)
    <2>1. computation # None
      BY <1>11 DEF ReviewInv, FoundOK
    <2>2. Applies("has_computation", Context)
      BY <1>3, <2>1 DEF Applies
    <2>3. IsGate("C_COMPUTATION", "has_computation")
      BY CatalogAssumption
    <2>4. computation.verdict = "MET"
      BY <1>5, <2>2, <2>3, DecidedItem DEF Passed
    <2> QED BY <2>1, <2>4, ChecksOfTurn DEF IsComputation
  <1>12. ASSUME turn.instruction.family = "visible_count"
         PROVE  BothMet(t, "C_SET_COMPLETE", Singleton) /\ set_check # None /\ Faultless(set_check)
    <2>1. Applies("exhaustive_request", Context)
      BY <1>3, <1>12 DEF Applies
    <2>2. IsGate("C_SET_COMPLETE", "exhaustive_request")
      BY CatalogAssumption
    <2>3. Passed("C_SET_COMPLETE", Singleton)
      BY <1>5, <2>1, <2>2
    <2>4. set_check # None /\ Faultless(set_check)
      BY <2>3, DecidedItem DEF Passed
    <2> QED BY <1>6, <2>3, <2>4
  <1>13. \A judge \in 1 .. 2 :
            /\ \A c \in inventories[judge].claims : BothMet(t, "C_CLAIM", c)
            /\ inventories[judge].coverage = "MET"
    <2> TAKE judge \in 1 .. 2
    <2>1. judge = 1 \/ judge = 2
      OBVIOUS
    <2> QED BY <1>4, <1>8, <1>9, <2>1
  <1>14. BothMet(t, "R_CORE", Singleton) /\ BothMet(t, "C_COVERAGE", Singleton)
    BY <1>6, <1>7
  <1> QED BY <1>1, <1>2, <1>10, <1>11, <1>12, <1>13, <1>14 DEF HasGrounds, Faultless

\* What was found and voted on is about the answer under review.
LEMMA RatedIsOfItsAnswer ==
    ASSUME ReviewInv, pc \in {"aggregate", "repair"}, NEW aggregate
    PROVE  IsOfItsAnswer(Rated(aggregate, fits, items))
  <1> DEFINE t == Rated(aggregate, fits, items)
  <1>1. t.answer = turn.answer /\ t.inventories = inventories /\ t.items = items
    BY RatedFields
  <1> HIDE DEF t
  <1>2. \A c \in ClaimUnion : c.answer = turn.answer
    BY FoundClaims DEF AfterClaim
  <1>3. \A k \in DOMAIN items :
            /\ items[k].about = turn.answer
            /\ items[k].template.template_id = "C_CLAIM" =>
                  items[k].subject.answer = turn.answer
    BY <1>2, DecidedItem
  <1>4. \A judge \in DOMAIN inventories :
            \A c \in inventories[judge].claims : c.answer = turn.answer
    <2>1. /\ inventories = <<inventories[1], inventories[2]>>
          /\ \A c \in inventories[1].claims : c \in ClaimUnion
          /\ \A c \in inventories[2].claims : c \in ClaimUnion
      BY FoundClaims DEF AfterClaim
    <2>2. \A judge \in DOMAIN inventories : judge = 1 \/ judge = 2
      <3>1. DOMAIN <<inventories[1], inventories[2]>> = 1 .. 2
        OBVIOUS
      <3> QED BY <2>1, <3>1
    <2> QED BY <1>2, <2>1, <2>2
  <1>5. IsOfItsAnswer(t)
    BY <1>1, <1>3, <1>4 DEF IsOfItsAnswer
  <1> QED BY <1>5 DEF t

\* A failed rating has a gate that both judges or an exact check refused.
LEMMA FailIsRefuted ==
    ASSUME ReviewInv, pc \in {"aggregate", "repair"}, NEW aggregate,
           aggregate_rating(GateVerdictsOf(items)) = "FAIL"
    PROVE  Refuted(Rated(aggregate, fits, items))
  <1> DEFINE t == Rated(aggregate, fits, items)
  <1>1. t.computation = computation /\ t.set_check = set_check /\ t.items = items
    BY RatedFields
  <1> HIDE DEF t
  <1>2. \A k \in DOMAIN items : items[k].verdict \in {"MET", "NOT_MET", "UNKNOWN", "ERROR"}
    BY DecidedItem
  <1>3. PICK k \in DOMAIN items :
            items[k].template.default_use = "gate" /\ items[k].verdict = "NOT_MET"
    BY <1>2, AggregateOfGates
  <1>4. \/ items[k].votes = <<"NOT_MET", "NOT_MET">>
        \/ computation # None /\ computation.verdict = "NOT_MET"
        \/ set_check # None /\ set_check.verdict = "NOT_MET"
    BY <1>3, DecidedItem
  <1>5. Refuted(t)
    BY <1>1, <1>3, <1>4 DEF Refuted
  <1> QED BY <1>5 DEF t

LEMMA RatedTurnSound ==
    ASSUME ReviewInv, pc \in {"aggregate", "repair"}, NEW aggregate,
           aggregate = aggregate_rating(GateVerdictsOf(items))
    PROVE  TurnSound(Rated(aggregate, fits, items))
  <1> DEFINE t == Rated(aggregate, fits, items)
  <1>1. t.status = TurnStatus(aggregate)
    BY RatedFields
  <1>2. IsOfItsAnswer(t)
    BY RatedIsOfItsAnswer
  <1>3. ASSUME t.status = "REJECTED" PROVE Refuted(t)
    BY <1>1, <1>3, StatusOf, FailIsRefuted
  <1>4. ASSUME t.status = "COMMITTED" PROVE HasGrounds(t)
    <2>1. aggregate = "PASS"
      BY <1>1, <1>4, StatusOf
    <2> QED BY <2>1, PassHasGrounds
  <1> HIDE DEF t
  <1>5. TurnSound(t)
    BY <1>1, <1>2, <1>3, <1>4, StatusOf DEF TurnSound
  <1> QED BY <1>5 DEF t

-----------------------------------------------------------------------------
(***************************************************************************)
(* A turn gets its status.                                                 *)
(***************************************************************************)

\* A turn ends with a status it deserves.
EndsSoundly ==
    \E aggregate, votes, decided :
        /\ EndTurn(aggregate, votes, decided)
        /\ TurnSound(Rated(aggregate, votes, decided))

LEMMA StepsApart ==
    /\ Ends = {"done", "raised"}
    /\ \A step \in BeforeClaims \cup AfterClaim :
          step \notin {"done", "raised", "next", "conclude"}
  BY DEF Ends, BeforeClaims, AfterClaim

LEMMA CallersAre == \A c \in Callers : c = "synthesize" \/ c = "rate"
  BY ConversationsAssumption

\* What is left behind when a turn has its status.
EndFrame ==
    /\ caller' = caller /\ settings' = settings /\ stored' = stored /\ stops' = stops
    /\ turn' = None /\ fits' = <<>> /\ inventories' = <<>>
    /\ computation' = None /\ set_check' = None /\ asks' = <<>> /\ items' = <<>>
    /\ \/ caller = "synthesize" /\ pc' = "done" /\ outcome'.status \in TurnStatuses
       \/ caller = "rate" /\ pc' = "next" /\ outcome' = outcome

LEMMA EndTurnFrame ==
    ASSUME ReviewInv, EndsSoundly
    PROVE  EndFrame
  <1>1. PICK aggregate, votes, decided : EndTurn(aggregate, votes, decided)
    BY DEF EndsSoundly
  <1>2. caller = "synthesize" \/ caller = "rate"
    BY CallersAre DEF ReviewInv, PlaceOK
  <1>3. caller = "synthesize" =>
            outcome' = [turns |-> rated', status |-> TurnStatus(aggregate)]
    BY <1>1 DEF EndTurn
  <1>4. caller = "synthesize" => outcome'.status \in TurnStatuses
    BY <1>3, StatusOf
  <1> QED BY <1>1, <1>2, <1>4 DEF EndTurn, Forget, EndFrame

LEMMA EndTurnRated ==
    ASSUME ReviewInv, EndsSoundly
    PROVE  RatedOK'
  <1>1. PICK aggregate, votes, decided :
            /\ EndTurn(aggregate, votes, decided)
            /\ TurnSound(Rated(aggregate, votes, decided))
    BY DEF EndsSoundly
  <1> DEFINE r == Rated(aggregate, votes, decided)
  <1>2. rated' = Append(rated, r) /\ TurnSound(r)
    BY <1>1 DEF EndTurn
  <1> HIDE DEF r
  <1>3. rated \in Seq(Range(rated)) /\ \A i \in DOMAIN rated : TurnSound(rated[i])
    BY DEF ReviewInv, RatedOK
  <1>4. /\ rated' \in Seq(Range(rated'))
        /\ DOMAIN rated' = 1 .. Len(rated) + 1 /\ DOMAIN rated = 1 .. Len(rated)
        /\ Len(rated) \in Nat
        /\ rated'[Len(rated) + 1] = r /\ \A i \in 1 .. Len(rated) : rated'[i] = rated[i]
    BY <1>2, <1>3, AppendedOne
  <1>5. ASSUME NEW i \in DOMAIN rated' PROVE TurnSound(rated[i])'
    <2>1. \/ i \in DOMAIN rated /\ rated'[i] = rated[i]
          \/ rated'[i] = r
      BY <1>4
    <2>2. PICK t : rated'[i] = t /\ TurnSound(t)
      BY <1>2, <1>3, <2>1
    <2>3. settings' = settings
      BY EndTurnFrame DEF EndFrame
    <2> QED BY <2>2, <2>3 DEF TurnSound, HasGrounds, Detailed
  <1> QED BY <1>4, <1>5 DEF RatedOK

\* How the loop of rate_existing comes to its next turn.
LEMMA EndTurnRate ==
    ASSUME ReviewInv, Reviewing, EndsSoundly
    PROVE  RateOK'
  <1> SUFFICES ASSUME caller' = "rate" PROVE RateOK'
    BY DEF RateOK
  <1>1. PICK aggregate, votes, decided :
            /\ EndTurn(aggregate, votes, decided)
            /\ TurnSound(Rated(aggregate, votes, decided))
    BY DEF EndsSoundly
  <1>0. PICK n \in Nat : n = Len(rated)
    BY AppendedOne DEF ReviewInv, RatedOK
  <1> DEFINE r == Rated(aggregate, votes, decided)
  <1>2. /\ rated' = Append(rated, r)
        /\ transcript' = IF r.status = "COMMITTED"
                         THEN Append(transcript, <<turn.question, turn.answer>>)
                         ELSE transcript
    BY <1>1, RatedFields DEF EndTurn
  <1>3. r.history = transcript /\ Text(r) = Text(turn)
    BY RatedFields DEF Text
  <1> HIDE DEF r
  <1>4. /\ caller = "rate" /\ pc' = "next" /\ stored' = stored
    BY EndTurnFrame DEF EndFrame
  <1>5. /\ stored \in Stored /\ n < Len(stored) /\ GoesOn(rated)
        /\ Text(turn) = Text(stored[n + 1])
        /\ transcript = Told(n)
        /\ \A i \in DOMAIN rated :
              /\ Text(rated[i]) = Text(stored[i])
              /\ rated[i].history = Told(i - 1)
              /\ i < n => rated[i].status = "COMMITTED"
    BY <1>0, <1>4 DEF ReviewInv, RateOK
  <1>6. /\ DOMAIN rated' = 1 .. n + 1 /\ DOMAIN rated = 1 .. n /\ Len(rated') = n + 1
        /\ n \in Nat /\ rated'[n + 1] = r /\ \A i \in 1 .. n : rated'[i] = rated[i]
    BY <1>2, <1>0, AppendedOne DEF ReviewInv, RatedOK
  <1>7. Len(stored) \in Nat
    BY <1>5, ConversationsAssumption
  <1>8. \A i \in 1 .. n : rated[i].status = "COMMITTED"
    <2> TAKE i \in 1 .. n
    <2>1. CASE i < n
      BY <1>5, <1>6, <2>1
    <2>2. CASE i = n
      <3>1. rated # <<>>
        BY <1>6, <2>2
      <3>2. Last(rated) = rated[n]
        BY <1>0 DEF Last
      <3> QED BY <1>5, <2>2, <3>1, <3>2 DEF GoesOn
    <2> QED BY <1>6, <2>1, <2>2
  <1>9. ASSUME NEW m \in 0 .. n PROVE Told(m)' = Told(m)
    <2>1. \A k \in 1 .. m : rated'[k] = rated[k]
      BY <1>6
    <2>2. \A k \in 1 .. m : Text(rated[k])' = Text(rated[k])
      BY <2>1 DEF Text
    <2> QED BY <2>2 DEF Told
  <1>10. ASSUME NEW i \in DOMAIN rated'
         PROVE  /\ Text(rated[i])' = Text(stored[i])
                /\ rated'[i].history = Told(i - 1)'
                /\ i < n + 1 => rated'[i].status = "COMMITTED"
    <2>1. CASE i \in 1 .. n
      <3>1. rated'[i] = rated[i] /\ i - 1 \in 0 .. n
        BY <1>6, <2>1
      <3>2. Told(i - 1)' = Told(i - 1)
        BY <1>9, <3>1
      <3>3. Text(rated[i])' = Text(rated[i])
        BY <3>1 DEF Text
      <3> QED BY <1>5, <1>6, <1>8, <2>1, <3>1, <3>2, <3>3
    <2>2. CASE i = n + 1
      <3>1. rated'[i] = r /\ i - 1 = n /\ ~(i < n + 1) /\ n \in 0 .. n
        BY <1>6, <2>2
      <3>2. Told(n)' = Told(n)
        BY <1>9, <3>1
      <3>3. Text(rated[i])' = Text(turn)
        BY <1>3, <3>1 DEF Text
      <3> QED BY <1>3, <1>5, <2>2, <3>1, <3>2, <3>3
    <2> QED BY <1>6, <2>1, <2>2
  <1>11. GoesOn(rated') => transcript' = Told(n + 1)'
    <2> SUFFICES ASSUME GoesOn(rated') PROVE transcript' = Told(n + 1)'
      OBVIOUS
    <2>1. r.status = "COMMITTED"
      <3>1. rated' # <<>>
        BY <1>6
      <3>2. Last(rated') = r
        BY <1>6 DEF Last
      <3> QED BY <3>1, <3>2 DEF GoesOn
    <2>2. transcript' = Append(Told(n), Text(turn))
      BY <1>2, <1>5, <2>1 DEF Text
    <2> DEFINE old == [k \in 1 .. n |-> Text(rated[k])]
    <2>3. Append(old, Text(turn)) =
              [k \in 1 .. n + 1 |-> IF k = n + 1 THEN Text(turn) ELSE Text(rated[k])]
      <3>1. Len(old) = n /\ \A k \in 1 .. n : old[k] = Text(rated[k])
        BY <1>6
      <3>2. Append(old, Text(turn)) =
                [k \in 1 .. Len(old) + 1 |-> IF k = Len(old) + 1 THEN Text(turn) ELSE old[k]]
        <4>1. old \in Seq(Range(old))
          BY <1>6 DEF Range
        <4> DEFINE e == Text(turn)
                   a == Append(old, e)
        <4>2. /\ DOMAIN a = 1 .. Len(old) + 1 /\ a[Len(old) + 1] = e
              /\ \A i \in 1 .. Len(old) : a[i] = old[i]
              /\ a \in Seq(Range(a))
          <5> HIDE DEF old, e
          <5> QED BY <4>1, AppendedOne
        <4>3. a = [k \in 1 .. Len(old) + 1 |-> a[k]]
          <5> HIDE DEF old, a
          <5>1. a = [k \in DOMAIN a |-> a[k]]
            BY <4>2
          <5> QED BY <4>2, <5>1
        <4> HIDE DEF old, e, a
        <4>4. \A k \in 1 .. Len(old) + 1 : a[k] = IF k = Len(old) + 1 THEN e ELSE old[k]
          BY <1>6, <3>1, <4>2
        <4>5. a = [k \in 1 .. Len(old) + 1 |-> IF k = Len(old) + 1 THEN e ELSE old[k]]
          BY <4>3, <4>4
        <4> QED BY <4>5 DEF a, e
      <3> HIDE DEF old
      <3> QED BY <1>6, <3>1, <3>2
    <2>4. Told(n + 1)' =
              [k \in 1 .. n + 1 |-> IF k = n + 1 THEN Text(turn) ELSE Text(rated[k])]
      <3>1. \A k \in 1 .. n + 1 :
                Text(rated[k])' = IF k = n + 1 THEN Text(turn) ELSE Text(rated[k])
        <4> TAKE k \in 1 .. n + 1
        <4>1. CASE k = n + 1
          BY <1>3, <1>6, <4>1 DEF Text
        <4>2. CASE k # n + 1
          BY <1>6, <4>2 DEF Text
        <4> QED BY <4>1, <4>2
      <3> QED BY <3>1 DEF Told
    <2> QED BY <2>2, <2>3, <2>4 DEF Told
  <1>12. ~Reviewing'
    BY <1>4, StepsApart DEF Reviewing
  <1>13. Len(rated') <= Len(stored')
    BY <1>4, <1>5, <1>6, <1>7
  <1>14. \A i \in DOMAIN rated' :
             /\ Text(rated[i])' = Text(stored[i])'
             /\ rated'[i].history = Told(i - 1)'
             /\ i < Len(rated') => rated'[i].status = "COMMITTED"
    BY <1>4, <1>6, <1>10 DEF Text
  <1>15. GoesOn(rated') => transcript' = Told(Len(rated))'
    BY <1>6, <1>11 DEF Told
  <1> QED BY <1>4, <1>5, <1>12, <1>13, <1>14, <1>15 DEF RateOK

LEMMA EndTurnKeeps ==
    ASSUME ReviewInv, Reviewing, EndsSoundly
    PROVE  ReviewInv'
  <1>1. EndFrame
    BY EndTurnFrame
  <1>2. pc' \in {"done", "next"} /\ ~Reviewing' /\ pc' \notin AfterClaim \cup BeforeClaims
    BY <1>1, StepsApart DEF EndFrame, Reviewing
  <1>3. PlaceOK'
    BY <1>1, <1>2, StepsApart DEF ReviewInv, PlaceOK, EndFrame, AfterClaim, BeforeClaims, Detailed
  <1>4. TurnOK'
    BY <1>2 DEF TurnOK
  <1>5. FoundOK'
    BY <1>1, <1>2 DEF FoundOK, EndFrame, ComputationOK, SetCheckOK
  <1>6. AsksOK'
    BY <1>1, <1>2 DEF AsksOK, EndFrame
  <1>7. SynthesizeOK'
    <2> SUFFICES ASSUME caller = "synthesize" PROVE Len(rated') <= 1
      BY <1>1, <1>2 DEF SynthesizeOK, EndFrame
    <2>1. rated = <<>>
      BY DEF ReviewInv, SynthesizeOK
    <2>2. PICK r : rated' = Append(rated, r)
      BY DEF EndsSoundly, EndTurn
    <2>3. Len(rated') = 1
      BY <2>1, <2>2
    <2> QED BY <2>3
  <1>8. OutcomeOK'
    BY <1>1 DEF ReviewInv, OutcomeOK, ReratedSound, EndFrame
  <1> QED BY <1>3, <1>4, <1>5, <1>6, <1>7, <1>8, EndTurnRated, EndTurnRate DEF ReviewInv

-----------------------------------------------------------------------------
(***************************************************************************)
(* The steps within a turn.                                                *)
(***************************************************************************)

\* A step of the review of one turn: its text is what it was.
WithinTurn ==
    /\ Reviewing /\ Reviewing'
    /\ UNCHANGED <<caller, settings, stored, transcript, rated, stops, outcome>>
    /\ caller = "rate" => Text(turn') = Text(turn)

LEMMA GotoUnchanged ==
    ASSUME NEW step, Goto(step)
    PROVE  UNCHANGED <<caller, settings, stored, transcript, rated, stops, outcome>>
               /\ pc' = step
  BY DEF Goto

LEMMA RatedKept ==
    ASSUME ReviewInv, rated' = rated, settings' = settings
    PROVE  RatedOK'
  <1>1. \A i \in DOMAIN rated : TurnSound(rated[i])'
    <2> TAKE i \in DOMAIN rated
    <2>1. PICK t : rated[i] = t /\ rated'[i] = t /\ TurnSound(t)
      BY DEF ReviewInv, RatedOK
    <2> QED BY <2>1 DEF TurnSound, HasGrounds, Detailed
  <1> QED BY <1>1 DEF ReviewInv, RatedOK

\* What RateOK says of the rated turns alone.
RatePrefix ==
    /\ stored \in Stored
    /\ Len(rated) <= Len(stored)
    /\ \A i \in DOMAIN rated :
          /\ Text(rated[i]) = Text(stored[i])
          /\ rated[i].history = Told(i - 1)
          /\ i < Len(rated) => rated[i].status = "COMMITTED"

LEMMA PrefixKept ==
    ASSUME ReviewInv, caller = "rate", rated' = rated, stored' = stored
    PROVE  RatePrefix' /\ Told(Len(rated))' = Told(Len(rated))
  <1>1. \A m : Told(m)' = Told(m)
    BY DEF Told
  <1>2. Told(Len(rated))' = Told(Len(rated))
    BY DEF Told
  <1>3. \A i \in DOMAIN rated' :
           /\ Text(rated[i])' = Text(stored[i])'
           /\ rated'[i].history = Told(i - 1)'
           /\ i < Len(rated') => rated'[i].status = "COMMITTED"
    BY <1>1 DEF ReviewInv, RateOK, Text
  <1> QED BY <1>2, <1>3 DEF ReviewInv, RateOK, RatePrefix

LEMMA SettledKept ==
    ASSUME ReviewInv, WithinTurn
    PROVE  RatedOK' /\ SynthesizeOK' /\ RateOK' /\ OutcomeOK'
  <1>1. RatedOK'
    BY RatedKept DEF WithinTurn
  <1>2. SynthesizeOK'
    BY DEF ReviewInv, SynthesizeOK, WithinTurn
  <1>3. RateOK'
    <2> SUFFICES ASSUME caller = "rate" PROVE RateOK'
      BY DEF RateOK, WithinTurn
    <2>1. RatePrefix' /\ Told(Len(rated))' = Told(Len(rated))
      BY PrefixKept DEF WithinTurn
    <2>2. /\ GoesOn(rated)' = GoesOn(rated)
          /\ rated' = rated /\ stored' = stored /\ transcript' = transcript
          /\ Text(turn)' = Text(turn) /\ Reviewing /\ Reviewing'
      BY DEF WithinTurn
    <2>3. pc' # "conclude"
      BY <2>2, StepsApart DEF Reviewing
    <2>4. /\ GoesOn(rated) /\ Len(rated) < Len(stored)
          /\ Text(turn) = Text(stored[Len(rated) + 1]) /\ transcript = Told(Len(rated))
      BY <2>2 DEF ReviewInv, RateOK
    <2>5. Text(turn)' = Text(stored[Len(rated) + 1])'
      BY <2>2, <2>4 DEF Text
    <2> QED BY <2>1, <2>2, <2>3, <2>4, <2>5 DEF RateOK, RatePrefix
  <1>4. OutcomeOK'
    <2>1. pc' # "done"
      BY StepsApart DEF WithinTurn, Reviewing
    <2> QED BY <2>1 DEF ReviewInv, OutcomeOK, ReratedSound, WithinTurn
  <1> QED BY <1>1, <1>2, <1>3, <1>4

LEMMA DraftIsOne ==
    ASSUME NEW index, NEW instruction, NEW question, NEW answer, NEW requirements
    PROVE  /\ IsDraft(Draft(index, instruction, question, answer, requirements))
           /\ Draft(index, instruction, question, answer, requirements).index = index
           /\ Draft(index, instruction, question, answer, requirements).question = question
           /\ Draft(index, instruction, question, answer, requirements).answer = answer
           /\ Draft(index, instruction, question, answer, requirements).requirements =
                 requirements
  BY DEF Draft, IsDraft, DraftFields

\* A draft whose fields are set one by one is still one.
LEMMA AnsweredDraft ==
    ASSUME NEW t, IsDraft(t), NEW a
    PROVE  LET answered == [t EXCEPT !.answer = a] IN
           /\ IsDraft(answered) /\ answered.answer = a
           /\ answered.index = t.index /\ answered.requirements = t.requirements
           /\ answered.instruction = t.instruction /\ answered.repaired = t.repaired
  BY DEF IsDraft, DraftFields

LEMMA RequiredDraft ==
    ASSUME NEW t, IsDraft(t), NEW requirements
    PROVE  LET required == [t EXCEPT !.requirements = requirements] IN
           /\ IsDraft(required) /\ required.requirements = requirements
           /\ required.index = t.index /\ required.answer = t.answer
           /\ required.instruction = t.instruction /\ required.repaired = t.repaired
  BY DEF IsDraft, DraftFields

LEMMA RevisedDraft ==
    ASSUME NEW t, IsDraft(t), NEW a
    PROVE  LET revised == [t EXCEPT !.answer = a, !.repaired = TRUE] IN
           /\ IsDraft(revised) /\ revised.answer = a /\ revised.repaired = TRUE
           /\ revised.index = t.index /\ revised.requirements = t.requirements
           /\ revised.instruction = t.instruction
  BY DEF IsDraft, DraftFields

-----------------------------------------------------------------------------
(***************************************************************************)
(* The invariant, action by action.                                        *)
(***************************************************************************)

\* synthesize_image ends before there is an answer.
LEMMA StopKeeps ==
    ASSUME ReviewInv, caller = "synthesize", pc \in {"fit", "requirements", "answer"},
           NEW status \in TurnStatuses, StopBefore(status)
    PROVE  ReviewInv'
  <1>1. /\ UNCHANGED <<caller, settings, stored, transcript, computation, set_check, asks,
                       rated, stops>>
        /\ pc' = "done" /\ outcome'.status = status
    BY DEF StopBefore
  <1>2. PlaceOK' /\ TurnOK' /\ SynthesizeOK'
    BY <1>1, StepsApart
       DEF ReviewInv, PlaceOK, TurnOK, SynthesizeOK, Reviewing, BeforeClaims, AfterClaim, Detailed
  <1>3. FoundOK'
    BY <1>1 DEF ReviewInv, FoundOK, ComputationOK, SetCheckOK, Reviewing, BeforeClaims, AfterClaim
  <1>4. AsksOK'
    BY <1>1 DEF ReviewInv, AsksOK
  <1>5. RatedOK'
    BY <1>1, RatedKept
  <1>6. RateOK' /\ OutcomeOK'
    BY <1>1 DEF RateOK, OutcomeOK, ReratedSound
  <1> QED BY <1>2, <1>3, <1>4, <1>5, <1>6 DEF ReviewInv

LEMMA NextTurnKeeps ==
    ASSUME ReviewInv, NextTurn
    PROVE  ReviewInv'
  <1>1. /\ pc = "next" /\ caller = "rate" /\ ~Reviewing
        /\ UNCHANGED <<caller, settings, stored, transcript, rated, stops, outcome, reviewVars>>
    BY GotoUnchanged DEF NextTurn, ReviewInv, PlaceOK, Reviewing, BeforeClaims, AfterClaim
  <1>2. RatedOK' /\ RatePrefix' /\ Told(Len(rated))' = Told(Len(rated))
    BY <1>1, RatedKept, PrefixKept
  <1>3. CASE Len(rated) < Len(stored) /\ GoesOn(rated)
    <2> DEFINE t == stored[Len(rated) + 1]
    <2>1. /\ turn' = Draft(Len(rated) + 1, t.instruction, t.question, t.answer, t.requirements)
          /\ pc' = FirstStep
      BY <1>3, GotoUnchanged DEF NextTurn
    <2>2. pc' = IF Detailed THEN "fit" ELSE "holistic"
      BY <1>1, <2>1 DEF FirstStep
    <2>3. /\ IsDraft(turn') /\ turn'.index = Len(rated) + 1
          /\ Text(turn)' = Text(t)
          /\ turn'.answer = t.answer /\ turn'.requirements = t.requirements
      <3> DEFINE n == Len(rated) + 1
                 d == Draft(n, t.instruction, t.question, t.answer, t.requirements)
      <3>1. /\ IsDraft(d) /\ d.index = n
            /\ d.question = t.question /\ d.answer = t.answer
            /\ d.requirements = t.requirements
        <4> HIDE DEF t, n
        <4> QED BY DraftIsOne
      <3>2. turn' = d
        BY <2>1
      <3> HIDE DEF t, d
      <3>3. Text(turn)' = Text(t)
        BY <3>1, <3>2 DEF Text
      <3> QED BY <3>1, <3>2, <3>3
    <2>4. t.answer \in Answers /\ IsFiniteSet(t.requirements)
      <3>1. stored \in Stored /\ Len(rated) \in Nat
        BY <1>1, AppendedOne DEF ReviewInv, RateOK, RatedOK
      <3>2. stored \in Seq(Range(stored))
        BY <3>1, ConversationsAssumption
      <3>3. Len(rated) + 1 \in DOMAIN stored
        BY <1>3, <3>1, <3>2
      <3> QED BY <3>1, <3>3, ConversationsAssumption
    <2>5. transcript = Told(Len(rated))
      BY <1>1, <1>3 DEF ReviewInv, RateOK
    <2>6. Len(transcript) = Len(rated)
      <3>1. Len(rated) \in Nat
        BY AppendedOne DEF ReviewInv, RatedOK
      <3> QED BY <2>5, <3>1 DEF Told
    <2>7. PlaceOK'
      BY <1>1, <2>2
         DEF ReviewInv, PlaceOK, BeforeClaims, AfterClaim, Detailed, Ends
    <2>8. TurnOK'
      BY <1>1, <2>2, <2>3, <2>4, <2>6 DEF TurnOK
    <2>9. FoundOK'
      BY <1>1, <2>2
         DEF ReviewInv, FoundOK, ComputationOK, SetCheckOK, BeforeClaims, AfterClaim, Detailed,
             reviewVars
    <2>10. AsksOK'
      BY <1>1, <2>2 DEF ReviewInv, AsksOK, reviewVars
    <2>11. RateOK' /\ SynthesizeOK'
      <3>1. Text(turn)' = Text(stored[Len(rated) + 1])'
        BY <1>1, <2>3 DEF Text
      <3>2. GoesOn(rated)' /\ Len(rated') < Len(stored') /\ pc' # "conclude"
        BY <1>1, <1>3, <2>2
      <3>3. transcript' = Told(Len(rated))'
        BY <1>1, <1>2, <2>5
      <3> QED BY <1>1, <1>2, <3>1, <3>2, <3>3 DEF RateOK, RatePrefix, SynthesizeOK
    <2>12. OutcomeOK'
      BY <1>1, <2>2 DEF ReviewInv, OutcomeOK, ReratedSound
    <2> QED BY <1>2, <2>7, <2>8, <2>9, <2>10, <2>11, <2>12 DEF ReviewInv
  <1>4. CASE ~(Len(rated) < Len(stored) /\ GoesOn(rated))
    <2>1. pc' = "conclude"
      BY <1>4, GotoUnchanged DEF NextTurn
    <2>2. PlaceOK' /\ TurnOK' /\ SynthesizeOK'
      BY <1>1, <2>1
         DEF ReviewInv, PlaceOK, TurnOK, SynthesizeOK, Reviewing, BeforeClaims, AfterClaim,
             Detailed, Ends
    <2>3. FoundOK'
      BY <1>1, <2>1
         DEF ReviewInv, FoundOK, ComputationOK, SetCheckOK, Reviewing, BeforeClaims, AfterClaim,
             reviewVars
    <2>4. AsksOK'
      BY <1>1, <2>1 DEF ReviewInv, AsksOK, reviewVars
    <2>5. ~Reviewing' /\ pc' # "next"
      BY <2>1 DEF Reviewing, BeforeClaims, AfterClaim
    <2>6. RateOK'
      BY <1>1, <1>2, <1>4, <2>5 DEF RateOK, RatePrefix
    <2>7. OutcomeOK'
      BY <1>1, <2>1 DEF ReviewInv, OutcomeOK, ReratedSound
    <2> QED BY <1>2, <2>2, <2>3, <2>4, <2>6, <2>7 DEF ReviewInv
  <1> QED BY <1>3, <1>4

LEMMA FitKeeps ==
    ASSUME ReviewInv, FitQuestion
    PROVE  ReviewInv'
  <1>1. PICK votes \in FitBallots :
           \/ /\ consensus(votes) = "MET"
              /\ Goto(IF caller = "synthesize" THEN "requirements" ELSE "claims")
              /\ fits' = votes
              /\ UNCHANGED <<turn, inventories, computation, set_check, asks, items>>
           \/ /\ consensus(votes) # "MET" /\ caller = "synthesize"
              /\ StopBefore(PreAnswerStop(consensus(votes)))
           \/ /\ consensus(votes) # "MET" /\ caller = "rate"
              /\ EndTurn(IF consensus(votes) = "UNKNOWN" THEN "ABSTAIN" ELSE "FAIL", votes, <<>>)
    BY DEF FitQuestion
  <1>2. pc = "fit" /\ Reviewing /\ Detailed
    BY DEF FitQuestion, ReviewInv, PlaceOK, Reviewing, BeforeClaims
  <1>3. votes \in JudgeVerdicts \X JudgeVerdicts
    BY JudgesAssumption
  <1>4. CASE /\ consensus(votes) = "MET"
             /\ Goto(IF caller = "synthesize" THEN "requirements" ELSE "claims")
             /\ fits' = votes
             /\ UNCHANGED <<turn, inventories, computation, set_check, asks, items>>
    <2>1. /\ UNCHANGED <<caller, settings, stored, transcript, rated, stops, outcome>>
          /\ pc' = IF caller = "synthesize" THEN "requirements" ELSE "claims"
      BY <1>4, GotoUnchanged
    <2>2. fits' = <<"MET", "MET">>
      BY <1>3, <1>4, Agreement
    <2>3. WithinTurn
      BY <1>2, <1>4, <2>1 DEF WithinTurn, Reviewing, BeforeClaims
    <2>4. PlaceOK'
      BY <1>2, <2>1 DEF ReviewInv, PlaceOK, BeforeClaims, AfterClaim, Detailed
    <2>5. TurnOK'
      BY <1>2, <1>4, <2>1 DEF ReviewInv, TurnOK
    <2>6. FoundOK'
      BY <1>2, <1>4, <2>1, <2>2
         DEF ReviewInv, FoundOK, ComputationOK, SetCheckOK, BeforeClaims, AfterClaim
    <2>7. AsksOK'
      BY <1>2, <1>4, <2>1 DEF ReviewInv, AsksOK
    <2> QED BY <2>3, <2>4, <2>5, <2>6, <2>7, SettledKept DEF ReviewInv
  <1>5. CASE /\ consensus(votes) # "MET" /\ caller = "synthesize"
             /\ StopBefore(PreAnswerStop(consensus(votes)))
    <2>1. PreAnswerStop(consensus(votes)) \in TurnStatuses
      BY DEF PreAnswerStop, TurnStatuses
    <2> QED BY <1>2, <1>5, <2>1, StopKeeps
  <1>6. CASE /\ consensus(votes) # "MET" /\ caller = "rate"
             /\ EndTurn(IF consensus(votes) = "UNKNOWN" THEN "ABSTAIN" ELSE "FAIL", votes, <<>>)
    <2> DEFINE aggregate == IF consensus(votes) = "UNKNOWN" THEN "ABSTAIN" ELSE "FAIL"
               t         == Rated(aggregate, votes, <<>>)
    <2>1. /\ t.status = TurnStatus(aggregate) /\ t.items = <<>> /\ t.fits = votes
          /\ t.inventories = <<>>
      BY <1>2, RatedFields DEF ReviewInv, FoundOK, BeforeClaims
    <2>2. t.status \in TurnStatuses /\ t.status # "COMMITTED"
      BY <2>1, StatusOf
    <2>3. t.status = "REJECTED" => votes = <<"NOT_MET", "NOT_MET">>
      BY <1>3, <1>6, <2>1, StatusOf, Agreement
    <2> HIDE DEF t, aggregate
    <2>4. IsOfItsAnswer(t)
      BY <2>1 DEF IsOfItsAnswer
    <2>5. TurnSound(t)
      BY <2>1, <2>2, <2>3, <2>4 DEF TurnSound, Refuted
    <2>6. EndTurn(aggregate, votes, <<>>) /\ TurnSound(Rated(aggregate, votes, <<>>))
      BY <1>6, <2>5 DEF t, aggregate
    <2>7. EndsSoundly
      BY <2>6 DEF EndsSoundly
    <2> QED BY <1>2, <2>7, EndTurnKeeps
  <1> QED BY <1>1, <1>4, <1>5, <1>6

LEMMA ExtractKeeps ==
    ASSUME ReviewInv, ExtractRequirements
    PROVE  ReviewInv'
  <1>1. /\ pc = "requirements" /\ caller = "synthesize" /\ Reviewing /\ Detailed
        /\ transcript \in Histories
    BY DEF ExtractRequirements, ReviewInv, PlaceOK, SynthesizeOK, Reviewing, BeforeClaims
  <1>2. PICK first \in RequirementInventories[turn.index],
             second \in RequirementInventories[turn.index] :
            LET agreed == Public!reconcile_inventories(first, second, turn.index) IN
            IF agreed = None
            THEN StopBefore("ABSTAINED") /\ UNCHANGED fits
            ELSE /\ turn' = [turn EXCEPT !.requirements = agreed]
                 /\ Goto("answer")
                 /\ UNCHANGED reviewVars
    BY DEF ExtractRequirements
  <1> DEFINE agreed == Public!reconcile_inventories(first, second, turn.index)
  <1>3. CASE agreed = None
    <2>1. StopBefore("ABSTAINED") /\ "ABSTAINED" \in TurnStatuses
      BY <1>2, <1>3 DEF TurnStatuses
    <2> QED BY <1>1, <2>1, StopKeeps
  <1>4. CASE agreed # None
    <2>1. /\ turn' = [turn EXCEPT !.requirements = agreed] /\ pc' = "answer"
          /\ UNCHANGED <<caller, settings, stored, transcript, rated, stops, outcome, reviewVars>>
      BY <1>2, <1>4, GotoUnchanged
    <2>2. IsFiniteSet(agreed)
      <3>1. first \in RequirementInventories[Len(transcript) + 1]
        BY <1>1, <1>2 DEF ReviewInv, TurnOK
      <3>2. IsFiniteSet(DOMAIN first.requirements)
        BY <1>1, <3>1, JudgesAssumption
      <3> DEFINE specs == Public!CanonicalSpecs(first)
                 D     == DOMAIN specs
                 req(i) == Public!Requirement(specs[i], turn.index)
      <3>3. D = DOMAIN first.requirements
        BY DEF Public!CanonicalSpecs
      <3>4. agreed = {req(i) : i \in D}
        BY <1>4 DEF Public!reconcile_inventories
      <3> HIDE DEF specs, D, agreed, req
      <3>5. IsFiniteSet({req(i) : i \in D})
        <4> DEFINE g == [i \in D |-> req(i)]
                   R == {req(i) : i \in D}
        <4>1. g \in Surjection(D, R)
          <5>1. g \in [D -> R] /\ \A r \in R : \E i \in D : g[i] = r
            OBVIOUS
          <5> HIDE DEF g, R
          <5> QED BY <5>1 DEF Surjection
        <4>2. IsFiniteSet(D)
          BY <3>2, <3>3
        <4> HIDE DEF g, R
        <4>3. IsFiniteSet(R)
          BY <4>1, <4>2, FS_Surjection
        <4> QED BY <4>3 DEF R
      <3> QED BY <3>4, <3>5
    <2> HIDE DEF agreed
    <2>3. /\ IsDraft(turn') /\ turn'.requirements = agreed /\ turn'.index = turn.index
          /\ turn'.instruction = turn.instruction
      BY <1>1, <2>1, RequiredDraft DEF ReviewInv, TurnOK
    <2>4. WithinTurn
      BY <1>1, <2>1 DEF WithinTurn, Reviewing, BeforeClaims
    <2>5. PlaceOK'
      BY <1>1, <2>1 DEF ReviewInv, PlaceOK, BeforeClaims, AfterClaim, Detailed
    <2>6. TurnOK'
      BY <1>1, <2>1, <2>2, <2>3 DEF ReviewInv, TurnOK
    <2>7. FoundOK'
      BY <1>1, <2>1
         DEF ReviewInv, FoundOK, ComputationOK, SetCheckOK, BeforeClaims, AfterClaim, reviewVars
    <2>8. AsksOK'
      BY <1>1, <2>1 DEF ReviewInv, AsksOK, reviewVars
    <2> QED BY <2>4, <2>5, <2>6, <2>7, <2>8, SettledKept DEF ReviewInv
  <1> QED BY <1>3, <1>4

LEMMA AnswerKeeps ==
    ASSUME ReviewInv, AnswerQuestion
    PROVE  ReviewInv'
  <1>1. pc = "answer" /\ caller = "synthesize" /\ Reviewing
    BY DEF AnswerQuestion, ReviewInv, PlaceOK, Reviewing, BeforeClaims
  <1>2. CASE StopBefore("REJECTED") /\ UNCHANGED fits
    <2>1. "REJECTED" \in TurnStatuses
      BY DEF TurnStatuses
    <2> QED BY <1>1, <1>2, <2>1, StopKeeps
  <1>3. ASSUME NEW a \in Answers \ PromptEchoes,
               turn' = [turn EXCEPT !.answer = a],
               Goto(IF Detailed THEN "claims" ELSE "holistic"),
               UNCHANGED reviewVars
        PROVE  ReviewInv'
    <2>1. /\ pc' = IF Detailed THEN "claims" ELSE "holistic"
          /\ UNCHANGED <<caller, settings, stored, transcript, rated, stops, outcome>>
      BY <1>3, GotoUnchanged
    <2>2. /\ IsDraft(turn') /\ turn'.answer = a /\ turn'.index = turn.index
          /\ turn'.requirements = turn.requirements
          /\ turn'.instruction = turn.instruction
      BY <1>1, <1>3, AnsweredDraft DEF ReviewInv, TurnOK
    <2>3. WithinTurn
      BY <1>1, <2>1 DEF WithinTurn, Reviewing, BeforeClaims
    <2>4. PlaceOK'
      BY <1>1, <2>1 DEF ReviewInv, PlaceOK, BeforeClaims, AfterClaim, Detailed
    <2>5. TurnOK'
      BY <1>1, <1>3, <2>1, <2>2 DEF ReviewInv, TurnOK
    <2>6. FoundOK'
      BY <1>1, <1>3, <2>1
         DEF ReviewInv, FoundOK, ComputationOK, SetCheckOK, BeforeClaims, AfterClaim,
             reviewVars, Detailed
    <2>7. AsksOK'
      BY <1>1, <1>3, <2>1 DEF ReviewInv, AsksOK, reviewVars
    <2> QED BY <2>3, <2>4, <2>5, <2>6, <2>7, SettledKept DEF ReviewInv
  <1> QED BY <1>2, <1>3 DEF AnswerQuestion

LEMMA InventoryKeeps ==
    ASSUME ReviewInv, InventoryClaims
    PROVE  ReviewInv'
  <1>1. pc = "claims" /\ Reviewing /\ Detailed
    BY DEF InventoryClaims, ReviewInv, PlaceOK, Reviewing, BeforeClaims
  <1>2. /\ pc' = AfterClaims
        /\ UNCHANGED <<caller, settings, stored, transcript, rated, stops, outcome,
                       turn, fits, computation, set_check, asks, items>>
        /\ \E first, second \in ClaimInventories[turn.answer] : inventories' = <<first, second>>
    BY GotoUnchanged DEF InventoryClaims
  <1>3. /\ pc' \in {"computation", "set", "plan"}
        /\ pc' = "set" => turn.instruction.family = "visible_count"
        /\ turn.instruction.family = "grounded_calculation" => pc' = "computation"
    BY <1>2 DEF AfterClaims
  <1>4. WithinTurn
    BY <1>1, <1>2, <1>3 DEF WithinTurn, Reviewing, AfterClaim
  <1>5. PlaceOK'
    BY <1>1, <1>2, <1>3 DEF ReviewInv, PlaceOK, BeforeClaims, AfterClaim, Detailed
  <1>6. TurnOK'
    BY <1>1, <1>2, <1>3 DEF ReviewInv, TurnOK
  <1>7. FoundOK'
    BY <1>1, <1>2, <1>3
       DEF ReviewInv, FoundOK, ComputationOK, SetCheckOK, BeforeClaims, AfterClaim, Detailed
  <1>8. AsksOK'
    BY <1>1, <1>2, <1>3 DEF ReviewInv, AsksOK
  <1> QED BY <1>4, <1>5, <1>6, <1>7, <1>8, SettledKept DEF ReviewInv

LEMMA ComputationKeeps ==
    ASSUME ReviewInv, CheckComputation
    PROVE  ReviewInv'
  <1>1. pc = "computation" /\ Reviewing /\ Detailed
    BY DEF CheckComputation, ReviewInv, PlaceOK, Reviewing, AfterClaim
  <1>2. /\ pc' = "plan"
        /\ UNCHANGED <<caller, settings, stored, transcript, rated, stops, outcome,
                       turn, fits, inventories, set_check, asks, items>>
    BY GotoUnchanged DEF CheckComputation
  <1>3. PICK first \in ComputationInventories, second \in ComputationInventories :
            computation' = verify_computation_inventories(first, second)
    BY DEF CheckComputation
  <1>4. computation' # None
    BY <1>3, JudgesAssumption
  <1>5. WithinTurn
    BY <1>1, <1>2 DEF WithinTurn, Reviewing, AfterClaim
  <1>6. PlaceOK'
    BY <1>1, <1>2 DEF ReviewInv, PlaceOK, BeforeClaims, AfterClaim, Detailed
  <1>7. TurnOK'
    BY <1>1, <1>2 DEF ReviewInv, TurnOK
  <1>8. FoundOK'
    <2>1. ComputationOK' /\ SetCheckOK'
      BY <1>2, <1>3 DEF ReviewInv, FoundOK, ComputationOK, SetCheckOK
    <2> QED BY <1>1, <1>2, <1>4, <2>1
            DEF ReviewInv, FoundOK, BeforeClaims, AfterClaim, Detailed
  <1>9. AsksOK'
    BY <1>1, <1>2 DEF ReviewInv, AsksOK
  <1> QED BY <1>5, <1>6, <1>7, <1>8, <1>9, SettledKept DEF ReviewInv

LEMMA CompleteSetKeeps ==
    ASSUME ReviewInv, CheckCompleteSet
    PROVE  ReviewInv'
  <1>1. pc = "set" /\ Reviewing /\ Detailed /\ turn.instruction.family = "visible_count"
    BY DEF CheckCompleteSet, ReviewInv, PlaceOK, FoundOK, Reviewing, AfterClaim
  <1>2. /\ pc' = "plan"
        /\ UNCHANGED <<caller, settings, stored, transcript, rated, stops, outcome,
                       turn, fits, inventories, computation, asks, items>>
    BY GotoUnchanged DEF CheckCompleteSet
  <1>3. WithinTurn
    BY <1>1, <1>2 DEF WithinTurn, Reviewing, AfterClaim
  <1>4. PlaceOK'
    BY <1>1, <1>2 DEF ReviewInv, PlaceOK, BeforeClaims, AfterClaim, Detailed
  <1>5. TurnOK'
    BY <1>1, <1>2 DEF ReviewInv, TurnOK
  <1>6. FoundOK'
    <2>1. ComputationOK' /\ SetCheckOK'
      BY <1>2 DEF ReviewInv, FoundOK, ComputationOK, SetCheckOK, CheckCompleteSet
    <2> QED BY <1>1, <1>2, <2>1
            DEF ReviewInv, FoundOK, BeforeClaims, AfterClaim, Detailed
  <1>7. AsksOK'
    BY <1>1, <1>2 DEF ReviewInv, AsksOK
  <1> QED BY <1>3, <1>4, <1>5, <1>6, <1>7, SettledKept DEF ReviewInv

\* What a question is about changes with the answer and its claims only.
LEMMA SameContext ==
    ASSUME turn' = turn, inventories' = inventories, computation' = computation
    PROVE  Context' = Context /\ Coverage' = Coverage
  BY DEF Context, ClaimUnion, Coverage

LEMMA PlanKeeps ==
    ASSUME ReviewInv, PlanItems
    PROVE  ReviewInv'
  <1>1. pc = "plan" /\ Reviewing /\ Detailed /\ items = <<>>
    BY DEF PlanItems, ReviewInv, PlaceOK, FoundOK, Reviewing, AfterClaim
  <1>2. /\ pc' = "items" /\ asks' = Plan(Context)
        /\ UNCHANGED <<caller, settings, stored, transcript, rated, stops, outcome,
                       turn, fits, inventories, computation, set_check, items>>
    BY GotoUnchanged DEF PlanItems
  <1>3. Context' = Context
    BY <1>2, SameContext
  <1>4. IsContext(Context)
    BY <1>1, ContextOfTurn DEF AfterClaim
  <1>5. Plan(Context) \in Seq(Range(Plan(Context))) /\ Plan(Context) # <<>>
    <2>1. IsGate("R_CORE", "always") /\ Applies("always", Context)
      BY CatalogAssumption DEF Applies
    <2>2. SubjectsAre("always", Context, {Singleton}) /\ Singleton \in {Singleton}
      BY DEF SubjectsAre, Subjects
    <2>3. PICK q \in Range(Plan(Context)) : q.template.template_id = "R_CORE"
      BY <1>4, <2>1, <2>2, GateIsAsked
    <2>4. DOMAIN Plan(Context) # {}
      BY <2>3 DEF Range
    <2>5. Plan(Context) # <<>>
      BY <2>4
    <2> QED BY <1>4, <2>5, PlanAsks
  <1>6. WithinTurn
    BY <1>1, <1>2 DEF WithinTurn, Reviewing, AfterClaim
  <1>7. PlaceOK'
    BY <1>1, <1>2 DEF ReviewInv, PlaceOK, BeforeClaims, AfterClaim, Detailed
  <1>8. TurnOK'
    BY <1>1, <1>2 DEF ReviewInv, TurnOK
  <1>9. FoundOK'
    <2>1. ComputationOK' /\ SetCheckOK'
      BY <1>2 DEF ReviewInv, FoundOK, ComputationOK, SetCheckOK
    <2> QED BY <1>1, <1>2, <2>1
            DEF ReviewInv, FoundOK, BeforeClaims, AfterClaim, Detailed
  <1>10. AsksOK'
    <2>1. Range(Plan(Context))' = Range(Plan(Context)) /\ asks' = Plan(Context)
      BY <1>2, <1>3
    <2>2. items' = <<>> /\ items' \in Seq(Range(items'))
      BY <1>1, <1>2
    <2> QED BY <1>2, <1>5, <2>1, <2>2 DEF AsksOK
  <1> QED BY <1>6, <1>7, <1>8, <1>9, <1>10, SettledKept DEF ReviewInv

LEMMA RateItemKeeps ==
    ASSUME ReviewInv, RateItem
    PROVE  ReviewInv'
  <1> DEFINE P == Range(Plan(Context))
             q == Head(asks)
  <1>1. /\ pc = "items" /\ Reviewing /\ Detailed /\ asks # <<>> /\ asks \in Seq(P)
    BY DEF RateItem, ReviewInv, PlaceOK, AsksOK, Reviewing, AfterClaim
  <1>2. PICK votes \in Ballots :
            items' = Append(items,
                [template |-> q.template, subject |-> q.subject, votes |-> votes,
                 about |-> turn.answer,
                 verdict |-> ItemVerdict(q.template, votes, Coverage, computation, set_check)])
    BY DEF RateItem
  <1>3. /\ asks' = Tail(asks)
        /\ pc' = IF asks' = <<>> THEN "aggregate" ELSE "items"
        /\ UNCHANGED <<caller, settings, stored, transcript, rated, stops, outcome,
                       turn, fits, inventories, computation, set_check>>
    BY GotoUnchanged DEF RateItem, AllAsked
  <1>4. Context' = Context /\ Coverage' = Coverage
    BY <1>3, SameContext
  <1>5. Range(Plan(Context))' = P
    BY <1>4
  <1>6. WithinTurn
    BY <1>1, <1>3 DEF WithinTurn, Reviewing, AfterClaim
  <1>7. PlaceOK'
    BY <1>1, <1>3 DEF ReviewInv, PlaceOK, BeforeClaims, AfterClaim, Detailed
  <1>8. TurnOK'
    BY <1>1, <1>3 DEF ReviewInv, TurnOK, Reviewing, AfterClaim
  <1>9. FoundOK'
    <2>1. ComputationOK' /\ SetCheckOK'
      BY <1>3 DEF ReviewInv, FoundOK, ComputationOK, SetCheckOK
    <2> QED BY <1>1, <1>3, <2>1
            DEF ReviewInv, FoundOK, BeforeClaims, AfterClaim, Detailed
  <1>10. q \in P /\ asks' \in Seq(P) /\ \A x \in Range(asks) : x = q \/ x \in Range(asks')
    <2> HIDE DEF P
    <2>1. q \in P /\ asks' \in Seq(P)
      BY <1>1, <1>3
    <2>2. \A i \in 1 .. Len(asks) : asks[i] = q \/ asks[i] \in Range(asks')
      <3> TAKE i \in 1 .. Len(asks)
      <3>1. Len(asks) \in Nat \ {0}
        BY <1>1
      <3>2. CASE i = 1
        BY <1>1, <3>2
      <3>3. CASE i # 1
        <4>1. Len(asks') = Len(asks) - 1 /\ DOMAIN asks' = 1 .. Len(asks')
          BY <1>1, <1>3, <2>1
        <4> DEFINE j == i - 1
        <4>2. j \in 1 .. Len(asks) - 1 /\ j + 1 = i
          BY <3>1, <3>3
        <4> HIDE DEF j
        <4>3. asks'[j] = asks[j + 1]
          BY <1>1, <1>3, <4>2
        <4> QED BY <4>1, <4>2, <4>3 DEF Range
      <3> QED BY <3>2, <3>3
    <2>3. DOMAIN asks = 1 .. Len(asks)
      BY <1>1
    <2> QED BY <2>1, <2>2, <2>3 DEF Range
  <1> DEFINE item == [template |-> q.template, subject |-> q.subject, votes |-> votes,
                      about |-> turn.answer,
                      verdict |-> ItemVerdict(q.template, votes, Coverage, computation, set_check)]
             n == Len(items)
  <1>11. items \in Seq(Range(items)) /\ \A k \in DOMAIN items : ItemOK(items[k])
    BY <1>1 DEF ReviewInv, AsksOK
  <1>12. /\ items' \in Seq(Range(items'))
         /\ DOMAIN items' = 1 .. n + 1 /\ DOMAIN items = 1 .. n /\ n \in Nat
         /\ items'[n + 1] = item /\ \A i \in 1 .. n : items'[i] = items[i]
    <2> HIDE DEF item, n
    <2>1. items' = Append(items, item)
      BY <1>2 DEF item
    <2> QED BY <1>11, <2>1, AppendedOne DEF n
  <1>13. ItemOK(item) /\ Decides(item, q)
    BY <1>2, <1>10 DEF ItemOK, Decides
  <1> HIDE DEF P, q, item, n
  <1>14. \A k \in DOMAIN items' : ItemOK(items[k])'
    <2> TAKE k \in DOMAIN items'
    <2>1. PICK x : items'[k] = x /\ ItemOK(x)
      <3>1. k = n + 1 \/ k \in 1 .. n
        BY <1>12
      <3> QED BY <1>11, <1>12, <1>13, <3>1
    <2>2. ItemOK(x)'
      BY <1>3, <1>4, <1>5, <2>1 DEF ItemOK, P
    <2> QED BY <2>1, <2>2 DEF ItemOK
  <1>15. \A y \in P : y \in Range(asks') \/ \E k \in DOMAIN items' : Decides(items'[k], y)
    <2> TAKE y \in P
    <2>1. y \in Range(asks) \/ \E k \in DOMAIN items : Decides(items[k], y)
      BY <1>1 DEF ReviewInv, AsksOK, P
    <2>2. CASE y = q
      BY <1>12, <1>13, <2>2
    <2>3. CASE \E k \in DOMAIN items : Decides(items[k], y)
      BY <1>12, <2>3
    <2> QED BY <1>10, <2>1, <2>2, <2>3
  <1>16. AsksOK'
    <2>1. pc' # "repair" /\ (pc' = "items") = (asks' # <<>>)
      BY <1>3
    <2>2. \A y \in Range(Plan(Context))' :
              y \in Range(asks)' \/ \E k \in DOMAIN items' : Decides(items[k], y)'
      BY <1>5, <1>15 DEF Decides
    <2>3. asks' \in Seq(Range(Plan(Context)))'
      BY <1>5, <1>10 DEF P
    <2> QED BY <1>12, <1>14, <2>1, <2>2, <2>3 DEF AsksOK
  <1> QED BY <1>6, <1>7, <1>8, <1>9, <1>16, SettledKept DEF ReviewInv

LEMMA AggregateKeeps ==
    ASSUME ReviewInv, Aggregate
    PROVE  ReviewInv'
  <1> DEFINE aggregate == aggregate_rating(GateVerdictsOf(items))
  <1>1. pc = "aggregate" /\ Reviewing /\ Detailed
    BY DEF Aggregate, ReviewInv, PlaceOK, Reviewing, AfterClaim
  <1>2. CASE MayRepair(aggregate)
    <2>1. /\ pc' = "repair" /\ aggregate = "FAIL" /\ caller = "synthesize" /\ ~turn.repaired
          /\ UNCHANGED <<caller, settings, stored, transcript, rated, stops, outcome,
                         turn, reviewVars>>
      BY <1>2, GotoUnchanged DEF Aggregate, MayRepair
    <2>2. WithinTurn
      BY <1>1, <2>1 DEF WithinTurn, Reviewing, AfterClaim
    <2>3. PlaceOK'
      BY <1>1, <2>1 DEF ReviewInv, PlaceOK, BeforeClaims, AfterClaim, Detailed
    <2>4. TurnOK'
      <3>1. turn' = turn
        BY <2>1
      <3> QED BY <1>1, <2>1, <3>1 DEF ReviewInv, TurnOK, Reviewing, AfterClaim
    <2>5. FoundOK'
      <3>1. ComputationOK' /\ SetCheckOK'
        BY <2>1 DEF ReviewInv, FoundOK, ComputationOK, SetCheckOK, reviewVars
      <3> QED BY <1>1, <2>1, <3>1
              DEF ReviewInv, FoundOK, BeforeClaims, AfterClaim, Detailed, reviewVars
    <2>6. AsksOK'
      <3>1. Context' = Context /\ Coverage' = Coverage
        BY <2>1, SameContext DEF reviewVars
      <3>2. asks' = asks /\ items' = items /\ turn' = turn
            /\ computation' = computation /\ set_check' = set_check
        BY <2>1 DEF reviewVars
      <3>3. \A x : ItemOK(x)' = ItemOK(x)
        BY <3>1, <3>2 DEF ItemOK
      <3>4. \A k \in DOMAIN items' : ItemOK(items[k])'
        <4> TAKE k \in DOMAIN items'
        <4>1. PICK x : items'[k] = x /\ ItemOK(x)
          BY <1>1, <3>2 DEF ReviewInv, AsksOK
        <4>2. ItemOK(x)'
          BY <3>3, <4>1
        <4> QED BY <4>1, <4>2 DEF ItemOK
      <3>5. aggregate_rating(GateVerdictsOf(items))' = "FAIL"
        <4>1. GateVerdictsOf(items)' = GateVerdictsOf(items)
          BY <3>2 DEF GateVerdictsOf
        <4> QED BY <2>1, <4>1
      <3>6. Range(Plan(Context))' = Range(Plan(Context))
        BY <3>1
      <3>7. \A y \in Range(Plan(Context))' :
                y \in Range(asks)' \/ \E k \in DOMAIN items' : Decides(items[k], y)'
        BY <1>1, <3>2, <3>6 DEF ReviewInv, AsksOK, Decides
      <3>8. items' \in Seq(Range(items))' /\ (pc' = "items") = (asks' # <<>>)
        BY <1>1, <2>1, <3>2 DEF ReviewInv, AsksOK
      <3> QED BY <2>1, <3>4, <3>5, <3>7, <3>8 DEF AsksOK
    <2> QED BY <2>2, <2>3, <2>4, <2>5, <2>6, SettledKept DEF ReviewInv
  <1>3. CASE ~MayRepair(aggregate)
    <2>1. EndTurn(aggregate, fits, items)
      BY <1>3 DEF Aggregate
    <2>2. TurnSound(Rated(aggregate, fits, items))
      BY <1>1, RatedTurnSound
    <2> HIDE DEF aggregate
    <2>3. EndsSoundly
      BY <2>1, <2>2 DEF EndsSoundly
    <2> QED BY <1>1, <2>3, EndTurnKeeps
  <1> QED BY <1>2, <1>3

LEMMA RepairKeeps ==
    ASSUME ReviewInv, RepairAnswer
    PROVE  ReviewInv'
  <1>1. pc = "repair" /\ Reviewing /\ Detailed /\ caller = "synthesize" /\ asks = <<>>
    BY DEF RepairAnswer, ReviewInv, PlaceOK, AsksOK, Reviewing, AfterClaim
  <1>2. CASE EndTurn("FAIL", fits, items)
    <2>1. "FAIL" = aggregate_rating(GateVerdictsOf(items))
      BY <1>1 DEF ReviewInv, AsksOK
    <2>2. TurnSound(Rated("FAIL", fits, items))
      BY <1>1, <2>1, RatedTurnSound
    <2>3. EndsSoundly
      BY <1>2, <2>2 DEF EndsSoundly
    <2> QED BY <1>1, <2>3, EndTurnKeeps
  <1>3. ASSUME NEW a \in Answers, Revise(a) PROVE ReviewInv'
    <2>1. /\ turn' = [turn EXCEPT !.answer = a, !.repaired = TRUE]
          /\ inventories' = <<>> /\ computation' = None /\ set_check' = None /\ items' = <<>>
          /\ pc' = "claims" /\ fits' = fits /\ asks' = asks
          /\ UNCHANGED <<caller, settings, stored, transcript, rated, stops, outcome>>
      BY <1>3, GotoUnchanged DEF Revise
    <2>2. /\ IsDraft(turn') /\ turn'.answer = a /\ turn'.index = turn.index
          /\ turn'.requirements = turn.requirements
      BY <1>1, <2>1, RevisedDraft DEF ReviewInv, TurnOK
    <2>3. WithinTurn
      BY <1>1, <2>1 DEF WithinTurn, Reviewing, BeforeClaims
    <2>4. PlaceOK'
      BY <1>1, <2>1 DEF ReviewInv, PlaceOK, BeforeClaims, AfterClaim, Detailed
    <2>5. TurnOK'
      BY <1>1, <1>3, <2>1, <2>2 DEF ReviewInv, TurnOK
    <2>6. FoundOK'
      BY <1>1, <2>1
         DEF ReviewInv, FoundOK, ComputationOK, SetCheckOK, BeforeClaims, AfterClaim, Detailed
    <2>7. AsksOK'
      BY <1>1, <2>1 DEF AsksOK
    <2> QED BY <2>3, <2>4, <2>5, <2>6, <2>7, SettledKept DEF ReviewInv
  <1> QED BY <1>2, <1>3 DEF RepairAnswer

\* A holistic rating is one gate.
LEMMA HolisticGate ==
    ASSUME NEW votes, NEW verdict
    PROVE  LET decided == Holistic(votes, verdict) IN
           /\ DOMAIN decided = {1}
           /\ decided[1].template.template_id = "Q_HOLISTIC"
           /\ decided[1].template.default_use = "gate"
           /\ decided[1].subject = Singleton /\ decided[1].votes = votes
           /\ decided[1].about = turn.answer /\ decided[1].verdict = verdict
           /\ GateVerdictsOf(decided) = {verdict}
  <1> DEFINE one == [template |-> [template_id |-> "Q_HOLISTIC", default_use |-> "gate"],
                     subject |-> Singleton, votes |-> votes, about |-> turn.answer,
                     verdict |-> verdict]
             decided == Holistic(votes, verdict)
  <1>1. /\ one.template.template_id = "Q_HOLISTIC" /\ one.template.default_use = "gate"
        /\ one.subject = Singleton /\ one.votes = votes
        /\ one.about = turn.answer /\ one.verdict = verdict
    OBVIOUS
  <1>2. decided = <<one>>
    BY DEF Holistic
  <1> HIDE DEF one, decided
  <1>3. DOMAIN decided = {1} /\ decided[1] = one
    BY <1>2
  <1>4. GateVerdictsOf(decided) = {verdict}
    <2>1. {j \in DOMAIN decided : decided[j].template.default_use = "gate"} = {1}
      BY <1>1, <1>3
    <2> QED BY <1>1, <1>3, <2>1 DEF GateVerdictsOf
  <1> QED BY <1>1, <1>3, <1>4 DEF decided

\* What a holistic review says of its turn.
LEMMA HolisticSound ==
    ASSUME ReviewInv, pc = "holistic", NEW votes, NEW verdict, NEW aggregate,
           aggregate = aggregate_rating({verdict}),
           verdict \in {"MET", "NOT_MET", "UNKNOWN"},
           verdict = "MET" => votes = <<"MET", "MET">> /\ ~InvalidPublicText,
           verdict = "NOT_MET" => votes = <<"NOT_MET", "NOT_MET">> \/ InvalidPublicText
    PROVE  TurnSound(Rated(aggregate, fits, Holistic(votes, verdict)))
  <1> DEFINE decided == Holistic(votes, verdict)
             t       == Rated(aggregate, fits, decided)
  <1>1. /\ DOMAIN decided = {1}
        /\ decided[1].template.template_id = "Q_HOLISTIC"
        /\ decided[1].template.default_use = "gate"
        /\ decided[1].subject = Singleton /\ decided[1].votes = votes
        /\ decided[1].about = turn.answer /\ decided[1].verdict = verdict
    BY HolisticGate
  <1>2. ~Detailed /\ inventories = <<>>
    BY DEF ReviewInv, PlaceOK, FoundOK, BeforeClaims
  <1> HIDE DEF decided
  <1>3. /\ t.answer = turn.answer /\ t.question = turn.question /\ t.history = transcript
        /\ t.inventories = <<>> /\ t.items = decided /\ t.status = TurnStatus(aggregate)
    BY <1>2, RatedFields
  <1> HIDE DEF t
  <1>4. InvalidPublicText <=>
            \/ {t.question, t.answer} \cap PromptEchoes # {}
            \/ \E i \in DOMAIN t.history : t.history[i][1] = t.question
    BY <1>3 DEF InvalidPublicText
  <1>5. IsOfItsAnswer(t)
    BY <1>1, <1>3 DEF IsOfItsAnswer
  <1>6. ASSUME t.status = "REJECTED" PROVE Refuted(t)
    <2>1. aggregate = "FAIL"
      BY <1>3, <1>6, StatusOf
    <2>2. verdict = "NOT_MET"
      BY <2>1 DEF aggregate_rating
    <2>3. CASE InvalidPublicText
      BY <1>4, <2>3 DEF Refuted
    <2>4. CASE votes = <<"NOT_MET", "NOT_MET">>
      <3>1. 1 \in DOMAIN t.items /\ t.items[1].template.default_use = "gate"
            /\ t.items[1].votes = <<"NOT_MET", "NOT_MET">>
        BY <1>1, <1>3, <2>4
      <3> QED BY <3>1 DEF Refuted
    <2> QED BY <2>2, <2>3, <2>4
  <1>7. ASSUME t.status = "COMMITTED" PROVE HasGrounds(t)
    <2>1. aggregate = "PASS"
      BY <1>3, <1>7, StatusOf
    <2>2. verdict = "MET"
      BY <2>1 DEF aggregate_rating
    <2>3. BothMet(t, "Q_HOLISTIC", Singleton)
      BY <1>1, <1>3, <2>2 DEF BothMet
    <2> QED BY <1>2, <1>4, <2>2, <2>3 DEF HasGrounds
  <1>8. TurnSound(t)
    BY <1>3, <1>5, <1>6, <1>7, StatusOf DEF TurnSound
  <1> QED BY <1>8 DEF t, decided

LEMMA HolisticKeeps ==
    ASSUME ReviewInv, RateHolistic
    PROVE  ReviewInv'
  <1>1. pc = "holistic" /\ Reviewing
    BY DEF RateHolistic, Reviewing, BeforeClaims
  <1>2. ASSUME InvalidPublicText, EndTurn("FAIL", fits, Holistic(<<>>, "NOT_MET"))
        PROVE  EndsSoundly
    <2>1. "FAIL" = aggregate_rating({"NOT_MET"})
      BY DEF aggregate_rating
    <2>2. TurnSound(Rated("FAIL", fits, Holistic(<<>>, "NOT_MET")))
      BY <1>1, <1>2, <2>1, HolisticSound
    <2> QED BY <1>2, <2>2 DEF EndsSoundly
  <1>3. ASSUME ~InvalidPublicText, NEW votes \in Ballots,
               EndTurn(aggregate_rating(GateVerdictsOf(Holistic(votes, consensus(votes)))),
                       fits, Holistic(votes, consensus(votes)))
        PROVE  EndsSoundly
    <2> DEFINE verdict   == consensus(votes)
               aggregate == aggregate_rating({verdict})
    <2>1. /\ verdict \in {"MET", "NOT_MET", "UNKNOWN"}
          /\ verdict = "MET" => votes = <<"MET", "MET">>
          /\ verdict = "NOT_MET" => votes = <<"NOT_MET", "NOT_MET">>
      BY JudgesAssumption, Agreement
    <2>2. GateVerdictsOf(Holistic(votes, verdict)) = {verdict}
      BY HolisticGate
    <2>3. EndTurn(aggregate, fits, Holistic(votes, verdict))
      BY <1>3, <2>2
    <2> HIDE DEF verdict
    <2>4. TurnSound(Rated(aggregate, fits, Holistic(votes, verdict)))
      BY <1>1, <1>3, <2>1, HolisticSound
    <2> QED BY <2>3, <2>4 DEF EndsSoundly
  <1>4. EndsSoundly
    BY <1>2, <1>3 DEF RateHolistic
  <1> QED BY <1>1, <1>4, EndTurnKeeps

\* All rated turns but the last are accepted, and the last where the loop went on.
LEMMA RatedStatus ==
    ASSUME ReviewInv, caller = "rate"
    PROVE  /\ rated \in Seq(Range(rated)) /\ Len(rated) \in Nat /\ DOMAIN rated = 1 .. Len(rated)
           /\ \A i \in 1 .. Len(rated) : rated[i].status \in TurnStatuses
           /\ \A i \in 1 .. Len(rated) : i < Len(rated) => rated[i].status = "COMMITTED"
           /\ GoesOn(rated) => \A i \in 1 .. Len(rated) : rated[i].status = "COMMITTED"
           /\ ~GoesOn(rated) =>
                 /\ Len(rated) \in Nat \ {0}
                 /\ Last(rated) = rated[Len(rated)]
                 /\ rated[Len(rated)].status # "COMMITTED"
  <1>1. rated \in Seq(Range(rated)) /\ Len(rated) \in Nat /\ DOMAIN rated = 1 .. Len(rated)
    BY AppendedOne DEF ReviewInv, RatedOK
  <1>2. \A i \in 1 .. Len(rated) : rated[i].status \in TurnStatuses
    BY <1>1 DEF ReviewInv, RatedOK, TurnSound
  <1>3. \A i \in 1 .. Len(rated) : i < Len(rated) => rated[i].status = "COMMITTED"
    BY <1>1 DEF ReviewInv, RateOK
  <1>4. Last(rated) = rated[Len(rated)]
    BY DEF Last
  <1>5. rated # <<>> => Len(rated) \in Nat \ {0}
    BY <1>1
  <1>6. GoesOn(rated) => \A i \in 1 .. Len(rated) : rated[i].status = "COMMITTED"
    <2> SUFFICES ASSUME GoesOn(rated), NEW i \in 1 .. Len(rated), ~(i < Len(rated))
                 PROVE  rated[i].status = "COMMITTED"
      BY <1>3
    <2>1. i = Len(rated) /\ rated # <<>>
      <3>1. Len(rated) \in Nat
        BY <1>1
      <3>2. i = Len(rated) /\ Len(rated) # 0
        BY <3>1
      <3> QED BY <3>2
    <2> QED BY <1>4, <2>1 DEF GoesOn
  <1>7. ~GoesOn(rated) => rated # <<>> /\ rated[Len(rated)].status # "COMMITTED"
    BY <1>4 DEF GoesOn
  <1> QED BY <1>1, <1>2, <1>3, <1>4, <1>5, <1>6, <1>7

\* How the loop's end reads the rated turns.
LEMMA TerminalReads ==
    ASSUME ReviewInv, pc = "conclude"
    PROVE  /\ Terminal \in TurnStatuses \cup {"QUALITY_CANDIDATE"}
           /\ Terminal = "QUALITY_CANDIDATE" =>
                 GoesOn(rated) /\ Len(rated) >= MinTurns /\ Len(rated) = Len(stored)
           /\ ~Detailed /\ GoesOn(rated) /\ Terminal # "QUALITY_CANDIDATE" =>
                 Len(rated) < MinTurns
  <1>1. caller = "rate"
    BY DEF ReviewInv, PlaceOK
  <1>2. /\ Len(rated) \in Nat
        /\ ~GoesOn(rated) => Last(rated).status \in TurnStatuses
    BY <1>1, RatedStatus
  <1>3. Len(rated) <= Len(stored) /\ ~(Len(rated) < Len(stored) /\ GoesOn(rated))
    BY <1>1 DEF ReviewInv, RateOK
  <1>4. Len(stored) \in Nat
    <2>1. stored \in Seq(Range(stored))
      BY <1>1, ConversationsAssumption DEF ReviewInv, RateOK
    <2> QED BY <2>1
  <1>5. "QUALITY_CANDIDATE" \notin TurnStatuses /\ "REJECTED" \in TurnStatuses
    BY DEF TurnStatuses
  <1>6. MinTurns \in Nat
    BY ConversationsAssumption
  <1>7. CASE ~GoesOn(rated)
    BY <1>2, <1>5, <1>7 DEF Terminal
  <1>8. CASE GoesOn(rated)
    <2>1. Len(rated) = Len(stored)
      BY <1>2, <1>3, <1>4, <1>8
    <2>2. Terminal = IF Len(rated) < MinTurns THEN "REJECTED" ELSE "QUALITY_CANDIDATE"
      BY <1>8, <2>1 DEF Terminal
    <2>3. CASE Len(rated) < MinTurns
      <3>1. Terminal = "REJECTED"
        BY <2>2, <2>3
      <3> QED BY <1>5, <2>3, <3>1
    <2>4. CASE ~(Len(rated) < MinTurns)
      <3>1. Terminal = "QUALITY_CANDIDATE"
        BY <2>2, <2>4
      <3>2. Len(rated) >= MinTurns
        BY <1>2, <1>6, <2>4
      <3> QED BY <1>8, <2>1, <3>1, <3>2
    <2> QED BY <2>3, <2>4
  <1> QED BY <1>7, <1>8

LEMMA PrefixOfRated ==
    ASSUME ReviewInv, caller = "rate"
    PROVE  /\ GoesOn(rated) => CommittedPrefix(rated) = rated
           /\ ~GoesOn(rated) => CommittedPrefix(rated) = SubSeq(rated, 1, Len(rated) - 1)
  <1> DEFINE kept == {i \in DOMAIN rated : rated[i].status = "COMMITTED"}
  <1>1. CommittedPrefix(rated) = Filtered(rated, kept)
    BY DEF CommittedPrefix
  <1>2. rated \in Seq(Range(rated)) /\ Len(rated) \in Nat /\ DOMAIN rated = 1 .. Len(rated)
    BY RatedStatus
  <1>3. ASSUME GoesOn(rated) PROVE CommittedPrefix(rated) = rated
    <2>1. \A i \in 1 .. Len(rated) : i \in kept <=> i <= Len(rated)
      BY <1>2, <1>3, RatedStatus
    <2>2. Len(rated) \in 0 .. Len(rated)
      BY <1>2
    <2> HIDE DEF kept
    <2>3. Filtered(rated, kept) = SubSeq(rated, 1, Len(rated))
      BY <1>2, <2>1, <2>2, FilteredPrefix
    <2> QED BY <1>1, <1>2, <2>3, SubSeqFull
  <1>4. ASSUME ~GoesOn(rated)
        PROVE  CommittedPrefix(rated) = SubSeq(rated, 1, Len(rated) - 1)
    <2> DEFINE n == Len(rated) - 1
    <2>1. n \in 0 .. Len(rated) /\ n + 1 = Len(rated)
      BY <1>4, RatedStatus
    <2>2. \A i \in 1 .. Len(rated) : i \in kept <=> i < Len(rated)
      <3> TAKE i \in 1 .. Len(rated)
      <3>1. i < Len(rated) \/ i = Len(rated)
        <4>1. Len(rated) \in Nat
          BY <1>2
        <4> QED BY <4>1
      <3> QED BY <1>2, <1>4, <3>1, RatedStatus
    <2> HIDE DEF kept
    <2>3. \A i \in 1 .. Len(rated) : i \in kept <=> i <= n
      BY <1>2, <2>1, <2>2
    <2> HIDE DEF n
    <2>4. Filtered(rated, kept) = SubSeq(rated, 1, n)
      BY <1>2, <2>1, <2>3, FilteredPrefix
    <2> QED BY <1>1, <2>4 DEF n
  <1> QED BY <1>3, <1>4

\* A beginning of the rated turns, n of them, is a conversation of its own.
LEMMA BeginningSound ==
    ASSUME ReviewInv, caller = "rate", NEW n \in 0 .. Len(rated), NEW ts,
           ts = SubSeq(rated, 1, n)
    PROVE  /\ Len(ts) = n /\ n <= Len(stored)
           /\ \A i \in DOMAIN ts :
                 /\ ts[i] = rated[i] /\ i \in 1 .. n
                 /\ Text(ts[i]) = Text(stored[i])
                 /\ ts[i].history = [k \in 1 .. i - 1 |-> Text(ts[k])]
  <1>1. rated \in Seq(Range(rated)) /\ Len(rated) \in Nat /\ DOMAIN rated = 1 .. Len(rated)
    BY RatedStatus
  <1>2. /\ Len(rated) <= Len(stored) /\ stored \in Stored
        /\ \A i \in DOMAIN rated :
              Text(rated[i]) = Text(stored[i]) /\ rated[i].history = Told(i - 1)
    BY DEF ReviewInv, RateOK
  <1>3. Len(stored) \in Nat
    BY <1>2, ConversationsAssumption
  <1> DEFINE R == Range(rated)
  <1>4. Len(ts) = n /\ DOMAIN ts = 1 .. n /\ \A i \in 1 .. n : ts[i] = rated[i]
    <2> HIDE DEF R
    <2>1. rated \in Seq(R)
      BY <1>1 DEF R
    <2>2. \A i \in 1 .. n : rated[i] \in R
      BY <1>1, <2>1
    <2>3. n \in Int /\ 1 \in Int
      BY <1>1
    <2>4. /\ SubSeq(rated, 1, n) \in Seq(R)
          /\ Len(SubSeq(rated, 1, n)) = IF 1 <= n THEN n - 1 + 1 ELSE 0
      BY <2>2, <2>3, SubSeqProperties
    <2>5. \A i \in 1 .. n : SubSeq(rated, 1, n)[i] = rated[i]
      BY <1>1, <2>1
    <2>6. Len(ts) = n
      BY <1>1, <2>4
    <2>7. DOMAIN ts = 1 .. n
      BY <2>4, <2>6
    <2> QED BY <2>5, <2>6, <2>7
  <1>5. ASSUME NEW i \in DOMAIN ts
        PROVE  ts[i].history = [k \in 1 .. i - 1 |-> Text(ts[k])]
    <2>1. i \in DOMAIN rated /\ ts[i] = rated[i]
      BY <1>1, <1>4
    <2>2. ts[i].history = [k \in 1 .. i - 1 |-> Text(rated[k])]
      BY <1>2, <2>1 DEF Told
    <2>3. \A k \in 1 .. i - 1 : Text(ts[k]) = Text(rated[k])
      <3> TAKE k \in 1 .. i - 1
      <3>1. ts[k] = rated[k]
        BY <1>1, <1>4
      <3> QED BY <3>1
    <2> QED BY <2>2, <2>3
  <1> QED BY <1>1, <1>2, <1>3, <1>4, <1>5

LEMMA ConcludeKeeps ==
    ASSUME ReviewInv, Conclude
    PROVE  ReviewInv'
  <1>1. /\ pc = "conclude" /\ caller = "rate" /\ pc' = "done"
        /\ UNCHANGED <<caller, settings, stored, transcript, turn, reviewVars, rated>>
    BY DEF Conclude, ReviewInv, PlaceOK
  <1>2. PlaceOK' /\ TurnOK' /\ SynthesizeOK'
    BY <1>1, StepsApart
       DEF ReviewInv, PlaceOK, TurnOK, SynthesizeOK, Reviewing, BeforeClaims, AfterClaim, Detailed
  <1>3. FoundOK'
    BY <1>1
       DEF ReviewInv, FoundOK, ComputationOK, SetCheckOK, Reviewing, BeforeClaims, AfterClaim,
           reviewVars
  <1>4. AsksOK'
    BY <1>1 DEF ReviewInv, AsksOK, reviewVars
  <1>5. RatedOK' /\ RatePrefix'
    BY <1>1, RatedKept, PrefixKept
  <1>6. RateOK'
    <2>1. ~Reviewing' /\ pc' # "next" /\ pc' # "conclude"
      BY <1>1 DEF Reviewing, BeforeClaims, AfterClaim
    <2> QED BY <1>1, <1>5, <2>1 DEF RateOK, RatePrefix
  <1>7. rated \in Seq(Range(rated)) /\ Len(rated) \in Nat
    BY <1>1, RatedStatus
  <1>8. OutcomeOK'
    <2>1. CASE RetainsPrefix(rated, Terminal)
      <3>1. /\ [turns |-> rated, status |-> Terminal] \in stops'
            /\ outcome' = [turns |-> CommittedPrefix(rated), status |-> "QUALITY_CANDIDATE"]
        BY <2>1 DEF Conclude
      <3>2. /\ ~Detailed /\ Terminal \in {"REJECTED", "ABSTAINED"}
            /\ Len(CommittedPrefix(rated)) >= MinTurns
        BY <2>1 DEF RetainsPrefix
      <3>3. MinTurns \in Nat
        BY ConversationsAssumption
      <3>4. ~GoesOn(rated)
        BY <1>1, <1>7, <3>2, <3>3, PrefixOfRated, TerminalReads
      <3> DEFINE n  == Len(rated) - 1
                 ts == SubSeq(rated, 1, n)
                 stop == [turns |-> rated, status |-> Terminal]
      <3>5. n \in 0 .. Len(rated) /\ n + 1 = Len(rated) /\ Len(rated) \in Nat
        BY <1>1, <3>4, RatedStatus
      <3>6. outcome'.turns = ts /\ outcome'.status = "QUALITY_CANDIDATE"
        BY <1>1, <3>1, <3>4, PrefixOfRated
      <3> HIDE DEF n, ts
      <3>7. /\ Len(ts) = n /\ n <= Len(stored)
            /\ \A i \in DOMAIN ts :
                  /\ ts[i] = rated[i] /\ i \in 1 .. n
                  /\ Text(ts[i]) = Text(stored[i])
                  /\ ts[i].history = [k \in 1 .. i - 1 |-> Text(ts[k])]
        BY <1>1, <3>5, BeginningSound DEF ts
      <3>8. \A i \in DOMAIN ts : ts[i].status = "COMMITTED"
        <4> TAKE i \in DOMAIN ts
        <4>1. ts[i] = rated[i] /\ i \in 1 .. n
          BY <3>7
        <4>2. i \in 1 .. Len(rated) /\ i < Len(rated)
          <5> DEFINE l == Len(rated)
          <5>1. n \in 0 .. l /\ n + 1 = l /\ l \in Nat
            BY <3>5
          <5> HIDE DEF l
          <5>2. i \in 1 .. l /\ i < l
            BY <4>1, <5>1
          <5> QED BY <5>2 DEF l
        <4> QED BY <1>1, <4>1, <4>2, RatedStatus
      <3>9. Len(ts) >= MinTurns
        BY <1>1, <3>2, <3>4, PrefixOfRated DEF ts, n
      <3>10. stop \in stops' /\ stop.turns = rated
        BY <3>1
      <3>11. Len(stop.turns) = Len(ts) + 1 /\ SubSeq(stop.turns, 1, Len(ts)) = ts
        <4> HIDE DEF stop
        <4> QED BY <3>5, <3>7, <3>10 DEF ts
      <3> HIDE DEF stop
      <3>12. \E s \in stops' : Len(s.turns) = Len(ts) + 1 /\ SubSeq(s.turns, 1, Len(ts)) = ts
        BY <3>10, <3>11
      <3>13. ReratedSound'
        BY <1>1, <3>6, <3>7, <3>8, <3>9, <3>12 DEF ReratedSound, Text
      <3> QED BY <3>6, <3>13 DEF OutcomeOK
    <2>2. CASE ~RetainsPrefix(rated, Terminal)
      <3>1. outcome'.turns = rated /\ outcome'.status = Terminal
        BY <2>2 DEF Conclude
      <3>2. /\ Terminal \in TurnStatuses \cup {"QUALITY_CANDIDATE"}
            /\ Terminal = "QUALITY_CANDIDATE" =>
                  GoesOn(rated) /\ Len(rated) >= MinTurns /\ Len(rated) = Len(stored)
        BY <1>1, TerminalReads
      <3>3. SubSeq(rated, 1, Len(rated)) = rated
        BY <1>7, SubSeqFull
      <3>4. Len(rated) \in 0 .. Len(rated)
        BY <1>7
      <3>5. /\ Len(rated) <= Len(stored)
            /\ \A i \in DOMAIN rated :
                  /\ Text(rated[i]) = Text(stored[i])
                  /\ rated[i].history = [k \in 1 .. i - 1 |-> Text(rated[k])]
        BY <1>1, <3>3, <3>4, BeginningSound
      <3>6. \A i \in DOMAIN rated :
               i < Len(rated) \/ Terminal = "QUALITY_CANDIDATE" => rated[i].status = "COMMITTED"
        BY <1>1, <3>2, RatedStatus
      <3>7. Terminal = "QUALITY_CANDIDATE" =>
               Len(rated) >= MinTurns /\ ~(Len(rated) < Len(stored))
        <4>1. Len(rated) = Len(stored) => ~(Len(rated) < Len(stored))
          BY <1>7
        <4> QED BY <3>2, <4>1
      <3>8. ReratedSound'
        BY <1>1, <3>1, <3>5, <3>6, <3>7 DEF ReratedSound, Text
      <3> QED BY <3>1, <3>2, <3>8 DEF OutcomeOK
    <2> QED BY <2>1, <2>2
  <1> QED BY <1>2, <1>3, <1>4, <1>5, <1>6, <1>8 DEF ReviewInv

LEMMA RaiseKeeps ==
    ASSUME ReviewInv, CallRaises
    PROVE  ReviewInv'
  <1>1. /\ pc' = "raised" /\ asks' = <<>> /\ computation' = None /\ set_check' = None
        /\ UNCHANGED <<caller, settings, stored, transcript, rated, stops, outcome>>
    BY GotoUnchanged DEF CallRaises, Forget
  <1>2. PlaceOK' /\ TurnOK' /\ SynthesizeOK'
    BY <1>1, StepsApart
       DEF ReviewInv, PlaceOK, TurnOK, SynthesizeOK, Reviewing, BeforeClaims, AfterClaim, Detailed
  <1>3. FoundOK'
    BY <1>1
       DEF ReviewInv, FoundOK, ComputationOK, SetCheckOK, Reviewing, BeforeClaims, AfterClaim
  <1>4. AsksOK'
    BY <1>1 DEF ReviewInv, AsksOK
  <1>5. RatedOK'
    BY <1>1, RatedKept
  <1>6. RateOK'
    <2>1. ~Reviewing' /\ pc' # "next" /\ pc' # "conclude"
      BY <1>1 DEF Reviewing, BeforeClaims, AfterClaim
    <2>2. caller = "rate" => RatePrefix'
      BY <1>1, PrefixKept
    <2> QED BY <1>1, <2>1, <2>2 DEF RateOK, RatePrefix
  <1>7. OutcomeOK'
    BY <1>1 DEF ReviewInv, OutcomeOK, ReratedSound
  <1> QED BY <1>2, <1>3, <1>4, <1>5, <1>6, <1>7 DEF ReviewInv

LEMMA EndedKeeps ==
    ASSUME ReviewInv, UNCHANGED vars
    PROVE  ReviewInv'
  <1>1. UNCHANGED <<caller, settings, stored, pc, transcript, turn, fits, inventories,
                    computation, set_check, asks, items, rated, stops, outcome>>
    BY DEF vars, reviewVars
  <1>2. PlaceOK' /\ TurnOK' /\ SynthesizeOK'
    BY <1>1 DEF ReviewInv, PlaceOK, TurnOK, SynthesizeOK, Reviewing, Detailed
  <1>3. FoundOK'
    <2>1. ComputationOK' /\ SetCheckOK'
      BY <1>1 DEF ReviewInv, FoundOK, ComputationOK, SetCheckOK
    <2> QED BY <1>1, <2>1 DEF ReviewInv, FoundOK, Reviewing, Detailed
  <1>4. AsksOK'
    <2>1. Context' = Context /\ Coverage' = Coverage
      BY <1>1, SameContext
    <2>2. \A x : ItemOK(x)' = ItemOK(x)
      BY <1>1, <2>1 DEF ItemOK
    <2>3. \A k : ItemOK(items[k])' = ItemOK(items[k])
      <3> TAKE k
      <3>1. PICK x : items'[k] = x /\ items[k] = x
        BY <1>1
      <3>2. ItemOK(x)' = ItemOK(x)
        BY <2>2
      <3> QED BY <3>1, <3>2 DEF ItemOK
    <2>4. GateVerdictsOf(items)' = GateVerdictsOf(items)
      BY <1>1
    <2>5. Range(Plan(Context))' = Range(Plan(Context))
      BY <2>1
    <2>6. \A y, k : Decides(items[k], y)' = Decides(items[k], y)
      BY <1>1 DEF Decides
    <2> QED BY <1>1, <2>3, <2>4, <2>5, <2>6 DEF ReviewInv, AsksOK
  <1>5. RatedOK'
    BY <1>1, RatedKept
  <1>6. RateOK'
    <2> SUFFICES ASSUME caller = "rate" PROVE RateOK'
      BY <1>1 DEF RateOK
    <2>1. RatePrefix' /\ Told(Len(rated))' = Told(Len(rated))
      BY <1>1, PrefixKept
    <2>2. Text(turn)' = Text(turn) /\ Text(stored[Len(rated) + 1])' = Text(stored[Len(rated) + 1])
      BY <1>1 DEF Text
    <2> QED BY <1>1, <2>1, <2>2 DEF ReviewInv, RateOK, RatePrefix, Reviewing
  <1>7. OutcomeOK'
    BY <1>1 DEF ReviewInv, OutcomeOK, ReratedSound, Text
  <1> QED BY <1>2, <1>3, <1>4, <1>5, <1>6, <1>7 DEF ReviewInv

-----------------------------------------------------------------------------
(***************************************************************************)
(* The theorems.                                                           *)
(***************************************************************************)

LEMMA ReviewInit == Init => ReviewInv
  <1> SUFFICES ASSUME Init PROVE ReviewInv
    OBVIOUS
  <1>1. /\ settings \in Settings /\ caller \in Callers
        /\ InitSynthesize \/ InitRate
        /\ fits = <<>> /\ inventories = <<>> /\ computation = None /\ set_check = None
        /\ asks = <<>> /\ items = <<>> /\ rated = <<>> /\ outcome = None
    BY DEF Init, NothingFound
  <1>2. RatedOK /\ Len(rated) = 0 /\ DOMAIN rated = {}
    <2>1. Len(rated) = 0 /\ DOMAIN rated = {} /\ rated \in Seq(Range(rated))
      BY <1>1
    <2> QED BY <2>1 DEF RatedOK
  <1>3. settings.mode \in {"detailed", "holistic"}
    BY <1>1, ConversationsAssumption
  <1>4. CASE InitSynthesize
    <2>1. caller = "synthesize" /\ transcript \in Histories
      BY <1>4 DEF InitSynthesize
    <2>2. pc = IF Detailed THEN "fit" ELSE "answer"
      BY <1>4, <2>1 DEF InitSynthesize, FirstStep
    <2>3. /\ IsDraft(turn) /\ turn.index = Len(transcript) + 1 /\ turn.requirements = {}
      <3> DEFINE n == Len(transcript) + 1
                 none == {}
      <3>1. PICK instruction, q : turn = Draft(n, instruction, q, None, none)
        BY <1>4 DEF InitSynthesize
      <3> HIDE DEF n, none
      <3>2. IsDraft(turn) /\ turn.index = n /\ turn.requirements = none
        BY <3>1, DraftIsOne
      <3> QED BY <3>2 DEF n, none
    <2>4. IsFiniteSet(turn.requirements)
      BY <2>3, FS_EmptySet
    <2>5. PlaceOK
      BY <1>1, <1>3, <2>1, <2>2 DEF PlaceOK, BeforeClaims, AfterClaim, Detailed
    <2>6. TurnOK
      BY <2>1, <2>2, <2>3, <2>4 DEF TurnOK
    <2>7. FoundOK
      BY <1>1, <2>2 DEF FoundOK, ComputationOK, SetCheckOK, BeforeClaims, AfterClaim, Detailed
    <2>8. AsksOK
      BY <1>1, <2>2 DEF AsksOK
    <2>9. SynthesizeOK /\ RateOK /\ OutcomeOK
      BY <1>1, <1>2, <2>1 DEF SynthesizeOK, RateOK, OutcomeOK, ReratedSound
    <2> QED BY <1>2, <2>5, <2>6, <2>7, <2>8, <2>9 DEF ReviewInv
  <1>5. CASE InitRate
    <2>1. caller = "rate" /\ stored \in Stored /\ transcript = <<>> /\ pc = "next"
      BY <1>5 DEF InitRate
    <2>2. PlaceOK /\ TurnOK /\ ~Reviewing
      BY <1>1, <2>1 DEF PlaceOK, TurnOK, Reviewing, BeforeClaims, AfterClaim, Ends
    <2>3. FoundOK
      BY <1>1, <2>1, <2>2 DEF FoundOK, ComputationOK, SetCheckOK, BeforeClaims, AfterClaim
    <2>4. AsksOK
      BY <1>1, <2>1 DEF AsksOK
    <2>5. RateOK
      <3>1. Len(stored) \in Nat
        BY <2>1, ConversationsAssumption
      <3>2. Told(Len(rated)) = <<>>
        <4>1. 1 .. Len(rated) = {}
          BY <1>2
        <4> QED BY <4>1 DEF Told
      <3> QED BY <1>2, <2>1, <2>2, <3>1, <3>2 DEF RateOK
    <2>6. SynthesizeOK /\ OutcomeOK
      BY <1>1, <2>1 DEF SynthesizeOK, OutcomeOK, ReratedSound
    <2> QED BY <1>2, <2>2, <2>3, <2>4, <2>5, <2>6 DEF ReviewInv
  <1> QED BY <1>1, <1>4, <1>5

LEMMA ReviewStep == ReviewInv /\ [Next]_vars => ReviewInv'
  <1> SUFFICES ASSUME ReviewInv, [Next]_vars PROVE ReviewInv'
    OBVIOUS
  <1>1. CASE NextTurn
    BY <1>1, NextTurnKeeps
  <1>2. CASE FitQuestion
    BY <1>2, FitKeeps
  <1>3. CASE ExtractRequirements
    BY <1>3, ExtractKeeps
  <1>4. CASE AnswerQuestion
    BY <1>4, AnswerKeeps
  <1>5. CASE InventoryClaims
    BY <1>5, InventoryKeeps
  <1>6. CASE CheckComputation
    BY <1>6, ComputationKeeps
  <1>7. CASE CheckCompleteSet
    BY <1>7, CompleteSetKeeps
  <1>8. CASE PlanItems
    BY <1>8, PlanKeeps
  <1>9. CASE RateItem
    BY <1>9, RateItemKeeps
  <1>10. CASE Aggregate
    BY <1>10, AggregateKeeps
  <1>11. CASE RepairAnswer
    BY <1>11, RepairKeeps
  <1>12. CASE RateHolistic
    BY <1>12, HolisticKeeps
  <1>13. CASE Conclude
    BY <1>13, ConcludeKeeps
  <1>14. CASE CallRaises
    BY <1>14, RaiseKeeps
  <1>15. CASE Ended \/ UNCHANGED vars
    BY <1>15, EndedKeeps DEF Ended
  <1> QED BY <1>1, <1>2, <1>3, <1>4, <1>5, <1>6, <1>7, <1>8, <1>9, <1>10, <1>11, <1>12,
             <1>13, <1>14, <1>15 DEF Next

LEMMA ReviewInvariant == Spec => []ReviewInv
  BY ReviewInit, ReviewStep, PTL DEF Spec

\* Every variable keeps its type: the turn under review is the one that follows
\* the transcript, it has an answer where one is reviewed, and questions are left
\* to ask just while the rubric is rated (SynthesisCoordinator._rate_turn).
THEOREM TypeCorrect == Spec => []TypeOK
  <1>1. ReviewInv => TypeOK
    <2> SUFFICES ASSUME ReviewInv PROVE TypeOK
      OBVIOUS
    <2>1. pc \in AfterClaim => ClaimUnion \subseteq Claims
      BY FoundClaims
    <2>2. \A i \in DOMAIN rated : rated[i].status \in TurnStatuses
      BY DEF ReviewInv, RatedOK, TurnSound
    <2> QED BY <2>1, <2>2
            DEF ReviewInv, PlaceOK, TurnOK, AsksOK, OutcomeOK, TypeOK, Reviewing, BeforeClaims,
                AfterClaim, ModelSteps, Ends
  <1> QED BY <1>1, ReviewInvariant, PTL

\* No turn is COMMITTED without grounds: two yes votes on everything that either
\* judge found in the answer or that is required of it, an exact calculation, a
\* complete set (evaluation.aggregate_rating, SynthesisCoordinator._rate_turn and
\* _rate_holistic).
THEOREM AcceptanceHasGrounds == Spec => []AcceptedHasGrounds
  <1>1. ReviewInv => AcceptedHasGrounds
    BY DEF ReviewInv, RatedOK, TurnSound, AcceptedHasGrounds, Accepted
  <1> QED BY <1>1, ReviewInvariant, PTL

\* No turn is REJECTED because judges disagree or cannot tell: a gate is refused by
\* both, or by an exact check on what both extracted (evaluation.consensus).
THEOREM RejectionGrounded == Spec => []RejectionHasGround
  <1>1. ReviewInv => RejectionHasGround
    BY DEF ReviewInv, RatedOK, TurnSound, RejectionHasGround
  <1> QED BY <1>1, ReviewInvariant, PTL

\* No claim, vote or check of a replaced answer survives its repair
\* (SynthesisCoordinator._repair_answer, "A repaired answer never inherits the old
\* pass results").
THEOREM RatingAboutItsAnswer == Spec => []RatingIsOfThisAnswer
  <1>1. ReviewInv => RatingIsOfThisAnswer
    BY DEF ReviewInv, RatedOK, TurnSound, RatingIsOfThisAnswer
  <1> QED BY <1>1, ReviewInvariant, PTL

\* Whatever conversation rate_existing is given, what it returns is a prefix of its
\* text with every turn rated on the turns accepted before it, and a certificate
\* rests on enough accepted turns or on a recorded stop.
THEOREM RerateIsSound == Spec => []ReratedSound
  <1>1. ReviewInv => ReratedSound
    BY DEF ReviewInv, OutcomeOK
  <1> QED BY <1>1, ReviewInvariant, PTL

-----------------------------------------------------------------------------
(***************************************************************************)
(* Every step leaves fewer.                                                *)
(***************************************************************************)

\* Turns still to rate, and whether this one may be repaired.
TurnsLeft == (IF caller = "rate" THEN Len(stored) ELSE 1) - Len(rated)

RepairsLeft == IF pc \in Ends \/ (pc \notin {"next", "conclude"} /\ turn.repaired) THEN 0 ELSE 1

LEMMA LeftIs ==
    /\ StepsLeft = <<TurnsLeft, RepairsLeft, Place, Len(asks)>>
    /\ StepsLeft' = <<TurnsLeft', RepairsLeft', Place', Len(asks')>>
  BY DEF StepsLeft, TurnsLeft, RepairsLeft

LEMMA PlaceIs ==
    /\ Place \in 0 .. 11
    /\ pc \in {"done", "raised"} => Place = 0
    /\ pc = "conclude" => Place = 1
    /\ pc = "repair" => Place = 2
    /\ pc \in {"aggregate", "holistic"} => Place = 3
    /\ pc = "items" => Place = 4
    /\ pc = "plan" => Place = 5
    /\ pc \in {"computation", "set"} => Place = 6
    /\ pc = "claims" => Place = 7
    /\ pc = "answer" => Place = 8
    /\ pc = "requirements" => Place = 9
    /\ pc = "fit" => Place = 10
    /\ pc = "next" => Place = 11
  <1>0. Place \in 0 .. 11
    BY DEF Place
  <1>1. pc \in {"done", "raised"} => Place = 0
    BY DEF Place, Ends
  <1>2. pc = "conclude" => Place = 1
    BY DEF Place, Ends
  <1>3. pc = "repair" => Place = 2
    BY DEF Place, Ends
  <1>4. pc \in {"aggregate", "holistic"} => Place = 3
    BY DEF Place, Ends
  <1>5. pc = "items" => Place = 4
    BY DEF Place, Ends
  <1>6. pc = "plan" => Place = 5
    BY DEF Place, Ends
  <1>7. pc \in {"computation", "set"} => Place = 6
    BY DEF Place, Ends
  <1>8. pc = "claims" => Place = 7
    BY DEF Place, Ends
  <1>9. pc = "answer" => Place = 8
    BY DEF Place, Ends
  <1>10. pc = "requirements" => Place = 9
    BY DEF Place, Ends
  <1>11. pc = "fit" => Place = 10
    BY DEF Place, Ends
  <1>12. pc = "next" => Place = 11
    BY DEF Place, Ends
  <1> QED BY <1>0, <1>1, <1>2, <1>3, <1>4, <1>5, <1>6, <1>7, <1>8, <1>9, <1>10, <1>11, <1>12

LEMMA LeftIsNumbers ==
    ASSUME ReviewInv
    PROVE  /\ TurnsLeft \in Nat /\ RepairsLeft \in {0, 1} /\ Place \in 0 .. 11
           /\ Len(asks) \in Nat /\ Len(rated) \in Nat
  <1>1. Len(rated) \in Nat
    BY AppendedOne DEF ReviewInv, RatedOK
  <1>2. caller = "rate" => Len(stored) \in Nat /\ Len(rated) <= Len(stored)
    <2> SUFFICES ASSUME caller = "rate" PROVE Len(stored) \in Nat /\ Len(rated) <= Len(stored)
      OBVIOUS
    <2>1. stored \in Stored /\ Len(rated) <= Len(stored)
      BY DEF ReviewInv, RateOK
    <2>2. stored \in Seq(Range(stored))
      BY <2>1, ConversationsAssumption
    <2> QED BY <2>1, <2>2
  <1>3. caller # "rate" => Len(rated) <= 1
    BY CallersAre DEF ReviewInv, PlaceOK, SynthesizeOK
  <1>4. TurnsLeft \in Nat
    BY <1>1, <1>2, <1>3 DEF TurnsLeft
  <1>5. Len(asks) \in Nat
    <2>1. asks = <<>> \/ asks \in Seq(Range(Plan(Context)))
      BY DEF ReviewInv, AsksOK
    <2> QED BY <2>1
  <1> QED BY <1>1, <1>4, <1>5, PlaceIs DEF RepairsLeft

LEMMA BelowAt ==
    ASSUME NEW a, NEW b, NEW c, NEW d, NEW e, NEW f, NEW g, NEW h,
           \/ a < e
           \/ a = e /\ b < f
           \/ a = e /\ b = f /\ c < g
           \/ a = e /\ b = f /\ c = g /\ d < h
    PROVE  Below(<<a, b, c, d>>, <<e, f, g, h>>)
  <1> DEFINE s == <<a, b, c, d>>
             t == <<e, f, g, h>>
  <1>1. /\ DOMAIN s = 1 .. 4
        /\ s[1] = a /\ s[2] = b /\ s[3] = c /\ s[4] = d
        /\ t[1] = e /\ t[2] = f /\ t[3] = g /\ t[4] = h
    OBVIOUS
  <1> HIDE DEF s, t
  <1>2. /\ \A j \in 1 .. 1 - 1 : s[j] = t[j]
        /\ a = e => \A j \in 1 .. 2 - 1 : s[j] = t[j]
        /\ a = e /\ b = f => \A j \in 1 .. 3 - 1 : s[j] = t[j]
        /\ a = e /\ b = f /\ c = g => \A j \in 1 .. 4 - 1 : s[j] = t[j]
    <2>1. \A j \in 1 .. 1 - 1 : FALSE
      OBVIOUS
    <2>2. \A j \in 1 .. 2 - 1 : j = 1
      OBVIOUS
    <2>3. \A j \in 1 .. 3 - 1 : j = 1 \/ j = 2
      OBVIOUS
    <2>4. \A j \in 1 .. 4 - 1 : j = 1 \/ j = 2 \/ j = 3
      OBVIOUS
    <2> QED BY <1>1, <2>1, <2>2, <2>3, <2>4
  <1>3. \E i \in DOMAIN s : s[i] < t[i] /\ \A j \in 1 .. i - 1 : s[j] = t[j]
    <2>1. 1 \in DOMAIN s /\ 2 \in DOMAIN s /\ 3 \in DOMAIN s /\ 4 \in DOMAIN s
      BY <1>1
    <2>2. CASE a < e
      BY <1>1, <1>2, <2>1, <2>2
    <2>3. CASE a = e /\ b < f
      BY <1>1, <1>2, <2>1, <2>3
    <2>4. CASE a = e /\ b = f /\ c < g
      BY <1>1, <1>2, <2>1, <2>4
    <2>5. CASE a = e /\ b = f /\ c = g /\ d < h
      BY <1>1, <1>2, <2>1, <2>5
    <2> QED BY <2>2, <2>3, <2>4, <2>5
  <1> QED BY <1>3 DEF Below, s, t

\* The ways in which a step leaves fewer.
Fewer ==
    \/ TurnsLeft' < TurnsLeft
    \/ TurnsLeft' = TurnsLeft /\ RepairsLeft' < RepairsLeft
    \/ TurnsLeft' = TurnsLeft /\ RepairsLeft' = RepairsLeft /\ Place' < Place
    \/ /\ TurnsLeft' = TurnsLeft /\ RepairsLeft' = RepairsLeft /\ Place' = Place
       /\ Len(asks') < Len(asks)

LEMMA FewerIsBelow ==
    ASSUME Fewer
    PROVE  Below(StepsLeft', StepsLeft)
  <1> DEFINE a == TurnsLeft'
             b == RepairsLeft'
             c == Place'
             d == Len(asks')
             e == TurnsLeft
             f == RepairsLeft
             g == Place
             h == Len(asks)
  <1>1. \/ a < e
        \/ a = e /\ b < f
        \/ a = e /\ b = f /\ c < g
        \/ a = e /\ b = f /\ c = g /\ d < h
    BY DEF Fewer
  <1>2. StepsLeft' = <<a, b, c, d>> /\ StepsLeft = <<e, f, g, h>>
    BY LeftIs
  <1> HIDE DEF a, b, c, d, e, f, g, h
  <1>3. Below(<<a, b, c, d>>, <<e, f, g, h>>)
    BY <1>1, BelowAt
  <1> QED BY <1>2, <1>3

\* A turn that has its status is one turn less.
LEMMA EndTurnFewer ==
    ASSUME ReviewInv, NEW aggregate, NEW votes, NEW decided,
           EndTurn(aggregate, votes, decided)
    PROVE  Fewer
  <1>1. PICK r : rated' = Append(rated, r)
    BY DEF EndTurn
  <1>2. caller' = caller /\ stored' = stored
    BY DEF EndTurn
  <1>3. Len(rated') = Len(rated) + 1 /\ Len(rated) \in Nat
    BY <1>1, AppendedOne DEF ReviewInv, RatedOK
  <1>4. TurnsLeft \in Nat
    BY LeftIsNumbers
  <1>5. TurnsLeft' = TurnsLeft - 1
    <2> DEFINE all == IF caller = "rate" THEN Len(stored) ELSE 1
    <2>1. TurnsLeft = all - Len(rated) /\ TurnsLeft' = all - Len(rated')
      BY <1>2 DEF TurnsLeft
    <2>2. all \in Int
      <3>1. caller = "rate" => stored \in Seq(Range(stored))
        BY ConversationsAssumption DEF ReviewInv, RateOK
      <3>2. caller = "rate" => Len(stored) \in Nat
        BY <3>1
      <3> QED BY <3>2
    <2> HIDE DEF all
    <2> QED BY <1>3, <2>1, <2>2
  <1> QED BY <1>4, <1>5 DEF Fewer

\* A later place of the same turn.
LEMMA PlaceFewer ==
    ASSUME ReviewInv, UNCHANGED <<caller, stored, rated>>, Place' < Place,
           \/ pc' \in Ends
           \/ RepairsLeft' = RepairsLeft
    PROVE  Fewer
  <1>1. TurnsLeft' = TurnsLeft
    BY DEF TurnsLeft
  <1>2. RepairsLeft \in {0, 1}
    BY LeftIsNumbers
  <1>3. pc' \in Ends => RepairsLeft' = 0
    BY DEF RepairsLeft
  <1> QED BY <1>1, <1>2, <1>3 DEF Fewer

LEMMA StopFewer ==
    ASSUME ReviewInv, pc \in {"fit", "requirements", "answer"}, NEW status, StopBefore(status)
    PROVE  Fewer
  <1>1. pc' = "done" /\ UNCHANGED <<caller, stored, rated>>
    BY DEF StopBefore
  <1>2. Place' = 0 /\ pc' \in Ends
    <2>1. (pc \in {"done", "raised"} => Place = 0)'
      BY PlaceIs, PTL
    <2> QED BY <1>1, <2>1 DEF Ends
  <1>3. Place \in 8 .. 10
    BY PlaceIs
  <1> QED BY <1>1, <1>2, <1>3, PlaceFewer

\* Between these steps the draft's repair stays what it is.
InTurn == pc \notin Ends \cup {"next", "conclude"}

LEMMA RepairsKept ==
    ASSUME InTurn, InTurn', turn'.repaired = turn.repaired
    PROVE  RepairsLeft' = RepairsLeft
  BY DEF InTurn, RepairsLeft

\* The steps that go to a later place of the same turn.
Onward ==
    /\ InTurn /\ InTurn' /\ turn'.repaired = turn.repaired
    /\ UNCHANGED <<caller, stored, rated>>
    /\ \/ pc = "fit" /\ pc' \in {"requirements", "claims"}
       \/ pc = "requirements" /\ pc' = "answer"
       \/ pc = "answer" /\ pc' \in {"claims", "holistic"}
       \/ pc = "claims" /\ pc' \in {"computation", "set", "plan"}
       \/ pc \in {"computation", "set"} /\ pc' = "plan"
       \/ pc = "plan" /\ pc' = "items"
       \/ pc = "items" /\ pc' = "aggregate"
       \/ pc = "aggregate" /\ pc' = "repair"

LEMMA OnwardFewer ==
    ASSUME ReviewInv, Onward
    PROVE  Fewer
  <1> DEFINE Q(p, n) ==
        /\ p = "repair" => n = 2
        /\ p \in {"aggregate", "holistic"} => n = 3
        /\ p = "items" => n = 4
        /\ p = "plan" => n = 5
        /\ p \in {"computation", "set"} => n = 6
        /\ p = "claims" => n = 7
        /\ p = "answer" => n = 8
        /\ p = "requirements" => n = 9
        /\ p = "fit" => n = 10
  <1>1. Q(pc, Place)
    BY PlaceIs
  <1>2. Q(pc, Place)'
    BY <1>1, PlaceIs, PTL
  <1>3. Place' < Place
    BY <1>1, <1>2 DEF Onward
  <1>4. RepairsLeft' = RepairsLeft
    BY RepairsKept DEF Onward
  <1> QED BY <1>3, <1>4, PlaceFewer DEF Onward

LEMMA NextTurnFewer ==
    ASSUME ReviewInv, NextTurn
    PROVE  Fewer
  <1>1. pc = "next" /\ UNCHANGED <<caller, stored, rated>>
    BY GotoUnchanged DEF NextTurn
  <1>2. Place = 11 /\ RepairsLeft = 1
    BY <1>1, PlaceIs DEF RepairsLeft, Ends
  <1>3. pc' = "conclude" \/ (pc' \in {"fit", "answer", "holistic"} /\ turn'.repaired = FALSE)
    <2>1. CASE Len(rated) < Len(stored) /\ GoesOn(rated)
      <3> DEFINE n == Len(rated) + 1
                 t == stored[n]
      <3>1. /\ turn' = Draft(n, t.instruction, t.question, t.answer, t.requirements)
            /\ pc' = FirstStep
        BY <2>1, GotoUnchanged DEF NextTurn
      <3> HIDE DEF n, t
      <3>2. turn'.repaired = FALSE
        BY <3>1 DEF Draft
      <3> QED BY <3>1, <3>2 DEF FirstStep
    <2>2. CASE ~(Len(rated) < Len(stored) /\ GoesOn(rated))
      BY <2>2, GotoUnchanged DEF NextTurn
    <2> QED BY <2>1, <2>2
  <1>4. RepairsLeft' = 1
    BY <1>3 DEF RepairsLeft, Ends
  <1>5. Place' < 11
    <2> DEFINE Q(p, n) ==
          /\ p = "conclude" => n = 1
          /\ p \in {"aggregate", "holistic"} => n = 3
          /\ p = "answer" => n = 8
          /\ p = "fit" => n = 10
    <2>1. Q(pc, Place)
      BY PlaceIs
    <2>2. Q(pc, Place)'
      BY <2>1, PlaceIs, PTL
    <2> QED BY <1>3, <2>2
  <1> QED BY <1>1, <1>2, <1>4, <1>5, PlaceFewer

LEMMA FitFewer ==
    ASSUME ReviewInv, FitQuestion
    PROVE  Fewer
  <1>1. pc = "fit"
    BY DEF FitQuestion
  <1>2. ASSUME NEW step \in {"requirements", "claims"}, Goto(step), turn' = turn PROVE Fewer
    <2>1. pc' = step /\ UNCHANGED <<caller, stored, rated>>
      BY <1>2, GotoUnchanged
    <2>2. Onward
      BY <1>1, <1>2, <2>1 DEF Onward, InTurn, Ends
    <2> QED BY <2>2, OnwardFewer
  <1>3. ASSUME NEW status, StopBefore(status) PROVE Fewer
    BY <1>1, <1>3, StopFewer
  <1>4. ASSUME NEW aggregate, NEW votes, NEW decided, EndTurn(aggregate, votes, decided)
        PROVE  Fewer
    BY <1>4, EndTurnFewer
  <1>5. \/ \E step \in {"requirements", "claims"} : Goto(step) /\ turn' = turn
        \/ \E status : StopBefore(status)
        \/ \E aggregate, votes, decided : EndTurn(aggregate, votes, decided)
    <2>1. PICK votes \in FitBallots :
             \/ /\ Goto(IF caller = "synthesize" THEN "requirements" ELSE "claims")
                /\ turn' = turn
             \/ StopBefore(PreAnswerStop(consensus(votes)))
             \/ EndTurn(IF consensus(votes) = "UNKNOWN" THEN "ABSTAIN" ELSE "FAIL", votes, <<>>)
      BY DEF FitQuestion
    <2>2. CASE /\ Goto(IF caller = "synthesize" THEN "requirements" ELSE "claims")
               /\ turn' = turn
      BY <2>2
    <2>3. CASE StopBefore(PreAnswerStop(consensus(votes)))
      BY <2>3
    <2>4. CASE EndTurn(IF consensus(votes) = "UNKNOWN" THEN "ABSTAIN" ELSE "FAIL", votes, <<>>)
      BY <2>4
    <2> QED BY <2>1, <2>2, <2>3, <2>4
  <1> QED BY <1>2, <1>3, <1>4, <1>5

LEMMA ExtractFewer ==
    ASSUME ReviewInv, ExtractRequirements
    PROVE  Fewer
  <1>1. pc = "requirements" /\ IsDraft(turn)
    BY DEF ExtractRequirements, ReviewInv, TurnOK, Reviewing, BeforeClaims
  <1>2. \/ StopBefore("ABSTAINED")
        \/ \E agreed : turn' = [turn EXCEPT !.requirements = agreed] /\ Goto("answer")
    BY DEF ExtractRequirements
  <1>3. CASE StopBefore("ABSTAINED")
    BY <1>1, <1>3, StopFewer
  <1>4. ASSUME NEW agreed, turn' = [turn EXCEPT !.requirements = agreed], Goto("answer")
        PROVE  Fewer
    <2>1. pc' = "answer" /\ UNCHANGED <<caller, stored, rated>>
      BY <1>4, GotoUnchanged
    <2>2. turn'.repaired = turn.repaired
      BY <1>1, <1>4, RequiredDraft
    <2>3. Onward
      BY <1>1, <2>1, <2>2 DEF Onward, InTurn, Ends
    <2> QED BY <2>3, OnwardFewer
  <1> QED BY <1>2, <1>3, <1>4

LEMMA AnswerFewer ==
    ASSUME ReviewInv, AnswerQuestion
    PROVE  Fewer
  <1>1. pc = "answer" /\ IsDraft(turn)
    BY DEF AnswerQuestion, ReviewInv, TurnOK, Reviewing, BeforeClaims
  <1>2. CASE StopBefore("REJECTED")
    BY <1>1, <1>2, StopFewer
  <1>3. ASSUME NEW a, turn' = [turn EXCEPT !.answer = a],
               Goto(IF Detailed THEN "claims" ELSE "holistic")
        PROVE  Fewer
    <2>1. pc' = (IF Detailed THEN "claims" ELSE "holistic") /\ UNCHANGED <<caller, stored, rated>>
      BY <1>3, GotoUnchanged
    <2>2. turn'.repaired = turn.repaired
      BY <1>1, <1>3, AnsweredDraft
    <2>3. Onward
      BY <1>1, <2>1, <2>2 DEF Onward, InTurn, Ends
    <2> QED BY <2>3, OnwardFewer
  <1> QED BY <1>2, <1>3 DEF AnswerQuestion

\* The steps that leave the draft alone.
LEMMA CheckFewer ==
    ASSUME ReviewInv, InventoryClaims \/ CheckComputation \/ CheckCompleteSet \/ PlanItems
    PROVE  Fewer
  <1>1. CASE InventoryClaims
    <2>1. /\ pc = "claims" /\ turn' = turn /\ pc' = AfterClaims
          /\ UNCHANGED <<caller, stored, rated>>
      BY <1>1, GotoUnchanged DEF InventoryClaims
    <2>2. Onward
      BY <2>1 DEF Onward, InTurn, Ends, AfterClaims
    <2> QED BY <2>2, OnwardFewer
  <1>2. CASE CheckComputation \/ CheckCompleteSet
    <2>1. /\ pc \in {"computation", "set"} /\ turn' = turn /\ pc' = "plan"
          /\ UNCHANGED <<caller, stored, rated>>
      BY <1>2, GotoUnchanged DEF CheckComputation, CheckCompleteSet
    <2>2. Onward
      BY <2>1 DEF Onward, InTurn, Ends
    <2> QED BY <2>2, OnwardFewer
  <1>3. CASE PlanItems
    <2>1. /\ pc = "plan" /\ turn' = turn /\ pc' = "items"
          /\ UNCHANGED <<caller, stored, rated>>
      BY <1>3, GotoUnchanged DEF PlanItems
    <2>2. Onward
      BY <2>1 DEF Onward, InTurn, Ends
    <2> QED BY <2>2, OnwardFewer
  <1> QED BY <1>1, <1>2, <1>3

LEMMA RateItemFewer ==
    ASSUME ReviewInv, RateItem
    PROVE  Fewer
  <1>1. /\ pc = "items" /\ turn' = turn /\ asks' = Tail(asks)
        /\ pc' = (IF AllAsked(Tail(asks)) THEN "aggregate" ELSE "items")
        /\ UNCHANGED <<caller, stored, rated>>
    BY GotoUnchanged DEF RateItem
  <1>2. CASE pc' = "aggregate"
    <2>1. Onward
      BY <1>1, <1>2 DEF Onward, InTurn, Ends
    <2> QED BY <2>1, OnwardFewer
  <1>3. CASE pc' = "items"
    <2>1. RepairsLeft' = RepairsLeft
      BY <1>1, <1>3, RepairsKept DEF InTurn, Ends
    <2>2. Place' = Place
      BY <1>1, <1>3 DEF Place
    <2>3. TurnsLeft' = TurnsLeft
      BY <1>1 DEF TurnsLeft
    <2>4. Len(asks') < Len(asks)
      <3>1. asks # <<>> /\ asks \in Seq(Range(Plan(Context)))
        BY <1>1 DEF ReviewInv, AsksOK
      <3> DEFINE P == Range(Plan(Context))
      <3> HIDE DEF P
      <3>2. asks # <<>> /\ asks \in Seq(P)
        BY <3>1 DEF P
      <3>3. Len(Tail(asks)) = Len(asks) - 1 /\ Len(asks) \in Nat
        BY <3>2
      <3> QED BY <1>1, <3>3
    <2> QED BY <2>1, <2>2, <2>3, <2>4 DEF Fewer
  <1> QED BY <1>1, <1>2, <1>3

LEMMA AggregateFewer ==
    ASSUME ReviewInv, Aggregate
    PROVE  Fewer
  <1> DEFINE aggregate == aggregate_rating(GateVerdictsOf(items))
  <1>1. pc = "aggregate"
    BY DEF Aggregate
  <1>2. CASE MayRepair(aggregate)
    <2>1. pc' = "repair" /\ turn' = turn /\ UNCHANGED <<caller, stored, rated>>
      BY <1>2, GotoUnchanged DEF Aggregate
    <2>2. Onward
      BY <1>1, <2>1 DEF Onward, InTurn, Ends
    <2> QED BY <2>2, OnwardFewer
  <1>3. CASE ~MayRepair(aggregate)
    <2>1. EndTurn(aggregate, fits, items)
      BY <1>3 DEF Aggregate
    <2> HIDE DEF aggregate
    <2> QED BY <2>1, EndTurnFewer
  <1> QED BY <1>2, <1>3

LEMMA RepairFewer ==
    ASSUME ReviewInv, RepairAnswer
    PROVE  Fewer
  <1>1. pc = "repair" /\ IsDraft(turn) /\ ~turn.repaired
    BY DEF RepairAnswer, ReviewInv, TurnOK, Reviewing, AfterClaim
  <1>2. CASE EndTurn("FAIL", fits, items)
    BY <1>2, EndTurnFewer
  <1>3. ASSUME NEW a, Revise(a) PROVE Fewer
    <2>1. /\ turn' = [turn EXCEPT !.answer = a, !.repaired = TRUE] /\ pc' = "claims"
          /\ UNCHANGED <<caller, stored, rated>>
      BY <1>3, GotoUnchanged DEF Revise
    <2>2. turn'.repaired = TRUE
      BY <1>1, <2>1, RevisedDraft
    <2>3. RepairsLeft = 1 /\ RepairsLeft' = 0
      BY <1>1, <2>1, <2>2 DEF RepairsLeft, Ends
    <2>4. TurnsLeft' = TurnsLeft
      BY <2>1 DEF TurnsLeft
    <2> QED BY <2>3, <2>4 DEF Fewer
  <1> QED BY <1>2, <1>3 DEF RepairAnswer

LEMMA HolisticFewer ==
    ASSUME ReviewInv, RateHolistic
    PROVE  Fewer
  <1>1. CASE EndTurn("FAIL", fits, Holistic(<<>>, "NOT_MET"))
    BY <1>1, EndTurnFewer
  <1>2. ASSUME NEW votes \in Ballots,
               EndTurn(aggregate_rating(GateVerdictsOf(Holistic(votes, consensus(votes)))),
                       fits, Holistic(votes, consensus(votes)))
        PROVE  Fewer
    BY <1>2, EndTurnFewer
  <1> QED BY <1>1, <1>2 DEF RateHolistic

LEMMA LeaveFewer ==
    ASSUME ReviewInv, Conclude \/ CallRaises
    PROVE  Fewer
  <1>1. pc' \in {"done", "raised"} /\ UNCHANGED <<caller, stored, rated>>
    BY GotoUnchanged DEF Conclude, CallRaises
  <1>2. Place' = 0 /\ pc' \in Ends
    <2>1. (pc \in {"done", "raised"} => Place = 0)'
      BY PlaceIs, PTL
    <2> QED BY <1>1, <2>1 DEF Ends
  <1>3. Place # 0 /\ Place \in 0 .. 11
    <2>1. pc \in ModelSteps \cup {"conclude"}
      BY DEF Conclude, CallRaises
    <2> QED BY <2>1, PlaceIs DEF ModelSteps
  <1> QED BY <1>1, <1>2, <1>3, PlaceFewer

LEMMA StepFewer == ReviewInv /\ [Next]_vars => [Below(StepsLeft', StepsLeft)]_vars
  <1> SUFFICES ASSUME ReviewInv, Next, ~UNCHANGED vars PROVE Fewer
    BY FewerIsBelow
  <1>1. CASE NextTurn
    BY <1>1, NextTurnFewer
  <1>2. CASE FitQuestion
    BY <1>2, FitFewer
  <1>3. CASE ExtractRequirements
    BY <1>3, ExtractFewer
  <1>4. CASE AnswerQuestion
    BY <1>4, AnswerFewer
  <1>5. CASE InventoryClaims \/ CheckComputation \/ CheckCompleteSet \/ PlanItems
    BY <1>5, CheckFewer
  <1>6. CASE RateItem
    BY <1>6, RateItemFewer
  <1>7. CASE Aggregate
    BY <1>7, AggregateFewer
  <1>8. CASE RepairAnswer
    BY <1>8, RepairFewer
  <1>9. CASE RateHolistic
    BY <1>9, HolisticFewer
  <1>10. CASE Conclude \/ CallRaises
    BY <1>10, LeaveFewer
  <1>11. ~Ended
    BY DEF Ended
  <1> QED BY <1>1, <1>2, <1>3, <1>4, <1>5, <1>6, <1>7, <1>8, <1>9, <1>10, <1>11 DEF Next

\* Whatever the judges say, a review ends: turns, repairs, steps and rubric
\* questions still possible are a sequence of numbers that every step makes
\* smaller, so that no answer is repaired twice and no turn rated twice
\* (SynthesisCoordinator._rate_turn, rate_existing).
THEOREM EveryReviewEnds == Spec => ReviewEnds
  <1>1. ReviewInv => StepsLeft \in [1 .. 4 -> Nat]
    <2> SUFFICES ASSUME ReviewInv PROVE StepsLeft \in [1 .. 4 -> Nat]
      OBVIOUS
    <2> DEFINE a == TurnsLeft
               b == RepairsLeft
               c == Place
               d == Len(asks)
    <2>1. a \in Nat /\ b \in Nat /\ c \in Nat /\ d \in Nat
      BY LeftIsNumbers
    <2> HIDE DEF a, b, c, d
    <2>2. <<a, b, c, d>> \in [1 .. 4 -> Nat]
      BY <2>1
    <2> QED BY <2>2, LeftIs DEF a, b, c, d
  <1> QED BY <1>1, ReviewInvariant, StepFewer, PTL DEF Spec, ReviewEnds
================================================================================
