---------------------------- MODULE VideoCallProofs ----------------------------
(***************************************************************************)
(* Proofs about the way of a video from the file to the recording, for     *)
(* every set of files in the order that VideoSender assumes, every limit   *)
(* on a payload that their pairs of parameter sets fit in, and any number  *)
(* of passes, lost and overtaken packets.                                  *)
(*                                                                         *)
(* Cutting a file, grouping its units and writing packets join sequences,  *)
(* which SequencesExt does with a recursive function.  Facts about it need *)
(* induction; it is done here with sets of numbers, from the theorem that  *)
(* a set with a well-founded relation has a minimal element.               *)
(***************************************************************************)
EXTENDS VideoCall, SequenceTheorems, WellFoundedInduction, TLAPS

-----------------------------------------------------------------------------
(***************************************************************************)
(* Numbers and joined sequences.                                           *)
(***************************************************************************)

\* A set of natural numbers has a least one.
LEMMA LeastNumber ==
  ASSUME NEW T, T \subseteq Nat, T # {}
  PROVE  \E x \in T : \A y \in T : x <= y
<1> DEFINE R == OpToRel(<, Nat)
<1>1. IsWellFoundedOn(R, Nat)
  BY NatLessThanWellFounded
<1>2. PICK x \in T : \A y \in T : ~ (<<y, x>> \in R)
  <2> HIDE DEF R
  <2> QED BY <1>1, WFMin
<1>3. ASSUME NEW y \in T, ~(x <= y) PROVE FALSE
  <2>1. y < x /\ x \in Nat /\ y \in Nat
    BY <1>3
  <2>2. <<y, x>> \in R
    BY <2>1 DEF OpToRel
  <2> QED BY <1>2, <2>2
<1> QED BY <1>3

\* Induction, as a statement about a set.
LEMMA NumberInduction ==
  ASSUME NEW S, 0 \in S, \A n \in Nat : n \in S => n + 1 \in S
  PROVE  Nat \subseteq S
<1> SUFFICES ASSUME Nat \ S # {} PROVE FALSE
  OBVIOUS
<1>1. PICK x \in Nat \ S : \A y \in Nat \ S : x <= y
  BY LeastNumber
<1>2. x # 0 /\ x - 1 \in Nat /\ x = (x - 1) + 1
  OBVIOUS
<1>3. x - 1 \in S
  BY <1>1, <1>2
<1> QED BY <1>2, <1>3

\* What FlattenSeq computes, step by step: f[i] is the first i sequences joined.
LEMMA Flattening ==
  ASSUME NEW S, NEW seqs \in Seq(Seq(S)), seqs # <<>>
  PROVE  \E f \in [1 .. Len(seqs) -> Seq(S)] :
            /\ FlattenSeq(seqs) = f[Len(seqs)]
            /\ f[1] = seqs[1]
            /\ \A i \in 1 .. Len(seqs) - 1 : f[i + 1] = f[i] \o seqs[i + 1]
<1> DEFINE N == Len(seqs)
           Part(n, g) == /\ n > 0 => g[1] = seqs[1]
                         /\ \A i \in 1 .. n - 1 : g[i + 1] = g[i] \o seqs[i + 1]
           K == {n \in Nat : n <= N => \E g \in [1 .. n -> Seq(S)] : Part(n, g)}
<1>0. N \in Nat /\ N > 0 /\ \A i \in 1 .. N : seqs[i] \in Seq(S)
  BY EmptySeq, LenProperties, ElementOfSeq
<1> HIDE DEF N
<1>1. 0 \in K
  <2>1. [i \in 1 .. 0 |-> <<>>] \in [1 .. 0 -> Seq(S)]
    OBVIOUS
  <2>2. Part(0, [i \in 1 .. 0 |-> <<>>])
    OBVIOUS
  <2> QED BY <2>1, <2>2
<1>2. ASSUME NEW n \in Nat, n \in K PROVE n + 1 \in K
  <2>0. ASSUME n + 1 <= N
        PROVE  \E g \in [1 .. n + 1 -> Seq(S)] : Part(n + 1, g)
    <3>0. n <= N /\ n + 1 \in 1 .. N
      BY <1>0, <2>0
    <3>1. PICK g \in [1 .. n -> Seq(S)] : Part(n, g)
      <4> HIDE DEF Part
      <4> QED BY <1>2, <3>0
    <3> DEFINE x == IF n = 0 THEN seqs[1] ELSE g[n] \o seqs[n + 1]
               h == [i \in 1 .. n + 1 |-> IF i = n + 1 THEN x ELSE g[i]]
    <3>2. x \in Seq(S)
      <4>1. CASE n = 0 BY <4>1, <1>0
      <4>2. CASE n # 0
        <5>1. g[n] \in Seq(S) /\ seqs[n + 1] \in Seq(S)
          BY <4>2, <1>0, <3>0
        <5> QED BY <4>2, <5>1, ConcatProperties
      <4> QED BY <4>1, <4>2
    <3>3. h \in [1 .. n + 1 -> Seq(S)]
      <4> HIDE DEF x
      <4> QED BY <3>2
    <3>4. h[1] = seqs[1]
      BY <3>1
    <3>5. ASSUME NEW i \in 1 .. (n + 1) - 1 PROVE h[i + 1] = h[i] \o seqs[i + 1]
      <4>1. i \in 1 .. n + 1 /\ i + 1 \in 1 .. n + 1 /\ n # 0 /\ i # n + 1 /\ i \in 1 .. n
        OBVIOUS
      <4>2. CASE i = n
        BY <4>1, <4>2
      <4>3. CASE i # n
        <5>1. i \in 1 .. n - 1 /\ i + 1 # n + 1
          BY <4>1, <4>3
        <5>2. g[i + 1] = g[i] \o seqs[i + 1]
          BY <3>1, <5>1
        <5> QED BY <4>1, <5>1, <5>2
      <4> QED BY <4>2, <4>3
    <3> HIDE DEF h
    <3> QED BY <3>3, <3>4, <3>5
  <2> HIDE DEF Part
  <2> QED BY <2>0
<1>3. PICK g \in [1 .. N -> Seq(S)] : Part(N, g)
  <2>1. N \in K
    <3> HIDE DEF K
    <3> QED BY <1>0, <1>1, <1>2, NumberInduction
  <2> HIDE DEF Part
  <2> QED BY <2>1
<1> DEFINE fix(f) == f = [i \in 1 .. N |-> IF i = 1 THEN seqs[i] ELSE f[i - 1] \o seqs[i]]
           c == CHOOSE f : fix(f)
<1>4. fix(g)
  <2>1. ASSUME NEW i \in 1 .. N
        PROVE  g[i] = IF i = 1 THEN seqs[i] ELSE g[i - 1] \o seqs[i]
    <3>1. CASE i = 1
      BY <1>0, <1>3, <3>1
    <3>2. CASE i # 1
      <4>1. i - 1 \in 1 .. N - 1 /\ (i - 1) + 1 = i
        BY <1>0, <3>2
      <4>2. g[(i - 1) + 1] = g[i - 1] \o seqs[(i - 1) + 1]
        BY <1>3, <4>1
      <4> QED BY <3>2, <4>1, <4>2
    <3> QED BY <3>1, <3>2
  <2> QED BY <2>1
<1>5. fix(c)
  <2> HIDE DEF fix
  <2> QED BY <1>4
<1>6. FlattenSeq(seqs) = c[N]
  BY <1>0 DEF FlattenSeq, N
<1> HIDE DEF c
<1>7. Part(N, c)
  <2>1. \A i \in 1 .. N : c[i] = IF i = 1 THEN seqs[i] ELSE c[i - 1] \o seqs[i]
    BY <1>5
  <2>2. 1 \in 1 .. N
    BY <1>0
  <2>3. ASSUME NEW i \in 1 .. N - 1 PROVE c[i + 1] = c[i] \o seqs[i + 1]
    <3>1. i + 1 \in 1 .. N /\ i + 1 # 1 /\ (i + 1) - 1 = i
      BY <1>0
    <3>2. c[i + 1] = c[(i + 1) - 1] \o seqs[i + 1]
      BY <2>1, <3>1, Zenon
    <3> QED BY <3>1, <3>2
  <2> QED BY <2>1, <2>2, <2>3
<1> DEFINE L == {n \in Nat : \A i \in 1 .. N : i <= n => c[i] \in Seq(S)}
<1>8. 0 \in L
  OBVIOUS
<1>9. ASSUME NEW n \in Nat, n \in L PROVE n + 1 \in L
  <2> SUFFICES ASSUME n + 1 <= N PROVE c[n + 1] \in Seq(S)
    BY <1>0, <1>9
  <2>1. CASE n = 0
    BY <2>1, <1>0, <1>7
  <2>2. CASE n # 0
    <3>1. n \in 1 .. N - 1 /\ n \in 1 .. N /\ n + 1 \in 1 .. N
      BY <1>0, <2>2
    <3>2. c[n] \in Seq(S) /\ seqs[n + 1] \in Seq(S)
      BY <1>0, <1>9, <3>1
    <3>3. c[n + 1] = c[n] \o seqs[n + 1]
      BY <1>7, <3>1
    <3> QED BY <3>2, <3>3, ConcatProperties
  <2> QED BY <2>1, <2>2
<1>10. N \in L
  <2> HIDE DEF L
  <2> QED BY <1>0, <1>8, <1>9, NumberInduction
<1>11. c \in [1 .. N -> Seq(S)]
  <2>1. \A i \in 1 .. N : c[i] \in Seq(S)
    BY <1>0, <1>10
  <2>2. c = [i \in 1 .. N |-> c[i]]
    BY <1>5
  <2> QED BY <2>1, <2>2
<1>12. c[1] = seqs[1] /\ \A i \in 1 .. N - 1 : c[i + 1] = c[i] \o seqs[i + 1]
  BY <1>0, <1>7
<1> HIDE DEF Part, K, L, fix
<1> QED BY <1>6, <1>11, <1>12 DEF N

\* Nothing joined is nothing.
LEMMA FlattenEmpty == FlattenSeq(<<>>) = <<>>
BY DEF FlattenSeq

\* Sequences over S joined are a sequence over S.
LEMMA FlattenType ==
  ASSUME NEW S, NEW seqs \in Seq(Seq(S))
  PROVE  FlattenSeq(seqs) \in Seq(S)
<1>1. CASE seqs = <<>>
  <2>1. FlattenSeq(seqs) = <<>>
    BY <1>1, FlattenEmpty
  <2> QED BY <2>1
<1>2. CASE seqs # <<>>
  <2>1. Len(seqs) \in 1 .. Len(seqs)
    BY <1>2, EmptySeq, LenProperties
  <2>2. PICK f \in [1 .. Len(seqs) -> Seq(S)] : FlattenSeq(seqs) = f[Len(seqs)]
    BY <1>2, Flattening
  <2> QED BY <2>1, <2>2
<1> QED BY <1>1, <1>2

\* One sequence joined is that sequence.
LEMMA FlattenOne ==
  ASSUME NEW S, NEW s \in Seq(S)
  PROVE  FlattenSeq(<<s>>) = s
<1> DEFINE one == <<s>>
<1>1. one \in Seq(Seq(S)) /\ one # <<>> /\ Len(one) = 1 /\ one[1] = s
  OBVIOUS
<1> HIDE DEF one
<1>2. PICK f \in [1 .. Len(one) -> Seq(S)] :
        /\ FlattenSeq(one) = f[Len(one)]
        /\ f[1] = one[1]
  BY <1>1, Flattening
<1>3. FlattenSeq(one) = s
  BY <1>1, <1>2
<1> QED BY <1>3 DEF one

\* One more sequence is joined at the end.
LEMMA FlattenAppend ==
  ASSUME NEW S, NEW seqs \in Seq(Seq(S)), NEW s \in Seq(S)
  PROVE  FlattenSeq(Append(seqs, s)) = FlattenSeq(seqs) \o s
<1>1. CASE seqs = <<>>
  <2>1. Append(seqs, s) = <<s>> /\ <<>> \o s = s
    BY <1>1
  <2> QED BY <1>1, <2>1, FlattenOne, FlattenEmpty
<1>2. CASE seqs # <<>>
  <2> DEFINE more == Append(seqs, s)
             N == Len(seqs)
  <2>1. /\ N \in Nat /\ N > 0 /\ more \in Seq(Seq(S)) /\ Len(more) = N + 1
        /\ more # <<>> /\ more[N + 1] = s /\ \A i \in 1 .. N : more[i] = seqs[i]
    BY <1>2, EmptySeq, LenProperties, AppendProperties
  <2>2. PICK f \in [1 .. N -> Seq(S)] :
            /\ FlattenSeq(seqs) = f[N]
            /\ f[1] = seqs[1]
            /\ \A i \in 1 .. N - 1 : f[i + 1] = f[i] \o seqs[i + 1]
    BY <1>2, Flattening
  <2> HIDE DEF more
  <2>3. PICK g \in [1 .. Len(more) -> Seq(S)] :
            /\ FlattenSeq(more) = g[Len(more)]
            /\ g[1] = more[1]
            /\ \A i \in 1 .. Len(more) - 1 : g[i + 1] = g[i] \o more[i + 1]
    BY <2>1, Flattening
  <2> HIDE DEF N
  <2>4. \A i \in 1 .. N : g[i + 1] = g[i] \o more[i + 1]
    <3>1. Len(more) - 1 = N
      BY <2>1
    <3> QED BY <2>3, <3>1
  <2> DEFINE K == {n \in Nat : n + 1 <= N => g[n + 1] = f[n + 1]}
  <2>5. 0 \in K
    BY <2>1, <2>2, <2>3
  <2>6. ASSUME NEW n \in Nat, n \in K PROVE n + 1 \in K
    <3> SUFFICES ASSUME n + 2 <= N PROVE g[n + 2] = f[n + 2]
      BY <2>1
    <3>1. n + 1 \in 1 .. N - 1 /\ n + 1 \in 1 .. N /\ n + 2 \in 1 .. N /\ (n + 1) + 1 = n + 2
      BY <2>1
    <3>2. g[n + 1] = f[n + 1]
      BY <2>1, <2>6
    <3>3. g[n + 2] = g[n + 1] \o seqs[n + 2]
      BY <2>1, <2>4, <3>1
    <3>4. f[n + 2] = f[n + 1] \o seqs[n + 2]
      BY <2>2, <3>1
    <3> QED BY <3>2, <3>3, <3>4
  <2>7. N - 1 \in K
    <3> HIDE DEF K
    <3>1. N - 1 \in Nat
      BY <2>1
    <3> QED BY <3>1, <2>5, <2>6, NumberInduction
  <2>8. g[N] = f[N] /\ g[N + 1] = g[N] \o s
    <3>1. N \in 1 .. N /\ (N - 1) + 1 = N /\ N <= N
      BY <2>1
    <3>2. g[N] = f[N]
      BY <2>7, <3>1
    <3>3. g[N + 1] = g[N] \o more[N + 1]
      BY <2>4, <3>1
    <3> QED BY <3>2, <3>3, <2>1
  <2> QED BY <2>1, <2>2, <2>3, <2>8 DEF more
<1> QED BY <1>1, <1>2

\* Where each sequence is after joining: the i-th begins behind off[i - 1], the
\* places follow one another and cover the whole.
Places(seqs, off) ==
    /\ off[0] = 0
    /\ \A i \in 1 .. Len(seqs) : off[i] = off[i - 1] + Len(seqs[i])

\* The places of later sequences are later places.
LEMMA PlacesGrow ==
    ASSUME NEW S, NEW seqs \in Seq(Seq(S)), NEW off \in [0 .. Len(seqs) -> Nat],
           Places(seqs, off)
    PROVE  \A i, j \in 0 .. Len(seqs) : i <= j => off[i] <= off[j]
<1> DEFINE N == Len(seqs)
           K == {n \in Nat : n <= N => \A i \in 0 .. n : off[i] <= off[n]}
<1>0. /\ N \in Nat /\ \A i \in 1 .. N : Len(seqs[i]) \in Nat
      /\ \A i \in 0 .. N : off[i] \in Nat
    BY LenProperties, ElementOfSeq
<1>p. \A i \in 1 .. N : off[i] = off[i - 1] + Len(seqs[i])
    BY DEF Places
<1> HIDE DEF N
<1>1. 0 \in K
    BY <1>0
<1>2. ASSUME NEW n \in Nat, n \in K PROVE n + 1 \in K
    <2> SUFFICES ASSUME n + 1 <= N PROVE \A i \in 0 .. n + 1 : off[i] <= off[n + 1]
        BY <1>0
    <2>1. n + 1 \in 1 .. N /\ n \in 0 .. N /\ (n + 1) - 1 = n
        BY <1>0
    <2>2. off[n + 1] = off[n] + Len(seqs[n + 1])
        BY <2>1, <1>p
    <2>3. off[n] \in Nat /\ off[n + 1] \in Nat /\ Len(seqs[n + 1]) \in Nat
        BY <1>0, <2>1
    <2>4. ASSUME NEW i \in 0 .. n PROVE off[i] <= off[n]
        BY <1>0, <1>2, <2>1
    <2>5. \A i \in 0 .. n : off[i] \in Nat
        BY <1>0, <2>1
    <2> QED BY <2>2, <2>3, <2>4, <2>5
<1>3. Nat \subseteq K
    <2> HIDE DEF K
    <2> QED BY <1>1, <1>2, NumberInduction
<1>4. ASSUME NEW j \in 0 .. N, NEW i \in 0 .. N, i <= j PROVE off[i] <= off[j]
    <2>1. j \in K /\ i \in 0 .. j
        BY <1>0, <1>3, <1>4
    <2> QED BY <1>0, <2>1
<1> QED BY <1>4 DEF N

\* Every place is in one of the sequences.
Covered(seqs, off) ==
    \A k \in 1 .. off[Len(seqs)] :
        \E i \in 1 .. Len(seqs) : \E j \in 1 .. Len(seqs[i]) : k = off[i - 1] + j

\* Every place of the joined sequence is in one of the sequences.
LEMMA PlacesCover ==
    ASSUME NEW S, NEW seqs \in Seq(Seq(S)), NEW off \in [0 .. Len(seqs) -> Nat],
           Places(seqs, off)
    PROVE  Covered(seqs, off)
<1> SUFFICES ASSUME NEW k \in 1 .. off[Len(seqs)]
             PROVE  \E i \in 1 .. Len(seqs) : \E j \in 1 .. Len(seqs[i]) : k = off[i - 1] + j
    BY DEF Covered
<1> DEFINE N == Len(seqs)
           T == {i \in 0 .. N : k <= off[i]}
<1>0. /\ N \in Nat /\ k \in Nat /\ k # 0 /\ \A i \in 1 .. N : Len(seqs[i]) \in Nat
      /\ \A i \in 0 .. N : off[i] \in Nat
      /\ k <= off[N] /\ off[0] = 0
    <2>1. N \in Nat /\ N \in 0 .. N /\ \A i \in 1 .. N : Len(seqs[i]) \in Nat
        BY LenProperties, ElementOfSeq
    <2>2. \A i \in 0 .. N : off[i] \in Nat
        OBVIOUS
    <2>3. off[N] \in Nat
        BY <2>1, <2>2
    <2> HIDE DEF N
    <2>4. k \in 1 .. off[N]
        BY DEF N
    <2> QED BY <2>1, <2>2, <2>3, <2>4 DEF Places
<1>p. \A i \in 1 .. N : off[i] = off[i - 1] + Len(seqs[i])
    BY DEF Places
<1> HIDE DEF N
<1>1. T \subseteq Nat /\ N \in T
    BY <1>0
<1>2. PICK i \in T : \A j \in T : i <= j
    <2> HIDE DEF T
    <2> QED BY <1>1, LeastNumber
<1>3. i # 0 /\ i \in 1 .. N /\ i - 1 \in 0 .. N
    BY <1>0, <1>2
<1>4. off[i - 1] < k /\ k <= off[i] /\ off[i - 1] \in Nat
    <2>1. i - 1 \notin T
        BY <1>0, <1>2, <1>3
    <2> QED BY <1>0, <1>2, <1>3, <2>1
<1>5. off[i] = off[i - 1] + Len(seqs[i])
    BY <1>3, <1>p
<1>6. k - off[i - 1] \in 1 .. Len(seqs[i]) /\ k = off[i - 1] + (k - off[i - 1])
    <2> DEFINE a == off[i - 1]
               b == off[i]
               l == Len(seqs[i])
    <2>1. a \in Nat /\ b \in Nat /\ l \in Nat /\ k \in Nat /\ a < k /\ k <= b /\ b = a + l
        BY <1>0, <1>3, <1>4, <1>5
    <2> HIDE DEF a, b, l
    <2>2. k - a \in 1 .. l /\ k = a + (k - a)
        BY <2>1
    <2> QED BY <2>2 DEF a, l
<1> QED BY <1>3, <1>6 DEF N

\* Joining puts every element in its place.
LEMMA FlattenPlaces ==
    ASSUME NEW S, NEW seqs \in Seq(Seq(S))
    PROVE  \E off \in [0 .. Len(seqs) -> Nat] :
              /\ Places(seqs, off)
              /\ Len(FlattenSeq(seqs)) = off[Len(seqs)]
              /\ \A i \in 1 .. Len(seqs) : \A j \in 1 .. Len(seqs[i]) :
                    FlattenSeq(seqs)[off[i - 1] + j] = seqs[i][j]
<1> DEFINE N == Len(seqs)
<1>0. N \in Nat /\ \A i \in 1 .. N : seqs[i] \in Seq(S) /\ Len(seqs[i]) \in Nat
    BY LenProperties, ElementOfSeq
<1>1. CASE seqs = <<>>
    <2>1. [i \in 0 .. 0 |-> 0] \in [0 .. Len(seqs) -> Nat]
        BY <1>1
    <2>2. Places(seqs, [i \in 0 .. 0 |-> 0])
        BY <1>1 DEF Places
    <2>3. FlattenSeq(seqs) = <<>>
        BY <1>1, FlattenEmpty
    <2> QED BY <1>1, <2>1, <2>2, <2>3
<1>2. CASE seqs # <<>>
    <2>1. PICK f \in [1 .. N -> Seq(S)] :
             /\ FlattenSeq(seqs) = f[N]
             /\ f[1] = seqs[1]
             /\ \A i \in 1 .. N - 1 : f[i + 1] = f[i] \o seqs[i + 1]
        BY <1>2, Flattening
    <2>2. N > 0
        BY <1>2, EmptySeq
    <2> DEFINE off == [i \in 0 .. N |-> IF i = 0 THEN 0 ELSE Len(f[i])]
    <2> HIDE DEF N
    <2>3. \A i \in 1 .. N : f[i] \in Seq(S) /\ Len(f[i]) \in Nat
        BY <2>1, LenProperties
    <2>4. off \in [0 .. N -> Nat]
        BY <1>0, <2>3
    <2>5. \A i \in 1 .. N : off[i] = off[i - 1] + Len(seqs[i])
        <3> SUFFICES ASSUME NEW i \in 1 .. N PROVE off[i] = off[i - 1] + Len(seqs[i])
            OBVIOUS
        <3>1. CASE i = 1
            BY <1>0, <2>1, <2>3, <3>1
        <3>2. CASE i # 1
            <4>1. i - 1 \in 1 .. N - 1 /\ i - 1 \in 1 .. N /\ (i - 1) + 1 = i
                BY <1>0, <3>2
            <4>2. f[i] = f[i - 1] \o seqs[i]
                BY <2>1, <4>1
            <4>3. Len(f[i]) = Len(f[i - 1]) + Len(seqs[i])
                BY <1>0, <2>3, <4>1, <4>2, ConcatProperties
            <4>4. off[i] = Len(f[i]) /\ off[i - 1] = Len(f[i - 1])
                <5>1. i \in 0 .. N /\ i - 1 \in 0 .. N /\ i # 0 /\ i - 1 # 0
                    BY <1>0, <4>1
                <5> QED BY <5>1
            <4> QED BY <4>3, <4>4
        <3> QED BY <3>1, <3>2
    <2>6. Places(seqs, off)
        <3>1. off[0] = 0
            BY <1>0
        <3> HIDE DEF off
        <3> QED BY <2>5, <3>1 DEF Places, N
    <2> HIDE DEF off
    <2>7. \A i, j \in 0 .. N : i <= j => off[i] <= off[j]
        BY <2>4, <2>6, PlacesGrow DEF N
    <2> DEFINE K == {n \in Nat : n + 1 <= N =>
                       \A i \in 1 .. n + 1 : \A j \in 1 .. Len(seqs[i]) :
                          f[n + 1][off[i - 1] + j] = seqs[i][j]}
    <2>8. 0 \in K
        <3> SUFFICES ASSUME NEW j \in 1 .. Len(seqs[1])
                     PROVE  f[1][off[0] + j] = seqs[1][j]
            OBVIOUS
        <3>1. off[0] = 0 /\ 1 \in 1 .. N
            BY <1>0, <2>2 DEF off
        <3> QED BY <1>0, <2>1, <3>1
    <2>9. ASSUME NEW n \in Nat, n \in K PROVE n + 1 \in K
        <3> SUFFICES ASSUME n + 2 <= N, NEW i \in 1 .. n + 2, NEW j \in 1 .. Len(seqs[i])
                     PROVE  f[n + 2][off[i - 1] + j] = seqs[i][j]
            BY <1>0
        <3>1. /\ n + 1 \in 1 .. N - 1 /\ n + 1 \in 1 .. N /\ n + 2 \in 1 .. N
              /\ (n + 1) + 1 = n + 2 /\ i \in 1 .. N /\ i - 1 \in 0 .. N /\ i \in 0 .. N
              /\ n + 1 \in 0 .. N
            BY <1>0
        <3>2. f[n + 2] = f[n + 1] \o seqs[n + 2]
            BY <2>1, <3>1
        <3>3. off[n + 1] = Len(f[n + 1])
            BY <3>1 DEF off
        <3>4. \A k \in 1 .. Len(f[n + 1]) + Len(seqs[n + 2]) :
                 f[n + 2][k] = IF k <= Len(f[n + 1]) THEN f[n + 1][k]
                               ELSE seqs[n + 2][k - Len(f[n + 1])]
            BY <1>0, <2>3, <3>1, <3>2, ConcatProperties
        <3> DEFINE a == off[i - 1]
                   l == Len(f[n + 1])
        <3>5. a \in Nat /\ l \in Nat /\ j \in Nat /\ j > 0 /\ Len(seqs[n + 2]) \in Nat
            BY <1>0, <2>3, <2>4, <3>1, SMTT(40)
        <3>6. CASE i = n + 2
            <4>1. a = l
                BY <3>1, <3>3, <3>6
            <4> HIDE DEF a, l
            <4>2. a + j \in 1 .. l + Len(seqs[n + 2]) /\ ~(a + j <= l) /\ (a + j) - l = j
                BY <3>5, <3>6, <4>1
            <4>3. f[n + 2][a + j] = seqs[n + 2][(a + j) - l]
                BY <3>4, <4>2 DEF l
            <4> QED BY <3>6, <4>2, <4>3 DEF a
        <3>7. CASE i # n + 2
            <4>1. i \in 1 .. n + 1
                BY <3>7
            <4>2. f[n + 1][a + j] = seqs[i][j]
                BY <2>9, <3>1, <4>1
            <4>3. off[i] = a + Len(seqs[i]) /\ off[i] <= off[n + 1]
                BY <2>5, <2>7, <3>1, <4>1
            <4>4. Len(seqs[i]) \in Nat /\ off[i] \in Nat
                BY <1>0, <2>4, <3>1
            <4> HIDE DEF a
            <4>5. a + j <= l
                BY <3>3, <3>5, <4>3, <4>4
            <4> HIDE DEF l
            <4>6. a + j \in 1 .. l + Len(seqs[n + 2])
                BY <3>5, <4>5
            <4>7. f[n + 2][a + j] = f[n + 1][a + j]
                BY <3>4, <4>5, <4>6 DEF l
            <4> QED BY <4>2, <4>7 DEF a
        <3> QED BY <3>6, <3>7
    <2>10. N - 1 \in K
        <3> HIDE DEF K
        <3>1. N - 1 \in Nat
            BY <1>0, <2>2
        <3> QED BY <3>1, <2>8, <2>9, NumberInduction
    <2>11. \A i \in 1 .. N : \A j \in 1 .. Len(seqs[i]) :
              FlattenSeq(seqs)[off[i - 1] + j] = seqs[i][j]
        <3>1. (N - 1) + 1 = N /\ N <= N
            BY <1>0
        <3>2. \A i \in 1 .. N : \A j \in 1 .. Len(seqs[i]) : f[N][off[i - 1] + j] = seqs[i][j]
            BY <2>10, <3>1
        <3> QED BY <2>1, <3>2
    <2>12. Len(FlattenSeq(seqs)) = off[N]
        BY <1>0, <2>1, <2>2 DEF off
    <2> QED BY <2>4, <2>6, <2>11, <2>12 DEF N
<1> QED BY <1>1, <1>2

\* The numbers of a set, each once and in order.
Lists(s, C) ==
    /\ s \in Seq(C)
    /\ \A i, j \in 1 .. Len(s) : i < j => s[i] < s[j]
    /\ \A k \in C : \E i \in 1 .. Len(s) : s[i] = k

\* A set is listed in one way.
LEMMA ListedOnce ==
    ASSUME NEW C, C \subseteq Nat, NEW s, NEW t, Lists(s, C), Lists(t, C)
    PROVE  s = t
<1> DEFINE K == {n \in Nat : \A i \in 1 .. n :
                   /\ i <= Len(s) => i <= Len(t) /\ s[i] = t[i]
                   /\ i <= Len(t) => i <= Len(s) /\ s[i] = t[i]}
<1>0. /\ s \in Seq(C) /\ t \in Seq(C) /\ Len(s) \in Nat /\ Len(t) \in Nat
      /\ \A i \in 1 .. Len(s) : s[i] \in C /\ s[i] \in Nat
      /\ \A i \in 1 .. Len(t) : t[i] \in C /\ t[i] \in Nat
    BY ElementOfSeq, LenProperties DEF Lists
<1>1. 0 \in K
    OBVIOUS
\* The next one of either is found in the other, not before this place.
<1>2. ASSUME NEW n \in Nat, n \in K PROVE n + 1 \in K
    <2>0. \A i \in 1 .. n : /\ i <= Len(s) => i <= Len(t) /\ s[i] = t[i]
                            /\ i <= Len(t) => i <= Len(s) /\ s[i] = t[i]
        BY <1>2
    <2>1. ASSUME n + 1 <= Len(s)
          PROVE  n + 1 <= Len(t) /\ t[n + 1] <= s[n + 1]
        <3>1. n + 1 \in 1 .. Len(s)
            BY <1>0, <2>1
        <3>2. PICK j \in 1 .. Len(t) : t[j] = s[n + 1]
            BY <1>0, <3>1 DEF Lists
        <3>3. ~(j <= n)
            <4> SUFFICES ASSUME j <= n PROVE FALSE
                OBVIOUS
            <4>0. j \in 1 .. n /\ j \in Nat /\ j <= Len(t)
                BY <1>0, <3>2
            <4>1. s[j] = t[j] /\ j \in 1 .. Len(s) /\ j < n + 1
                <5>1. s[j] = t[j] /\ j <= Len(s)
                    BY <2>0, <4>0
                <5> QED BY <1>0, <4>0, <5>1
            <4>2. s[j] < s[n + 1]
                BY <3>1, <4>1 DEF Lists
            <4> QED BY <1>0, <3>1, <3>2, <4>1, <4>2
        <3>4. n + 1 \in 1 .. Len(t)
            BY <1>0, <3>2, <3>3
        <3>5. j = n + 1 \/ n + 1 < j
            BY <3>2, <3>3
        <3>6. n + 1 < j => t[n + 1] < t[j]
            BY <3>2, <3>4 DEF Lists
        <3> QED BY <1>0, <3>1, <3>2, <3>4, <3>5, <3>6
    <2>2. ASSUME n + 1 <= Len(t)
          PROVE  n + 1 <= Len(s) /\ s[n + 1] <= t[n + 1]
        <3>1. n + 1 \in 1 .. Len(t)
            BY <1>0, <2>2
        <3>2. PICK j \in 1 .. Len(s) : s[j] = t[n + 1]
            BY <1>0, <3>1 DEF Lists
        <3>3. ~(j <= n)
            <4> SUFFICES ASSUME j <= n PROVE FALSE
                OBVIOUS
            <4>0. j \in 1 .. n /\ j \in Nat /\ j <= Len(s)
                BY <1>0, <3>2
            <4>1. s[j] = t[j] /\ j \in 1 .. Len(t) /\ j < n + 1
                <5>1. s[j] = t[j] /\ j <= Len(t)
                    BY <2>0, <4>0
                <5> QED BY <1>0, <4>0, <5>1
            <4>2. t[j] < t[n + 1]
                BY <3>1, <4>1 DEF Lists
            <4> QED BY <1>0, <3>1, <3>2, <4>1, <4>2
        <3>4. n + 1 \in 1 .. Len(s)
            BY <1>0, <3>2, <3>3
        <3>5. j = n + 1 \/ n + 1 < j
            BY <3>2, <3>3
        <3>6. n + 1 < j => s[n + 1] < s[j]
            BY <3>2, <3>4 DEF Lists
        <3> QED BY <1>0, <3>1, <3>2, <3>4, <3>5, <3>6
    <2>3. (n + 1 <= Len(s) <=> n + 1 <= Len(t)) /\ (n + 1 <= Len(s) => s[n + 1] = t[n + 1])
        <3>1. n + 1 <= Len(s) => n + 1 \in 1 .. Len(s)
            BY <1>0
        <3>2. n + 1 <= Len(t) => n + 1 \in 1 .. Len(t)
            BY <1>0
        <3> QED BY <1>0, <2>1, <2>2, <3>1, <3>2
    <2>4. ASSUME NEW i \in 1 .. n + 1
          PROVE  /\ i <= Len(s) => i <= Len(t) /\ s[i] = t[i]
                 /\ i <= Len(t) => i <= Len(s) /\ s[i] = t[i]
        <3>1. CASE i = n + 1
            BY <2>3, <3>1
        <3>2. CASE i # n + 1
            <4>1. i \in 1 .. n
                BY <3>2
            <4> QED BY <2>0, <4>1
        <3> QED BY <3>1, <3>2
    <2> QED BY <2>4
<1>3. Nat \subseteq K
    <2> HIDE DEF K
    <2> QED BY <1>1, <1>2, NumberInduction
<1>4. \A i \in Nat \ {0} : /\ i <= Len(s) => i <= Len(t) /\ s[i] = t[i]
                           /\ i <= Len(t) => i <= Len(s) /\ s[i] = t[i]
    <2> SUFFICES ASSUME NEW i \in Nat \ {0}
                 PROVE  /\ i <= Len(s) => i <= Len(t) /\ s[i] = t[i]
                        /\ i <= Len(t) => i <= Len(s) /\ s[i] = t[i]
        OBVIOUS
    <2>1. i \in K /\ i \in 1 .. i
        BY <1>3
    <2> QED BY <2>1
<1>5. Len(s) = Len(t)
    <2>1. Len(s) # 0 => Len(s) <= Len(t)
        BY <1>0, <1>4
    <2>2. Len(t) # 0 => Len(t) <= Len(s)
        BY <1>0, <1>4
    <2> QED BY <1>0, <2>1, <2>2
<1>6. \A i \in 1 .. Len(s) : s[i] = t[i]
    BY <1>0, <1>4
<1> QED BY <1>0, <1>5, <1>6, SeqEqual

\* One number more at the end of a list.
LEMMA ListGrows ==
    ASSUME NEW C, NEW m \in Nat, NEW s, Lists(s, C \cap (1 .. m))
    PROVE  Lists(s \o IF m + 1 \in C THEN <<m + 1>> ELSE <<>>, C \cap (1 .. m + 1))
<1> DEFINE D == C \cap (1 .. m)
           E == C \cap (1 .. m + 1)
<1>0. /\ s \in Seq(D) /\ Len(s) \in Nat /\ D \subseteq E
      /\ \A i \in 1 .. Len(s) : s[i] \in D /\ s[i] \in 1 .. m
    BY ElementOfSeq, LenProperties DEF Lists
<1>s. s \in Seq(E)
    BY <1>0, SeqMonotonic
<1>1. CASE m + 1 \in C
    <2> DEFINE t == Append(s, m + 1)
    <2>1. m + 1 \in E
        BY <1>1
    <2>2. /\ t \in Seq(E) /\ Len(t) = Len(s) + 1 /\ t[Len(s) + 1] = m + 1
          /\ \A i \in 1 .. Len(s) : t[i] = s[i]
        <3> HIDE DEF E
        <3> QED BY <1>s, <2>1, AppendProperties
    <2>3. s \o <<m + 1>> = t
        <3> HIDE DEF E
        <3> QED BY <1>s, <2>1, AppendIsConcat
    <2> HIDE DEF t
    <2>4. ASSUME NEW i \in 1 .. Len(t), NEW j \in 1 .. Len(t), i < j
          PROVE  t[i] < t[j]
        <3>1. i \in 1 .. Len(s) /\ t[i] = s[i]
            BY <1>0, <2>2, <2>4, SMTT(40)
        <3>2. CASE j = Len(s) + 1
            BY <1>0, <2>2, <3>1, <3>2
        <3>3. CASE j # Len(s) + 1
            <4>1. j \in 1 .. Len(s)
                BY <1>0, <2>2, <3>3
            <4>2. t[j] = s[j]
                BY <2>2, <4>1
            <4>3. s[i] < s[j]
                BY <2>4, <3>1, <4>1 DEF Lists
            <4> QED BY <3>1, <4>2, <4>3
        <3> QED BY <3>2, <3>3
    <2>5. ASSUME NEW k \in E PROVE \E i \in 1 .. Len(t) : t[i] = k
        <3>1. CASE k = m + 1
            <4>1. Len(s) + 1 \in 1 .. Len(t)
                BY <1>0, <2>2
            <4> QED BY <2>2, <3>1, <4>1
        <3>2. CASE k # m + 1
            <4>1. k \in D
                BY <3>2
            <4>2. PICK i \in 1 .. Len(s) : s[i] = k
                BY <4>1 DEF Lists
            <4>3. i \in 1 .. Len(t) /\ t[i] = k
                BY <1>0, <2>2, <4>2
            <4> QED BY <4>3
        <3> QED BY <3>1, <3>2
    <2> QED BY <1>1, <2>2, <2>3, <2>4, <2>5 DEF Lists
<1>2. CASE m + 1 \notin C
    <2>1. D = E
        BY <1>2
    <2>2. s \o <<>> = s
        BY <1>0, ConcatEmptySeq
    <2> QED BY <1>2, <2>1, <2>2
<1> QED BY <1>1, <1>2

\* Going through the numbers up to n and keeping those of a set lists it.
LEMMA SelectionLists ==
    ASSUME NEW n \in Nat, NEW C, C \subseteq 1 .. n
    PROVE  Lists(FlattenSeq([k \in 1 .. n |-> IF k \in C THEN <<k>> ELSE <<>>]), C)
<1> DEFINE kept == [k \in 1 .. n |-> IF k \in C THEN <<k>> ELSE <<>>]
<1>0. kept \in Seq(Seq(Nat)) /\ Len(kept) = n
    OBVIOUS
<1>e. Lists(<<>>, C \cap (1 .. 0))
    BY DEF Lists
<1>1. CASE n = 0
    <2>1. FlattenSeq(kept) = <<>>
        <3>1. kept = <<>>
            BY <1>1
        <3> HIDE DEF kept
        <3> QED BY <3>1, FlattenEmpty
    <2>2. C \cap (1 .. 0) = C
        BY <1>1
    <2> QED BY <1>e, <2>1, <2>2
<1>2. CASE n # 0
    <2>1. kept # <<>>
        BY <1>0, <1>2
    <2> HIDE DEF kept
    <2>2. PICK f \in [1 .. n -> Seq(Nat)] :
             /\ FlattenSeq(kept) = f[n]
             /\ f[1] = kept[1]
             /\ \A i \in 1 .. n - 1 : f[i + 1] = f[i] \o kept[i + 1]
        BY <1>0, <2>1, Flattening
    <2> DEFINE K == {m \in Nat : m + 1 <= n => Lists(f[m + 1], C \cap (1 .. m + 1))}
    <2>3. 0 \in K
        <3>1. kept[1] = IF 0 + 1 \in C THEN <<0 + 1>> ELSE <<>>
            BY <1>2 DEF kept
        <3>2. <<>> \o kept[1] = kept[1]
            BY <3>1
        <3>3. Lists(<<>> \o kept[1], C \cap (1 .. 0 + 1))
            BY <1>e, <3>1, ListGrows
        <3> QED BY <2>2, <3>2, <3>3
    <2>4. ASSUME NEW m \in Nat, m \in K PROVE m + 1 \in K
        <3> SUFFICES ASSUME (m + 1) + 1 <= n
                     PROVE  Lists(f[(m + 1) + 1], C \cap (1 .. (m + 1) + 1))
            OBVIOUS
        <3>1. m + 1 \in 1 .. n - 1 /\ m + 1 \in Nat /\ (m + 1) + 1 \in 1 .. n
            OBVIOUS
        <3>2. Lists(f[m + 1], C \cap (1 .. m + 1))
            BY <2>4
        <3>3. kept[(m + 1) + 1] = IF (m + 1) + 1 \in C THEN <<(m + 1) + 1>> ELSE <<>>
            BY <3>1 DEF kept
        <3>4. f[(m + 1) + 1] = f[m + 1] \o kept[(m + 1) + 1]
            BY <2>2, <3>1
        <3>5. Lists(f[m + 1] \o IF (m + 1) + 1 \in C THEN <<(m + 1) + 1>> ELSE <<>>,
                    C \cap (1 .. (m + 1) + 1))
            BY <3>1, <3>2, ListGrows
        <3> QED BY <3>3, <3>4, <3>5
    <2>5. n - 1 \in K
        <3> HIDE DEF K
        <3>1. n - 1 \in Nat
            BY <1>2
        <3> QED BY <2>3, <2>4, <3>1, NumberInduction
    <2>6. (n - 1) + 1 = n
        OBVIOUS
    <2>7. Lists(f[n], C \cap (1 .. n))
        BY <2>5, <2>6
    <2>8. C \cap (1 .. n) = C
        OBVIOUS
    <2>9. Lists(FlattenSeq(kept), C)
        BY <2>2, <2>7, <2>8
    <2> QED BY <2>9 DEF kept
<1> QED BY <1>1, <1>2

-----------------------------------------------------------------------------
(***************************************************************************)
(* The reader: what it cuts out of the bytes of a file are its units.      *)
(***************************************************************************)

Block(unit) == StartCode(unit.code) \o NalOf(unit)

\* A unit with its start code: zeros, a 1, and the unit's own bytes.
LEMMA BlockShape ==
    ASSUME NEW unit \in Unit
    PROVE  /\ unit.code \in {3, 4}
           /\ NalOf(unit) \in Seq(Byte) /\ Len(NalOf(unit)) \in Nat /\ Len(NalOf(unit)) > 0
           /\ Block(unit) \in Seq(Byte) /\ Len(Block(unit)) = unit.code + Len(NalOf(unit))
           /\ \A j \in 1 .. unit.code - 1 : Block(unit)[j] = 0
           /\ Block(unit)[unit.code] = 1
           /\ \A j \in 1 .. Len(NalOf(unit)) : Block(unit)[unit.code + j] = NalOf(unit)[j]
<1> DEFINE c == unit.code
           nal == NalOf(unit)
           sc == StartCode(c)
<1>1. c \in {3, 4} /\ unit.head \in Byte /\ unit.body \in Seq(Byte)
    BY DEF Unit
<1>2. nal \in Seq(Byte) /\ Len(nal) \in Nat /\ Len(nal) > 0
    <2>1. <<unit.head>> \in Seq(Byte) /\ Len(<<unit.head>>) = 1
        BY <1>1
    <2>2. Len(unit.body) \in Nat
        BY <1>1, LenProperties
    <2> QED BY <1>1, <2>1, <2>2, ConcatProperties DEF NalOf
<1>3. /\ sc \in Seq(Byte) /\ Len(sc) = c /\ sc[c] = 1
      /\ \A j \in 1 .. c - 1 : sc[j] = 0
    <2>1. CASE c = 3
        BY <2>1 DEF StartCode, Byte
    <2>2. CASE c = 4
        BY <2>2 DEF StartCode, Byte
    <2> QED BY <1>1, <2>1, <2>2
<1> HIDE DEF c, nal, sc
<1>4. /\ sc \o nal \in Seq(Byte) /\ Len(sc \o nal) = c + Len(nal)
      /\ \A j \in 1 .. c + Len(nal) : (sc \o nal)[j] = IF j <= c THEN sc[j] ELSE nal[j - c]
    BY <1>2, <1>3, ConcatProperties
<1>5. \A j \in 1 .. c - 1 : (sc \o nal)[j] = 0
    BY <1>1, <1>2, <1>3, <1>4
<1>6. (sc \o nal)[c] = 1
    BY <1>1, <1>2, <1>3, <1>4
<1>7. ASSUME NEW j \in 1 .. Len(nal) PROVE (sc \o nal)[c + j] = nal[j]
    <2>1. c + j \in 1 .. c + Len(nal) /\ ~(c + j <= c) /\ (c + j) - c = j
        BY <1>1, <1>2
    <2> QED BY <1>4, <2>1
<1> QED BY <1>1, <1>2, <1>4, <1>5, <1>6, <1>7 DEF Block, c, nal, sc

BlocksOf(units) == [k \in 1 .. Len(units) |-> Block(units[k])]

\* Where the units are among the bytes of a file.
PlacesOf(units, off) ==
    /\ off \in [0 .. Len(units) -> Nat]
    /\ off[0] = 0
    /\ Len(BytesOf(units)) = off[Len(units)]
    /\ \A i \in 1 .. Len(units) :
          /\ off[i] = off[i - 1] + units[i].code + Len(NalOf(units[i]))
          /\ \A j \in 1 .. units[i].code - 1 : BytesOf(units)[off[i - 1] + j] = 0
          /\ BytesOf(units)[off[i - 1] + units[i].code] = 1
          /\ \A j \in 1 .. Len(NalOf(units[i])) :
                BytesOf(units)[off[i - 1] + units[i].code + j] = NalOf(units[i])[j]
    /\ \A i, j \in 0 .. Len(units) : i <= j => off[i] <= off[j]
    /\ \A k \in 1 .. Len(BytesOf(units)) : \E i \in 1 .. Len(units) :
          \E j \in 1 .. units[i].code + Len(NalOf(units[i])) : k = off[i - 1] + j

\* Where the units of a file are among its bytes.
LEMMA FilePlaces ==
    ASSUME NEW units \in Seq(Unit)
    PROVE  BytesOf(units) \in Seq(Byte) /\ \E off : PlacesOf(units, off)
<1> DEFINE N == Len(units)
           seqs == BlocksOf(units)
           B == BytesOf(units)
<1>1. N \in Nat /\ \A k \in 1 .. N : units[k] \in Unit
    BY LenProperties, ElementOfSeq
<1>2. /\ seqs \in Seq(Seq(Byte)) /\ Len(seqs) = N
      /\ \A k \in 1 .. N : seqs[k] = Block(units[k])
    BY <1>1, BlockShape DEF BlocksOf
<1>3. B = FlattenSeq(seqs)
    BY DEF BytesOf, BlocksOf, Block
<1> HIDE DEF seqs, B, N
<1>4. B \in Seq(Byte)
    BY <1>2, <1>3, FlattenType
<1>5. PICK off \in [0 .. Len(seqs) -> Nat] :
         /\ Places(seqs, off)
         /\ Len(FlattenSeq(seqs)) = off[Len(seqs)]
         /\ \A i \in 1 .. Len(seqs) : \A j \in 1 .. Len(seqs[i]) :
               FlattenSeq(seqs)[off[i - 1] + j] = seqs[i][j]
    BY <1>2, FlattenPlaces
<1>6. off \in [0 .. N -> Nat] /\ off[0] = 0 /\ Len(B) = off[N]
    BY <1>2, <1>3, <1>5 DEF Places
<1>7. ASSUME NEW i \in 1 .. N
      PROVE  /\ off[i] = off[i - 1] + units[i].code + Len(NalOf(units[i]))
             /\ \A j \in 1 .. units[i].code - 1 : B[off[i - 1] + j] = 0
             /\ B[off[i - 1] + units[i].code] = 1
             /\ \A j \in 1 .. Len(NalOf(units[i])) :
                   B[off[i - 1] + units[i].code + j] = NalOf(units[i])[j]
    <2> DEFINE c == units[i].code
               nal == NalOf(units[i])
               b == Block(units[i])
               a == off[i - 1]
    <2>1. units[i] \in Unit
        BY <1>1
    <2>2. /\ c \in {3, 4} /\ Len(nal) \in Nat /\ Len(nal) > 0
          /\ Len(b) = c + Len(nal)
          /\ \A j \in 1 .. c - 1 : b[j] = 0
          /\ b[c] = 1
          /\ \A j \in 1 .. Len(nal) : b[c + j] = nal[j]
        BY <2>1, BlockShape
    <2>3. i - 1 \in 0 .. N /\ a \in Nat
        <3>1. i - 1 \in 0 .. N
            BY <1>1
        <3> QED BY <1>6, <3>1
    <2>4. seqs[i] = b /\ off[i] = a + Len(seqs[i])
        BY <1>2, <1>5 DEF Places
    <2> HIDE DEF c, nal, b
    <2>5. \A j \in 1 .. Len(b) : B[a + j] = b[j]
        BY <1>2, <1>3, <1>5, <2>4
    <2> HIDE DEF a
    <2>6. off[i] = a + c + Len(nal)
        BY <2>2, <2>3, <2>4
    <2>7. \A j \in 1 .. c - 1 : B[a + j] = 0
        BY <2>2, <2>5
    <2>8. B[a + c] = 1
        BY <2>2, <2>5
    <2>9. ASSUME NEW j \in 1 .. Len(nal) PROVE B[a + c + j] = nal[j]
        <3>1. c + j \in 1 .. Len(b) /\ a + (c + j) = a + c + j
            BY <2>2, <2>3
        <3> QED BY <2>2, <2>5, <3>1
    <2> QED BY <2>6, <2>7, <2>8, <2>9 DEF a, c, nal
<1>8. \A i, j \in 0 .. N : i <= j => off[i] <= off[j]
    BY <1>2, <1>5, PlacesGrow
<1>9. ASSUME NEW k \in 1 .. Len(B)
      PROVE  \E i \in 1 .. N :
                \E j \in 1 .. units[i].code + Len(NalOf(units[i])) : k = off[i - 1] + j
    <2>1. k \in 1 .. off[Len(seqs)]
        BY <1>2, <1>6
    <2>2. seqs \in Seq(Seq(Byte)) /\ off \in [0 .. Len(seqs) -> Nat] /\ Places(seqs, off)
        BY <1>2, <1>5
    <2>3. Covered(seqs, off)
        BY <2>2, PlacesCover
    <2>4. PICK i \in 1 .. Len(seqs) : \E j \in 1 .. Len(seqs[i]) : k = off[i - 1] + j
        BY <2>1, <2>3 DEF Covered
    <2>5. Len(seqs[i]) = units[i].code + Len(NalOf(units[i]))
        BY <1>1, <1>2, BlockShape
    <2> QED BY <1>2, <2>4, <2>5
<1>10. PlacesOf(units, off)
    BY <1>6, <1>7, <1>8, <1>9 DEF PlacesOf, N, B
<1> QED BY <1>4, <1>10 DEF B

\* Start codes end where the units begin, and nowhere else.
LEMMA WhereCodesEnd ==
    ASSUME NEW units \in Seq(Unit), \A i \in DOMAIN units : Encoded(NalOf(units[i])),
           NEW off, PlacesOf(units, off), NEW k \in 1 .. Len(BytesOf(units))
    PROVE  EndsStartCode(BytesOf(units), k) <=>
              \E i \in 1 .. Len(units) : k = off[i - 1] + units[i].code
<1> DEFINE N == Len(units)
           B == BytesOf(units)
<1>1. /\ N \in Nat /\ DOMAIN units = 1 .. N
      /\ \A i \in 1 .. N : /\ units[i].code \in {3, 4}
                           /\ Len(NalOf(units[i])) \in Nat /\ Len(NalOf(units[i])) > 0
    BY LenProperties, ElementOfSeq, BlockShape
<1>2. /\ off[0] = 0
      /\ \A i \in 1 .. N :
          /\ \A j \in 1 .. units[i].code - 1 : B[off[i - 1] + j] = 0
          /\ B[off[i - 1] + units[i].code] = 1
          /\ \A j \in 1 .. Len(NalOf(units[i])) :
                B[off[i - 1] + units[i].code + j] = NalOf(units[i])[j]
      /\ \E i \in 1 .. N : \E j \in 1 .. units[i].code + Len(NalOf(units[i])) : k = off[i - 1] + j
      /\ \A i \in 0 .. N : off[i] \in Nat
      /\ \A i \in 1 .. N : Encoded(NalOf(units[i]))
    BY <1>1 DEF PlacesOf
<1> HIDE DEF N, B
<1>3. ASSUME NEW i \in 1 .. N, k = off[i - 1] + units[i].code
      PROVE  EndsStartCode(B, k)
    <2> DEFINE a == off[i - 1]
               c == units[i].code
    <2>1. a \in Nat /\ c \in {3, 4} /\ k = a + c
        <3>1. i - 1 \in 0 .. N
            BY <1>1
        <3> QED BY <1>1, <1>2, <1>3, <3>1
    <2>2. B[a + c] = 1 /\ \A j \in 1 .. c - 1 : B[a + j] = 0
        BY <1>2
    <2> HIDE DEF a, c
    <2>3. /\ c - 1 \in 1 .. c - 1 /\ c - 2 \in 1 .. c - 1
          /\ a + (c - 1) = k - 1 /\ a + (c - 2) = k - 2 /\ k > 2
        BY <2>1
    <2>4. B[k - 1] = 0 /\ B[k - 2] = 0
        BY <2>2, <2>3
    <2> QED BY <2>1, <2>2, <2>3, <2>4 DEF EndsStartCode
<1>4. ASSUME EndsStartCode(B, k)
      PROVE  \E i \in 1 .. N : k = off[i - 1] + units[i].code
    <2>1. PICK i \in 1 .. N : \E j \in 1 .. units[i].code + Len(NalOf(units[i])) : k = off[i - 1] + j
        BY <1>2
    <2>2. PICK j \in 1 .. units[i].code + Len(NalOf(units[i])) : k = off[i - 1] + j
        BY <2>1
    <2> DEFINE a == off[i - 1]
               c == units[i].code
               nal == NalOf(units[i])
    <2>3. /\ a \in Nat /\ c \in {3, 4} /\ Len(nal) \in Nat /\ j \in 1 .. c + Len(nal)
          /\ k = a + j
        <3>1. i - 1 \in 0 .. N
            BY <1>1
        <3> QED BY <1>1, <1>2, <2>2, <3>1
    <2>4. /\ B[a + c] = 1
          /\ \A m \in 1 .. c - 1 : B[a + m] = 0
          /\ \A m \in 1 .. Len(nal) : B[a + c + m] = nal[m]
          /\ \A m \in 1 .. Len(nal) : ~EndsStartCode(nal, m)
        BY <1>2 DEF Encoded
    <2>5. B[k] = 1 /\ B[k - 1] = 0 /\ B[k - 2] = 0
        BY <1>4 DEF EndsStartCode
    <2> SUFFICES ASSUME k # a + c PROVE FALSE
        OBVIOUS
    <2> HIDE DEF a, c, nal
    <2>6. j \notin 1 .. c - 1
        <3> SUFFICES ASSUME j \in 1 .. c - 1 PROVE FALSE
            OBVIOUS
        <3>1. B[a + j] = 0
            BY <2>4
        <3> QED BY <2>3, <2>5, <3>1
    <2> DEFINE m == j - c
    <2>7. m \in 1 .. Len(nal) /\ k = a + c + m
        BY <2>3, <2>6
    <2> HIDE DEF m
    <2>8. CASE m = 1
        <3>1. k - 1 = a + c
            BY <2>3, <2>7, <2>8
        <3> QED BY <2>4, <2>5, <3>1
    <2>9. CASE m = 2
        <3>1. k - 2 = a + c
            BY <2>3, <2>7, <2>9
        <3> QED BY <2>4, <2>5, <3>1
    <2>10. CASE m > 2
        <3>1. /\ m - 1 \in 1 .. Len(nal) /\ m - 2 \in 1 .. Len(nal)
              /\ k - 1 = a + c + (m - 1) /\ k - 2 = a + c + (m - 2)
            BY <2>3, <2>7, <2>10
        <3>2. nal[m] = 1 /\ nal[m - 1] = 0 /\ nal[m - 2] = 0
            BY <2>4, <2>5, <2>7, <3>1
        <3> QED BY <2>4, <2>7, <2>10, <3>2 DEF EndsStartCode
    <2> QED BY <2>3, <2>7, <2>8, <2>9, <2>10
<1> QED BY <1>3, <1>4 DEF N, B

\* The zeros of a start code are told from the end of the unit before it.
LEMMA ZerosOfCode ==
    ASSUME NEW units \in Seq(Unit), \A i \in DOMAIN units : Encoded(NalOf(units[i])),
           NEW off, PlacesOf(units, off), NEW i \in 1 .. Len(units)
    PROVE  Zeros(BytesOf(units), off[i - 1] + units[i].code) = units[i].code - 1
<1> DEFINE N == Len(units)
           B == BytesOf(units)
           a == off[i - 1]
           c == units[i].code
<1>1. N \in Nat /\ DOMAIN units = 1 .. N /\ i \in 1 .. N
    BY LenProperties
<1>2. i - 1 \in 0 .. N
    BY <1>1
<1>3. a \in Nat /\ c \in {3, 4} /\ \A j \in 1 .. c - 1 : B[a + j] = 0
    <2>1. units[i] \in Unit
        BY ElementOfSeq
    <2> QED BY <1>2, <2>1, BlockShape DEF PlacesOf
<1>4. CASE c = 4
    <2> HIDE DEF B, a, c
    <2>1. 1 \in 1 .. c - 1 /\ (a + c) - 3 = a + 1 /\ a + c > 3
        BY <1>3, <1>4
    <2>2. B[(a + c) - 3] = 0
        BY <1>3, <2>1
    <2> QED BY <1>3, <1>4, <2>1, <2>2 DEF Zeros, B, a, c
<1>5. CASE c = 3
    <2>1. CASE i = 1
        <3>1. a = 0
            BY <2>1 DEF PlacesOf
        <3> HIDE DEF a, c, B
        <3> QED BY <1>5, <3>1 DEF Zeros, a, c, B
    <2>2. CASE i # 1
        <3> DEFINE h == i - 1
                   b == off[h - 1]
                   d == units[h].code
                   nal == NalOf(units[h])
        <3>1. h \in 1 .. N /\ h - 1 \in 0 .. N
            BY <1>1, <2>2
        <3>2. units[h] \in Unit /\ Encoded(nal)
            BY <1>1, <3>1, ElementOfSeq
        <3>3. /\ b \in Nat /\ d \in {3, 4} /\ Len(nal) \in Nat /\ Len(nal) > 0
              /\ a = b + d + Len(nal)
              /\ \A j \in 1 .. Len(nal) : B[b + d + j] = nal[j]
            BY <3>1, <3>2, BlockShape DEF PlacesOf
        <3>4. nal[Len(nal)] # 0
            BY <3>2 DEF Encoded
        <3> HIDE DEF h, b, d, nal, a, B, c
        <3>5. B[a] # 0
            BY <3>3, <3>4
        <3>6. (a + c) - 3 = a
            BY <1>3, <1>5
        <3>7. Zeros(B, a + c) = 2
            BY <3>5, <3>6 DEF Zeros
        <3> QED BY <1>5, <3>7 DEF a, B, c
    <2> QED BY <2>1, <2>2
<1> QED BY <1>3, <1>4, <1>5

\* The codes found are the places where the units begin, in their order.
LEMMA CodesOfFile ==
    ASSUME NEW units \in Seq(Unit), \A i \in DOMAIN units : Encoded(NalOf(units[i])),
           NEW off, PlacesOf(units, off)
    PROVE  Codes(BytesOf(units)) =
              [i \in 1 .. Len(units) |-> off[i - 1] + units[i].code]
<1> DEFINE N == Len(units)
           B == BytesOf(units)
           L == Len(B)
           C == {k \in 1 .. L : EndsStartCode(B, k)}
           cs == [i \in 1 .. N |-> off[i - 1] + units[i].code]
<1>1. N \in Nat /\ L \in Nat
    BY FilePlaces, LenProperties
<1>2. \A i \in 0 .. N : off[i] \in Nat
    BY DEF PlacesOf
<1>3. ASSUME NEW i \in 1 .. N
      PROVE  /\ i - 1 \in 0 .. N /\ i \in 0 .. N /\ off[i - 1] \in Nat /\ off[i] \in Nat
             /\ units[i].code \in {3, 4}
             /\ cs[i] = off[i - 1] + units[i].code
             /\ off[i - 1] < cs[i] /\ cs[i] < off[i] /\ off[i] <= L
    <2>1. i - 1 \in 0 .. N /\ i \in 0 .. N /\ N \in 0 .. N
        BY <1>1
    <2>2. off[i - 1] \in Nat /\ off[i] \in Nat /\ off[i] <= off[N] /\ L = off[N]
        BY <1>1, <1>2, <2>1 DEF PlacesOf
    <2>3. /\ units[i].code \in {3, 4}
          /\ Len(NalOf(units[i])) \in Nat /\ Len(NalOf(units[i])) > 0
        BY ElementOfSeq, BlockShape
    <2>4. off[i] = off[i - 1] + units[i].code + Len(NalOf(units[i]))
        BY DEF PlacesOf
    <2>5. cs[i] = off[i - 1] + units[i].code
        OBVIOUS
    <2> HIDE DEF cs
    <2> QED BY <2>1, <2>2, <2>3, <2>4, <2>5, SMTT(40)
<1>4. \A k \in 1 .. L : EndsStartCode(B, k) <=> \E i \in 1 .. N : k = off[i - 1] + units[i].code
    BY WhereCodesEnd
<1>5. Codes(B) = FlattenSeq([k \in 1 .. L |-> IF k \in C THEN <<k>> ELSE <<>>])
    <2>1. \A k \in 1 .. L : EndsStartCode(B, k) <=> k \in C
        OBVIOUS
    <2>2. [k \in 1 .. L |-> IF EndsStartCode(B, k) THEN <<k>> ELSE <<>>]
             = [k \in 1 .. L |-> IF k \in C THEN <<k>> ELSE <<>>]
        BY <2>1
    <2> QED BY <2>2 DEF Codes
<1> HIDE DEF N, B, L
<1>6. C \subseteq 1 .. L
    OBVIOUS
<1>7. \A k : k \in C <=> \E i \in 1 .. N : k = cs[i]
    <2>1. ASSUME NEW i \in 1 .. N PROVE cs[i] \in C
        <3>1. cs[i] \in 1 .. L
            <4>1. /\ off[i - 1] \in Nat /\ off[i] \in Nat /\ units[i].code \in {3, 4}
                  /\ cs[i] = off[i - 1] + units[i].code
                  /\ cs[i] < off[i] /\ off[i] <= L
                BY <1>3
            <4> HIDE DEF cs
            <4> QED BY <1>1, <4>1
        <3>2. EndsStartCode(B, cs[i])
            BY <1>3, <1>4, <3>1
        <3> QED BY <3>1, <3>2
    <2>2. ASSUME NEW k \in C PROVE \E i \in 1 .. N : k = cs[i]
        BY <1>3, <1>4
    <2> QED BY <2>1, <2>2
<1> HIDE DEF C
<1>8. Lists(Codes(B), C)
    BY <1>1, <1>5, <1>6, SelectionLists
<1>9. Lists(cs, C)
    <2>1. cs \in Seq(C) /\ Len(cs) = N
        BY <1>1, <1>7
    <2>2. ASSUME NEW i \in 1 .. N, NEW j \in 1 .. N, i < j
          PROVE  cs[i] < cs[j]
        <3>1. i \in 0 .. N /\ j - 1 \in 0 .. N /\ i <= j - 1
            BY <1>1, <2>2
        <3>2. off[i] <= off[j - 1]
            BY <3>1 DEF PlacesOf, N
        <3>3. /\ cs[i] < off[i] /\ off[j - 1] < cs[j] /\ off[i] \in Nat /\ off[j - 1] \in Nat
              /\ cs[i] = off[i - 1] + units[i].code /\ cs[j] = off[j - 1] + units[j].code
              /\ off[i - 1] \in Nat /\ units[i].code \in {3, 4} /\ units[j].code \in {3, 4}
            BY <1>3
        <3> HIDE DEF cs
        <3>4. cs[i] \in Nat
            BY <3>3
        <3>5. cs[j] \in Nat
            BY <3>3
        <3> QED BY <3>2, <3>3, <3>4, <3>5
    <2> HIDE DEF cs
    <2> QED BY <1>7, <2>1, <2>2 DEF Lists
<1>10. C \subseteq Nat
    BY <1>6
<1> QED BY <1>8, <1>9, <1>10, ListedOnce DEF N, B

\* A file is opened without an error and cut into the units it is made of,
\* whatever the lengths of their start codes and wherever the bytes of a start
\* code would stand in them: NextNAL loses no byte and adds none
\* (h264reader.go:117).
THEOREM ReaderExact ==
    ASSUME NEW units \in Seq(Unit), units # <<>>,
           \A k \in DOMAIN units : Encoded(NalOf(units[k]))
    PROVE  Opened(BytesOf(units)) = [err |-> "nil", nals |-> NalsOf(units)]
<1> DEFINE N == Len(units)
           B == BytesOf(units)
<1>1. PICK off : PlacesOf(units, off)
    BY FilePlaces
<1> DEFINE codeOf(i) == off[i - 1] + units[i].code
<1>2. N \in Nat /\ N > 0 /\ B \in Seq(Byte) /\ Len(B) \in Nat
    BY FilePlaces, EmptySeq, LenProperties
<1>3. Codes(B) = [i \in 1 .. N |-> codeOf(i)]
    BY <1>1, CodesOfFile
<1>4. ASSUME NEW i \in 1 .. N
      PROVE  /\ i - 1 \in 0 .. N /\ off[i - 1] \in Nat /\ off[i] \in Nat
             /\ off[i] <= Len(B)
             /\ units[i].code \in {3, 4}
             /\ NalOf(units[i]) \in Seq(Byte)
             /\ Len(NalOf(units[i])) \in Nat /\ Len(NalOf(units[i])) > 0
             /\ off[i] = off[i - 1] + units[i].code + Len(NalOf(units[i]))
    <2>1. i - 1 \in 0 .. N /\ i \in 0 .. N /\ N \in 0 .. N
        BY <1>2
    <2>2. off[i - 1] \in Nat /\ off[i] \in Nat /\ off[i] <= off[N] /\ Len(B) = off[N]
        <3>1. \A j \in 0 .. N : off[j] \in Nat
            BY <1>1 DEF PlacesOf
        <3>2. Len(B) = off[N] /\ \A j, k \in 0 .. N : j <= k => off[j] <= off[k]
            BY <1>1 DEF PlacesOf
        <3>3. i <= N
            BY <1>2
        <3> QED BY <2>1, <3>1, <3>2, <3>3
    <2>3. units[i] \in Unit
        BY ElementOfSeq
    <2> QED BY <1>1, <2>1, <2>2, <2>3, BlockShape DEF PlacesOf
<1>5. Prefix(B) = "nil"
    <2>1. /\ 1 \in 1 .. N /\ off[0] = 0 /\ units[1].code \in {3, 4}
          /\ off[1] = units[1].code + Len(NalOf(units[1]))
          /\ Len(B) > 3 /\ Len(B) >= units[1].code /\ Len(B) >= 3
          /\ Len(B) # 0 /\ Len(B) # 3
        <3>1. 1 \in 1 .. N /\ off[0] = 0 /\ 1 - 1 = 0
            BY <1>1, <1>2 DEF PlacesOf
        <3> HIDE DEF N, B
        <3>2. /\ off[1] = off[0] + units[1].code + Len(NalOf(units[1]))
              /\ off[1] <= Len(B) /\ units[1].code \in {3, 4}
              /\ Len(NalOf(units[1])) \in Nat /\ Len(NalOf(units[1])) > 0
            BY <1>4, <3>1
        <3> DEFINE c == units[1].code
                   l == Len(NalOf(units[1]))
                   n == Len(B)
        <3>3. /\ c \in {3, 4} /\ l \in Nat /\ l > 0 /\ n \in Nat
              /\ off[1] = c + l /\ c + l <= n
            BY <1>2, <3>1, <3>2
        <3> HIDE DEF c, l, n
        <3>4. n > 3 /\ n >= c /\ n >= 3 /\ n # 0 /\ n # 3
            BY <3>3
        <3> QED BY <3>1, <3>3, <3>4 DEF c, l, n
    <2>2. \A j \in 1 .. units[1].code - 1 : B[j] = 0
        <3>1. \A j \in 1 .. units[1].code - 1 : B[off[1 - 1] + j] = 0
            BY <1>1, <2>1 DEF PlacesOf
        <3> QED BY <2>1, <3>1
    <2>3. B[units[1].code] = 1
        <3>1. B[off[1 - 1] + units[1].code] = 1
            BY <1>1, <2>1 DEF PlacesOf
        <3> QED BY <2>1, <3>1
    <2>4. units[1].code = 3 => SubSeq(B, 1, 3) = <<0, 0, 1>>
        <3> SUFFICES ASSUME units[1].code = 3 PROVE SubSeq(B, 1, 3) = <<0, 0, 1>>
            OBVIOUS
        <3>1. B[1] = 0 /\ B[2] = 0 /\ B[3] = 1 /\ Len(B) >= 3
            BY <2>1, <2>2, <2>3
        <3> DEFINE t == SubSeq(B, 1, 3)
        <3> HIDE DEF B
        <3>2. t \in Seq(Byte) /\ Len(t) = 3 /\ \A j \in 1 .. 3 : t[j] = B[j]
            BY <1>2, <3>1
        <3> HIDE DEF t
        <3>3. t = <<0, 0, 1>>
            BY <3>1, <3>2
        <3> QED BY <3>3 DEF t
    <2>5. units[1].code = 4 => SubSeq(B, 1, 4) = <<0, 0, 0, 1>>
        <3> SUFFICES ASSUME units[1].code = 4 PROVE SubSeq(B, 1, 4) = <<0, 0, 0, 1>>
            OBVIOUS
        <3>1. B[1] = 0 /\ B[2] = 0 /\ B[3] = 0 /\ B[4] = 1 /\ Len(B) >= 4
            BY <2>1, <2>2, <2>3
        <3> DEFINE t == SubSeq(B, 1, 4)
        <3> HIDE DEF B
        <3>2. t \in Seq(Byte) /\ Len(t) = 4 /\ \A j \in 1 .. 4 : t[j] = B[j]
            BY <1>2, <3>1
        <3> HIDE DEF t
        <3>3. t = <<0, 0, 0, 1>>
            BY <3>1, <3>2
        <3> QED BY <3>3 DEF t
    <2> HIDE DEF B
    <2>6. CASE units[1].code = 3
        <3>1. Len(B) > 3 /\ Len(B) >= 3 /\ Len(B) # 0 /\ Len(B) # 3
            BY <2>1, <2>6
        <3>2. SubSeq(B, 1, 3) = <<0, 0, 1>>
            BY <2>4, <2>6
        <3> QED BY <3>1, <3>2, Zenon DEF Prefix
    <2>7. CASE units[1].code = 4
        <3>1. Len(B) > 3 /\ Len(B) >= 4 /\ Len(B) # 0 /\ Len(B) # 3
            BY <2>1, <2>7
        <3>2. SubSeq(B, 1, 4) = <<0, 0, 0, 1>>
            BY <2>5, <2>7
        <3> QED BY <3>1, <3>2, Zenon DEF Prefix
    <2> QED BY <2>1, <2>6, <2>7
<1> DEFINE ends == [k \in 1 .. Len(Codes(B)) |->
                      IF k = Len(Codes(B)) THEN Len(B)
                      ELSE Codes(B)[k + 1] - 1 - Zeros(B, Codes(B)[k + 1])]
<1>6. Len(Codes(B)) = N
    <2> HIDE DEF N, codeOf
    <2> QED BY <1>2, <1>3
<1>7. \A i \in 1 .. N : Codes(B)[i] = codeOf(i)
    BY <1>3
<1>8. \A i \in 1 .. N : Zeros(B, codeOf(i)) = units[i].code - 1
    BY <1>1, ZerosOfCode
<1>9. Cut(B) = [k \in 1 .. N |-> SubSeq(B, Codes(B)[k] + 1, ends[k])]
    BY <1>6 DEF Cut
<1>10. ASSUME NEW k \in 1 .. N PROVE ends[k] = off[k]
    <2>1. CASE k = N
        BY <1>1, <1>6, <2>1 DEF PlacesOf
    <2>2. CASE k # N
        <3>1. k + 1 \in 1 .. N /\ (k + 1) - 1 = k
            BY <1>2, <2>2
        <3>2. ends[k] = codeOf(k + 1) - 1 - Zeros(B, codeOf(k + 1))
            BY <1>6, <1>7, <2>2, <3>1
        <3>3. Zeros(B, codeOf(k + 1)) = units[k + 1].code - 1
            BY <1>8, <3>1
        <3>4. off[k] \in Nat /\ units[k + 1].code \in {3, 4} /\ codeOf(k + 1) = off[k] + units[k + 1].code
            BY <1>4, <3>1
        <3> HIDE DEF ends, codeOf
        <3> QED BY <3>2, <3>3, <3>4
    <2> QED BY <2>1, <2>2
<1>11. ASSUME NEW k \in 1 .. N PROVE SubSeq(B, Codes(B)[k] + 1, ends[k]) = NalOf(units[k])
    <2> DEFINE a == off[k - 1]
               c == units[k].code
               nal == NalOf(units[k])
               e == off[k]
    <2>1. /\ a \in Nat /\ c \in {3, 4} /\ nal \in Seq(Byte) /\ Len(nal) \in Nat /\ Len(nal) > 0
          /\ e = a + c + Len(nal) /\ e <= Len(B)
        BY <1>4
    <2>2. \A j \in 1 .. Len(nal) : B[a + c + j] = nal[j]
        BY <1>1 DEF PlacesOf
    <2>3. SubSeq(B, Codes(B)[k] + 1, ends[k]) = SubSeq(B, a + c + 1, e)
        BY <1>7, <1>10
    <2> HIDE DEF a, c, nal, e, B
    <2>4. /\ SubSeq(B, a + c + 1, e) \in Seq(Byte)
          /\ Len(SubSeq(B, a + c + 1, e)) = Len(nal)
          /\ \A j \in 1 .. Len(nal) : SubSeq(B, a + c + 1, e)[j] = B[a + c + j]
        BY <1>2, <2>1
    <2>5. SubSeq(B, a + c + 1, e) = nal
        BY <2>1, <2>2, <2>4, SeqEqual
    <2> QED BY <2>3, <2>5 DEF nal
<1>12. Cut(B) = NalsOf(units)
    <2> HIDE DEF ends
    <2> QED BY <1>9, <1>11 DEF NalsOf
<1> HIDE DEF B
<1> QED BY <1>5, <1>12 DEF Opened, B

-----------------------------------------------------------------------------
(***************************************************************************)
(* Bytes that arrive.                                                      *)
(***************************************************************************)

\* The library's theorem, for a goal of any form.
LEMMA Associative ==
    \A S : \A s, t, u \in Seq(S) : (s \o t) \o u = s \o (t \o u)
BY ConcatAssociative

\* Two rows of sequences joined are the joined rows, one after the other.
LEMMA FlattenConcat ==
    ASSUME NEW S, NEW a \in Seq(Seq(S)), NEW b \in Seq(Seq(S))
    PROVE  FlattenSeq(a \o b) = FlattenSeq(a) \o FlattenSeq(b)
<1> DEFINE front(n) == SubSeq(b, 1, n)
           K == {n \in Nat : n <= Len(b) =>
                    FlattenSeq(a \o front(n)) = FlattenSeq(a) \o FlattenSeq(front(n))}
<1>0. Len(b) \in Nat /\ FlattenSeq(a) \in Seq(S)
    BY LenProperties, FlattenType
<1>1. 0 \in K
    <2>1. front(0) = <<>>
        OBVIOUS
    <2> HIDE DEF front
    <2>2. a \o front(0) = a /\ FlattenSeq(front(0)) = <<>>
        BY <2>1, FlattenEmpty, ConcatEmptySeq
    <2>3. FlattenSeq(a) \o FlattenSeq(front(0)) = FlattenSeq(a)
        BY <1>0, <2>2, ConcatEmptySeq
    <2> QED BY <2>2, <2>3
<1>2. ASSUME NEW n \in Nat, n \in K PROVE n + 1 \in K
    <2>0. SUFFICES ASSUME n + 1 <= Len(b)
                   PROVE  FlattenSeq(a \o front(n + 1)) = FlattenSeq(a) \o FlattenSeq(front(n + 1))
        OBVIOUS
    <2> DEFINE x == b[n + 1]
    <2>1. x \in Seq(S)
        BY <1>0, <2>0, ElementOfSeq
    <2>2. front(n) \in Seq(Seq(S)) /\ front(n + 1) = Append(front(n), x)
        BY <1>0, <2>0
    <2>3. FlattenSeq(a \o front(n)) = FlattenSeq(a) \o FlattenSeq(front(n))
        BY <1>0, <1>2, <2>0
    <2> HIDE DEF front, x
    <2>4. FlattenSeq(front(n + 1)) = FlattenSeq(front(n)) \o x
        BY <2>1, <2>2, FlattenAppend
    <2>5. a \o front(n) \in Seq(Seq(S)) /\ a \o front(n + 1) = Append(a \o front(n), x)
        <3> DEFINE f == front(n)
        <3> HIDE DEF f
        <3>1. f \in Seq(Seq(S)) /\ front(n + 1) = Append(f, x)
            BY <2>2 DEF f
        <3>2. <<x>> \in Seq(Seq(S)) /\ Append(f, x) = f \o <<x>>
            BY <2>1, <3>1, AppendIsConcat
        <3>3. a \o f \in Seq(Seq(S))
            BY <3>1, ConcatProperties
        <3>4. Append(a \o f, x) = (a \o f) \o <<x>>
            BY <2>1, <3>3, AppendIsConcat
        <3>5. (a \o f) \o <<x>> = a \o (f \o <<x>>)
            <4> DEFINE Q == Seq(S)
            <4>1. a \in Seq(Q) /\ f \in Seq(Q) /\ <<x>> \in Seq(Q)
                BY <3>1, <3>2
            <4> HIDE DEF Q
            <4> QED BY <4>1, Associative, SMTT(40)
        <3> QED BY <3>1, <3>2, <3>3, <3>4, <3>5 DEF f
    <2>6. FlattenSeq(a \o front(n + 1)) = FlattenSeq(a \o front(n)) \o x
        BY <2>1, <2>5, FlattenAppend
    <2>7. FlattenSeq(front(n)) \in Seq(S)
        BY <2>2, FlattenType
    <2>8. (FlattenSeq(a) \o FlattenSeq(front(n))) \o x = FlattenSeq(a) \o (FlattenSeq(front(n)) \o x)
        <3> DEFINE u == FlattenSeq(a)
                   v == FlattenSeq(front(n))
        <3>1. u \in Seq(S) /\ v \in Seq(S) /\ x \in Seq(S)
            BY <1>0, <2>1, <2>7
        <3> HIDE DEF u, v
        <3>2. (u \o v) \o x = u \o (v \o x)
            BY <3>1, Associative, SMTT(40)
        <3> QED BY <3>2 DEF u, v
    <2> QED BY <2>3, <2>4, <2>6, <2>8
<1>3. Len(b) \in K
    <2> HIDE DEF K
    <2> QED BY <1>0, <1>1, <1>2, NumberInduction
<1>4. front(Len(b)) = b
    BY <1>0
<1>5. FlattenSeq(a \o front(Len(b))) = FlattenSeq(a) \o FlattenSeq(front(Len(b)))
    <2> HIDE DEF front
    <2> QED BY <1>0, <1>3
<1> HIDE DEF front
<1> QED BY <1>4, <1>5

\* The bytes of some units, as they should arrive.
PlainAll(nals) == FlattenSeq([k \in 1 .. Len(nals) |-> PlainUnit(nals[k])])

\* The bytes of packets, put together again.
Bytes(packets) == FlattenSeq([k \in 1 .. Len(packets) |-> Output(packets[k].payload)])

\* A unit arrives as bytes.
LEMMA PlainUnitType ==
    ASSUME NEW nal \in Seq(Byte)
    PROVE  PlainUnit(nal) \in Seq(Byte)
<1>1. StartCode(4) \in Seq(Byte)
    BY DEF StartCode, Byte
<1> QED BY <1>1 DEF PlainUnit

\* Units in a row: none, and one more.
LEMMA PlainAllRow ==
    /\ PlainAll(<<>>) = <<>>
    /\ \A nals \in Seq(Seq(Byte)), nal \in Seq(Byte) :
          /\ PlainAll(nals) \in Seq(Byte)
          /\ PlainAll(Append(nals, nal)) = PlainAll(nals) \o PlainUnit(nal)
<1>1. PlainAll(<<>>) = <<>>
    <2>1. [k \in 1 .. Len(<<>>) |-> PlainUnit(<<>>[k])] = <<>>
        OBVIOUS
    <2> QED BY <2>1, FlattenEmpty DEF PlainAll
<1>2. ASSUME NEW nals \in Seq(Seq(Byte)), NEW nal \in Seq(Byte)
      PROVE  /\ PlainAll(nals) \in Seq(Byte)
             /\ PlainAll(Append(nals, nal)) = PlainAll(nals) \o PlainUnit(nal)
    <2> DEFINE N == Len(nals)
               row == [k \in 1 .. N |-> PlainUnit(nals[k])]
               more == Append(nals, nal)
               longer == [k \in 1 .. Len(more) |-> PlainUnit(more[k])]
    <2>1. N \in Nat /\ \A k \in 1 .. N : nals[k] \in Seq(Byte) /\ PlainUnit(nals[k]) \in Seq(Byte)
        BY LenProperties, ElementOfSeq, PlainUnitType
    <2>2. PlainUnit(nal) \in Seq(Byte)
        BY PlainUnitType
    <2>3. row \in Seq(Seq(Byte)) /\ Len(row) = N
        BY <2>1
    <2>4. Len(more) = N + 1 /\ more[N + 1] = nal /\ \A k \in 1 .. N : more[k] = nals[k]
        BY AppendProperties
    <2>5. longer = Append(row, PlainUnit(nal))
        <3> DEFINE end == Append(row, PlainUnit(nal))
        <3>1. /\ end \in Seq(Seq(Byte)) /\ Len(end) = N + 1
              /\ end[N + 1] = PlainUnit(nal) /\ \A k \in 1 .. N : end[k] = row[k]
            <4> HIDE DEF row
            <4> QED BY <2>2, <2>3, AppendProperties
        <3>2. ASSUME NEW k \in 1 .. N + 1 PROVE end[k] = PlainUnit(more[k])
            <4>1. CASE k = N + 1
                BY <2>4, <3>1, <4>1
            <4>2. CASE k # N + 1
                <5>1. k \in 1 .. N
                    BY <2>1, <4>2
                <5>2. end[k] = row[k] /\ row[k] = PlainUnit(nals[k])
                    BY <3>1, <5>1
                <5> HIDE DEF end, row
                <5> QED BY <2>4, <5>1, <5>2
            <4> QED BY <4>1, <4>2
        <3> HIDE DEF end, more
        <3>3. end = [k \in 1 .. N + 1 |-> PlainUnit(more[k])]
            <4>1. end = [k \in 1 .. N + 1 |-> end[k]]
                BY <2>1, <3>1
            <4> QED BY <3>2, <4>1
        <3> QED BY <2>4, <3>3 DEF end
    <2> HIDE DEF row, more
    <2>6. FlattenSeq(longer) = FlattenSeq(row) \o PlainUnit(nal) /\ FlattenSeq(row) \in Seq(Byte)
        <3> HIDE DEF longer
        <3> QED BY <2>2, <2>3, <2>5, FlattenAppend, FlattenType
    <2> QED BY <2>6 DEF PlainAll, row, more
<1> QED BY <1>1, <1>2

\* The bytes of a packet.
LEMMA OutputType ==
    ASSUME NEW p \in Payload, p.data # <<>>
    PROVE  Output(p) \in Seq(Byte)
<1>1. p.data \in Seq(Seq(Byte)) /\ Len(p.data) \in Nat /\ Len(p.data) > 0
    BY EmptySeq, LenProperties DEF Payload
<1>2. \A k \in 1 .. Len(p.data) : p.data[k] \in Seq(Byte)
    BY <1>1, ElementOfSeq
<1>3. CASE p.first
    <2> DEFINE row == [k \in 1 .. Len(p.data) |-> StartCode(4) \o p.data[k]]
    <2>1. StartCode(4) \in Seq(Byte)
        BY DEF StartCode, Byte
    <2>2. \A k \in 1 .. Len(p.data) : StartCode(4) \o p.data[k] \in Seq(Byte)
        BY <1>2, <2>1
    <2>3. row \in Seq(Seq(Byte))
        BY <1>1, <2>2
    <2> HIDE DEF row
    <2>4. FlattenSeq(row) \in Seq(Byte)
        BY <2>3, FlattenType
    <2>5. Unmarshal(p) \in Seq(Byte)
        BY <1>3, <2>4 DEF Unmarshal, row
    <2> QED BY <2>5 DEF Output
<1>4. CASE ~p.first
    <2>1. Unmarshal(p) \in Seq(Byte)
        BY <1>1, <1>2, <1>4 DEF Unmarshal
    <2> QED BY <2>1 DEF Output
<1> QED BY <1>3, <1>4

\* Packets that carry something.
Carrying == [ts : Nat, marker : BOOLEAN, payload : {p \in Payload : p.data # <<>>}]

\* Packets in a row: none, one, and one row after another.
LEMMA BytesRow ==
    /\ Bytes(<<>>) = <<>>
    /\ \A a, b \in Seq(Carrying) :
          Bytes(a) \in Seq(Byte) /\ Bytes(a \o b) = Bytes(a) \o Bytes(b)
    /\ \A q \in Carrying : Bytes(<<q>>) = Output(q.payload)
<1>1. Bytes(<<>>) = <<>>
    <2>1. [k \in 1 .. Len(<<>>) |-> Output(<<>>[k].payload)] = <<>>
        OBVIOUS
    <2> QED BY <2>1, FlattenEmpty DEF Bytes
<1> DEFINE row(a) == [k \in 1 .. Len(a) |-> Output(a[k].payload)]
<1>2. ASSUME NEW a \in Seq(Carrying)
      PROVE  row(a) \in Seq(Seq(Byte)) /\ Len(row(a)) = Len(a)
    <2>1. Len(a) \in Nat /\ \A k \in 1 .. Len(a) : a[k] \in Carrying
        BY LenProperties, ElementOfSeq
    <2>2. \A k \in 1 .. Len(a) : Output(a[k].payload) \in Seq(Byte)
        BY <2>1, OutputType DEF Carrying
    <2> QED BY <2>1, <2>2
<1>3. ASSUME NEW a \in Seq(Carrying), NEW b \in Seq(Carrying)
      PROVE  row(a \o b) = row(a) \o row(b)
    <2> DEFINE c == a \o b
               A == Len(a)
               B == Len(b)
               l == row(a)
               r == row(b)
    <2>1. /\ A \in Nat /\ B \in Nat /\ c \in Seq(Carrying) /\ Len(c) = A + B
          /\ \A k \in 1 .. A + B : c[k] = IF k <= A THEN a[k] ELSE b[k - A]
        BY LenProperties, ConcatProperties
    <2>2. /\ l \in Seq(Seq(Byte)) /\ Len(l) = A /\ r \in Seq(Seq(Byte)) /\ Len(r) = B
        BY <1>2
    <2>3. /\ \A k \in 1 .. A : l[k] = Output(a[k].payload)
          /\ \A k \in 1 .. B : r[k] = Output(b[k].payload)
        OBVIOUS
    <2> HIDE DEF l, r, A, B
    <2>4. /\ l \o r \in Seq(Seq(Byte)) /\ Len(l \o r) = A + B
          /\ \A k \in 1 .. A + B : (l \o r)[k] = IF k <= A THEN l[k] ELSE r[k - A]
        BY <2>2, ConcatProperties
    <2> DEFINE w == row(c)
    <2>5. w \in Seq(Seq(Byte)) /\ Len(w) = A + B /\ \A k \in 1 .. A + B : w[k] = Output(c[k].payload)
        <3> HIDE DEF c
        <3> QED BY <1>2, <2>1
    <2> HIDE DEF c, w
    <2>6. ASSUME NEW k \in 1 .. A + B PROVE w[k] = (l \o r)[k]
        <3>1. CASE k <= A
            <4>1. k \in 1 .. A
                BY <2>1, <3>1
            <4> QED BY <2>1, <2>3, <2>4, <2>5, <3>1, <4>1
        <3>2. CASE ~(k <= A)
            <4>1. k - A \in 1 .. B
                BY <2>1, <3>2
            <4> QED BY <2>1, <2>3, <2>4, <2>5, <3>2, <4>1
        <3> QED BY <3>1, <3>2
    <2>7. w = l \o r
        BY <2>4, <2>5, <2>6, SeqEqual
    <2> QED BY <2>7 DEF w, c, l, r
<1>4. ASSUME NEW a \in Seq(Carrying), NEW b \in Seq(Carrying)
      PROVE  Bytes(a) \in Seq(Byte) /\ Bytes(a \o b) = Bytes(a) \o Bytes(b)
    <2>1. row(a) \in Seq(Seq(Byte)) /\ row(b) \in Seq(Seq(Byte)) /\ row(a \o b) = row(a) \o row(b)
        BY <1>2, <1>3
    <2>2. Bytes(a) = FlattenSeq(row(a)) /\ Bytes(b) = FlattenSeq(row(b))
             /\ Bytes(a \o b) = FlattenSeq(row(a \o b))
        BY DEF Bytes
    <2> DEFINE x == row(a)
               y == row(b)
    <2> HIDE DEF row, x, y
    <2>3. x \in Seq(Seq(Byte)) /\ y \in Seq(Seq(Byte))
        BY <2>1 DEF x, y
    <2>4. FlattenSeq(x \o y) = FlattenSeq(x) \o FlattenSeq(y) /\ FlattenSeq(x) \in Seq(Byte)
        BY <2>3, FlattenConcat, FlattenType
    <2> QED BY <2>1, <2>2, <2>4 DEF x, y
<1>5. ASSUME NEW q \in Carrying PROVE Bytes(<<q>>) = Output(q.payload)
    <2>1. Output(q.payload) \in Seq(Byte)
        BY OutputType DEF Carrying
    <2>2. [k \in 1 .. Len(<<q>>) |-> Output(<<q>>[k].payload)] = <<Output(q.payload)>>
        OBVIOUS
    <2> QED BY <2>1, <2>2, FlattenOne DEF Bytes
<1> HIDE DEF row
<1> QED BY <1>1, <1>4, <1>5

-----------------------------------------------------------------------------
(***************************************************************************)
(* The next unit of a file in order.                                       *)
(***************************************************************************)

Nal == {nal \in Seq(Byte) : nal # <<>> /\ nal[1] < 128}
SpsNal == {nal \in Nal : UnitType(nal) = SPS}
PpsNal == {nal \in Nal : UnitType(nal) = PPS}
OtherNal == {nal \in Nal : UnitType(nal) \in 1 .. STAPA - 1 /\ UnitType(nal) \notin {SEI, SPS, PPS}}
Silent == {SEI, AUD, FILLER}
CutFile == {f \in [err : {"nil"}, nals : Seq(Nal)] : f.nals # <<>> /\ Ordered(f.nals) /\ PairsFit(f.nals)}

\* A unit's first byte gives its type.
LEMMA NalFacts ==
    ASSUME NEW nal \in Nal
    PROVE  /\ nal \in Seq(Byte) /\ Len(nal) \in Nat /\ Len(nal) > 0
           /\ nal[1] \in Byte /\ UnitType(nal) \in 0 .. 31
<1>1. nal \in Seq(Byte) /\ Len(nal) \in Nat /\ Len(nal) > 0
    BY EmptySeq, LenProperties DEF Nal
<1>2. nal[1] \in Byte
    <2>1. 1 \in 1 .. Len(nal)
        BY <1>1
    <2> QED BY <1>1, <2>1, ElementOfSeq
<1>3. \A b \in Byte : b % 32 \in 0 .. 31
    BY DEF Byte
<1>4. UnitType(nal) \in 0 .. 31
    BY <1>2, <1>3 DEF UnitType
<1> QED BY <1>1, <1>2, <1>4

\* The unit that NextNAL returns is the next one that is no SEI unit; there is
\* one as long as there are units, because a file does not end with an SEI unit.
LEMMA NextNALFinds ==
    ASSUME NEW f \in CutFile, NEW i \in Nat \ {0}
    PROVE  \/ /\ i > Len(f.nals)
              /\ NextNAL(f, i) = [err |-> "eof", nal |-> <<>>, at |-> i]
           \/ \E k \in i .. Len(f.nals) :
                 /\ NextNAL(f, i) = [err |-> "nil", nal |-> f.nals[k], at |-> k + 1]
                 /\ UnitType(f.nals[k]) # SEI
                 /\ \A j \in i .. k - 1 : UnitType(f.nals[j]) = SEI
<1> DEFINE N == Len(f.nals)
           rest == i .. N
           good(k) == /\ k = N \/ ~Skip(f.nals[k])
                      /\ \A j \in i .. k - 1 : Skip(f.nals[j])
           c == CHOOSE k \in rest : good(k)
<1>0. /\ f.err = "nil" /\ f.nals \in Seq(Nal) /\ N \in Nat /\ N > 0
      /\ UnitType(f.nals[N]) # SEI
    BY EmptySeq, LenProperties DEF CutFile, Ordered
<1>1. CASE i > N
    <2>1. rest = {}
        BY <1>0, <1>1
    <2>2. NextNAL(f, i) = [err |-> "eof", nal |-> <<>>, at |-> i]
        BY <1>0, <2>1 DEF NextNAL
    <2> QED BY <1>1, <2>2
<1>2. CASE ~(i > N)
    <2> DEFINE T == {k \in rest : k = N \/ ~Skip(f.nals[k])}
    <2>1. T \subseteq Nat /\ N \in T
        BY <1>0, <1>2
    <2>2. PICK k \in T : \A j \in T : k <= j
        <3> HIDE DEF T
        <3> QED BY <2>1, LeastNumber
    <2>3. k \in rest /\ good(k)
        <3>1. ASSUME NEW j \in i .. k - 1 PROVE Skip(f.nals[j])
            <4>1. j \in rest /\ j # N /\ j \in Nat /\ j < k
                BY <1>0, <2>2
            <4>2. j \notin T
                <5>1. k \in Nat
                    BY <2>1
                <5> HIDE DEF T
                <5> QED BY <2>2, <4>1, <5>1
            <4> QED BY <4>1, <4>2
        <3> QED BY <2>2, <3>1
    <2>4. c \in rest /\ good(c)
        <3> HIDE DEF good, rest
        <3> QED BY <2>3
    <2>5. rest # {}
        BY <2>4
    <2>6. NextNAL(f, i) = [err |-> "nil", nal |-> f.nals[c], at |-> c + 1]
        <3> HIDE DEF c
        <3>1. f.err = "nil" /\ ~(f.err # "nil") /\ ~(f.err = "nil" /\ rest = {})
            BY <1>0, <2>5
        <3> QED BY <3>1, Zenon DEF NextNAL, c
    <2> HIDE DEF c
    <2>7. UnitType(f.nals[c]) # SEI /\ \A j \in i .. c - 1 : UnitType(f.nals[j]) = SEI
        BY <1>0, <2>4 DEF Skip
    <2> QED BY <2>4, <2>6, <2>7
<1> QED BY <1>1, <1>2

\* Units of a file in order: the type of each, and of one after another.
LEMMA OrderedFacts ==
    ASSUME NEW f \in CutFile
    PROVE  /\ Len(f.nals) \in Nat /\ Len(f.nals) > 0
           /\ \A k \in 1 .. Len(f.nals) : f.nals[k] \in Nal /\ UnitType(f.nals[k]) \in 1 .. STAPA - 1
           /\ UnitType(f.nals[Len(f.nals)]) \notin {SEI, SPS, PPS}
           /\ \A k \in 1 .. Len(f.nals) :
                 (\A j \in 1 .. k - 1 : UnitType(f.nals[j]) \in Silent) =>
                    UnitType(f.nals[k]) \in {SEI, AUD, FILLER, SPS}
           /\ \A j, k \in 1 .. Len(f.nals) :
                 /\ j < k /\ UnitType(f.nals[j]) # SEI /\ UnitType(f.nals[k]) # SEI
                 /\ \A i \in j + 1 .. k - 1 : UnitType(f.nals[i]) = SEI
                 =>
                 /\ UnitType(f.nals[j]) = SPS <=> UnitType(f.nals[k]) = PPS
                 /\ UnitType(f.nals[j]) = PPS => UnitType(f.nals[k]) \notin {SPS, AUD, FILLER}
                 /\ UnitType(f.nals[k]) = IDR => UnitType(f.nals[j]) = PPS
                 /\ UnitType(f.nals[j]) = SPS =>
                       Len(Aggregate(f.nals[j], f.nals[k])) <= Mtu
<1>1. f.nals \in Seq(Nal) /\ f.nals # <<>> /\ Ordered(f.nals) /\ PairsFit(f.nals)
    BY DEF CutFile
<1>2. DOMAIN f.nals = 1 .. Len(f.nals) /\ Len(f.nals) \in Nat /\ Len(f.nals) > 0
    BY <1>1, EmptySeq, LenProperties
<1>3. \A k \in 1 .. Len(f.nals) : f.nals[k] \in Nal
    BY <1>1, ElementOfSeq
<1> QED BY <1>1, <1>2, <1>3 DEF Ordered, PairsFit, Neighbours, Silent

\* After the end of a group: a unit that is sent by itself, or an SPS.  It is
\* no key picture, and before anything is sent it is an SPS or it is not sent.
LEMMA NextAtBoundary ==
    ASSUME NEW f \in CutFile, NEW i \in 1 .. Len(f.nals) + 1,
           i = 1 \/ f.nals[i - 1] \in OtherNal,
           NEW k \in i .. Len(f.nals), UnitType(f.nals[k]) # SEI,
           \A j \in i .. k - 1 : UnitType(f.nals[j]) = SEI
    PROVE  /\ f.nals[k] \in SpsNal \/ (f.nals[k] \in OtherNal /\ UnitType(f.nals[k]) # IDR)
           /\ (\A j \in 1 .. i - 1 : UnitType(f.nals[j]) \in Silent) =>
                 /\ UnitType(f.nals[k]) \in {AUD, FILLER, SPS}
                 /\ \A j \in 1 .. k - 1 : UnitType(f.nals[j]) \in Silent
<1> DEFINE N == Len(f.nals)
<1>1. /\ N \in Nat /\ k \in 1 .. N /\ i \in Nat /\ k \in Nat
      /\ f.nals[k] \in Nal /\ UnitType(f.nals[k]) \in 1 .. STAPA - 1 /\ UnitType(f.nals[k]) \in 0 .. 31
    <2>1. N \in Nat /\ \A j \in 1 .. N : f.nals[j] \in Nal /\ UnitType(f.nals[j]) \in 1 .. STAPA - 1
        BY OrderedFacts
    <2> HIDE DEF N
    <2>2. k \in 1 .. N /\ i \in Nat /\ k \in Nat
        BY <2>1 DEF N
    <2> QED BY <2>1, <2>2, NalFacts
<1>2. ASSUME \A j \in 1 .. i - 1 : UnitType(f.nals[j]) \in Silent
      PROVE  /\ UnitType(f.nals[k]) \in {AUD, FILLER, SPS}
             /\ \A j \in 1 .. k - 1 : UnitType(f.nals[j]) \in Silent
    <2>1. ASSUME NEW j \in 1 .. k - 1 PROVE UnitType(f.nals[j]) \in Silent
        <3>1. CASE j < i
            <4>1. j \in 1 .. i - 1
                BY <1>1, <3>1
            <4> QED BY <1>2, <4>1
        <3>2. CASE ~(j < i)
            <4>1. j \in i .. k - 1
                BY <1>1, <3>2
            <4> QED BY <4>1 DEF Silent
        <3> QED BY <3>1, <3>2
    <2>2. UnitType(f.nals[k]) \in {SEI, AUD, FILLER, SPS}
        BY <1>1, <2>1, OrderedFacts
    <2> QED BY <2>1, <2>2
<1>3. UnitType(f.nals[k]) \notin {PPS, IDR}
    <2>1. CASE i = 1
        <3>1. \A j \in 1 .. i - 1 : UnitType(f.nals[j]) \in Silent
            BY <2>1
        <3> QED BY <1>2, <3>1 DEF AUD, FILLER, SPS, PPS, IDR
    <2>2. CASE i # 1
        <3> DEFINE j == i - 1
        <3>0. i <= k /\ k <= N /\ i > 1
            BY <1>1, <2>2
        <3> HIDE DEF N
        <3>1. j \in 1 .. N /\ j < k /\ j + 1 = i
            BY <1>1, <3>0
        <3>2. UnitType(f.nals[j]) \notin {SEI, SPS, PPS}
            BY <2>2 DEF OtherNal
        <3> HIDE DEF j
        <3>3. /\ UnitType(f.nals[j]) = SPS <=> UnitType(f.nals[k]) = PPS
              /\ UnitType(f.nals[k]) = IDR => UnitType(f.nals[j]) = PPS
            <4>1. \A l \in j + 1 .. k - 1 : UnitType(f.nals[l]) = SEI
                BY <3>1
            <4>2. j \in 1 .. N /\ k \in 1 .. N /\ j < k /\ UnitType(f.nals[j]) # SEI /\ N = Len(f.nals)
                BY <1>1, <3>1, <3>2 DEF N
            <4>3. \A a, b \in 1 .. Len(f.nals) :
                     /\ a < b /\ UnitType(f.nals[a]) # SEI /\ UnitType(f.nals[b]) # SEI
                     /\ \A l \in a + 1 .. b - 1 : UnitType(f.nals[l]) = SEI
                     =>
                     /\ UnitType(f.nals[a]) = SPS <=> UnitType(f.nals[b]) = PPS
                     /\ UnitType(f.nals[b]) = IDR => UnitType(f.nals[a]) = PPS
                BY OrderedFacts
            <4> QED BY <4>1, <4>2, <4>3
        <3> QED BY <3>2, <3>3
    <2> QED BY <2>1, <2>2
<1> QED BY <1>1, <1>2, <1>3 DEF SpsNal, OtherNal

\* A pair of parameter sets that fits in a packet.
Fit(s, p) == Len(Aggregate(s, p)) <= Mtu

\* After an SPS: its PPS, and they fit.
LEMMA NextAfterSps ==
    ASSUME NEW f \in CutFile, NEW i \in 1 .. Len(f.nals) + 1, i > 1, f.nals[i - 1] \in SpsNal
    PROVE  /\ i <= Len(f.nals)
           /\ \A k \in i .. Len(f.nals) :
                 UnitType(f.nals[k]) # SEI /\ (\A j \in i .. k - 1 : UnitType(f.nals[j]) = SEI)
                    => f.nals[k] \in PpsNal /\ Fit(f.nals[i - 1], f.nals[k])
<1> DEFINE N == Len(f.nals)
           j == i - 1
<1>1. N \in Nat /\ i \in Nat /\ j \in 1 .. N /\ j + 1 = i
    BY OrderedFacts
<1>2. UnitType(f.nals[j]) = SPS
    BY DEF SpsNal
<1> HIDE DEF j
<1>3. j # N
    BY <1>2, OrderedFacts
<1>4. i <= N
    BY <1>1, <1>3
<1>5. ASSUME NEW k \in i .. N, UnitType(f.nals[k]) # SEI,
             \A l \in i .. k - 1 : UnitType(f.nals[l]) = SEI
      PROVE  f.nals[k] \in PpsNal /\ Fit(f.nals[j], f.nals[k])
    <2>1. k \in 1 .. N /\ j < k /\ UnitType(f.nals[j]) # SEI
        BY <1>1, <1>2 DEF SPS, SEI
    <2>2. \A l \in j + 1 .. k - 1 : UnitType(f.nals[l]) = SEI
        BY <1>1, <1>5
    <2>3. UnitType(f.nals[k]) = PPS /\ Len(Aggregate(f.nals[j], f.nals[k])) <= Mtu
        BY <1>1, <1>2, <1>5, <2>1, <2>2, OrderedFacts
    <2>4. f.nals[k] \in Nal
        BY <2>1, OrderedFacts
    <2> QED BY <2>3, <2>4 DEF PpsNal, Fit
<1> QED BY <1>4, <1>5 DEF j

\* After a pair of parameter sets: a unit that is sent.
LEMMA NextAfterPair ==
    ASSUME NEW f \in CutFile, NEW i \in 1 .. Len(f.nals) + 1, i > 1, f.nals[i - 1] \in PpsNal
    PROVE  /\ i <= Len(f.nals)
           /\ \A k \in i .. Len(f.nals) :
                 UnitType(f.nals[k]) # SEI /\ (\A j \in i .. k - 1 : UnitType(f.nals[j]) = SEI)
                    => f.nals[k] \in OtherNal /\ UnitType(f.nals[k]) \notin Silent
<1> DEFINE N == Len(f.nals)
           j == i - 1
<1>1. N \in Nat /\ i \in Nat /\ j \in 1 .. N /\ j + 1 = i
    BY OrderedFacts
<1>2. UnitType(f.nals[j]) = PPS
    BY DEF PpsNal
<1> HIDE DEF j
<1>3. j # N
    BY <1>2, OrderedFacts
<1>4. i <= N
    BY <1>1, <1>3
<1>5. ASSUME NEW k \in i .. N, UnitType(f.nals[k]) # SEI,
             \A l \in i .. k - 1 : UnitType(f.nals[l]) = SEI
      PROVE  f.nals[k] \in OtherNal /\ UnitType(f.nals[k]) \notin Silent
    <2>1. k \in 1 .. N /\ j < k /\ UnitType(f.nals[j]) # SEI /\ UnitType(f.nals[j]) # SPS
        BY <1>1, <1>2 DEF SPS, SEI, PPS
    <2>2. \A l \in j + 1 .. k - 1 : UnitType(f.nals[l]) = SEI
        BY <1>1, <1>5
    <2>3. UnitType(f.nals[k]) \notin {SPS, AUD, FILLER} /\ UnitType(f.nals[k]) # PPS
        BY <1>1, <1>2, <1>5, <2>1, <2>2, OrderedFacts
    <2>4. f.nals[k] \in Nal /\ UnitType(f.nals[k]) \in 1 .. STAPA - 1
        BY <2>1, OrderedFacts
    <2> QED BY <1>5, <2>3, <2>4 DEF OtherNal, Silent
<1> QED BY <1>4, <1>5

-----------------------------------------------------------------------------
(***************************************************************************)
(* The packets of a sample.                                                *)
(***************************************************************************)

\* What is sent: parameter sets only together, as a STAP-A.
KeyPayload(p) ==
    /\ p.type = STAPA /\ p.first
    /\ \E s \in SpsNal, q \in PpsNal : p.data = <<s, q>>
GoodPayload ==
    {p \in Payload : p.data # <<>> /\ (p.type \in {SPS, STAPA} => KeyPayload(p))}
GoodPacket == [ts : Nat, marker : BOOLEAN, payload : GoodPayload]

Sample(nals, duration) == [nals |-> nals, duration |-> duration]

\* Division rounds down.
LEMMA Dividing ==
    ASSUME NEW a \in Nat, NEW b \in Nat, b > 0
    PROVE  a \div b \in Nat /\ b * (a \div b) <= a /\ a < b * (a \div b) + b
OBVIOUS

\* A product grows with its factor.
LEMMA TimesGrow ==
    ASSUME NEW a \in Nat, NEW b \in Nat, NEW c \in Nat, a <= b
    PROVE  a * c \in Nat /\ b * c \in Nat /\ a * c <= b * c
OBVIOUS

\* The pieces of a long unit: there is one at least, the first one is the first,
\* and put together again they are the unit.
LEMMA PiecesOf ==
    ASSUME NEW nal \in Nal, Len(nal) > Mtu
    PROVE  /\ Pieces(nal) \in Seq(Payload) /\ Len(Pieces(nal)) \in Nat /\ Len(Pieces(nal)) > 0
           /\ \A k \in 1 .. Len(Pieces(nal)) :
                 /\ Pieces(nal)[k].type = FUA /\ Pieces(nal)[k].data # <<>>
                 /\ Pieces(nal)[k].first <=> k = 1
           /\ UnitType(Pieces(nal)[1].data[1]) = UnitType(nal)
           /\ FlattenSeq([k \in 1 .. Len(Pieces(nal)) |-> Output(Pieces(nal)[k])])
                 = StartCode(4) \o nal
<1> DEFINE size == Mtu - 2
           L == Len(nal)
           n == (L - 1 + size - 1) \div size
           e(k) == IF 1 + k * size <= L THEN 1 + k * size ELSE L
           part(k) == SubSeq(nal, 2 + (k - 1) * size, e(k))
           ps == [k \in 1 .. n |->
                    [type |-> FUA, first |-> k = 1,
                     data |-> << IF k = 1 THEN <<nal[1]>> \o part(1) ELSE part(k) >>]]
           row == [k \in 1 .. n |-> Output(ps[k])]
<1>1. Pieces(nal) = ps
    <2>1. nal[1] \in 0 .. 127
        <3>1. nal[1] \in Byte
            BY NalFacts
        <3>2. \A x \in Nal : x[1] < 128
            BY DEF Nal
        <3>3. \A b \in Byte : b < 128 => b \in 0 .. 127
            BY DEF Byte
        <3> HIDE DEF Byte
        <3> QED BY <3>1, <3>2, <3>3
    <2>2. \A b \in 0 .. 127 : b % 128 = b
        OBVIOUS
    <2>3. nal[1] % 128 = nal[1]
        BY <2>1, <2>2
    <2> QED BY <2>3 DEF Pieces
<1>2. nal \in Seq(Byte) /\ L \in Nat /\ nal[1] \in Byte /\ \A k \in 1 .. L : nal[k] \in Byte
    BY NalFacts, ElementOfSeq
<1>3. size \in Nat /\ size > 0 /\ L > size + 1
    BY <1>2, SenderAssumption
<1> HIDE DEF size, L
<1>4. /\ n \in Nat /\ size * n <= L - 1 + size - 1 /\ L - 1 + size - 1 < size * n + size
    <2> DEFINE t == L - 1 + size - 1
    <2>1. t \in Nat
        BY <1>2, <1>3
    <2> HIDE DEF t
    <2>2. t \div size \in Nat /\ size * (t \div size) <= t /\ t < size * (t \div size) + size
        BY <1>3, <2>1, Dividing
    <2> QED BY <2>2 DEF t
<1> HIDE DEF n
<1>5. n > 0 /\ L - 1 <= n * size
    BY <1>2, <1>3, <1>4
<1>6. (n - 1) * size < L - 1 /\ n - 1 \in Nat
    <2>1. (n - 1) * size = size * n - size
        BY <1>3, <1>4
    <2>2. size * n \in Nat
        BY <1>3, <1>4
    <2> QED BY <1>2, <1>3, <1>4, <1>5, <2>1, <2>2
\* Every piece but the last one is full, and begins where the one before ends.
<1>7. ASSUME NEW k \in 1 .. n
      PROVE  /\ e(k) \in Nat /\ e(k) <= L /\ (k - 1) * size \in Nat /\ 1 + (k - 1) * size <= L
             /\ k < n => e(k) = 1 + k * size
             /\ 1 + (k - 1) * size <= e(k)
    <2>1. k - 1 \in Nat /\ k \in Nat /\ k - 1 <= n - 1 /\ k - 1 <= k /\ (k < n => k <= n - 1)
        BY <1>4
    <2>2. (k - 1) * size \in Nat /\ (k - 1) * size <= (n - 1) * size /\ (n - 1) * size \in Nat
        BY <1>3, <1>6, <2>1, TimesGrow
    <2>3. k * size \in Nat /\ (k - 1) * size <= k * size
        BY <1>3, <2>1, TimesGrow
    <2>4. k < n => k * size <= (n - 1) * size
        BY <1>3, <1>6, <2>1, TimesGrow
    <2> DEFINE a == (k - 1) * size
               b == (n - 1) * size
               c == k * size
    <2>5. /\ a \in Nat /\ b \in Nat /\ c \in Nat /\ a <= b /\ a <= c /\ (k < n => c <= b)
          /\ b < L - 1
        BY <1>6, <2>2, <2>3, <2>4
    <2>6. e(k) = IF 1 + c <= L THEN 1 + c ELSE L
        OBVIOUS
    <2> HIDE DEF a, b, c, e
    <2>7. /\ e(k) \in Nat /\ e(k) <= L /\ 1 + a <= L
          /\ k < n => e(k) = 1 + c
          /\ 1 + a <= e(k)
        BY <1>2, <2>5, <2>6
    <2> QED BY <2>5, <2>7 DEF a, c
<1>8. e(n) = L
    <2>1. n * size \in Nat
        BY <1>3, <1>4
    <2> DEFINE c == n * size
    <2>2. c \in Nat /\ L - 1 <= c /\ e(n) = IF 1 + c <= L THEN 1 + c ELSE L
        BY <1>5, <2>1
    <2> HIDE DEF c, e
    <2> QED BY <1>2, <2>2
<1> HIDE DEF e
<1>9. ASSUME NEW k \in 1 .. n PROVE part(k) \in Seq(Byte)
    <2> DEFINE a == (k - 1) * size
    <2>1. a \in Nat /\ e(k) \in Nat /\ e(k) <= L
        BY <1>7
    <2>2. part(k) = SubSeq(nal, 2 + a, e(k))
        OBVIOUS
    <2> HIDE DEF a, part
    <2>3. \A i \in 2 + a .. e(k) : nal[i] \in Byte
        BY <1>2, <2>1
    <2>4. 2 + a \in Int /\ e(k) \in Int
        BY <2>1
    <2> QED BY <2>2, <2>3, <2>4, SubSeqProperties
<1>10. 1 \in 1 .. n
    BY <1>4, <1>5
<1>11. part(1) = SubSeq(nal, 2, e(1))
    <2>1. 2 + (1 - 1) * size = 2
        BY <1>3
    <2> QED BY <2>1
<1> HIDE DEF part
<1>12. <<nal[1]>> \o part(1) \in Seq(Byte)
    <2>1. <<nal[1]>> \in Seq(Byte)
        BY <1>2
    <2> QED BY <1>9, <1>10, <2>1, ConcatProperties
<1>13. ASSUME NEW k \in 1 .. n
       PROVE  /\ ps[k] \in Payload /\ ps[k].type = FUA /\ ps[k].data # <<>>
              /\ ps[k].first <=> k = 1
              /\ ps[k].data = << IF k = 1 THEN <<nal[1]>> \o part(1) ELSE part(k) >>
    <2> DEFINE x == IF k = 1 THEN <<nal[1]>> \o part(1) ELSE part(k)
    <2>1. x \in Seq(Byte)
        BY <1>9, <1>12
    <2>2. ps[k] = [type |-> FUA, first |-> k = 1, data |-> <<x>>]
        OBVIOUS
    <2> HIDE DEF x, ps
    <2>3. <<x>> \in Seq(Seq(Byte)) /\ <<x>> # <<>>
        BY <2>1
    <2>4. FUA \in Byte /\ (k = 1) \in BOOLEAN
        BY DEF FUA, Byte
    <2>5. ps[k] \in Payload /\ ps[k].type = FUA /\ ps[k].first = (k = 1) /\ ps[k].data = <<x>>
        BY <2>2, <2>3, <2>4 DEF Payload
    <2> QED BY <2>3, <2>5 DEF x
<1>14. ps \in Seq(Payload) /\ Len(ps) = n
    BY <1>4, <1>13
<1> HIDE DEF ps
<1>15. UnitType(ps[1].data[1]) = UnitType(nal)
    <2> DEFINE x == <<nal[1]>> \o part(1)
    <2>1. ps[1].data = <<x>>
        BY <1>10, <1>13
    <2>2. x[1] = nal[1]
        <3>1. <<nal[1]>> \in Seq(Byte) /\ Len(<<nal[1]>>) = 1 /\ <<nal[1]>>[1] = nal[1]
            BY <1>2
        <3>2. part(1) \in Seq(Byte) /\ Len(part(1)) \in Nat
            BY <1>9, <1>10, LenProperties
        <3> DEFINE h == <<nal[1]>>
        <3> HIDE DEF h
        <3>3. \A i \in 1 .. Len(h) + Len(part(1)) :
                 (h \o part(1))[i] = IF i <= Len(h) THEN h[i] ELSE part(1)[i - Len(h)]
            BY <3>1, <3>2, ConcatProperties DEF h
        <3>4. Len(h) = 1 /\ h[1] = nal[1]
            BY <3>1 DEF h
        <3>5. 1 \in 1 .. Len(h) + Len(part(1)) /\ 1 <= Len(h)
            BY <3>2, <3>4
        <3>6. (h \o part(1))[1] = h[1]
            BY <3>3, <3>5
        <3> QED BY <3>4, <3>6 DEF h
    <2> HIDE DEF x
    <2>3. ps[1].data[1] = x
        BY <2>1
    <2> QED BY <2>2, <2>3 DEF UnitType
<1>16. ASSUME NEW k \in 1 .. n PROVE row[k] \in Seq(Byte)
    BY <1>13, OutputType
<1>17. row \in Seq(Seq(Byte)) /\ Len(row) = n /\ row # <<>>
    BY <1>4, <1>5, <1>16
<1>18. row[1] = StartCode(4) \o SubSeq(nal, 1, e(1))
    <2> DEFINE x == <<nal[1]>> \o part(1)
    <2>1. ps[1].data = <<x>> /\ ps[1].first /\ x \in Seq(Byte)
        BY <1>10, <1>12, <1>13
    <2>2. row[1] = FlattenSeq([k \in 1 .. Len(ps[1].data) |-> StartCode(4) \o ps[1].data[k]])
        <3>1. ~Refused(ps[1])
            BY <1>10, <1>13 DEF Refused, FUA, STAPA
        <3>2. Output(ps[1]) = FlattenSeq([k \in 1 .. Len(ps[1].data) |-> StartCode(4) \o ps[1].data[k]])
            BY <2>1, <3>1 DEF Output, Unmarshal
        <3> QED BY <1>10, <3>2
    <2>3. x = SubSeq(nal, 1, e(1))
        <3>1. 1 \in 1 .. Len(nal) /\ e(1) \in 1 .. Len(nal)
            <4>1. e(1) \in Nat /\ e(1) <= L /\ (1 - 1) * size \in Nat /\ 1 + (1 - 1) * size <= e(1)
                BY <1>7, <1>10
            <4> QED BY <1>2, <1>3, <4>1 DEF L
        <3>2. SubSeq(nal, 1, e(1)) = <<nal[1]>> \o SubSeq(nal, 1 + 1, e(1))
            BY <1>2, <3>1, SubSeqRecursiveFirst
        <3>3. 1 + 1 = 2
            OBVIOUS
        <3>4. SubSeq(nal, 1, e(1)) = <<nal[1]>> \o SubSeq(nal, 2, e(1))
            BY <3>2, <3>3
        <3> QED BY <1>11, <3>4
    <2> HIDE DEF x
    <2>4. [k \in 1 .. Len(ps[1].data) |-> StartCode(4) \o ps[1].data[k]] = <<StartCode(4) \o x>>
        BY <2>1
    <2>5. StartCode(4) \o x \in Seq(Byte)
        <3>1. StartCode(4) \in Seq(Byte)
            BY DEF StartCode, Byte
        <3> QED BY <2>1, <3>1, ConcatProperties
    <2>6. FlattenSeq(<<StartCode(4) \o x>>) = StartCode(4) \o x
        BY <2>5, FlattenOne
    <2> QED BY <2>2, <2>3, <2>4, <2>6
<1>19. ASSUME NEW k \in 1 .. n, k # 1 PROVE row[k] = SubSeq(nal, 2 + (k - 1) * size, e(k))
    <2>1. ~ps[k].first /\ ps[k].data = <<part(k)>>
        BY <1>13, <1>19
    <2>2. row[k] = part(k)
        <3>1. ~Refused(ps[k])
            BY <1>13 DEF Refused, FUA, STAPA
        <3> QED BY <2>1, <3>1 DEF Output, Unmarshal
    <2> QED BY <2>2 DEF part
<1> HIDE DEF row
<1>20. PICK f \in [1 .. Len(row) -> Seq(Byte)] :
          /\ FlattenSeq(row) = f[Len(row)]
          /\ f[1] = row[1]
          /\ \A i \in 1 .. Len(row) - 1 : f[i + 1] = f[i] \o row[i + 1]
    BY <1>17, Flattening
<1> DEFINE joined(k) == f[k] = StartCode(4) \o SubSeq(nal, 1, e(k))
           K == {k \in Nat : k + 1 <= n => joined(k + 1)}
<1>21. 0 \in K
    <2>1. joined(1)
        BY <1>18, <1>20
    <2>2. 0 + 1 = 1
        OBVIOUS
    <2> HIDE DEF joined
    <2> QED BY <2>1, <2>2
<1>22. ASSUME NEW k \in Nat, k \in K PROVE k + 1 \in K
    <2> HIDE DEF joined
    <2>0. SUFFICES ASSUME (k + 1) + 1 <= n PROVE joined((k + 1) + 1)
        OBVIOUS
    <2> DEFINE m == k + 1
    <2>1. /\ m \in 1 .. n /\ m < n /\ m + 1 \in 1 .. n /\ m + 1 # 1 /\ (m + 1) - 1 = m
          /\ m \in 1 .. Len(row) - 1
        BY <1>4, <1>17, <2>0
    <2>2. joined(m)
        BY <1>4, <1>22, <2>0
    <2> HIDE DEF m
    <2>3. f[m + 1] = f[m] \o row[m + 1]
        BY <1>20, <2>1
    <2>4. e(m) = 1 + m * size
        BY <1>7, <2>1
    <2>5. e(m) \in Nat /\ e(m + 1) \in Nat /\ e(m + 1) <= L /\ e(m) <= L /\ e(m) <= e(m + 1)
        <3>1. e(m) \in Nat /\ e(m) <= L
            BY <1>7, <2>1
        <3>2. /\ e(m + 1) \in Nat /\ e(m + 1) <= L
              /\ 1 + ((m + 1) - 1) * size <= e(m + 1)
            BY <1>7, <2>1
        <3>3. ((m + 1) - 1) * size = m * size
            BY <2>1
        <3> QED BY <2>4, <3>1, <3>2, <3>3
    <2>6. row[m + 1] = SubSeq(nal, e(m) + 1, e(m + 1))
        <3>1. row[m + 1] = SubSeq(nal, 2 + ((m + 1) - 1) * size, e(m + 1))
            BY <1>19, <2>1
        <3>2. 2 + ((m + 1) - 1) * size = e(m) + 1
            <4>1. ((m + 1) - 1) * size = m * size /\ m * size \in Nat
                BY <1>3, <2>1
            <4> QED BY <2>4, <4>1
        <3> QED BY <3>1, <3>2
    <2> DEFINE u == SubSeq(nal, 1, e(m))
               v == SubSeq(nal, e(m) + 1, e(m + 1))
               w == SubSeq(nal, 1, e(m + 1))
    <2>7. u \o v = w
        <3>1. /\ 1 \in 1 .. Len(nal) + 1 /\ e(m) \in 1 - 1 .. Len(nal)
              /\ e(m + 1) \in e(m) .. Len(nal)
            BY <1>2, <2>5 DEF L
        <3> QED BY <1>2, <3>1, ConcatAdjacentSubSeq
    <2>8. u \in Seq(Byte) /\ v \in Seq(Byte)
        <3>1. \A i \in 1 .. e(m) : nal[i] \in Byte
            BY <1>2, <2>5
        <3>2. \A i \in e(m) + 1 .. e(m + 1) : nal[i] \in Byte
            BY <1>2, <2>5
        <3>3. e(m) \in Int /\ e(m) + 1 \in Int /\ e(m + 1) \in Int
            BY <2>5
        <3> QED BY <3>1, <3>2, <3>3, SubSeqProperties
    <2>9. StartCode(4) \in Seq(Byte)
        BY DEF StartCode, Byte
    <2>10. f[m + 1] = (StartCode(4) \o u) \o v
        BY <2>2, <2>3, <2>6 DEF joined
    <2> HIDE DEF u, v, w
    <2>11. (StartCode(4) \o u) \o v = StartCode(4) \o (u \o v)
        BY <2>8, <2>9, Associative, SMTT(40)
    <2>12. f[m + 1] = StartCode(4) \o w
        BY <2>7, <2>10, <2>11
    <2> QED BY <2>12 DEF m, w, joined
<1>23. n - 1 \in K
    <2> HIDE DEF K
    <2> QED BY <1>6, <1>21, <1>22, NumberInduction
<1>24. FlattenSeq(row) = StartCode(4) \o nal
    <2>1. (n - 1) + 1 = n /\ n <= n
        BY <1>4
    <2>2. f[n] = StartCode(4) \o SubSeq(nal, 1, e(n))
        <3> HIDE DEF joined
        <3>1. joined(n)
            BY <1>23, <2>1
        <3> QED BY <3>1 DEF joined
    <2>3. SubSeq(nal, 1, L) = nal
        BY <1>2, SubSeqFull DEF L
    <2> QED BY <1>8, <1>17, <1>20, <2>2, <2>3
<1> QED BY <1>1, <1>4, <1>5, <1>13, <1>14, <1>15, <1>24 DEF row

\* Good packets are packets, and carry something.
LEMMA GoodPackets ==
    /\ GoodPacket \subseteq Carrying /\ GoodPacket \subseteq Packet
    /\ Seq(GoodPacket) \subseteq Seq(Carrying) /\ Seq(GoodPacket) \subseteq Seq(Packet)
<1>1. GoodPacket \subseteq Carrying /\ GoodPacket \subseteq Packet
    BY DEF GoodPacket, Carrying, Packet, GoodPayload
<1> HIDE DEF GoodPacket, Carrying, Packet
<1> QED BY <1>1, SeqMonotonic

\* A row of two.
LEMMA TwoInRow ==
    ASSUME NEW S, NEW a \in S, NEW b \in S
    PROVE  Append(<<a>>, b) = <<a, b>>
<1> DEFINE l == <<a>>
           x == Append(l, b)
           y == <<a, b>>
<1>1. l \in Seq(S) /\ Len(l) = 1 /\ l[1] = a
    OBVIOUS
<1>2. y \in Seq(S) /\ Len(y) = 2 /\ y[1] = a /\ y[2] = b
    OBVIOUS
<1> HIDE DEF l, y
<1>3. /\ x \in Seq(S) /\ Len(x) = Len(l) + 1
      /\ \A i \in 1 .. Len(l) : x[i] = l[i]
      /\ x[Len(l) + 1] = b
    <2>1. l \in Seq(S)
        BY <1>1
    <2>2. \A s \in Seq(S), e \in S :
             /\ Append(s, e) \in Seq(S) /\ Len(Append(s, e)) = Len(s) + 1
             /\ \A i \in 1 .. Len(s) : Append(s, e)[i] = s[i]
             /\ Append(s, e)[Len(s) + 1] = e
        BY AppendProperties
    <2> QED BY <2>1, <2>2, Zenon
<1> HIDE DEF x
<1>4. 1 \in 1 .. Len(l) /\ Len(l) + 1 = 2
    BY <1>1
<1>5. x[1] = a /\ x[2] = b /\ Len(x) = 2
    BY <1>1, <1>3, <1>4
<1>6. \A i \in 1 .. 2 : x[i] = y[i]
    BY <1>2, <1>5
<1>7. x = y
    BY <1>2, <1>3, <1>5, <1>6, SeqEqual
<1> QED BY <1>7 DEF x, l, y

\* What arrives of one unit, and of two.
LEMMA PlainFew ==
    /\ \A a \in Seq(Byte) : PlainAll(<<a>>) = PlainUnit(a)
    /\ \A a, b \in Seq(Byte) : PlainAll(<<a, b>>) = PlainUnit(a) \o PlainUnit(b)
<1>1. ASSUME NEW a \in Seq(Byte) PROVE PlainAll(<<a>>) = PlainUnit(a)
    <2>1. <<>> \in Seq(Seq(Byte)) /\ Append(<<>>, a) = <<a>>
        OBVIOUS
    <2>2. PlainAll(<<a>>) = <<>> \o PlainUnit(a)
        BY <2>1, PlainAllRow
    <2>3. PlainUnit(a) \in Seq(Byte)
        BY PlainUnitType
    <2> QED BY <2>2, <2>3, ConcatEmptySeq
<1>2. ASSUME NEW a \in Seq(Byte), NEW b \in Seq(Byte)
      PROVE  PlainAll(<<a, b>>) = PlainUnit(a) \o PlainUnit(b)
    <2>1. <<a>> \in Seq(Seq(Byte)) /\ Append(<<a>>, b) = <<a, b>>
        <3>1. <<a>> \in Seq(Seq(Byte))
            OBVIOUS
        <3> QED BY <3>1, TwoInRow
    <2>2. PlainAll(<<a, b>>) = PlainAll(<<a>>) \o PlainUnit(b)
        BY <2>1, PlainAllRow
    <2> QED BY <1>1, <2>2
<1> QED BY <1>1, <1>2

\* A unit that is not sent.
LEMMA PacketsOfSilent ==
    ASSUME NEW d \in OtherNal, UnitType(d) \in Silent, NEW x
    PROVE  Packets(Sample(<<d>>, x)) = <<>> /\ PlainUnit(d) = <<>>
<1>1. UnitType(d) \in {AUD, FILLER}
    BY DEF OtherNal, Silent
<1>2. Payloads(<<d>>) = <<>>
    <2> DEFINE l == <<d>>
    <2>1. Len(l) # 2 /\ l[1] = d
        OBVIOUS
    <2> HIDE DEF l
    <2>2. Payloads(l) = <<>>
        BY <1>1, <2>1 DEF Payloads
    <2> QED BY <2>2 DEF l
<1>3. Packets(Sample(<<d>>, x)) = <<>>
    BY <1>2 DEF Packets, Sample
<1> QED BY <1>1, <1>3 DEF PlainUnit, Arrives

\* A unit that is sent: packets of one time stamp, the marker on the last one;
\* together they are the unit.
LEMMA PacketsOfUnit ==
    ASSUME NEW d \in OtherNal, UnitType(d) \notin Silent, NEW x, timestamp \in Nat
    PROVE  /\ Packets(Sample(<<d>>, x)) \in Seq(GoodPacket)
           /\ Len(Packets(Sample(<<d>>, x))) \in Nat /\ Len(Packets(Sample(<<d>>, x))) > 0
           /\ \A k \in 1 .. Len(Packets(Sample(<<d>>, x))) :
                 /\ Packets(Sample(<<d>>, x))[k].ts = timestamp
                 /\ Packets(Sample(<<d>>, x))[k].marker <=> k = Len(Packets(Sample(<<d>>, x)))
                 /\ Packets(Sample(<<d>>, x))[k].payload.type # STAPA
                 /\ Packets(Sample(<<d>>, x))[k].payload.first <=> k = 1
           /\ UnitType(Packets(Sample(<<d>>, x))[1].payload.data[1]) = UnitType(d)
           /\ Bytes(Packets(Sample(<<d>>, x))) = PlainUnit(d)
<1> DEFINE ps == Payloads(<<d>>)
           P == Packets(Sample(<<d>>, x))
           n == Len(ps)
<1>1. /\ d \in Nal /\ d \in Seq(Byte) /\ UnitType(d) \in 0 .. 31
      /\ UnitType(d) \in 1 .. STAPA - 1 /\ UnitType(d) \notin {SEI, SPS, PPS, AUD, FILLER}
    BY NalFacts DEF OtherNal, Silent
<1>2. /\ PlainUnit(d) = IF Len(d) > 2 THEN StartCode(4) \o d ELSE <<>>
      /\ StartCode(4) \o d \in Seq(Byte) /\ PlainUnit(d) \in Seq(Byte)
    <2>1. StartCode(4) \in Seq(Byte)
        BY DEF StartCode, Byte
    <2>2. Arrives(d) <=> Len(d) > 2
        BY <1>1 DEF Arrives
    <2> QED BY <1>1, <2>1, <2>2, ConcatProperties, PlainUnitType DEF PlainUnit
<1>3. /\ ps \in Seq(Payload) /\ n \in Nat /\ n > 0
      /\ \A k \in 1 .. n : /\ ps[k].type \notin {SPS, STAPA} /\ ps[k].data # <<>>
                           /\ ps[k].first <=> k = 1
      /\ UnitType(ps[1].data[1]) = UnitType(d)
      /\ FlattenSeq([k \in 1 .. n |-> Output(ps[k])]) = PlainUnit(d)
    <2>1. CASE Len(d) <= Mtu
        <3> DEFINE one == [type |-> UnitType(d), first |-> TRUE, data |-> <<d>>]
        <3>1. ps = <<one>>
            <4> DEFINE l == <<d>>
            <4>1. Len(l) # 2 /\ l[1] = d
                OBVIOUS
            <4> HIDE DEF l
            <4>2. Payloads(l) = << [type |-> UnitType(d), first |-> TRUE, data |-> l] >>
                BY <1>1, <2>1, <4>1 DEF Payloads
            <4> QED BY <4>2 DEF l
        <3>2. one \in Payload
            <4>1. UnitType(d) \in Byte /\ <<d>> \in Seq(Seq(Byte))
                BY <1>1 DEF Byte
            <4> QED BY <4>1 DEF Payload
        <3>3. one.type \notin {SPS, STAPA} /\ one.data # <<>> /\ one.first = TRUE /\ one.data[1] = d
            <4>1. UnitType(d) # STAPA /\ UnitType(d) # SPS
                <5>1. \A y \in 1 .. STAPA - 1 : y # STAPA
                    BY DEF STAPA
                <5> QED BY <1>1, <5>1
            <4> QED BY <4>1
        <3>4. Output(one) = PlainUnit(d)
            <4>1. one.first = TRUE /\ Len(one.data) = 1 /\ one.data[1] = d
                OBVIOUS
            <4>5. one.type \in 1 .. STAPA - 1
                BY <1>1
            <4> HIDE DEF one
            <4>2. [k \in 1 .. Len(one.data) |-> StartCode(4) \o one.data[k]] = <<StartCode(4) \o d>>
                BY <4>1
            <4>3. Unmarshal(one) = FlattenSeq(<<StartCode(4) \o d>>)
                BY <4>1, <4>2 DEF Unmarshal
            <4>4. Refused(one) <=> ~(Len(d) > 2)
                <5>1. \A y \in 1 .. STAPA - 1 : y \in (1 .. STAPA) \cup {FUA} /\ y < STAPA
                    BY DEF STAPA
                <5>2. Len(d) \in Nat
                    BY <1>1, NalFacts
                <5>3. Refused(one) <=> Len(d) <= 2
                    BY <4>1, <4>5, <5>1 DEF Refused
                <5> QED BY <5>2, <5>3
            <4> QED BY <1>2, <4>3, <4>4, FlattenOne DEF Output
        <3> HIDE DEF one, ps
        <3>7. ps \in Seq(Payload) /\ n = 1 /\ ps[1] = one
            BY <3>1, <3>2
        <3> HIDE DEF n
        <3>5. [k \in 1 .. n |-> Output(ps[k])] = <<PlainUnit(d)>>
            <4> DEFINE b == Output(one)
            <4> HIDE DEF b
            <4>1. \A k \in 1 .. n : Output(ps[k]) = b
                BY <3>7 DEF b
            <4>2. [k \in 1 .. n |-> Output(ps[k])] = [k \in 1 .. n |-> b]
                BY <4>1
            <4>3. [k \in 1 .. n |-> b] = <<b>>
                BY <3>7
            <4> QED BY <3>4, <4>2, <4>3 DEF b
        <3>6. FlattenSeq(<<PlainUnit(d)>>) = PlainUnit(d)
            BY <1>2, FlattenOne
        <3>8. FlattenSeq([k \in 1 .. n |-> Output(ps[k])]) = PlainUnit(d)
            BY <3>5, <3>6
        <3>9. \A k \in 1 .. n : k = 1 /\ ps[k] = one
            BY <3>7
        <3> QED BY <3>3, <3>7, <3>8, <3>9
    <2>2. CASE ~(Len(d) <= Mtu)
        <3>1. ps = Pieces(d)
            <4> DEFINE l == <<d>>
            <4>1. Len(l) # 2 /\ l[1] = d
                OBVIOUS
            <4> HIDE DEF l
            <4>2. Payloads(l) = Pieces(d)
                BY <1>1, <2>2, <4>1 DEF Payloads
            <4> QED BY <4>2 DEF l
        <3>2. Len(d) > Mtu /\ Len(d) > 2
            <4>1. Len(d) \in Nat
                BY <1>1, NalFacts
            <4>2. Mtu \in Nat /\ Mtu > 2
                BY SenderAssumption
            <4> QED BY <2>2, <4>1, <4>2
        <3>3. FUA \notin {SPS, STAPA}
            BY DEF FUA, SPS, STAPA
        <3> HIDE DEF ps
        <3> QED BY <1>1, <1>2, <3>1, <3>2, <3>3, PiecesOf
    <2> QED BY <2>1, <2>2
<1>4. P = [k \in 1 .. n |->
              [ts |-> timestamp, marker |-> Marker(ps[k], k = n), payload |-> ps[k]]]
    BY DEF Packets, Sample
<1> HIDE DEF ps, P
<1> DEFINE q(k) == [ts |-> timestamp, marker |-> Marker(ps[k], k = n), payload |-> ps[k]]
<1>5. ASSUME NEW k \in 1 .. n
      PROVE  /\ q(k) \in GoodPacket /\ q(k).payload = ps[k] /\ q(k).ts = timestamp
             /\ q(k).marker <=> k = n
    <2>1. ps[k] \in GoodPayload
        <3>1. ps[k] \in Payload
            BY <1>3, ElementOfSeq
        <3> QED BY <1>3, <3>1 DEF GoodPayload
    <2>2. Marker(ps[k], k = n) <=> k = n
        BY <1>3 DEF Marker
    <2>3. Marker(ps[k], k = n) \in BOOLEAN
        BY DEF Marker
    <2> QED BY <2>1, <2>2, <2>3 DEF GoodPacket
<1>6. P = [k \in 1 .. n |-> q(k)]
    BY <1>4
<1> HIDE DEF q
<1>7. P \in Seq(GoodPacket) /\ Len(P) = n /\ \A k \in 1 .. n : P[k] = q(k)
    BY <1>3, <1>5, <1>6
<1>8. Bytes(P) = PlainUnit(d)
    <2>1. \A k \in 1 .. n : Output(P[k].payload) = Output(ps[k])
        BY <1>5, <1>7
    <2>2. [k \in 1 .. Len(P) |-> Output(P[k].payload)] = [k \in 1 .. n |-> Output(ps[k])]
        BY <1>7, <2>1
    <2> QED BY <1>3, <2>2 DEF Bytes
<1>9. 1 \in 1 .. n
    BY <1>3
<1> HIDE DEF n
<1>10. \A k \in 1 .. n : /\ P[k].ts = timestamp /\ (P[k].marker <=> k = n)
                         /\ P[k].payload.type # STAPA /\ (P[k].payload.first <=> k = 1)
    BY <1>3, <1>5, <1>7
<1>11. UnitType(P[1].payload.data[1]) = UnitType(d)
    BY <1>3, <1>5, <1>7, <1>9
<1> QED BY <1>3, <1>7, <1>8, <1>10, <1>11 DEF P

\* An aggregate is a unit with a type of its own.
LEMMA AggregateType ==
    ASSUME NEW s \in Nal, NEW p \in Nal
    PROVE  UnitType(Aggregate(s, p)) = STAPA
<1> DEFINE h == ((s[1] \div 32) % 4) * 32 + STAPA
           l == <<h>>
           m == Sized(s) \o Sized(p)
<1>1. s \in Seq(Byte) /\ p \in Seq(Byte) /\ s[1] \in Byte /\ Len(s) \in Nat /\ Len(p) \in Nat
    BY NalFacts
<1>2. h \in Nat /\ h % 32 = STAPA /\ h \in Byte
    <2> DEFINE r == (s[1] \div 32) % 4
    <2>1. r \in 0 .. 3
        <3>1. s[1] \div 32 \in Nat
            <4>1. s[1] \in Nat
                <5>1. \A b \in Byte : b \in Nat
                    BY DEF Byte
                <5> QED BY <1>1, <5>1
            <4>2. \A a \in Nat : a \div 32 \in Nat
                OBVIOUS
            <4> QED BY <4>1, <4>2
        <3>2. \A a \in Nat : a % 4 \in 0 .. 3
            OBVIOUS
        <3> QED BY <3>1, <3>2
    <2> HIDE DEF r
    <2>2. r * 32 + STAPA \in Nat /\ (r * 32 + STAPA) % 32 = STAPA /\ r * 32 + STAPA \in Byte
        BY <2>1 DEF STAPA, Byte
    <2> QED BY <2>2 DEF r
<1>3. Sized(s) \in Seq(Byte) /\ Sized(p) \in Seq(Byte)
    <2>1. ASSUME NEW x \in Seq(Byte) PROVE Sized(x) \in Seq(Byte)
        <3>1. (Len(x) \div 256) % 256 \in Byte /\ Len(x) % 256 \in Byte
            <4>1. Len(x) \in Nat /\ Len(x) \div 256 \in Nat
                BY LenProperties, Dividing
            <4>2. \A a \in Nat : a % 256 \in Byte
                BY DEF Byte
            <4> QED BY <4>1, <4>2
        <3>2. <<(Len(x) \div 256) % 256, Len(x) % 256>> \in Seq(Byte)
            BY <3>1
        <3> QED BY <3>2, ConcatProperties DEF Sized
    <2> QED BY <1>1, <2>1
<1>4. m \in Seq(Byte)
    BY <1>3, ConcatProperties
<1>5. l \in Seq(Byte) /\ Len(l) = 1 /\ l[1] = h
    <2> HIDE DEF h
    <2> QED BY <1>2
<1> HIDE DEF l, m, h
<1>6. (l \o m)[1] = h
    <2>1. \A i \in 1 .. Len(l) + Len(m) : (l \o m)[i] = IF i <= Len(l) THEN l[i] ELSE m[i - Len(l)]
        BY <1>4, <1>5, ConcatProperties
    <2>2. 1 \in 1 .. Len(l) + Len(m) /\ 1 <= Len(l)
        BY <1>4, <1>5, LenProperties
    <2> QED BY <1>5, <2>1, <2>2
<1>7. Aggregate(s, p) = l \o m
    <2>1. Sized(s) \in Seq(Byte) /\ Sized(p) \in Seq(Byte) /\ l \in Seq(Byte)
        BY <1>3, <1>5
    <2>2. Aggregate(s, p) = (l \o Sized(s)) \o Sized(p)
        BY DEF Aggregate, l, h
    <2>3. (l \o Sized(s)) \o Sized(p) = l \o (Sized(s) \o Sized(p))
        BY <2>1, Associative
    <2> QED BY <2>2, <2>3 DEF m
<1> QED BY <1>2, <1>6, <1>7 DEF UnitType

\* A pair of parameter sets: one STAP-A without the marker.
PairPacket(s, p) ==
    [ts |-> timestamp, marker |-> FALSE,
     payload |-> [type |-> STAPA, first |-> TRUE, data |-> <<s, p>>]]

\* The packets of a sample of two parameter sets that fit: one STAP-A, without the
\* marker.
\* A recorder that gets it begins to record, and writes both with start codes.
LEMMA PacketsOfPair ==
    ASSUME NEW s \in SpsNal, NEW p \in PpsNal, Fit(s, p), NEW x, timestamp \in Nat
    PROVE  /\ Packets(Sample(<<s, p>>, x)) = << PairPacket(s, p) >>
           /\ PairPacket(s, p) \in GoodPacket /\ KeyPayload(PairPacket(s, p).payload)
           /\ Output(PairPacket(s, p).payload) = PlainAll(<<s, p>>)
           /\ PlainAll(<<s, p>>) = (StartCode(4) \o s) \o (StartCode(4) \o p)
<1> DEFINE one == [type |-> STAPA, first |-> TRUE, data |-> <<s, p>>]
<1>1. s \in Seq(Byte) /\ p \in Seq(Byte) /\ UnitType(s) = SPS /\ UnitType(p) = PPS
    BY DEF SpsNal, PpsNal, Nal
<1>2. Payloads(<<s, p>>) = <<one>>
    <2> DEFINE l == <<s, p>>
    <2>1. Len(l) = 2 /\ l[1] = s /\ l[2] = p
        OBVIOUS
    <2>2. UnitType(Aggregate(s, p)) = STAPA
        BY AggregateType DEF SpsNal, PpsNal
    <2>3. STAPA \notin {AUD, FILLER}
        BY DEF STAPA, AUD, FILLER
    <2> HIDE DEF l
    <2>4. Payloads(l) = << [type |-> STAPA, first |-> TRUE, data |-> l] >>
        BY <2>1, <2>2, <2>3 DEF Payloads, Fit
    <2> QED BY <2>4 DEF l
<1>3. Packets(Sample(<<s, p>>, x)) = << PairPacket(s, p) >>
    <2>1. Len(<<one>>) = 1 /\ <<one>>[1] = one
        OBVIOUS
    <2>2. Marker(one, TRUE) = FALSE
        BY DEF Marker
    <2> DEFINE t == <<one>>
               q == [ts |-> timestamp, marker |-> FALSE, payload |-> one]
    <2>3. Packets(Sample(<<s, p>>, x)) =
             [k \in 1 .. Len(t) |->
                 [ts |-> timestamp, marker |-> Marker(t[k], k = Len(t)), payload |-> t[k]]]
        BY <1>2 DEF Packets, Sample
    <2>4. Len(t) = 1 /\ t[1] = one
        OBVIOUS
    <2> HIDE DEF t, one
    <2>5. ASSUME NEW k \in 1 .. Len(t)
          PROVE  [ts |-> timestamp, marker |-> Marker(t[k], k = Len(t)), payload |-> t[k]] = q
        <3>1. k = 1 /\ t[k] = one /\ (k = Len(t)) = TRUE
            BY <2>4
        <3> QED BY <2>2, <3>1
    <2>6. Packets(Sample(<<s, p>>, x)) = [k \in 1 .. 1 |-> q]
        BY <2>3, <2>4, <2>5
    <2> HIDE DEF q
    <2>7. [k \in 1 .. 1 |-> q] = <<q>>
        OBVIOUS
    <2> QED BY <2>6, <2>7 DEF PairPacket, q, one
<1>4. one \in Payload /\ one.data = <<s, p>> /\ one.type = STAPA /\ one.first
    <2>1. STAPA \in Byte /\ <<s, p>> \in Seq(Seq(Byte))
        BY <1>1 DEF STAPA, Byte
    <2> QED BY <2>1 DEF Payload
<1>5. KeyPayload(one)
    BY <1>4 DEF KeyPayload
<1>6. one \in GoodPayload
    BY <1>4, <1>5 DEF GoodPayload
<1>7. PairPacket(s, p) \in GoodPacket /\ PairPacket(s, p).payload = one
    BY <1>6 DEF PairPacket, GoodPacket
<1>8. PlainUnit(s) = StartCode(4) \o s /\ PlainUnit(p) = StartCode(4) \o p
    BY <1>1 DEF PlainUnit, Arrives, SPS, PPS, SEI, AUD, FILLER
<1>9. PlainAll(<<s, p>>) = (StartCode(4) \o s) \o (StartCode(4) \o p)
    BY <1>1, <1>8, PlainFew
<1>10. Output(one) = PlainAll(<<s, p>>)
    <2>1. Len(<<s, p>>) = 2 /\ <<s, p>>[1] = s /\ <<s, p>>[2] = p
        OBVIOUS
    <2>2. [k \in 1 .. Len(<<s, p>>) |-> StartCode(4) \o <<s, p>>[k]]
             = [k \in 1 .. Len(<<s, p>>) |-> PlainUnit(<<s, p>>[k])]
        <3>1. ASSUME NEW k \in 1 .. 2
              PROVE  StartCode(4) \o <<s, p>>[k] = PlainUnit(<<s, p>>[k])
            <4> DEFINE l == <<s, p>>
            <4>1. k = 1 \/ k = 2
                OBVIOUS
            <4>2. l[1] = s /\ l[2] = p
                OBVIOUS
            <4> HIDE DEF l
            <4>3. StartCode(4) \o l[k] = PlainUnit(l[k])
                BY <1>8, <4>1, <4>2
            <4> QED BY <4>3 DEF l
        <3> QED BY <2>1, <3>1
    <2>3. Output(one) = FlattenSeq([k \in 1 .. Len(<<s, p>>) |-> StartCode(4) \o <<s, p>>[k]])
        <3>1. ~Refused(one)
            BY <1>4 DEF Refused, STAPA, FUA
        <3> HIDE DEF one
        <3> QED BY <1>4, <3>1 DEF Output, Unmarshal
    <2> QED BY <2>2, <2>3 DEF PlainAll
<1> QED BY <1>3, <1>5, <1>7, <1>9, <1>10

-----------------------------------------------------------------------------
(***************************************************************************)
(* The samples of a group.                                                 *)
(***************************************************************************)

\* A row that goes on where another ends.
LEMMA RowGrows ==
    ASSUME NEW S, NEW row \in Seq(S), NEW longer \in Seq(S), Len(longer) = Len(row) + 1,
           \A k \in 1 .. Len(row) : longer[k] = row[k]
    PROVE  longer = Append(row, longer[Len(row) + 1])
<1> DEFINE N == Len(row)
           x == longer[N + 1]
           end == Append(row, x)
<1>1. N \in Nat /\ x \in S
    <2>1. N \in Nat
        BY LenProperties
    <2>2. N + 1 \in 1 .. Len(longer)
        BY <2>1
    <2> QED BY <2>1, <2>2, ElementOfSeq
<1> HIDE DEF x
<1>2. /\ end \in Seq(S) /\ Len(end) = N + 1 /\ end[N + 1] = x
      /\ \A k \in 1 .. N : end[k] = row[k]
    BY <1>1, AppendProperties
<1>3. ASSUME NEW k \in 1 .. N + 1 PROVE longer[k] = end[k]
    <2>1. CASE k = N + 1
        BY <1>2, <2>1 DEF x
    <2>2. CASE k # N + 1
        <3>1. k \in 1 .. N
            BY <1>1, <2>2
        <3> QED BY <1>2, <3>1
    <2> QED BY <2>1, <2>2
<1> HIDE DEF end
<1>4. longer = end
    BY <1>1, <1>2, <1>3, SeqEqual
<1> QED BY <1>4 DEF end, x

\* The samples of the units that are not parameter sets.
Others(group) ==
    FlattenSeq([k \in 1 .. Len(group) |->
                   IF IsParameterSet(group[k]) THEN <<>> ELSE << <<group[k]>> >>])

\* A unit that joins a group becomes a sample unless it is a parameter set.
LEMMA OthersGrow ==
    /\ Others(<<>>) = <<>>
    /\ \A g \in Seq(Seq(Byte)), u \in Seq(Byte) :
          /\ Others(g) \in Seq(Seq(Seq(Byte)))
          /\ Others(Append(g, u)) =
                Others(g) \o IF IsParameterSet(u) THEN <<>> ELSE << <<u>> >>
<1> DEFINE one(u) == IF IsParameterSet(u) THEN <<>> ELSE << <<u>> >>
           row(g) == [k \in 1 .. Len(g) |-> one(g[k])]
<1>1. Others(<<>>) = <<>>
    <2>1. row(<<>>) = <<>>
        OBVIOUS
    <2>2. Others(<<>>) = FlattenSeq(row(<<>>))
        BY DEF Others
    <2> QED BY <2>1, <2>2, FlattenEmpty
<1>2. ASSUME NEW u \in Seq(Byte) PROVE one(u) \in Seq(Seq(Seq(Byte)))
    OBVIOUS
<1> HIDE DEF one
<1>3. ASSUME NEW g \in Seq(Seq(Byte))
      PROVE  /\ row(g) \in Seq(Seq(Seq(Seq(Byte)))) /\ Len(row(g)) = Len(g)
             /\ Others(g) = FlattenSeq(row(g))
    <2>1. Len(g) \in Nat /\ \A k \in 1 .. Len(g) : g[k] \in Seq(Byte)
        BY LenProperties, ElementOfSeq
    <2>2. \A k \in 1 .. Len(g) : one(g[k]) \in Seq(Seq(Seq(Byte)))
        BY <1>2, <2>1
    <2>3. Others(g) = FlattenSeq(row(g))
        BY DEF Others, one
    <2> DEFINE T == Seq(Seq(Seq(Byte)))
    <2>4. \A k \in 1 .. Len(g) : one(g[k]) \in T
        BY <2>2
    <2> HIDE DEF T
    <2>5. row(g) \in Seq(T) /\ Len(row(g)) = Len(g)
        BY <2>1, <2>4
    <2> QED BY <2>3, <2>5 DEF T
<1>4. ASSUME NEW g \in Seq(Seq(Byte)), NEW u \in Seq(Byte)
      PROVE  Others(g) \in Seq(Seq(Seq(Byte))) /\ Others(Append(g, u)) = Others(g) \o one(u)
    <2> DEFINE more == Append(g, u)
               a == row(g)
               b == row(more)
               N == Len(g)
               T == Seq(Seq(Byte))
    <2>1. /\ N \in Nat /\ more \in Seq(Seq(Byte)) /\ Len(more) = N + 1 /\ more[N + 1] = u
          /\ \A k \in 1 .. N : more[k] = g[k]
        BY LenProperties, AppendProperties
    <2> HIDE DEF more, N
    <2>2. /\ a \in Seq(Seq(T)) /\ Len(a) = N /\ Others(g) = FlattenSeq(a)
          /\ b \in Seq(Seq(T)) /\ Len(b) = N + 1 /\ Others(more) = FlattenSeq(b)
        BY <1>3, <2>1 DEF N
    <2>3. /\ \A k \in 1 .. N : b[k] = a[k]
          /\ b[N + 1] = one(u)
        <3>1. \A k \in 1 .. N : k \in 1 .. Len(g) /\ k \in 1 .. Len(more)
            BY <2>1 DEF N
        <3>2. N + 1 \in 1 .. Len(more)
            BY <2>1
        <3> QED BY <2>1, <3>1, <3>2
    <2>4. one(u) \in Seq(T)
        BY <1>2
    <2> HIDE DEF row, a, b, T
    <2>5. b = Append(a, one(u))
        BY <2>2, <2>3, RowGrows
    <2>6. FlattenSeq(b) = FlattenSeq(a) \o one(u) /\ FlattenSeq(a) \in Seq(T)
        BY <2>2, <2>4, <2>5, FlattenAppend, FlattenType
    <2> QED BY <2>2, <2>6 DEF more, T
<1> QED BY <1>1, <1>4 DEF one

\* A third element behind two.
LEMMA ThreeInRow ==
    ASSUME NEW S, NEW a \in S, NEW b \in S, NEW c \in S
    PROVE  Append(<<a, b>>, c) = <<a, b, c>>
<1> DEFINE l == <<a, b>>
           x == <<a, b, c>>
<1>1. l \in Seq(S) /\ Len(l) = 2 /\ l[1] = a /\ l[2] = b
    OBVIOUS
<1>2. x \in Seq(S) /\ Len(x) = 3 /\ x[1] = a /\ x[2] = b /\ x[3] = c
    OBVIOUS
<1> HIDE DEF l, x
<1>3. Len(x) = Len(l) + 1 /\ Len(l) + 1 = 3 /\ \A k \in 1 .. Len(l) : x[k] = l[k]
    BY <1>1, <1>2
<1>4. x = Append(l, x[Len(l) + 1])
    BY <1>1, <1>2, <1>3, RowGrows
<1>5. x = Append(l, c)
    BY <1>2, <1>3, <1>4
<1> QED BY <1>5 DEF l, x

\* The only sample of a group takes time.
LEMMA TimedOne ==
    ASSUME NEW x
    PROVE  Timed(<<x>>) = << [nals |-> x, duration |-> 1] >>
<1> DEFINE t == <<x>>
<1>1. Len(t) = 1 /\ t[1] = x
    OBVIOUS
<1> HIDE DEF t
<1>2. Timed(t) = [k \in 1 .. 1 |-> [nals |-> x, duration |-> 1]]
    BY <1>1 DEF Timed
<1> DEFINE q == [nals |-> x, duration |-> 1]
<1> HIDE DEF q
<1>3. [k \in 1 .. 1 |-> q] = <<q>>
    OBVIOUS
<1> QED BY <1>2, <1>3 DEF t, q

\* Of two samples the second one takes time.
LEMMA TimedTwo ==
    ASSUME NEW x, NEW y
    PROVE  Timed(<<x, y>>) = << [nals |-> x, duration |-> 0], [nals |-> y, duration |-> 1] >>
<1> DEFINE t == <<x, y>>
           q == [nals |-> x, duration |-> 0]
           r == [nals |-> y, duration |-> 1]
           u == Timed(t)
           v == <<q, r>>
<1>1. Len(t) = 2 /\ t[1] = x /\ t[2] = y
    OBVIOUS
<1>2. v \in Seq({q, r}) /\ Len(v) = 2 /\ v[1] = q /\ v[2] = r
    <2> HIDE DEF q, r
    <2> QED OBVIOUS
<1> HIDE DEF t, v
<1>3. /\ u = [k \in 1 .. 2 |-> [nals |-> t[k], duration |-> IF k = 2 THEN 1 ELSE 0]]
      /\ u[1] = q /\ u[2] = r
    BY <1>1 DEF Timed
<1> HIDE DEF q, r
<1>4. \A k \in 1 .. 2 : u[k] \in {q, r}
    <2> HIDE DEF u
    <2> QED BY <1>3
<1>5. u \in Seq({q, r}) /\ Len(u) = 2
    <2>1. u = [k \in 1 .. 2 |-> u[k]]
        BY <1>3
    <2> HIDE DEF u
    <2> QED BY <1>4, <2>1
<1> HIDE DEF u
<1>6. \A k \in 1 .. 2 : u[k] = v[k]
    BY <1>2, <1>3
<1>7. u = v
    BY <1>2, <1>5, <1>6, SeqEqual
<1> QED BY <1>7 DEF u, v, t, q, r

\* What is written of a group, for the groups there are.
LEMMA SamplesOfGroup ==
    /\ \A s \in SpsNal : Timed(InSamples(<<s>>, s, <<>>)) = <<>>
    /\ \A u \in OtherNal : Timed(InSamples(<<u>>, <<>>, <<>>)) = << Sample(<<u>>, 1) >>
    /\ \A s \in SpsNal, p \in PpsNal :
          Timed(InSamples(<<s, p>>, s, p)) = << Sample(<<s, p>>, 1) >>
    /\ \A s \in SpsNal, p \in PpsNal, u \in OtherNal :
          Timed(InSamples(<<s, p, u>>, s, p)) = << Sample(<<s, p>>, 0), Sample(<<u>>, 1) >>
<1>t. /\ \A s \in SpsNal : s \in Seq(Byte) /\ s # <<>> /\ IsParameterSet(s)
      /\ \A p \in PpsNal : p \in Seq(Byte) /\ p # <<>> /\ IsParameterSet(p)
      /\ \A u \in OtherNal : u \in Seq(Byte) /\ ~IsParameterSet(u)
    BY DEF SpsNal, PpsNal, OtherNal, Nal, IsParameterSet
<1>e. <<>> \in Seq(Seq(Byte))
    OBVIOUS
<1>0. ASSUME NEW u \in Seq(Byte)
      PROVE  Others(<<u>>) = IF IsParameterSet(u) THEN <<>> ELSE << <<u>> >>
    <2>1. Append(<<>>, u) = <<u>>
        OBVIOUS
    <2>2. Others(<<u>>) = <<>> \o IF IsParameterSet(u) THEN <<>> ELSE << <<u>> >>
        BY <1>e, <2>1, OthersGrow
    <2> DEFINE x == IF IsParameterSet(u) THEN <<>> ELSE << <<u>> >>
    <2>3. x \in Seq(Seq(Seq(Byte)))
        OBVIOUS
    <2> HIDE DEF x
    <2>4. <<>> \o x = x
        BY <2>3, ConcatEmptySeq
    <2> QED BY <2>2, <2>4 DEF x
<1>1. ASSUME NEW s \in SpsNal PROVE Timed(InSamples(<<s>>, s, <<>>)) = <<>>
    <2>1. Others(<<s>>) = <<>>
        BY <1>t, <1>0
    <2>2. InSamples(<<s>>, s, <<>>) = <<>> \o Others(<<s>>)
        BY DEF InSamples, Others
    <2>3. InSamples(<<s>>, s, <<>>) = <<>>
        BY <2>1, <2>2
    <2> QED BY <2>3 DEF Timed
<1>2. ASSUME NEW u \in OtherNal
      PROVE  Timed(InSamples(<<u>>, <<>>, <<>>)) = << Sample(<<u>>, 1) >>
    <2>1. Others(<<u>>) = << <<u>> >>
        BY <1>t, <1>0
    <2>2. InSamples(<<u>>, <<>>, <<>>) = <<>> \o Others(<<u>>)
        BY DEF InSamples, Others
    <2>3. InSamples(<<u>>, <<>>, <<>>) = << <<u>> >>
        BY <2>1, <2>2
    <2> QED BY <2>3, TimedOne DEF Sample
<1>3. ASSUME NEW s \in SpsNal, NEW p \in PpsNal
      PROVE  /\ Others(<<s, p>>) = <<>>
             /\ Timed(InSamples(<<s, p>>, s, p)) = << Sample(<<s, p>>, 1) >>
    <2>1. <<s>> \in Seq(Seq(Byte)) /\ Append(<<s>>, p) = <<s, p>> /\ p \in Seq(Byte)
        BY <1>t, TwoInRow
    <2>2. Others(<<s, p>>) = Others(<<s>>) \o <<>> /\ Others(<<s>>) = <<>>
        BY <1>t, <1>0, <2>1, OthersGrow
    <2>3. Others(<<s, p>>) = <<>>
        BY <2>2
    <2>4. InSamples(<<s, p>>, s, p) = << <<s, p>> >> \o Others(<<s, p>>)
        BY <1>t DEF InSamples, Others
    <2>5. InSamples(<<s, p>>, s, p) = << <<s, p>> >>
        BY <2>3, <2>4
    <2> QED BY <2>3, <2>5, TimedOne DEF Sample
<1>4. ASSUME NEW s \in SpsNal, NEW p \in PpsNal, NEW u \in OtherNal
      PROVE  Timed(InSamples(<<s, p, u>>, s, p)) = << Sample(<<s, p>>, 0), Sample(<<u>>, 1) >>
    <2>1. <<s, p>> \in Seq(Seq(Byte)) /\ Append(<<s, p>>, u) = <<s, p, u>> /\ u \in Seq(Byte)
        BY <1>t, ThreeInRow
    <2>2. Others(<<s, p, u>>) = Others(<<s, p>>) \o << <<u>> >>
        BY <1>t, <2>1, OthersGrow
    <2>3. Others(<<s, p, u>>) = << <<u>> >>
        BY <1>3, <2>2, SMTT(40)
    <2>4. InSamples(<<s, p, u>>, s, p) = << <<s, p>> >> \o Others(<<s, p, u>>)
        BY <1>t DEF InSamples, Others
    <2>5. InSamples(<<s, p, u>>, s, p) = << <<s, p>>, <<u>> >>
        <3> DEFINE x == <<s, p>>
                   y == <<u>>
                   Q == {x, y}
        <3> HIDE DEF x, y
        <3>1. x \in Q /\ y \in Q
            OBVIOUS
        <3> HIDE DEF Q
        <3>2. <<x>> \in Seq(Q)
            BY <3>1
        <3>3. <<x>> \o <<y>> = Append(<<x>>, y)
            BY <3>1, <3>2, AppendIsConcat
        <3>4. Append(<<x>>, y) = <<x, y>>
            BY <3>1, TwoInRow
        <3> QED BY <2>3, <2>4, <3>3, <3>4 DEF x, y
    <2> QED BY <2>5, TimedTwo DEF Sample
<1> QED BY <1>1, <1>2, <1>3, <1>4

-----------------------------------------------------------------------------
(***************************************************************************)
(* The inductive invariant of the sender.                                  *)
(***************************************************************************)

\* The file is cut into its units, which are in order.
FileCut == file \in CutFile /\ plain = PlainAll(file.nals)

\* The unit read last ends a group.
AtBoundary == at = 1 \/ file.nals[at - 1] \in OtherNal

\* Nothing is sent before the first parameter sets are read.
Quiet == sent = <<>> => \A k \in 1 .. at - 1 : UnitType(file.nals[k]) \in Silent

\* The last packet ends a picture, or it is a STAP-A whose picture is to follow.
LastSent == sent[Len(sent)]
Closed == sent # <<>> => LastSent.marker /\ LastSent.ts < timestamp
PairSent ==
    /\ sent # <<>>
    /\ LastSent.payload.type = STAPA /\ ~LastSent.marker /\ LastSent.ts = timestamp

\* A group while it is read: nothing, an SPS, or an SPS and a PPS.
GroupEmpty == oFrames = <<>> /\ sps = <<>> /\ pps = <<>> /\ AtBoundary /\ Quiet
GroupSps ==
    \E s \in SpsNal :
        /\ oFrames = <<s>> /\ sps = s /\ pps = <<>>
        /\ at > 1 /\ file.nals[at - 1] = s
GroupPair ==
    \E s \in SpsNal, p \in PpsNal :
        /\ oFrames = <<s, p>> /\ sps = s /\ pps = p /\ Fit(s, p)
        /\ at > 1 /\ file.nals[at - 1] = p

\* What is left of a group while it is written.  After cancellation a group may
\* end with its parameter sets, and none follows.
NothingLeft == frames = <<>> /\ (sctx => Closed /\ AtBoundary /\ Quiet)
PictureLeft ==
    /\ AtBoundary /\ Quiet
    /\ \E d \in OtherNal :
          /\ frames = << Sample(<<d>>, 1) >>
          /\ \/ Closed /\ UnitType(d) # IDR /\ (sent = <<>> => UnitType(d) \in Silent)
             \/ PairSent /\ UnitType(d) \notin Silent
GroupLeft ==
    /\ AtBoundary /\ Closed
    /\ \E s \in SpsNal, p \in PpsNal, d \in OtherNal :
          /\ frames = << Sample(<<s, p>>, 0), Sample(<<d>>, 1) >>
          /\ Fit(s, p) /\ UnitType(d) \notin Silent
PairLeft ==
    /\ ~sctx /\ Closed
    /\ \E s \in SpsNal, p \in PpsNal : frames = << Sample(<<s, p>>, 1) >> /\ Fit(s, p)

SenderInv ==
    /\ at <= Len(file.nals) + 1
    /\ spc = "open" /\ sctx => Closed
    /\ spc = "group" /\ sctx => Closed /\ AtBoundary /\ Quiet
    /\ spc = "read" => Closed /\ (GroupEmpty \/ GroupSps \/ GroupPair)
    /\ spc = "write" => NothingLeft \/ PictureLeft \/ GroupLeft \/ PairLeft

PacketsGood == sent \in Seq(GoodPacket) /\ wire \in Seq(GoodPacket)
FirstIsPair == sent # <<>> => KeyPayload(sent[1].payload)

\* Reading a unit, by what there is of the group.
ReadSps(u) ==
    /\ GroupEmpty /\ u \in SpsNal
    /\ oFrames' = <<u>> /\ sps' = u /\ pps' = <<>>
    /\ IF sctx THEN spc' = "read" /\ frames' = frames ELSE spc' = "write" /\ frames' = <<>>
ReadOther(u) ==
    /\ GroupEmpty /\ u \in OtherNal /\ UnitType(u) # IDR
    /\ oFrames' = <<u>> /\ sps' = <<>> /\ pps' = <<>>
    /\ spc' = "write" /\ frames' = << Sample(<<u>>, 1) >>
ReadPps(u) ==
    /\ u \in PpsNal
    /\ \E s \in SpsNal :
          /\ oFrames = <<s>> /\ oFrames' = <<s, u>> /\ sps' = s /\ pps' = u /\ Fit(s, u)
          /\ IF sctx THEN spc' = "read" /\ frames' = frames
             ELSE spc' = "write" /\ frames' = << Sample(<<s, u>>, 1) >>
ReadPicture(u) ==
    /\ u \in OtherNal /\ UnitType(u) \notin Silent
    /\ \E s \in SpsNal, p \in PpsNal :
          /\ oFrames = <<s, p>> /\ oFrames' = <<s, p, u>> /\ sps' = s /\ pps' = p /\ Fit(s, p)
          /\ spc' = "write" /\ frames' = << Sample(<<s, p>>, 0), Sample(<<u>>, 1) >>

\* The types of the units that the sender tells apart.
LEMMA Parameters ==
    /\ \A s \in SpsNal : /\ s \in Nal /\ s \in Seq(Byte) /\ s # <<>> /\ IsParameterSet(s)
                         /\ UnitType(s) = SPS /\ UnitType(s) # PPS
    /\ \A p \in PpsNal : /\ p \in Nal /\ p \in Seq(Byte) /\ p # <<>> /\ IsParameterSet(p)
                         /\ UnitType(p) # SPS /\ UnitType(p) = PPS
    /\ \A u \in OtherNal : /\ u \in Nal /\ u \in Seq(Byte) /\ u # <<>> /\ ~IsParameterSet(u)
                           /\ UnitType(u) # SPS /\ UnitType(u) # PPS
BY DEF SpsNal, PpsNal, OtherNal, Nal, IsParameterSet, SPS, PPS

\* What ReadNAL does to the group so far: it reads past SEI units to a unit of the
\* file, and which units can come is known from the file's order (FileAssumption).
LEMMA ReadStep ==
    ASSUME FileCut, at \in Nat \ {0}, at <= Len(file.nals) + 1, spc = "read", frames = <<>>,
           GroupEmpty \/ GroupSps \/ GroupPair, ReadNAL
    PROVE  \E k \in at .. Len(file.nals) :
              /\ at' = k + 1 /\ oFrames' = Append(oFrames, file.nals[k])
              /\ \A j \in at .. k - 1 : UnitType(file.nals[j]) = SEI
              /\ \/ ReadSps(file.nals[k]) \/ ReadOther(file.nals[k])
                 \/ ReadPps(file.nals[k]) \/ ReadPicture(file.nals[k])
              /\ GroupEmpty /\ sent = <<>> =>
                    /\ UnitType(file.nals[k]) \in {AUD, FILLER, SPS}
                    /\ \A j \in 1 .. k - 1 : UnitType(file.nals[j]) \in Silent
<1> DEFINE f == file
<1>1. f \in CutFile /\ at \in 1 .. Len(f.nals) + 1
    BY OrderedFacts DEF FileCut
<1>2. PICK k \in at .. Len(f.nals) :
         /\ NextNAL(f, at) = [err |-> "nil", nal |-> f.nals[k], at |-> k + 1]
         /\ UnitType(f.nals[k]) # SEI
         /\ \A j \in at .. k - 1 : UnitType(f.nals[j]) = SEI
    <2>1. NextNAL(f, at).err = "nil"
        BY DEF ReadNAL
    <2>2. "eof" # "nil"
        OBVIOUS
    <2>3. NextNAL(f, at) # [err |-> "eof", nal |-> <<>>, at |-> at]
        BY <2>1, <2>2
    <2> QED BY <1>1, <2>3, NextNALFinds
<1> DEFINE u == f.nals[k]
<1>3. /\ at' = k + 1 /\ oFrames' = Append(oFrames, u)
      /\ sps' = IF UnitType(u) = SPS THEN u ELSE sps
      /\ pps' = IF UnitType(u) = PPS THEN u ELSE pps
      /\ IF IsParameterSet(u) /\ sctx THEN spc' = spc /\ frames' = frames
         ELSE spc' = "write" /\ frames' = Timed(InSamples(oFrames', sps', pps'))
    BY <1>2 DEF ReadNAL, Running
<1>4. CASE GroupEmpty
    <2>1. /\ u \in SpsNal \/ (u \in OtherNal /\ UnitType(u) # IDR)
          /\ (\A j \in 1 .. at - 1 : UnitType(f.nals[j]) \in Silent) =>
                 /\ UnitType(u) \in {AUD, FILLER, SPS}
                 /\ \A j \in 1 .. k - 1 : UnitType(f.nals[j]) \in Silent
        <3>1. at = 1 \/ f.nals[at - 1] \in OtherNal
            BY <1>4 DEF GroupEmpty, AtBoundary
        <3> QED BY <1>1, <1>2, <3>1, NextAtBoundary
    <2>2. sent = <<>> => \A j \in 1 .. at - 1 : UnitType(f.nals[j]) \in Silent
        BY <1>4 DEF GroupEmpty, Quiet
    <2>3. oFrames' = <<u>>
        BY <1>3, <1>4 DEF GroupEmpty
    <2>4. sps = <<>> /\ pps = <<>>
        BY <1>4 DEF GroupEmpty
    <2> HIDE DEF u
    <2>5. CASE u \in SpsNal
        <3>1. sps' = u /\ pps' = <<>>
            BY <1>3, <2>4, <2>5, Parameters
        <3>2. IF sctx THEN spc' = "read" /\ frames' = frames ELSE spc' = "write" /\ frames' = <<>>
            <4>1. CASE sctx
                BY <1>3, <2>5, <4>1, Parameters
            <4>2. CASE ~sctx
                BY <1>3, <2>3, <2>5, <3>1, <4>2, SamplesOfGroup
            <4> QED BY <4>1, <4>2
        <3>3. ReadSps(u)
            BY <1>4, <2>3, <2>5, <3>1, <3>2 DEF ReadSps
        <3> QED BY <1>2, <1>3, <2>1, <2>2, <3>3 DEF u
    <2>6. CASE u \in OtherNal /\ UnitType(u) # IDR
        <3>1. sps' = <<>> /\ pps' = <<>> /\ ~IsParameterSet(u)
            BY <1>3, <2>4, <2>6, Parameters
        <3>2. spc' = "write" /\ frames' = << Sample(<<u>>, 1) >>
            BY <1>3, <2>3, <2>6, <3>1, SamplesOfGroup
        <3>3. ReadOther(u)
            BY <1>4, <2>3, <2>6, <3>1, <3>2 DEF ReadOther
        <3> QED BY <1>2, <1>3, <2>1, <2>2, <3>3 DEF u
    <2> QED BY <2>1, <2>5, <2>6 DEF u
<1>5. CASE GroupSps
    <2>1. PICK s \in SpsNal :
             /\ oFrames = <<s>> /\ sps = s /\ pps = <<>>
             /\ at > 1 /\ f.nals[at - 1] = s
        BY <1>5 DEF GroupSps
    <2>2. u \in PpsNal /\ Fit(s, u)
        BY <1>1, <1>2, <2>1, NextAfterSps
    <2> HIDE DEF u
    <2>3. oFrames' = <<s, u>>
        <3>1. s \in Seq(Byte) /\ u \in Seq(Byte)
            BY <2>2, Parameters
        <3>2. Append(<<s>>, u) = <<s, u>>
            BY <3>1, TwoInRow
        <3> QED BY <1>3, <2>1, <3>2
    <2>4. sps' = s /\ pps' = u
        BY <1>3, <2>1, <2>2, Parameters
    <2>5. IF sctx THEN spc' = "read" /\ frames' = frames
          ELSE spc' = "write" /\ frames' = << Sample(<<s, u>>, 1) >>
        <3>1. CASE sctx
            BY <1>3, <2>2, <3>1, Parameters
        <3>2. CASE ~sctx
            BY <1>3, <2>2, <2>3, <2>4, <3>2, SamplesOfGroup
        <3> QED BY <3>1, <3>2
    <2>6. ReadPps(u)
        BY <2>1, <2>2, <2>3, <2>4, <2>5 DEF ReadPps
    <2>7. ~GroupEmpty
        BY <2>1 DEF GroupEmpty
    <2> QED BY <1>2, <1>3, <2>6, <2>7 DEF u
<1>6. CASE GroupPair
    <2>1. PICK s \in SpsNal, p \in PpsNal :
             /\ oFrames = <<s, p>> /\ sps = s /\ pps = p /\ Fit(s, p)
             /\ at > 1 /\ f.nals[at - 1] = p
        BY <1>6 DEF GroupPair
    <2>2. u \in OtherNal /\ UnitType(u) \notin Silent
        BY <1>1, <1>2, <2>1, NextAfterPair
    <2> HIDE DEF u
    <2>3. oFrames' = <<s, p, u>>
        <3>1. s \in Seq(Byte) /\ p \in Seq(Byte) /\ u \in Seq(Byte)
            BY <2>2, Parameters
        <3>2. Append(<<s, p>>, u) = <<s, p, u>>
            BY <3>1, ThreeInRow
        <3> QED BY <1>3, <2>1, <3>2
    <2>4. sps' = s /\ pps' = p /\ ~IsParameterSet(u)
        BY <1>3, <2>1, <2>2, Parameters
    <2>5. spc' = "write" /\ frames' = << Sample(<<s, p>>, 0), Sample(<<u>>, 1) >>
        BY <1>3, <2>2, <2>3, <2>4, SamplesOfGroup
    <2>6. ReadPicture(u)
        BY <2>1, <2>2, <2>3, <2>4, <2>5 DEF ReadPicture
    <2>7. ~GroupEmpty
        BY <2>1 DEF GroupEmpty
    <2> QED BY <1>2, <1>3, <2>6, <2>7 DEF u
<1> QED BY <1>4, <1>5, <1>6

\* The first of a few, and the others.
LEMMA FirstOfFew ==
    /\ \A a : Head(<<a>>) = a /\ Tail(<<a>>) = <<>>
    /\ \A a, b : Head(<<a, b>>) = a /\ Tail(<<a, b>>) = <<b>>
    /\ \A a : <<a>> # <<>>
    /\ \A a, b : <<a, b>> # <<>> /\ <<a, b>> # <<a>>
OBVIOUS

\* Writing a sample, by what there is of the group: a picture that is not sent,
\* one that is, or the parameter sets of one.
WriteSilent ==
    \E d \in OtherNal :
        /\ UnitType(d) \in Silent /\ frames = << Sample(<<d>>, 1) >>
        /\ AtBoundary /\ Quiet /\ Closed
        /\ sent' = sent /\ wire' = wire /\ frames' = <<>> /\ timestamp' = timestamp + 1
WritePicture(d) ==
    /\ UnitType(d) \notin Silent /\ frames = << Sample(<<d>>, 1) >>
    /\ AtBoundary /\ sent # <<>> /\ ((Closed /\ UnitType(d) # IDR) \/ PairSent)
    /\ sent' = sent \o Packets(Sample(<<d>>, 1)) /\ wire' = wire \o Packets(Sample(<<d>>, 1))
    /\ frames' = <<>> /\ timestamp' = timestamp + 1
WritePair(s, p) ==
    /\ Closed /\ Fit(s, p)
    /\ sent' = sent \o << PairPacket(s, p) >> /\ wire' = wire \o << PairPacket(s, p) >>
    /\ \/ /\ frames = << Sample(<<s, p>>, 1) >> /\ ~sctx
          /\ frames' = <<>> /\ timestamp' = timestamp + 1
       \/ \E d \in OtherNal :
             /\ UnitType(d) \notin Silent /\ AtBoundary
             /\ frames = << Sample(<<s, p>>, 0), Sample(<<d>>, 1) >>
             /\ frames' = << Sample(<<d>>, 1) >> /\ timestamp' = timestamp

\* A step that writes is one of these.
LEMMA WriteStep ==
    ASSUME timestamp \in Nat, sent \in Seq(GoodPacket), wire \in Seq(GoodPacket),
           NothingLeft \/ PictureLeft \/ GroupLeft \/ PairLeft, WriteSample
    PROVE  \/ WriteSilent
           \/ \E d \in OtherNal : WritePicture(d)
           \/ \E s \in SpsNal, p \in PpsNal : WritePair(s, p)
<1>1. /\ frames # <<>>
      /\ sent' = sent \o Packets(Head(frames)) /\ wire' = wire \o Packets(Head(frames))
      /\ timestamp' = timestamp + Head(frames).duration
      /\ frames' = Tail(frames)
    BY DEF WriteSample
<1>2. ~NothingLeft
    BY <1>1 DEF NothingLeft
<1>3. CASE PictureLeft
    <2>1. PICK d \in OtherNal :
             /\ frames = << Sample(<<d>>, 1) >>
             /\ \/ Closed /\ UnitType(d) # IDR /\ (sent = <<>> => UnitType(d) \in Silent)
                \/ PairSent /\ UnitType(d) \notin Silent
        BY <1>3 DEF PictureLeft
    <2>2. Head(frames) = Sample(<<d>>, 1) /\ Tail(frames) = <<>>
        BY <2>1, FirstOfFew
    <2>3. Sample(<<d>>, 1).duration = 1
        BY DEF Sample
    <2>4. CASE UnitType(d) \in Silent
        <3>1. Packets(Sample(<<d>>, 1)) = <<>>
            BY <2>4, PacketsOfSilent
        <3>2. sent' = sent /\ wire' = wire
            BY <1>1, <2>2, <3>1, ConcatEmptySeq
        <3>3. WriteSilent
            BY <1>1, <1>3, <2>1, <2>2, <2>3, <2>4, <3>2 DEF WriteSilent, PictureLeft
        <3> QED BY <3>3
    <2>5. CASE UnitType(d) \notin Silent
        <3>1. sent # <<>>
            BY <2>1, <2>5 DEF PairSent
        <3>2. WritePicture(d)
            BY <1>1, <1>3, <2>1, <2>2, <2>3, <2>5, <3>1 DEF WritePicture, PictureLeft
        <3> QED BY <3>2
    <2> QED BY <2>4, <2>5
<1>4. CASE GroupLeft
    <2>1. PICK s \in SpsNal, p \in PpsNal, d \in OtherNal :
             /\ frames = << Sample(<<s, p>>, 0), Sample(<<d>>, 1) >>
             /\ Fit(s, p) /\ UnitType(d) \notin Silent
        BY <1>4 DEF GroupLeft
    <2>2. Head(frames) = Sample(<<s, p>>, 0) /\ Tail(frames) = << Sample(<<d>>, 1) >>
        BY <2>1, FirstOfFew
    <2>3. Sample(<<s, p>>, 0).duration = 0
        BY DEF Sample
    <2>4. Packets(Sample(<<s, p>>, 0)) = << PairPacket(s, p) >>
        BY <2>1, PacketsOfPair
    <2>5. timestamp' = timestamp
        BY <1>1, <2>2, <2>3
    <2>6. WritePair(s, p)
        BY <1>1, <1>4, <2>1, <2>2, <2>4, <2>5 DEF WritePair, GroupLeft
    <2> QED BY <2>6
<1>5. CASE PairLeft
    <2>1. PICK s \in SpsNal, p \in PpsNal : frames = << Sample(<<s, p>>, 1) >> /\ Fit(s, p)
        BY <1>5 DEF PairLeft
    <2>2. Head(frames) = Sample(<<s, p>>, 1) /\ Tail(frames) = <<>>
        BY <2>1, FirstOfFew
    <2>3. Sample(<<s, p>>, 1).duration = 1
        BY DEF Sample
    <2>4. Packets(Sample(<<s, p>>, 1)) = << PairPacket(s, p) >>
        BY <2>1, PacketsOfPair
    <2>5. WritePair(s, p)
        BY <1>1, <1>5, <2>1, <2>2, <2>3, <2>4 DEF WritePair, PairLeft
    <2> QED BY <2>5
<1> QED BY <1>2, <1>3, <1>4, <1>5

\* More packets are sent: where they are.
LEMMA MoreSent ==
    ASSUME sent \in Seq(GoodPacket), NEW P \in Seq(GoodPacket), Len(P) > 0, sent' = sent \o P
    PROVE  /\ sent' \in Seq(GoodPacket) /\ sent' # <<>>
           /\ Len(sent) \in Nat /\ Len(P) \in Nat
           /\ Len(sent') = Len(sent) + Len(P)
           /\ \A k \in 1 .. Len(sent) : sent'[k] = sent[k]
           /\ \A k \in 1 .. Len(P) : sent'[Len(sent) + k] = P[k]
           /\ LastSent' = P[Len(P)]
<1>1. /\ sent \o P \in Seq(GoodPacket) /\ Len(sent \o P) = Len(sent) + Len(P)
      /\ \A i \in 1 .. Len(sent) + Len(P) :
            (sent \o P)[i] = IF i <= Len(sent) THEN sent[i] ELSE P[i - Len(sent)]
    BY ConcatProperties
<1>2. Len(sent) \in Nat /\ Len(P) \in Nat
    BY LenProperties
<1>3. \A k \in 1 .. Len(sent) : sent'[k] = sent[k]
    BY <1>1, <1>2
<1>4. \A k \in 1 .. Len(P) : sent'[Len(sent) + k] = P[k]
    <2> TAKE k \in 1 .. Len(P)
    <2>1. /\ Len(sent) + k \in 1 .. Len(sent) + Len(P) /\ ~(Len(sent) + k <= Len(sent))
          /\ (Len(sent) + k) - Len(sent) = k
        BY <1>2
    <2> QED BY <1>1, <2>1
<1>5. sent' # <<>>
    <2>1. Len(sent') > 0
        BY <1>1, <1>2
    <2> QED BY <2>1, EmptySeq
<1>6. LastSent' = P[Len(P)]
    <2>1. Len(P) \in 1 .. Len(P)
        BY <1>2
    <2>2. LastSent' = sent'[Len(sent')]
        BY DEF LastSent
    <2> QED BY <1>1, <1>4, <2>1, <2>2
<1> QED BY <1>1, <1>2, <1>3, <1>4, <1>5, <1>6

\* A row of packets of the picture under way, the marker at most on the last:
\* the marker still ends pictures, parameter sets go before their pictures and
\* before everything else.
LEMMA PacketsFit ==
    ASSUME timestamp \in Nat, sent \in Seq(GoodPacket),
           MarkerEndsPicture, ParameterSetsKept, FirstIsPair,
           NEW P \in Seq(GoodPacket), Len(P) > 0, sent' = sent \o P,
           \A k \in 1 .. Len(P) :
              /\ P[k].ts = timestamp
              /\ k < Len(P) => ~P[k].marker
              /\ k > 1 => ~StartsKeyPicture(P[k]),
           Closed \/ PairSent,
           StartsKeyPicture(P[1]) => PairSent,
           sent = <<>> => KeyPayload(P[1].payload)
    PROVE  MarkerEndsPicture' /\ ParameterSetsKept' /\ FirstIsPair'
<1> DEFINE n == Len(sent)
<1>1. /\ sent' \in Seq(GoodPacket) /\ sent' # <<>>
      /\ n \in Nat /\ Len(P) \in Nat /\ Len(sent') = n + Len(P)
      /\ \A k \in 1 .. n : sent'[k] = sent[k]
      /\ \A k \in 1 .. Len(P) : sent'[n + k] = P[k]
    BY MoreSent
<1>2. n > 0 <=> sent # <<>>
    BY EmptySeq
<1>3. LastSent = sent[n] /\ (n > 0 => LastSent \in GoodPacket)
    <2>1. n > 0 => n \in 1 .. n
        BY <1>1
    <2> QED BY <2>1, ElementOfSeq DEF LastSent
<1>4. n > 0 => (LastSent.marker <=> LastSent.ts # timestamp)
    <2> SUFFICES ASSUME n > 0 PROVE LastSent.marker <=> LastSent.ts # timestamp
        OBVIOUS
    <2>1. LastSent.ts \in Nat
        BY <1>3 DEF GoodPacket
    <2>2. CASE Closed
        <3>1. LastSent.marker /\ LastSent.ts < timestamp
            BY <1>2, <2>2 DEF Closed
        <3>2. LastSent.ts # timestamp
            BY <2>1, <3>1
        <3> QED BY <3>1, <3>2
    <2>3. CASE PairSent
        BY <2>3 DEF PairSent
    <2> QED BY <2>2, <2>3
<1>5. MarkerEndsPicture'
    <2> SUFFICES ASSUME NEW k \in 1 .. Len(sent') - 1
                 PROVE  sent'[k].marker <=> sent'[k + 1].ts # sent'[k].ts
        BY DEF MarkerEndsPicture
    <2>1. CASE k + 1 <= n
        <3>1. k \in 1 .. Len(sent) - 1 /\ k \in 1 .. n /\ k + 1 \in 1 .. n
            BY <1>1, <2>1
        <3>2. sent[k].marker <=> sent[k + 1].ts # sent[k].ts
            BY <3>1 DEF MarkerEndsPicture
        <3>3. sent'[k] = sent[k] /\ sent'[k + 1] = sent[k + 1]
            BY <1>1, <3>1
        <3> QED BY <3>2, <3>3
    <2>2. CASE k = n
        <3>1. n > 0 /\ k \in 1 .. n /\ 1 \in 1 .. Len(P) /\ k + 1 = n + 1
            BY <1>1, <2>2
        <3>2. sent'[k] = LastSent /\ sent'[k + 1] = P[1]
            BY <1>1, <1>3, <2>2, <3>1
        <3>3. P[1].ts = timestamp
            BY <3>1
        <3>4. LastSent.marker <=> timestamp # LastSent.ts
            BY <1>4, <3>1
        <3> QED BY <3>2, <3>3, <3>4
    <2>3. CASE k > n
        <3>1. /\ k - n \in 1 .. Len(P) /\ k - n < Len(P) /\ (k - n) + 1 \in 1 .. Len(P)
              /\ n + (k - n) = k /\ n + ((k - n) + 1) = k + 1
            BY <1>1, <2>3
        <3>2. sent'[k] = P[k - n] /\ sent'[k + 1] = P[(k - n) + 1]
            BY <1>1, <3>1
        <3>3. ~P[k - n].marker /\ P[k - n].ts = timestamp /\ P[(k - n) + 1].ts = timestamp
            BY <3>1
        <3> QED BY <3>2, <3>3
    <2>4. k + 1 <= n \/ k = n \/ k > n
        BY <1>1
    <2> QED BY <2>1, <2>2, <2>3, <2>4
<1>6. ParameterSetsKept'
    <2> SUFFICES ASSUME NEW k \in 1 .. Len(sent'), StartsKeyPicture(sent'[k])
                 PROVE  /\ k > 1
                        /\ sent'[k - 1].payload.type = STAPA
                        /\ sent'[k - 1].ts = sent'[k].ts
        BY DEF ParameterSetsKept, StartsKeyPicture
    <2>1. CASE k <= n
        <3>1. k \in 1 .. Len(sent) /\ k \in 1 .. n
            BY <1>1, <2>1
        <3>2. sent'[k] = sent[k]
            BY <1>1, <3>1
        <3>3. k > 1 /\ sent[k - 1].payload.type = STAPA /\ sent[k - 1].ts = sent[k].ts
            BY <3>1, <3>2 DEF ParameterSetsKept
        <3>4. k - 1 \in 1 .. n
            BY <1>1, <3>1, <3>3
        <3>5. sent'[k - 1] = sent[k - 1]
            BY <1>1, <3>4
        <3> QED BY <3>2, <3>3, <3>5
    <2>2. CASE k > n
        <3>1. k - n \in 1 .. Len(P) /\ n + (k - n) = k
            BY <1>1, <2>2
        <3>2. sent'[k] = P[k - n]
            BY <1>1, <3>1
        <3>3. k - n = 1
            <4>1. ~(k - n > 1)
                BY <3>1, <3>2
            <4> QED BY <3>1, <4>1
        <3>4. PairSent
            BY <3>2, <3>3
        <3>5. n > 0 /\ k - 1 = n /\ k > 1 /\ n \in 1 .. n
            BY <1>1, <1>2, <3>3, <3>4 DEF PairSent
        <3>6. sent'[k - 1] = LastSent
            BY <1>1, <1>3, <3>5
        <3>7. P[1].ts = timestamp
            BY <3>1, <3>3
        <3> QED BY <3>2, <3>3, <3>4, <3>5, <3>6, <3>7 DEF PairSent
    <2>3. k <= n \/ k > n
        BY <1>1
    <2> QED BY <2>1, <2>2, <2>3
<1>7. FirstIsPair'
    <2>1. CASE n = 0
        <3>1. 1 \in 1 .. Len(P) /\ n + 1 = 1
            BY <1>1, <2>1
        <3>2. sent'[1] = P[1]
            BY <1>1, <3>1
        <3> QED BY <1>2, <2>1, <3>2 DEF FirstIsPair, KeyPayload
    <2>2. CASE n > 0
        <3>1. 1 \in 1 .. n
            BY <1>1, <2>2
        <3>2. sent'[1] = sent[1]
            BY <1>1, <3>1
        <3> QED BY <1>2, <2>2, <3>2 DEF FirstIsPair, KeyPayload
    <2> QED BY <1>1, <2>1, <2>2
<1> QED BY <1>5, <1>6, <1>7

\* What is said of packets.
PacketsInv ==
    PacketsGood /\ MarkerEndsPicture /\ ParameterSetsKept /\ FirstIsPair

\* Samples that wait are samples.
LEMMA SamplesTyped ==
    LET Waiting == Seq([nals : Seq(Seq(Byte)), duration : {0, 1}]) IN
    /\ <<>> \in Waiting
    /\ \A d \in OtherNal : << Sample(<<d>>, 1) >> \in Waiting
    /\ \A s \in SpsNal, p \in PpsNal : << Sample(<<s, p>>, 1) >> \in Waiting
    /\ \A s \in SpsNal, p \in PpsNal, d \in OtherNal :
          << Sample(<<s, p>>, 0), Sample(<<d>>, 1) >> \in Waiting
<1> DEFINE B == Seq(Byte)
           W == [nals : Seq(B), duration : {0, 1}]
<1>1. /\ \A d \in OtherNal : d \in B
      /\ \A s \in SpsNal : s \in B
      /\ \A p \in PpsNal : p \in B
    BY Parameters
<1> HIDE DEF B
<1>2. \A a, b \in B : <<a>> \in Seq(B) /\ <<a, b>> \in Seq(B)
    OBVIOUS
<1>3. \A x \in Seq(B), d \in {0, 1} : Sample(x, d) \in W
    BY DEF Sample
<1>4. /\ \A d \in OtherNal : Sample(<<d>>, 1) \in W
      /\ \A s \in SpsNal, p \in PpsNal : Sample(<<s, p>>, 1) \in W /\ Sample(<<s, p>>, 0) \in W
    BY <1>1, <1>2, <1>3
<1> HIDE DEF W
<1>5. \A a, b \in W : <<a>> \in Seq(W) /\ <<a, b>> \in Seq(W)
    OBVIOUS
<1>6. <<>> \in Seq(W)
    OBVIOUS
<1>7. /\ \A d \in OtherNal : << Sample(<<d>>, 1) >> \in Seq(W)
      /\ \A s \in SpsNal, p \in PpsNal : << Sample(<<s, p>>, 1) >> \in Seq(W)
      /\ \A s \in SpsNal, p \in PpsNal, d \in OtherNal :
            << Sample(<<s, p>>, 0), Sample(<<d>>, 1) >> \in Seq(W)
    BY <1>4, <1>5
<1> QED BY <1>6, <1>7 DEF W, B

\* Reading a unit.
LEMMA ReadKeeps ==
    ASSUME SenderTypes, FileCut, PacketsInv, SenderInv, ReadNAL, sctx' = sctx
    PROVE  SenderTypes' /\ FileCut' /\ PacketsInv' /\ SenderInv'
<1>1. /\ spc = "read" /\ file' = file /\ plain' = plain /\ passes' = passes
      /\ timestamp' = timestamp /\ sent' = sent /\ wire' = wire
    BY DEF ReadNAL, fileVars
<1>2. /\ at \in Nat \ {0} /\ at <= Len(file.nals) + 1 /\ frames = <<>>
      /\ Closed /\ (GroupEmpty \/ GroupSps \/ GroupPair)
    BY <1>1 DEF SenderTypes, SenderInv
<1>3. PICK k \in at .. Len(file.nals) :
         /\ at' = k + 1 /\ oFrames' = Append(oFrames, file.nals[k])
         /\ \/ ReadSps(file.nals[k]) \/ ReadOther(file.nals[k])
            \/ ReadPps(file.nals[k]) \/ ReadPicture(file.nals[k])
         /\ GroupEmpty /\ sent = <<>> =>
               /\ UnitType(file.nals[k]) \in {AUD, FILLER, SPS}
               /\ \A j \in 1 .. k - 1 : UnitType(file.nals[j]) \in Silent
    BY <1>1, <1>2, ReadStep
<1>4. FileCut' /\ PacketsInv'
    BY <1>1 DEF FileCut, PacketsInv, PacketsGood, MarkerEndsPicture, ParameterSetsKept,
                StartsKeyPicture, FirstIsPair, KeyPayload
<1>5. Closed'
    BY <1>1, <1>2 DEF Closed, LastSent
<1>6. /\ Len(file.nals) \in Nat /\ k \in Nat /\ k \in 1 .. Len(file.nals)
      /\ at' \in Nat \ {0} /\ at' > 1 /\ at' - 1 = k /\ at' <= Len(file'.nals) + 1
      /\ file.nals[k] \in Nal /\ file.nals[k] \in Seq(Byte)
    <2>1. /\ Len(file.nals) \in Nat
          /\ \A i \in 1 .. Len(file.nals) : file.nals[i] \in Nal /\ file.nals[i] \in Seq(Byte)
        BY OrderedFacts, NalFacts DEF FileCut
    <2> QED BY <1>1, <1>2, <1>3, <2>1
<1> DEFINE u == file.nals[k]
           Waiting == Seq([nals : Seq(Seq(Byte)), duration : {0, 1}])
<1>7. file'.nals[at' - 1] = u
    BY <1>1, <1>6
<1>8. oFrames' \in Seq(Seq(Byte))
    <2>1. oFrames \in Seq(Seq(Byte))
        BY DEF SenderTypes
    <2> QED BY <1>3, <1>6, <2>1, AppendProperties
<1>9. /\ <<>> \in Waiting
      /\ \A d \in OtherNal : << Sample(<<d>>, 1) >> \in Waiting
      /\ \A s \in SpsNal, p \in PpsNal : << Sample(<<s, p>>, 1) >> \in Waiting
      /\ \A s \in SpsNal, p \in PpsNal, d \in OtherNal :
            << Sample(<<s, p>>, 0), Sample(<<d>>, 1) >> \in Waiting
    BY SamplesTyped
<1> HIDE DEF u, Waiting
<1>10. /\ sps' \in Seq(Byte) /\ pps' \in Seq(Byte) /\ spc' \in {"read", "write"}
       /\ frames' \in Waiting /\ (spc' = "read" => frames' = <<>>)
       /\ spc' = "read" => GroupSps' \/ GroupPair'
       /\ spc' = "write" => NothingLeft' \/ PictureLeft' \/ GroupLeft' \/ PairLeft'
    <2>1. CASE ReadSps(u)
        <3>1. u \in SpsNal /\ u \in Seq(Byte) /\ sps' = u /\ pps' = <<>> /\ oFrames' = <<u>>
            BY <2>1, Parameters DEF ReadSps
        <3>2. CASE sctx
            <4>1. spc' = "read" /\ frames' = <<>>
                BY <1>2, <2>1, <3>2 DEF ReadSps
            <4>2. GroupSps'
                BY <1>6, <1>7, <3>1 DEF GroupSps
            <4> QED BY <1>9, <3>1, <4>1, <4>2
        <3>3. CASE ~sctx
            <4>1. spc' = "write" /\ frames' = <<>>
                BY <2>1, <3>3 DEF ReadSps
            <4>2. NothingLeft'
                BY <3>3, <4>1 DEF NothingLeft
            <4> QED BY <1>9, <3>1, <4>1, <4>2
        <3> QED BY <3>2, <3>3
    <2>2. CASE ReadOther(u)
        <3>1. /\ GroupEmpty /\ u \in OtherNal /\ UnitType(u) # IDR
              /\ sps' = <<>> /\ pps' = <<>> /\ spc' = "write"
              /\ frames' = << Sample(<<u>>, 1) >>
            BY <2>2 DEF ReadOther
        <3>2. sent = <<>> => UnitType(u) \in Silent
            BY <1>3, <3>1, Parameters DEF Silent, u
        <3>3. AtBoundary'
            BY <1>7, <3>1 DEF AtBoundary
        <3>4. Quiet'
            <4> SUFFICES ASSUME sent = <<>>, NEW j \in 1 .. k
                         PROVE  UnitType(file.nals[j]) \in Silent
                BY <1>1, <1>6 DEF Quiet
            <4>1. CASE j = k
                BY <3>2, <4>1 DEF u
            <4>2. CASE j # k
                <5>1. j \in 1 .. k - 1
                    BY <1>6, <4>2
                <5> QED BY <1>3, <3>1, <5>1
            <4> QED BY <4>1, <4>2
        <3>5. PictureLeft'
            <4>1. sent' = <<>> => UnitType(u) \in Silent
                BY <1>1, <3>2
            <4> QED BY <1>5, <3>1, <3>3, <3>4, <4>1 DEF PictureLeft
        <3> QED BY <1>9, <3>1, <3>5
    <2>3. CASE ReadPps(u)
        <3>1. PICK s \in SpsNal :
                 /\ oFrames = <<s>> /\ oFrames' = <<s, u>> /\ sps' = s /\ pps' = u
                 /\ Fit(s, u)
                 /\ IF sctx THEN spc' = "read" /\ frames' = frames
                    ELSE spc' = "write" /\ frames' = << Sample(<<s, u>>, 1) >>
            BY <2>3 DEF ReadPps
        <3>2. u \in PpsNal /\ u \in Seq(Byte) /\ s \in Seq(Byte)
            BY <2>3, Parameters DEF ReadPps
        <3>3. CASE sctx
            <4>1. spc' = "read" /\ frames' = <<>>
                BY <1>2, <3>1, <3>3
            <4>2. GroupPair'
                BY <1>6, <1>7, <3>1, <3>2 DEF GroupPair
            <4> QED BY <1>9, <3>1, <3>2, <4>1, <4>2
        <3>4. CASE ~sctx
            <4>1. spc' = "write" /\ frames' = << Sample(<<s, u>>, 1) >> /\ ~sctx'
                BY <3>1, <3>4
            <4>2. PairLeft'
                BY <1>5, <3>1, <3>2, <4>1 DEF PairLeft
            <4> QED BY <1>9, <3>1, <3>2, <4>1, <4>2
        <3> QED BY <3>3, <3>4
    <2>4. CASE ReadPicture(u)
        <3>1. PICK s \in SpsNal, p \in PpsNal :
                 /\ sps' = s /\ pps' = p /\ spc' = "write" /\ Fit(s, p)
                 /\ frames' = << Sample(<<s, p>>, 0), Sample(<<u>>, 1) >>
            BY <2>4 DEF ReadPicture
        <3>2. /\ u \in OtherNal /\ UnitType(u) \notin Silent
              /\ s \in Seq(Byte) /\ p \in Seq(Byte)
            BY <2>4, Parameters DEF ReadPicture
        <3>3. AtBoundary'
            BY <1>7, <3>2 DEF AtBoundary
        <3>4. GroupLeft'
            BY <1>5, <3>1, <3>2, <3>3 DEF GroupLeft
        <3> QED BY <1>9, <3>1, <3>2, <3>4
    <2> QED BY <1>3, <2>1, <2>2, <2>3, <2>4 DEF u
<1>11. SenderInv'
    BY <1>5, <1>6, <1>10 DEF SenderInv
<1>12. SenderTypes'
    BY <1>1, <1>6, <1>8, <1>10 DEF SenderTypes, Waiting
<1> QED BY <1>4, <1>11, <1>12

\* Writing a sample.
LEMMA WriteKeeps ==
    ASSUME SenderTypes, FileCut, PacketsInv, SenderInv, WriteSample, sctx' = sctx
    PROVE  SenderTypes' /\ FileCut' /\ PacketsInv' /\ SenderInv'
<1>1. /\ spc = "write" /\ spc' = "write" /\ file' = file /\ plain' = plain /\ at' = at
      /\ passes' = passes /\ sps' = sps /\ pps' = pps /\ oFrames' = oFrames
    BY DEF WriteSample, fileVars
<1>2. /\ timestamp \in Nat /\ sent \in Seq(GoodPacket) /\ wire \in Seq(GoodPacket)
      /\ at <= Len(file.nals) + 1
      /\ NothingLeft \/ PictureLeft \/ GroupLeft \/ PairLeft
    BY <1>1 DEF SenderTypes, SenderInv, PacketsInv, PacketsGood
<1> DEFINE Waiting == Seq([nals : Seq(Seq(Byte)), duration : {0, 1}])
<1>3. <<>> \in Waiting /\ \A d \in OtherNal : << Sample(<<d>>, 1) >> \in Waiting
    BY SamplesTyped
<1> HIDE DEF Waiting
<1>4. FileCut'
    BY <1>1 DEF FileCut
<1>5. /\ PacketsInv' /\ timestamp' \in Nat /\ frames' \in Waiting
      /\ NothingLeft' \/ PictureLeft' \/ GroupLeft' \/ PairLeft'
    <2>1. CASE WriteSilent
        <3>1. /\ AtBoundary /\ Quiet /\ Closed
              /\ sent' = sent /\ wire' = wire /\ frames' = <<>> /\ timestamp' = timestamp + 1
            BY <2>1 DEF WriteSilent
        <3>2. PacketsInv'
            BY <3>1 DEF PacketsInv, PacketsGood, MarkerEndsPicture, ParameterSetsKept,
                        StartsKeyPicture, FirstIsPair, KeyPayload
        <3>3. Closed'
            <4>1. sent # <<>> => LastSent.ts \in Nat
                <5>1. sent # <<>> => Len(sent) \in 1 .. Len(sent)
                    BY <1>2, EmptySeq
                <5>2. sent # <<>> => LastSent \in GoodPacket
                    BY <1>2, <5>1, ElementOfSeq DEF LastSent
                <5> QED BY <5>2 DEF GoodPacket
            <4>2. sent # <<>> => LastSent.marker /\ LastSent.ts < timestamp
                BY <3>1 DEF Closed
            <4>3. sent # <<>> => LastSent.ts < timestamp'
                BY <1>2, <3>1, <4>1, <4>2
            <4>4. LastSent' = LastSent
                BY <3>1 DEF LastSent
            <4> QED BY <3>1, <4>2, <4>3, <4>4 DEF Closed
        <3>4. AtBoundary' /\ Quiet'
            BY <1>1, <3>1 DEF AtBoundary, Quiet
        <3>5. NothingLeft'
            BY <3>1, <3>3, <3>4 DEF NothingLeft
        <3>6. timestamp' \in Nat
            BY <1>2, <3>1
        <3> QED BY <1>3, <3>1, <3>2, <3>5, <3>6
    <2>2. ASSUME NEW d \in OtherNal, WritePicture(d)
          PROVE  /\ PacketsInv' /\ timestamp' \in Nat /\ frames' \in Waiting
                 /\ NothingLeft'
        <3> DEFINE P == Packets(Sample(<<d>>, 1))
        <3>1. /\ UnitType(d) \notin Silent
              /\ AtBoundary /\ sent # <<>> /\ ((Closed /\ UnitType(d) # IDR) \/ PairSent)
              /\ sent' = sent \o P /\ wire' = wire \o P
              /\ frames' = <<>> /\ timestamp' = timestamp + 1
            BY <2>2 DEF WritePicture
        <3>2. /\ P \in Seq(GoodPacket) /\ Len(P) \in Nat /\ Len(P) > 0
              /\ \A k \in 1 .. Len(P) :
                    /\ P[k].ts = timestamp /\ (P[k].marker <=> k = Len(P))
                    /\ P[k].payload.first <=> k = 1
              /\ UnitType(P[1].payload.data[1]) = UnitType(d)
            BY <1>2, <3>1, PacketsOfUnit
        <3> HIDE DEF P
        <3>3. \A k \in 1 .. Len(P) :
                 /\ P[k].ts = timestamp
                 /\ k < Len(P) => ~P[k].marker
                 /\ k > 1 => ~StartsKeyPicture(P[k])
            BY <3>2 DEF StartsKeyPicture
        <3>4. StartsKeyPicture(P[1]) => PairSent
            BY <3>1, <3>2 DEF StartsKeyPicture
        <3>5. MarkerEndsPicture' /\ ParameterSetsKept' /\ FirstIsPair'
            BY <1>2, <3>1, <3>2, <3>3, <3>4, PacketsFit DEF PacketsInv
        <3>6. sent' \in Seq(GoodPacket) /\ sent' # <<>> /\ LastSent' = P[Len(P)]
            BY <1>2, <3>1, <3>2, MoreSent
        <3>7. wire' \in Seq(GoodPacket)
            BY <1>2, <3>1, <3>2, ConcatProperties
        <3>8. Closed'
            <4>1. Len(P) \in 1 .. Len(P)
                BY <3>2
            <4>2. P[Len(P)].marker /\ P[Len(P)].ts = timestamp
                BY <3>2, <4>1
            <4>3. timestamp < timestamp'
                BY <1>2, <3>1
            <4> QED BY <3>6, <4>2, <4>3 DEF Closed
        <3>9. AtBoundary' /\ Quiet'
            BY <1>1, <3>1, <3>6 DEF AtBoundary, Quiet
        <3>10. NothingLeft'
            BY <3>1, <3>8, <3>9 DEF NothingLeft
        <3>11. timestamp' \in Nat
            BY <1>2, <3>1
        <3> QED BY <1>3, <3>1, <3>5, <3>6, <3>7, <3>10, <3>11 DEF PacketsInv, PacketsGood
    <2>3. ASSUME NEW s \in SpsNal, NEW p \in PpsNal, WritePair(s, p)
          PROVE  /\ PacketsInv' /\ timestamp' \in Nat /\ frames' \in Waiting
                 /\ NothingLeft' \/ PictureLeft'
        <3> DEFINE q == PairPacket(s, p)
                   P == <<q>>
        <3>1. /\ Closed /\ sent' = sent \o P /\ wire' = wire \o P
              /\ \/ /\ ~sctx /\ frames' = <<>> /\ timestamp' = timestamp + 1
                 \/ \E d \in OtherNal :
                       /\ UnitType(d) \notin Silent /\ AtBoundary
                       /\ frames' = << Sample(<<d>>, 1) >> /\ timestamp' = timestamp
            BY <2>3 DEF WritePair
        <3>2. q \in GoodPacket /\ KeyPayload(q.payload)
            BY <1>2, <2>3, PacketsOfPair DEF WritePair
        <3>3. /\ q.ts = timestamp /\ ~q.marker /\ q.payload.type = STAPA
            BY DEF PairPacket
        <3>4. ~StartsKeyPicture(q)
            <4>1. q.payload.data[1] = s
                BY DEF PairPacket
            <4>2. UnitType(s) # IDR
                BY Parameters DEF SPS, IDR
            <4> QED BY <4>1, <4>2 DEF StartsKeyPicture
        <3> HIDE DEF q
        <3>5. P \in Seq(GoodPacket) /\ Len(P) = 1 /\ Len(P) > 0 /\ P[1] = q
            BY <3>2
        <3> HIDE DEF P
        <3>6. \A k \in 1 .. Len(P) :
                 /\ P[k].ts = timestamp
                 /\ k < Len(P) => ~P[k].marker
                 /\ k > 1 => ~StartsKeyPicture(P[k])
            BY <3>3, <3>5
        <3>7. MarkerEndsPicture' /\ ParameterSetsKept' /\ FirstIsPair'
            BY <1>2, <3>1, <3>2, <3>4, <3>5, <3>6, PacketsFit DEF PacketsInv
        <3>8. sent' \in Seq(GoodPacket) /\ sent' # <<>> /\ LastSent' = q
            BY <1>2, <3>1, <3>5, MoreSent
        <3>9. wire' \in Seq(GoodPacket)
            BY <1>2, <3>1, <3>5, ConcatProperties
        <3>10. PacketsInv'
            BY <3>7, <3>8, <3>9 DEF PacketsInv, PacketsGood
        <3>11. CASE ~sctx /\ frames' = <<>> /\ timestamp' = timestamp + 1
            <4>1. NothingLeft'
                BY <3>11 DEF NothingLeft
            <4>2. timestamp' \in Nat
                BY <1>2, <3>11
            <4> QED BY <1>3, <3>10, <3>11, <4>1, <4>2
        <3>12. ASSUME NEW d \in OtherNal, UnitType(d) \notin Silent, AtBoundary,
                      frames' = << Sample(<<d>>, 1) >>, timestamp' = timestamp
               PROVE  PictureLeft' /\ timestamp' \in Nat /\ frames' \in Waiting
            <4>1. PairSent'
                BY <3>3, <3>8, <3>12 DEF PairSent
            <4>2. AtBoundary' /\ Quiet'
                BY <1>1, <3>8, <3>12 DEF AtBoundary, Quiet
            <4>3. PictureLeft'
                BY <3>12, <4>1, <4>2 DEF PictureLeft
            <4> QED BY <1>2, <1>3, <3>12, <4>3
        <3> QED BY <3>1, <3>10, <3>11, <3>12
    <2> QED BY <1>2, <2>1, <2>2, <2>3, WriteStep
<1>6. SenderInv'
    BY <1>1, <1>2, <1>5 DEF SenderInv
<1>7. sent' \in Seq(Packet) /\ wire' \in Seq(Packet)
    BY <1>5, GoodPackets DEF PacketsInv, PacketsGood
<1>8. SenderTypes'
    BY <1>1, <1>5, <1>7 DEF SenderTypes, Waiting
<1> QED BY <1>4, <1>5, <1>6, <1>8

\* Steps in which nothing is sent and no unit is read.
LEMMA OthersKeep ==
    ASSUME SenderTypes, FileCut, PacketsInv, SenderInv,
           Open \/ Stop \/ NewGroup \/ ReadFails \/ WriteFails \/ GroupWritten, sctx' = sctx
    PROVE  SenderTypes' /\ FileCut' /\ PacketsInv' /\ SenderInv'
<1>1. /\ file' = file /\ plain' = plain /\ timestamp' = timestamp
      /\ sent' = sent /\ wire' = wire
    BY DEF fileVars, Open, Stop, NewGroup, ReadFails, WriteFails, GroupWritten
<1>2. FileCut' /\ PacketsInv'
    BY <1>1 DEF FileCut, PacketsInv, PacketsGood, MarkerEndsPicture, ParameterSetsKept,
                StartsKeyPicture, FirstIsPair, KeyPayload
<1>3. /\ Closed => Closed'
      /\ at' = at => (AtBoundary => AtBoundary') /\ (Quiet => Quiet')
      /\ at' = 1 => AtBoundary' /\ Quiet'
    BY <1>1 DEF Closed, LastSent, AtBoundary, Quiet
<1>4. CASE Open
    <2>1. Len(file.nals) \in Nat /\ Len(file.nals) > 0
        BY OrderedFacts DEF FileCut
    <2>2. /\ spc = "open" /\ sctx /\ passes' = passes + 1 /\ passes < MaxPasses
          /\ at' = 1 /\ spc' = "group" /\ frames' = frames
          /\ sps' = sps /\ pps' = pps /\ oFrames' = oFrames
        BY <1>4 DEF Open, Running
    <2>3. Closed
        BY <2>2 DEF SenderInv
    <2>4. SenderInv'
        BY <1>1, <1>3, <2>1, <2>2, <2>3 DEF SenderInv
    <2>5. passes' \in 0 .. MaxPasses
        <3>1. MaxPasses \in Nat
            BY SenderAssumption
        <3>2. passes \in 0 .. MaxPasses
            BY DEF SenderTypes
        <3> QED BY <2>2, <3>1, <3>2
    <2>6. frames = <<>>
        BY <2>2 DEF SenderTypes
    <2>7. SenderTypes'
        BY <1>1, <2>2, <2>5, <2>6 DEF SenderTypes
    <2> QED BY <1>2, <2>4, <2>7
<1>5. CASE Stop \/ ReadFails \/ WriteFails
    <2>1. /\ spc' = "stopped" \/ (spc = "read" /\ spc' = "open")
          /\ at' = at /\ passes' = passes /\ sps' = sps /\ pps' = pps
          /\ oFrames' = oFrames /\ frames' = frames
        BY <1>5 DEF Stop, ReadFails, WriteFails
    <2>2. SenderInv'
        BY <1>1, <1>3, <2>1 DEF SenderInv
    <2>3. SenderTypes'
        BY <1>1, <2>1 DEF SenderTypes
    <2> QED BY <1>2, <2>2, <2>3
<1>6. CASE NewGroup
    <2>1. /\ spc = "group" /\ sctx /\ spc' = "read" /\ at' = at /\ passes' = passes
          /\ sps' = <<>> /\ pps' = <<>> /\ oFrames' = <<>> /\ frames' = frames
        BY <1>6 DEF NewGroup, Running
    <2>2. Closed /\ AtBoundary /\ Quiet
        BY <2>1 DEF SenderInv
    <2>3. GroupEmpty'
        BY <1>3, <2>1, <2>2 DEF GroupEmpty
    <2>4. SenderInv'
        BY <1>1, <1>3, <2>1, <2>2, <2>3 DEF SenderInv
    <2>5. SenderTypes'
        BY <1>1, <2>1 DEF SenderTypes
    <2> QED BY <1>2, <2>4, <2>5
<1>7. CASE GroupWritten
    <2>1. /\ spc = "write" /\ frames = <<>> /\ spc' = "group" /\ at' = at /\ passes' = passes
          /\ sps' = sps /\ pps' = pps /\ oFrames' = oFrames /\ frames' = frames
        BY <1>7 DEF GroupWritten, Written
    <2>2. NothingLeft
        <3>1. ~PictureLeft /\ ~GroupLeft /\ ~PairLeft
            BY <2>1, FirstOfFew DEF PictureLeft, GroupLeft, PairLeft
        <3> QED BY <2>1, <3>1 DEF SenderInv
    <2>3. SenderInv'
        BY <1>1, <1>3, <2>1, <2>2 DEF SenderInv, NothingLeft
    <2>4. SenderTypes'
        BY <1>1, <2>1 DEF SenderTypes
    <2> QED BY <1>2, <2>3, <2>4
<1> QED BY <1>4, <1>5, <1>6, <1>7

-----------------------------------------------------------------------------
(***************************************************************************)
(* The recording.                                                          *)
(***************************************************************************)

\* A file that a player can show: an SPS, a PPS, and the rest.
StartsWithPair(bytes) ==
    \E s \in SpsNal, p \in PpsNal, rest \in Seq(Byte) :
        bytes = ((StartCode(4) \o s) \o (StartCode(4) \o p)) \o rest

\* Nothing is recorded before a key frame, and the key frame is.
RecorderInv ==
    /\ track = "none" => ~hasKeyFrame /\ dv_h264 = "nil"
    /\ ~hasKeyFrame => recorded = <<>>
    /\ hasKeyFrame /\ dv_h264 = "open" => recorded # <<>>
RecordingInv == recorded # <<>> => StartsWithPair(recorded)

\* The payload that isKeyFrame accepts holds an SPS and a PPS.
LEMMA KeyFrameIsPair ==
    ASSUME NEW p \in GoodPayload, IsKeyFrame(p)
    PROVE  /\ Output(p) \in Seq(Byte) /\ Output(p) # <<>>
           /\ StartsWithPair(Output(p))
<1>1. KeyPayload(p) /\ p \in Payload
    BY DEF GoodPayload, IsKeyFrame
<1>2. PICK s \in SpsNal, q \in PpsNal : p.data = <<s, q>>
    BY <1>1 DEF KeyPayload
<1> DEFINE pair == [ts |-> 0, marker |-> FALSE, payload |-> p]
           bytes == (StartCode(4) \o s) \o (StartCode(4) \o q)
<1>3. FlattenSeq([k \in 1 .. Len(<<s, q>>) |-> StartCode(4) \o <<s, q>>[k]]) = bytes
    <2>1. s \in Seq(Byte) /\ q \in Seq(Byte) /\ StartCode(4) \in Seq(Byte)
        BY Parameters DEF StartCode, Byte
    <2> DEFINE a == StartCode(4) \o s
               b == StartCode(4) \o q
    <2>2. a \in Seq(Byte) /\ b \in Seq(Byte)
        BY <2>1, ConcatProperties
    <2>3. [k \in 1 .. Len(<<s, q>>) |-> StartCode(4) \o <<s, q>>[k]] = <<a, b>>
        OBVIOUS
    <2> HIDE DEF a, b
    <2>4. Append(<<a>>, b) = <<a, b>> /\ <<a>> \in Seq(Seq(Byte))
        BY <2>2, TwoInRow
    <2>5. FlattenSeq(<<a, b>>) = a \o b
        BY <2>2, <2>4, FlattenOne, FlattenAppend
    <2> QED BY <2>3, <2>5 DEF a, b
<1>4. Output(p) = bytes
    <2>1. p.first /\ ~Refused(p)
        BY <1>1 DEF KeyPayload, Refused, STAPA, FUA
    <2> QED BY <1>2, <1>3, <2>1 DEF Output, Unmarshal
<1>5. bytes \in Seq(Byte) /\ bytes # <<>>
    <2>1. /\ s \in Seq(Byte) /\ q \in Seq(Byte)
          /\ StartCode(4) \in Seq(Byte) /\ Len(StartCode(4)) = 4
        BY Parameters DEF StartCode, Byte
    <2> DEFINE a == StartCode(4) \o s
               b == StartCode(4) \o q
    <2>2. a \in Seq(Byte) /\ Len(a) = Len(StartCode(4)) + Len(s)
        BY <2>1, ConcatProperties
    <2>3. b \in Seq(Byte) /\ Len(b) \in Nat
        BY <2>1, ConcatProperties, LenProperties
    <2> HIDE DEF a, b
    <2>4. a \o b \in Seq(Byte) /\ Len(a \o b) = Len(a) + Len(b)
        BY <2>2, <2>3, ConcatProperties
    <2>5. Len(a \o b) > 0
        <3>1. Len(s) \in Nat
            BY <2>1, LenProperties
        <3>2. Len(a) \in Nat /\ Len(a) > 0
            BY <2>1, <2>2, <3>1
        <3> DEFINE ab == a \o b
        <3>3. Len(ab) = Len(a) + Len(b)
            BY <2>4
        <3> HIDE DEF ab
        <3>4. Len(ab) > 0
            BY <2>3, <3>2, <3>3
        <3> QED BY <3>4 DEF ab
    <2>6. a \o b # <<>>
        BY <2>5, EmptySeq
    <2> QED BY <2>4, <2>6 DEF a, b
<1>6. StartsWithPair(Output(p))
    <2>1. bytes = bytes \o <<>> /\ <<>> \in Seq(Byte)
        BY <1>5, ConcatEmptySeq, EmptySeq
    <2> QED BY <1>4, <2>1 DEF StartsWithPair
<1> QED BY <1>4, <1>5, <1>6

\* A recording that starts so still does when more is written.
LEMMA PairStays ==
    ASSUME NEW a \in Seq(Byte), NEW b \in Seq(Byte), StartsWithPair(a)
    PROVE  StartsWithPair(a \o b)
<1>1. PICK s \in SpsNal, p \in PpsNal, rest \in Seq(Byte) :
         a = ((StartCode(4) \o s) \o (StartCode(4) \o p)) \o rest
    BY DEF StartsWithPair
<1> DEFINE bytes == (StartCode(4) \o s) \o (StartCode(4) \o p)
<1>2. bytes \in Seq(Byte)
    <2>1. s \in Seq(Byte) /\ p \in Seq(Byte) /\ StartCode(4) \in Seq(Byte)
        BY Parameters DEF StartCode, Byte
    <2>2. StartCode(4) \o s \in Seq(Byte) /\ StartCode(4) \o p \in Seq(Byte)
        BY <2>1, ConcatProperties
    <2> QED BY <2>2, ConcatProperties
<1> HIDE DEF bytes
<1>3. (bytes \o rest) \o b = bytes \o (rest \o b) /\ rest \o b \in Seq(Byte)
    BY <1>2, Associative, ConcatProperties
<1>4. a \o b = bytes \o (rest \o b)
    BY <1>1, <1>3 DEF bytes
<1> QED BY <1>3, <1>4 DEF StartsWithPair, bytes

\* What a recording that starts with parameter sets looks like.
LEMMA PairSeen ==
    RecordingInv /\ recorded \in Seq(Byte) => RecordingStarts
<1> SUFFICES ASSUME RecordingInv, recorded \in Seq(Byte), recorded # <<>>
             PROVE  RecordingStarts
    BY DEF RecordingStarts
<1>1. PICK s \in SpsNal, p \in PpsNal, rest \in Seq(Byte) :
         recorded = ((StartCode(4) \o s) \o (StartCode(4) \o p)) \o rest
    BY DEF RecordingInv, StartsWithPair
<1> DEFINE c == StartCode(4)
           a == c \o s
           b == c \o p
           m == Len(s)
           n == Len(p)
<1>2. /\ s \in Seq(Byte) /\ p \in Seq(Byte) /\ m \in Nat /\ n \in Nat /\ m > 0 /\ n > 0
      /\ s[1] % 32 = SPS /\ p[1] % 32 = PPS
    <2>1. s \in Nal /\ p \in Nal /\ UnitType(s) = SPS /\ UnitType(p) = PPS
        BY Parameters
    <2> QED BY <2>1, NalFacts DEF UnitType
<1>3. c \in Seq(Byte) /\ Len(c) = 4
    BY DEF StartCode, Byte
<1> HIDE DEF c, m, n
<1>4. /\ a \in Seq(Byte) /\ Len(a) = 4 + m
      /\ \A i \in 1 .. 4 + m : a[i] = IF i <= 4 THEN c[i] ELSE s[i - 4]
    <2>1. /\ a \in Seq(Byte) /\ Len(a) = Len(c) + Len(s)
          /\ \A i \in 1 .. Len(c) + Len(s) : a[i] = IF i <= Len(c) THEN c[i] ELSE s[i - Len(c)]
        BY <1>2, <1>3, ConcatProperties
    <2> QED BY <1>3, <2>1 DEF m
<1>5. /\ b \in Seq(Byte) /\ Len(b) = 4 + n
      /\ \A i \in 1 .. 4 + n : b[i] = IF i <= 4 THEN c[i] ELSE p[i - 4]
    <2>1. /\ b \in Seq(Byte) /\ Len(b) = Len(c) + Len(p)
          /\ \A i \in 1 .. Len(c) + Len(p) : b[i] = IF i <= Len(c) THEN c[i] ELSE p[i - Len(c)]
        BY <1>2, <1>3, ConcatProperties
    <2> QED BY <1>3, <2>1 DEF n
<1> HIDE DEF a, b
<1>6. /\ a \o b \in Seq(Byte) /\ Len(a \o b) = (4 + m) + (4 + n)
      /\ \A i \in 1 .. (4 + m) + (4 + n) :
            (a \o b)[i] = IF i <= 4 + m THEN a[i] ELSE b[i - (4 + m)]
    <2>1. /\ a \o b \in Seq(Byte) /\ Len(a \o b) = Len(a) + Len(b)
          /\ \A i \in 1 .. Len(a) + Len(b) :
                (a \o b)[i] = IF i <= Len(a) THEN a[i] ELSE b[i - Len(a)]
        BY <1>4, <1>5, ConcatProperties
    <2> QED BY <1>4, <1>5, <2>1
<1>7. recorded = (a \o b) \o rest /\ Len(rest) \in Nat
    BY <1>1, LenProperties DEF a, b, c
<1>8. /\ Len(recorded) = ((4 + m) + (4 + n)) + Len(rest)
      /\ \A i \in 1 .. (4 + m) + (4 + n) : recorded[i] = (a \o b)[i]
    <2>1. /\ Len((a \o b) \o rest) = Len(a \o b) + Len(rest)
          /\ \A i \in 1 .. Len(a \o b) + Len(rest) :
                ((a \o b) \o rest)[i] = IF i <= Len(a \o b) THEN (a \o b)[i]
                                        ELSE rest[i - Len(a \o b)]
        BY <1>6, ConcatProperties
    <2>2. \A i \in 1 .. (4 + m) + (4 + n) :
             i \in 1 .. ((4 + m) + (4 + n)) + Len(rest) /\ i <= (4 + m) + (4 + n)
        BY <1>2, <1>7
    <2> QED BY <1>6, <1>7, <2>1, <2>2
<1>9. /\ \A i \in 1 .. 4 : recorded[i] = c[i]
      /\ recorded[5] = s[1]
    <2>1. \A i \in 1 .. 4 : i \in 1 .. 4 + m /\ i \in 1 .. (4 + m) + (4 + n) /\ i <= 4 + m
        BY <1>2
    <2>2. /\ 5 \in 1 .. 4 + m /\ 5 \in 1 .. (4 + m) + (4 + n) /\ 5 <= 4 + m
          /\ ~(5 <= 4) /\ 5 - 4 = 1
        BY <1>2
    <2>3. \A i \in 1 .. 4 : recorded[i] = a[i] /\ a[i] = c[i]
        BY <1>4, <1>6, <1>8, <2>1
    <2>4. recorded[5] = a[5] /\ a[5] = s[1]
        BY <1>4, <1>6, <1>8, <2>2
    <2> QED BY <2>3, <2>4
<1> DEFINE k == 5 + m
<1>10. /\ \A i \in 1 .. 4 : recorded[(k + i) - 1] = c[i]
       /\ recorded[k + 4] = p[1]
    <2>1. \A i \in 1 .. 5 : /\ (k + i) - 1 \in 1 .. (4 + m) + (4 + n)
                            /\ ~((k + i) - 1 <= 4 + m)
                            /\ ((k + i) - 1) - (4 + m) = i /\ i \in 1 .. 4 + n
        BY <1>2
    <2>2. \A i \in 1 .. 5 : recorded[(k + i) - 1] = b[i]
        BY <1>6, <1>8, <2>1
    <2>3. \A i \in 1 .. 4 : b[i] = c[i]
        BY <1>2, <1>5
    <2>4. b[5] = p[1]
        BY <1>2, <1>5
    <2>5. (k + 5) - 1 = k + 4
        BY <1>2
    <2> QED BY <2>2, <2>3, <2>4, <2>5
<1>11. Len(recorded) > 4 /\ k \in 6 .. Len(recorded) - 4 /\ k \in Nat
    BY <1>2, <1>7, <1>8
<1>12. SubSeq(recorded, 1, 4) = c
    <2>1. \A i \in 1 .. 4 : i \in 1 .. Len(recorded)
        BY <1>11, LenProperties
    <2>2. \A i \in 1 .. 4 : recorded[i] \in Byte
        BY <2>1, ElementOfSeq
    <2>3. /\ SubSeq(recorded, 1, 4) \in Seq(Byte) /\ Len(SubSeq(recorded, 1, 4)) = 4
          /\ \A i \in 1 .. 4 : SubSeq(recorded, 1, 4)[i] = recorded[(1 + i) - 1]
        BY <2>2, SubSeqProperties
    <2>4. \A i \in 1 .. 4 : (1 + i) - 1 = i
        OBVIOUS
    <2>5. \A i \in 1 .. 4 : SubSeq(recorded, 1, 4)[i] = c[i]
        BY <1>9, <2>3, <2>4
    <2> QED BY <1>3, <2>3, <2>5, SeqEqual
<1>13. SubSeq(recorded, k, k + 3) = c
    <2>1. \A i \in k .. k + 3 : i \in 1 .. Len(recorded)
        BY <1>11, LenProperties
    <2>2. \A i \in k .. k + 3 : recorded[i] \in Byte
        BY <2>1, ElementOfSeq
    <2>3. (k + 3) - k + 1 = 4 /\ k <= k + 3 /\ k \in Int /\ k + 3 \in Int
        BY <1>11
    <2> HIDE DEF k
    <2>4. /\ SubSeq(recorded, k, k + 3) \in Seq(Byte)
          /\ Len(SubSeq(recorded, k, k + 3)) = IF k <= k + 3 THEN (k + 3) - k + 1 ELSE 0
          /\ \A i \in 1 .. (k + 3) - k + 1 :
                SubSeq(recorded, k, k + 3)[i] = recorded[(k + i) - 1]
        BY <2>2, <2>3, SubSeqProperties
    <2>5. /\ Len(SubSeq(recorded, k, k + 3)) = 4
          /\ \A i \in 1 .. 4 : SubSeq(recorded, k, k + 3)[i] = c[i]
        BY <1>10, <2>3, <2>4
    <2> QED BY <1>3, <2>4, <2>5, SeqEqual
<1> HIDE DEF k
<1>14. /\ SubSeq(recorded, 1, 4) = StartCode(4) /\ SubSeq(recorded, k, k + 3) = StartCode(4)
       /\ recorded[5] % 32 = SPS /\ recorded[k + 4] % 32 = PPS
    BY <1>2, <1>9, <1>10, <1>12, <1>13 DEF c
<1> QED BY <1>11, <1>14 DEF RecordingStarts

\* Only the recorder's own steps, and the start of its track, concern it.
RecorderTypes ==
    /\ rctx \in BOOLEAN /\ closed \in BOOLEAN
    /\ track \in {"none", "read", "returned"}
    /\ pli \in {"none", "runs", "returned"}
    /\ mediaFunc \in {"runs", "returned", "panicked"}
    /\ dv_h264 \in {"nil", "open", "closed", "typednil"}
    /\ hasKeyFrame \in BOOLEAN
    /\ recorded \in Seq(Byte)

\* A packet is read.
LEMMA ReadRTPKeeps ==
    ASSUME wire \in Seq(GoodPacket), RecorderTypes, RecorderInv, RecordingInv, ReadRTP
    PROVE  /\ wire' \in Seq(GoodPacket) /\ recorded' \in Seq(Byte) /\ hasKeyFrame' \in BOOLEAN
           /\ RecorderInv' /\ RecordingInv'
<1> DEFINE p == Head(wire).payload
<1>1. Head(wire) \in GoodPacket /\ Tail(wire) \in Seq(GoodPacket)
    BY HeadTailProperties DEF ReadRTP
<1>2. p \in GoodPayload
    BY <1>1 DEF GoodPacket
<1>3. /\ wire' = Tail(wire) /\ track' # "none" /\ dv_h264' = dv_h264
      /\ hasKeyFrame' = (hasKeyFrame \/ IsKeyFrame(p))
      /\ recorded' = IF hasKeyFrame' /\ dv_h264 = "open" THEN recorded \o Output(p)
                     ELSE recorded
    BY DEF ReadRTP
<1> HIDE DEF p
<1>4. recorded \in Seq(Byte) /\ hasKeyFrame \in BOOLEAN
    BY DEF RecorderTypes
<1>5. Output(p) \in Seq(Byte)
    BY <1>2, OutputType DEF GoodPayload
<1>6. /\ hasKeyFrame' \in BOOLEAN
      /\ ~hasKeyFrame' => ~hasKeyFrame
      /\ hasKeyFrame' => hasKeyFrame \/ IsKeyFrame(p)
    BY <1>3
<1>7. CASE hasKeyFrame' /\ dv_h264 = "open"
    <2>1. recorded' = recorded \o Output(p) /\ recorded' \in Seq(Byte)
        BY <1>3, <1>4, <1>5, <1>7, ConcatProperties
    <2>2. recorded' # <<>> /\ StartsWithPair(recorded')
        <3>1. CASE hasKeyFrame
            <4>1. recorded # <<>> /\ StartsWithPair(recorded)
                BY <1>7, <3>1 DEF RecorderInv, RecordingInv
            <4>2. StartsWithPair(recorded')
                BY <1>4, <1>5, <2>1, <4>1, PairStays
            <4>3. recorded' # <<>>
                BY <1>4, <1>5, <2>1, <4>1, ConcatEqualIffEmpty
            <4> QED BY <4>2, <4>3
        <3>2. CASE ~hasKeyFrame
            <4>1. IsKeyFrame(p) /\ recorded = <<>>
                BY <1>6, <1>7, <3>2 DEF RecorderInv
            <4>2. recorded' = Output(p)
                BY <1>5, <2>1, <4>1, ConcatEmptySeq
            <4> QED BY <1>2, <4>1, <4>2, KeyFrameIsPair
        <3> QED BY <3>1, <3>2
    <2>3. RecordingInv'
        BY <2>2 DEF RecordingInv, StartsWithPair
    <2>4. RecorderInv'
        BY <1>3, <1>7, <2>2 DEF RecorderInv
    <2> QED BY <1>1, <1>3, <1>6, <2>1, <2>3, <2>4
<1>8. CASE ~(hasKeyFrame' /\ dv_h264 = "open")
    <2>1. recorded' = recorded
        BY <1>3, <1>8
    <2>2. RecordingInv'
        BY <2>1 DEF RecordingInv, StartsWithPair
    <2>3. ~hasKeyFrame' => recorded' = <<>>
        BY <1>6, <2>1 DEF RecorderInv
    <2>4. RecorderInv'
        BY <1>3, <1>8, <2>3 DEF RecorderInv
    <2> QED BY <1>1, <1>3, <1>4, <1>6, <2>1, <2>2, <2>4
<1> QED BY <1>7, <1>8

\* The steps of the receiver and of the network.
LEMMA ReceiverKeeps ==
    ASSUME TypeOK, wire \in Seq(GoodPacket), RecorderInv, RecordingInv,
           Receiver \/ Network \/ ReceiverCancelled
    PROVE  /\ wire' \in Seq(GoodPacket) /\ RecorderTypes' /\ faults' \in 0 .. MaxFaults
           /\ RecorderInv' /\ RecordingInv'
<1>1. RecorderTypes /\ faults \in 0 .. MaxFaults /\ MaxFaults \in Nat
    BY CallAssumption DEF TypeOK, RecorderTypes
<1>2. CASE Network
    <2>1. faults' = faults + 1 /\ faults < MaxFaults /\ UNCHANGED recorderVars
        BY <1>2 DEF Network
    <2>2. wire' \in Seq(GoodPacket)
        <3>1. CASE Lose
            BY <3>1, HeadTailProperties DEF Lose
        <3>2. CASE Overtake
            <4>1. /\ Len(wire) \in Nat /\ Len(wire) > 1
                  /\ wire' = <<wire[2], wire[1]>> \o SubSeq(wire, 3, Len(wire))
                BY <3>2, LenProperties DEF Overtake
            <4>2. \A i \in 1 .. Len(wire) : wire[i] \in GoodPacket
                BY ElementOfSeq
            <4>3. wire[1] \in GoodPacket /\ wire[2] \in GoodPacket
                BY <4>1, <4>2
            <4>4. <<wire[2], wire[1]>> \in Seq(GoodPacket)
                BY <4>3
            <4>5. SubSeq(wire, 3, Len(wire)) \in Seq(GoodPacket)
                <5>1. \A i \in 3 .. Len(wire) : wire[i] \in GoodPacket
                    BY <4>1, <4>2
                <5> QED BY <4>1, <5>1, SubSeqProperties
            <4> QED BY <4>1, <4>4, <4>5, ConcatProperties
        <3> QED BY <1>2, <3>1, <3>2 DEF Network
    <2>3. RecorderTypes' /\ RecorderInv' /\ RecordingInv'
        BY <1>1, <2>1 DEF recorderVars, RecorderTypes, RecorderInv, RecordingInv,
                          StartsWithPair
    <2> QED BY <1>1, <2>1, <2>2, <2>3
<1>3. CASE Receiver
    <2>1. faults' = faults
        BY <1>3 DEF Receiver
    <2>2. CASE ReadRTP
        <3>1. /\ wire' \in Seq(GoodPacket) /\ recorded' \in Seq(Byte) /\ hasKeyFrame' \in BOOLEAN
              /\ RecorderInv' /\ RecordingInv'
            BY <1>1, <2>2, ReadRTPKeeps
        <3>2. RecorderTypes'
            BY <1>1, <2>2, <3>1 DEF ReadRTP, RecorderTypes
        <3> QED BY <1>1, <2>1, <3>1, <3>2
    <2>3. CASE TrackStarts \/ FileFails \/ TrackFails \/ TrackReturns \/ DoClose
               \/ PliReturns \/ MediaFuncReturns
        <3>1. wire' = wire /\ recorded' = recorded /\ hasKeyFrame' = hasKeyFrame
            BY <2>3 DEF TrackStarts, FileFails, TrackFails, TrackReturns, DoClose,
                        PliReturns, MediaFuncReturns
        <3>2. RecordingInv'
            BY <3>1 DEF RecordingInv, StartsWithPair
        <3>3. RecorderInv' /\ RecorderTypes'
            <4>1. CASE TrackStarts
                BY <1>1, <4>1 DEF TrackStarts, RecorderInv, RecorderTypes
            <4>7. CASE FileFails
                BY <1>1, <4>7 DEF FileFails, RecorderInv, RecorderTypes
            <4>2. CASE TrackFails
                BY <1>1, <4>2 DEF TrackFails, RecorderInv, RecorderTypes
            <4>3. CASE TrackReturns
                BY <1>1, <4>3 DEF TrackReturns, RecorderInv, RecorderTypes
            <4>4. CASE DoClose
                BY <1>1, <4>4 DEF DoClose, RecorderInv, RecorderTypes
            <4>5. CASE PliReturns
                BY <1>1, <4>5 DEF PliReturns, RecorderInv, RecorderTypes
            <4>6. CASE MediaFuncReturns
                BY <1>1, <4>6 DEF MediaFuncReturns, RecorderInv, RecorderTypes
            <4> QED BY <2>3, <4>1, <4>2, <4>3, <4>4, <4>5, <4>6, <4>7
        <3> QED BY <1>1, <2>1, <3>1, <3>2, <3>3
    <2> QED BY <1>3, <2>2, <2>3 DEF Receiver
<1>4. CASE ReceiverCancelled
    BY <1>1, <1>4 DEF ReceiverCancelled, RecorderTypes, RecorderInv, RecordingInv,
                      StartsWithPair
<1> QED BY <1>2, <1>3, <1>4

-----------------------------------------------------------------------------
(***************************************************************************)
(* The invariant, and what follows from it.                                *)
(***************************************************************************)

IInv ==
    /\ TypeOK /\ FileCut
    /\ PacketsInv /\ SenderInv
    /\ RecorderInv /\ RecordingInv

\* The file is cut into the units it is made of.
LEMMA InitCut ==
    ASSUME SenderInit
    PROVE  FileCut /\ file \in [err : {"nil", "eof", "error"}, nals : Seq(Seq(Byte))]
           /\ plain \in Seq(Byte)
<1>1. PICK units \in Files : file = Opened(BytesOf(units)) /\ plain = Plain(units)
    BY DEF SenderInit
<1>2. /\ units \in Seq(Unit) /\ units # <<>>
      /\ \A k \in DOMAIN units : Encoded(NalOf(units[k]))
      /\ Ordered(NalsOf(units)) /\ PairsFit(NalsOf(units))
    BY SenderAssumption, FileAssumption
<1>3. file = [err |-> "nil", nals |-> NalsOf(units)]
    BY <1>1, <1>2, ReaderExact
<1>4. Len(units) \in Nat /\ Len(units) > 0
    BY <1>2, EmptySeq
<1>5. \A k \in 1 .. Len(units) : NalOf(units[k]) \in Nal
    <2> TAKE k \in 1 .. Len(units)
    <2>1. units[k] \in Unit
        BY <1>2, ElementOfSeq
    <2>2. NalOf(units[k]) \in Seq(Byte) /\ Len(NalOf(units[k])) > 0
        BY <2>1, BlockShape
    <2>3. NalOf(units[k])[1] < 128
        BY <1>2 DEF Encoded
    <2> QED BY <2>2, <2>3, EmptySeq DEF Nal
<1>6. /\ NalsOf(units) \in Seq(Nal) /\ Len(NalsOf(units)) = Len(units)
      /\ \A k \in 1 .. Len(units) : NalsOf(units)[k] = NalOf(units[k])
    BY <1>4, <1>5, IsASeq DEF NalsOf
<1>7. NalsOf(units) # <<>>
    BY <1>4, <1>6, EmptySeq
<1>8. plain = PlainAll(file.nals)
    <2>1. [k \in 1 .. Len(units) |-> PlainUnit(NalOf(units[k]))] =
          [k \in 1 .. Len(NalsOf(units)) |-> PlainUnit(NalsOf(units)[k])]
        BY <1>6
    <2> QED BY <1>1, <1>3, <2>1 DEF Plain, PlainAll
<1>9. FileCut
    BY <1>2, <1>3, <1>6, <1>7, <1>8 DEF FileCut, CutFile
<1>10. NalsOf(units) \in Seq(Seq(Byte))
    <2>1. Nal \subseteq Seq(Byte)
        BY DEF Nal
    <2> QED BY <1>6, <2>1, SeqMonotonic
<1> QED BY <1>3, <1>8, <1>9, <1>10, PlainAllRow

\* At first nothing is read or sent.
LEMMA InitInv == Init => IInv
<1> SUFFICES ASSUME Init PROVE IInv
    OBVIOUS
<1>1. SenderInit
    BY DEF Init
<1>2. /\ at = 1 /\ spc = "open" /\ passes = 0 /\ sps = <<>> /\ pps = <<>>
      /\ oFrames = <<>> /\ frames = <<>> /\ timestamp = 0 /\ sctx = TRUE
      /\ sent = <<>> /\ wire = <<>>
    BY <1>1 DEF SenderInit
<1>3. /\ FileCut /\ file \in [err : {"nil", "eof", "error"}, nals : Seq(Seq(Byte))]
      /\ plain \in Seq(Byte)
    BY <1>1, InitCut
<1>4. TypeOK
    <2>1. passes \in 0 .. MaxPasses /\ 0 \in 0 .. MaxFaults
        BY <1>2, SenderAssumption, CallAssumption
    <2>2. SenderTypes
        <3>1. \A S : <<>> \in Seq(S)
            BY EmptySeq
        <3>2. /\ at \in Nat \ {0} /\ timestamp \in Nat /\ sctx \in BOOLEAN
              /\ spc \in {"open", "group", "read", "write", "stopped"}
            BY <1>2
        <3>3. /\ sps \in Seq(Byte) /\ pps \in Seq(Byte) /\ oFrames \in Seq(Seq(Byte))
              /\ frames \in Seq([nals : Seq(Seq(Byte)), duration : {0, 1}])
              /\ sent \in Seq(Packet) /\ wire \in Seq(Packet)
            BY <1>2, <3>1
        <3>4. spc \in {"open", "group", "read"} => frames = <<>>
            BY <1>2
        <3> QED BY <1>3, <2>1, <3>2, <3>3, <3>4, Zenon DEF SenderTypes
    <2>3. recorded = <<>> /\ <<>> \in Seq(Byte)
        BY EmptySeq DEF Init
    <2> QED BY <2>1, <2>2, <2>3 DEF Init, TypeOK
<1>5. PacketsInv
    BY <1>2 DEF PacketsInv, PacketsGood, MarkerEndsPicture, ParameterSetsKept, FirstIsPair
<1>6. SenderInv
    <2>1. Len(file.nals) \in Nat
        BY <1>3, OrderedFacts DEF FileCut
    <2> QED BY <1>2, <2>1 DEF SenderInv, Closed
<1>7. RecorderInv /\ RecordingInv
    BY DEF Init, RecorderInv, RecordingInv
<1> QED BY <1>3, <1>4, <1>5, <1>6, <1>7 DEF IInv

\* Every step keeps it.
LEMMA NextInv == IInv /\ [Next]_vars => IInv'
<1> SUFFICES ASSUME IInv, [Next]_vars PROVE IInv'
    OBVIOUS
<1>1. /\ TypeOK /\ SenderTypes /\ FileCut /\ PacketsInv /\ SenderInv
      /\ RecorderInv /\ RecordingInv /\ RecorderTypes
      /\ wire \in Seq(GoodPacket) /\ faults \in 0 .. MaxFaults
    BY DEF IInv, TypeOK, RecorderTypes, PacketsInv, PacketsGood
<1>2. CASE Sender /\ UNCHANGED <<recorderVars, faults>>
    <2>1. sctx' = sctx
        BY <1>2 DEF Sender
    <2>2. SenderTypes' /\ FileCut' /\ PacketsInv' /\ SenderInv'
        BY <1>1, <1>2, <2>1, ReadKeeps, WriteKeeps, OthersKeep DEF Sender
    <2>3. /\ rctx' = rctx /\ closed' = closed /\ track' = track /\ pli' = pli
          /\ mediaFunc' = mediaFunc /\ dv_h264' = dv_h264 /\ hasKeyFrame' = hasKeyFrame
          /\ recorded' = recorded /\ faults' = faults
        BY <1>2 DEF recorderVars
    <2>4. RecorderInv' /\ RecordingInv'
        BY <1>1, <2>3 DEF RecorderInv, RecordingInv, StartsWithPair
    <2>5. TypeOK'
        BY <1>1, <2>2, <2>3 DEF TypeOK, RecorderTypes
    <2> QED BY <2>2, <2>4, <2>5 DEF IInv
<1>3. CASE Receiver \/ Network \/ ReceiverCancelled
    <2>1. /\ wire' \in Seq(GoodPacket) /\ RecorderTypes' /\ faults' \in 0 .. MaxFaults
          /\ RecorderInv' /\ RecordingInv'
        BY <1>1, <1>3, ReceiverKeeps
    <2>2. UNCHANGED senderSide
        BY <1>3 DEF Receiver, Network, ReceiverCancelled
    <2>3. /\ file' = file /\ plain' = plain /\ at' = at /\ spc' = spc /\ passes' = passes
          /\ sps' = sps /\ pps' = pps /\ oFrames' = oFrames /\ frames' = frames
          /\ timestamp' = timestamp /\ sctx' = sctx /\ sent' = sent
        BY <2>2 DEF senderSide, fileVars, senderVars
    <2>4. wire' \in Seq(Packet)
        BY <2>1, GoodPackets
    <2>5. SenderTypes'
        BY <1>1, <2>3, <2>4 DEF SenderTypes
    <2>6. FileCut' /\ PacketsInv'
        BY <1>1, <2>1, <2>3 DEF FileCut, PacketsInv, PacketsGood, MarkerEndsPicture,
              ParameterSetsKept, StartsKeyPicture, FirstIsPair, KeyPayload
    <2>7. SenderInv'
        BY <1>1, <2>3 DEF SenderInv, NothingLeft, PictureLeft, GroupLeft, PairLeft,
              GroupEmpty, GroupSps, GroupPair, AtBoundary, Quiet, Closed, PairSent, LastSent
    <2>8. TypeOK'
        BY <2>1, <2>5 DEF TypeOK, RecorderTypes
    <2> QED BY <2>1, <2>6, <2>7, <2>8 DEF IInv
<1>4. CASE SenderCancelled
    <2>1. sctx' = FALSE /\ UNCHANGED <<fileVars, senderVars, sent, wire, recorderVars, faults>>
        BY <1>4 DEF SenderCancelled
    <2>2. /\ file' = file /\ plain' = plain /\ at' = at /\ spc' = spc /\ passes' = passes
          /\ sps' = sps /\ pps' = pps /\ oFrames' = oFrames /\ frames' = frames
          /\ timestamp' = timestamp /\ sent' = sent /\ wire' = wire
          /\ rctx' = rctx /\ closed' = closed /\ track' = track /\ pli' = pli
          /\ mediaFunc' = mediaFunc /\ dv_h264' = dv_h264 /\ hasKeyFrame' = hasKeyFrame
          /\ recorded' = recorded /\ faults' = faults
        BY <2>1 DEF fileVars, senderVars, recorderVars
    <2>3. TypeOK'
        <3>1. SenderTypes'
            BY <1>1, <2>1, <2>2 DEF SenderTypes
        <3> QED BY <1>1, <2>2, <3>1 DEF TypeOK
    <2>4. FileCut' /\ PacketsInv' /\ RecorderInv' /\ RecordingInv'
        BY <1>1, <2>2 DEF FileCut, PacketsInv, PacketsGood, MarkerEndsPicture,
              ParameterSetsKept, StartsKeyPicture, FirstIsPair, KeyPayload, RecorderInv,
              RecordingInv, StartsWithPair
    <2>5. /\ NothingLeft => NothingLeft'
          /\ PictureLeft => PictureLeft'
          /\ GroupLeft => GroupLeft'
          /\ PairLeft => PairLeft'
        BY <2>1, <2>2 DEF NothingLeft, PictureLeft, GroupLeft, PairLeft, AtBoundary, Quiet,
              Closed, PairSent, LastSent
    <2>6. /\ GroupEmpty => GroupEmpty'
          /\ GroupSps => GroupSps'
          /\ GroupPair => GroupPair'
          /\ Closed => Closed'
        BY <2>2 DEF GroupEmpty, GroupSps, GroupPair, AtBoundary, Quiet, Closed, LastSent
    <2>7. SenderInv'
        BY <1>1, <2>1, <2>2, <2>5, <2>6 DEF SenderInv
    <2> QED BY <2>3, <2>4, <2>7 DEF IInv
<1>5. CASE UNCHANGED vars
    <2>1. /\ file' = file /\ plain' = plain /\ at' = at /\ spc' = spc /\ passes' = passes
          /\ sps' = sps /\ pps' = pps /\ oFrames' = oFrames /\ frames' = frames
          /\ timestamp' = timestamp /\ sctx' = sctx /\ sent' = sent /\ wire' = wire
          /\ rctx' = rctx /\ closed' = closed /\ track' = track /\ pli' = pli
          /\ mediaFunc' = mediaFunc /\ dv_h264' = dv_h264 /\ hasKeyFrame' = hasKeyFrame
          /\ recorded' = recorded /\ faults' = faults
        BY <1>5 DEF vars, fileVars, senderVars, recorderVars
    <2>2. TypeOK'
        BY <1>1, <2>1 DEF TypeOK, SenderTypes
    <2>3. FileCut' /\ PacketsInv' /\ RecorderInv' /\ RecordingInv'
        BY <1>1, <2>1 DEF FileCut, PacketsInv, PacketsGood, MarkerEndsPicture,
              ParameterSetsKept, StartsKeyPicture, FirstIsPair, KeyPayload, RecorderInv,
              RecordingInv, StartsWithPair
    <2>4. SenderInv'
        BY <1>1, <2>1 DEF SenderInv, NothingLeft, PictureLeft, GroupLeft, PairLeft,
              GroupEmpty, GroupSps, GroupPair, AtBoundary, Quiet, Closed, PairSent, LastSent
    <2> QED BY <2>2, <2>3, <2>4 DEF IInv
<1> QED BY <1>2, <1>3, <1>4, <1>5 DEF Next, Done

\* The invariant holds in every run.
THEOREM Invariance == Spec => []IInv
<1>1. Init => IInv
    BY InitInv
<1>2. IInv /\ [Next]_vars => IInv'
    BY NextInv
<1> QED BY <1>1, <1>2, PTL DEF Spec

\* The variables keep their types; samples wait only while a group is written
\* (ingester.go:136).
THEOREM TypesKept == Spec => []TypeOK
<1>1. IInv => TypeOK
    BY DEF IInv
<1> QED BY <1>1, Invariance, PTL

\* The time stamp changes exactly after a packet with the marker, whatever the
\* file's units, their lengths and the limit on a payload, as long as a pair of
\* parameter sets fits in it (PairsFit), and whenever the ingester is cancelled:
\* parameter sets and their picture are one access unit (ingester.go:157,
\* interceptor.go).
THEOREM PicturesMarked == Spec => []MarkerEndsPicture
<1>1. IInv => MarkerEndsPicture
    BY DEF IInv, PacketsInv
<1> QED BY <1>1, Invariance, PTL

\* No key picture goes without its parameter sets, whatever SEI units stand
\* between them and wherever the file begins again, if the pairs fit in a payload
\* (h264reader.go:134).
THEOREM KeyPicturesComplete == Spec => []ParameterSetsKept
<1>1. IInv => ParameterSetsKept
    BY DEF IInv, PacketsInv
<1> QED BY <1>1, Invariance, PTL

\* A recording starts with an SPS and a PPS, whichever packets were lost or
\* overtaken before and after them, and whenever either side was cancelled
\* (h264writer.go:53).  Pairs that do not fit in a payload are left out: nothing
\* at all is recorded of such a file.
THEOREM RecordingPlayable == Spec => []RecordingStarts
<1>1. IInv => RecordingStarts
    BY PairSeen DEF IInv, TypeOK
<1> QED BY <1>1, Invariance, PTL

-----------------------------------------------------------------------------
(***************************************************************************)
(* The contents.                                                           *)
(***************************************************************************)

\* The remainder of so many times a number and something less.
LEMMA RemainderOf ==
    ASSUME NEW q \in Nat, NEW n \in Nat, NEW r \in Nat, r < n
    PROVE  (q * n + r) % n = r
<1> DEFINE a == q * n + r
           d == a \div n
           e == a % n
<1>1. n > 0 /\ q * n \in Nat /\ a \in Nat
    OBVIOUS
<1>2. d \in Nat /\ n * d <= a /\ a < n * d + n
    BY <1>1, Dividing
<1>3. e \in Nat /\ e < n /\ a = n * d + e
    BY <1>1
<1> HIDE DEF d, e
<1>4. n * d = d * n
    BY <1>2
<1>5. ~(d < q)
    <2> SUFFICES ASSUME d < q PROVE FALSE
        OBVIOUS
    <2>1. d + 1 <= q
        BY <1>2
    <2>2. (d + 1) * n <= q * n
        BY <1>2, <2>1, TimesGrow
    <2>3. (d + 1) * n = d * n + n
        BY <1>2
    <2> QED BY <1>1, <1>2, <1>4, <2>2, <2>3
<1>6. ~(q < d)
    <2> SUFFICES ASSUME q < d PROVE FALSE
        OBVIOUS
    <2>1. q + 1 <= d
        BY <1>2
    <2>2. (q + 1) * n <= d * n
        BY <1>2, <2>1, TimesGrow
    <2>3. (q + 1) * n = q * n + n
        OBVIOUS
    <2>4. d * n \in Nat
        BY <1>2
    <2> QED BY <1>1, <1>2, <1>4, <2>2, <2>3, <2>4
<1>7. d = q
    BY <1>2, <1>5, <1>6
<1>8. e = r
    BY <1>1, <1>3, <1>4, <1>7
<1> QED BY <1>8 DEF e

\* Where the units of a file are in what should arrive.
PlainPlaces(nals, off) ==
    /\ off \in [0 .. Len(nals) -> Nat]
    /\ off[0] = 0 /\ Len(PlainAll(nals)) = off[Len(nals)]
    /\ \A i \in 1 .. Len(nals) :
          /\ off[i] = off[i - 1] + Len(PlainUnit(nals[i]))
          /\ \A j \in 1 .. Len(PlainUnit(nals[i])) :
                PlainAll(nals)[off[i - 1] + j] = PlainUnit(nals[i])[j]
          /\ off[i] <= off[Len(nals)]

\* There are such places.
LEMMA PlainPlacesExist ==
    ASSUME NEW nals \in Seq(Seq(Byte))
    PROVE  \E off : PlainPlaces(nals, off)
<1> DEFINE n == Len(nals)
           row == [k \in 1 .. Len(nals) |-> PlainUnit(nals[k])]
<1>1. n \in Nat /\ \A k \in 1 .. n : nals[k] \in Seq(Byte)
    BY LenProperties, ElementOfSeq
<1>2. \A k \in 1 .. n : PlainUnit(nals[k]) \in Seq(Byte)
    BY <1>1, PlainUnitType
<1>3. row \in Seq(Seq(Byte)) /\ Len(row) = n /\ \A k \in 1 .. n : row[k] = PlainUnit(nals[k])
    BY <1>1, <1>2, IsASeq
<1>4. FlattenSeq(row) = PlainAll(nals)
    BY DEF PlainAll
<1> HIDE DEF row, n
<1>5. PICK off \in [0 .. Len(row) -> Nat] :
         /\ Places(row, off)
         /\ Len(FlattenSeq(row)) = off[Len(row)]
         /\ \A i \in 1 .. Len(row) : \A j \in 1 .. Len(row[i]) :
               FlattenSeq(row)[off[i - 1] + j] = row[i][j]
    BY <1>3, FlattenPlaces
<1>6. \A i, j \in 0 .. n : i <= j => off[i] <= off[j]
    BY <1>3, <1>5, PlacesGrow
<1>7. \A i \in 1 .. n : off[i] <= off[n]
    BY <1>1, <1>6
<1>8. off[0] = 0 /\ \A i \in 1 .. n : off[i] = off[i - 1] + Len(PlainUnit(nals[i]))
    BY <1>3, <1>5 DEF Places
<1>9. \A i \in 1 .. n : \A j \in 1 .. Len(PlainUnit(nals[i])) :
         PlainAll(nals)[off[i - 1] + j] = PlainUnit(nals[i])[j]
    BY <1>3, <1>4, <1>5, SMTT(40)
<1>10. off \in [0 .. n -> Nat] /\ Len(PlainAll(nals)) = off[n]
    BY <1>3, <1>4, <1>5
<1> QED BY <1>7, <1>8, <1>9, <1>10 DEF PlainPlaces, n

\* Some bytes again and again.
Repeats(bytes, whole) ==
    \A k \in 1 .. Len(bytes) : bytes[k] = whole[((k - 1) % Len(whole)) + 1]

\* So does what they begin with.
LEMMA RepeatsBefore ==
    ASSUME NEW a \in Seq(Byte), NEW b \in Seq(Byte), NEW whole, Repeats(a \o b, whole)
    PROVE  Repeats(a, whole)
<1>1. /\ Len(a \o b) = Len(a) + Len(b) /\ Len(a) \in Nat /\ Len(b) \in Nat
      /\ \A i \in 1 .. Len(a) + Len(b) :
            (a \o b)[i] = IF i <= Len(a) THEN a[i] ELSE b[i - Len(a)]
    BY ConcatProperties, LenProperties
<1>2. \A k \in 1 .. Len(a) : k \in 1 .. Len(a) + Len(b) /\ k <= Len(a)
    BY <1>1
<1>3. \A k \in 1 .. Len(a) : (a \o b)[k] = a[k] /\ k \in 1 .. Len(a \o b)
    BY <1>1, <1>2
<1> QED BY <1>3 DEF Repeats

\* With the next unit of the file they still do.
LEMMA RepeatsGrow ==
    ASSUME NEW nals \in Seq(Seq(Byte)), NEW off, PlainPlaces(nals, off),
           NEW k \in 1 .. Len(nals), NEW q \in Nat, NEW bytes \in Seq(Byte),
           Repeats(bytes, PlainAll(nals)),
           Len(bytes) = q * Len(PlainAll(nals)) + off[k - 1]
    PROVE  /\ bytes \o PlainUnit(nals[k]) \in Seq(Byte)
           /\ Repeats(bytes \o PlainUnit(nals[k]), PlainAll(nals))
           /\ Len(bytes \o PlainUnit(nals[k])) = q * Len(PlainAll(nals)) + off[k]
<1> DEFINE u == PlainUnit(nals[k])
           whole == PlainAll(nals)
           n == Len(whole)
           m == Len(bytes)
<1>1. Len(nals) \in Nat /\ k - 1 \in 0 .. Len(nals) /\ k \in 0 .. Len(nals)
      /\ Len(nals) \in 0 .. Len(nals) /\ nals[k] \in Seq(Byte)
    BY LenProperties, ElementOfSeq
<1>2. u \in Seq(Byte) /\ whole \in Seq(Byte)
    BY <1>1, PlainUnitType, PlainAllRow
<1>3. Len(u) \in Nat /\ n \in Nat /\ m \in Nat
    BY <1>2, LenProperties
<1> DEFINE y == off[k - 1]
           z == off[k]
<1>4. /\ z = y + Len(u) /\ z <= n /\ y \in Nat /\ z \in Nat
      /\ \A j \in 1 .. Len(u) : whole[y + j] = u[j]
    BY <1>1 DEF PlainPlaces
<1> HIDE DEF u, whole, n, y, z
<1>5. /\ bytes \o u \in Seq(Byte) /\ Len(bytes \o u) = m + Len(u)
      /\ \A i \in 1 .. m + Len(u) : (bytes \o u)[i] = IF i <= m THEN bytes[i] ELSE u[i - m]
    BY <1>2, ConcatProperties
<1> DEFINE x == q * n
<1>6. m = x + y /\ x \in Nat
    BY <1>3 DEF n, whole, y
<1> HIDE DEF m, x
<1>7. Repeats(bytes \o u, whole)
    <2> SUFFICES ASSUME NEW i \in 1 .. m + Len(u)
                 PROVE  (bytes \o u)[i] = whole[((i - 1) % n) + 1]
        BY <1>5 DEF Repeats, n
    <2>1. CASE i <= m
        <3>1. i \in 1 .. Len(bytes) /\ (bytes \o u)[i] = bytes[i]
            BY <1>3, <1>5, <2>1 DEF m
        <3>2. bytes[i] = whole[((i - 1) % Len(whole)) + 1]
            BY <3>1 DEF Repeats, whole
        <3> QED BY <3>1, <3>2 DEF n
    <2>2. CASE i > m
        <3> DEFINE j == i - m
                   r == (y + j) - 1
        <3>1. j \in 1 .. Len(u) /\ ~(i <= m)
            BY <1>3, <2>2
        <3>2. (bytes \o u)[i] = u[j]
            BY <1>5, <3>1
        <3>3. r \in Nat /\ r < n /\ i - 1 = x + r /\ r + 1 = y + j
            BY <1>3, <1>4, <1>6, <3>1
        <3> HIDE DEF j, r
        <3>4. (x + r) % n = r
            BY <1>3, <3>3, RemainderOf DEF x
        <3>5. ((i - 1) % n) + 1 = y + j
            BY <3>3, <3>4
        <3> QED BY <1>4, <3>1, <3>2, <3>5
    <2>3. i <= m \/ i > m
        BY <1>3
    <2> QED BY <2>1, <2>2, <2>3
<1>8. Len(bytes \o u) = x + z
    <2>1. m + Len(u) = x + z
        BY <1>3, <1>4, <1>6
    <2> QED BY <1>5, <2>1
<1> QED BY <1>5, <1>7, <1>8 DEF u, whole, n, x, z

\* Units that are left out take no place.
LEMMA PlacesOverSei ==
    ASSUME NEW nals \in Seq(Seq(Byte)), NEW off, PlainPlaces(nals, off),
           NEW i \in Nat \ {0}, NEW k \in i .. Len(nals),
           \A j \in i .. k - 1 : UnitType(nals[j]) = SEI
    PROVE  off[k - 1] = off[i - 1]
<1> DEFINE n == Len(nals)
           T == {m \in Nat : m <= k - i => off[(i - 1) + m] = off[i - 1]}
<1>1. n \in Nat /\ k \in Nat /\ i <= k /\ k <= n
    BY LenProperties
<1>2. off \in [0 .. n -> Nat] /\ \A j \in 1 .. n : off[j] = off[j - 1] + Len(PlainUnit(nals[j]))
    BY DEF PlainPlaces
<1> HIDE DEF n
<1>3. 0 \in T
    OBVIOUS
<1>4. ASSUME NEW m \in Nat, m \in T PROVE m + 1 \in T
    <2> SUFFICES ASSUME m + 1 <= k - i PROVE off[(i - 1) + (m + 1)] = off[i - 1]
        OBVIOUS
    <2> DEFINE j == i + m
    <2>1. /\ j \in i .. k - 1 /\ j \in 1 .. n /\ m <= k - i
          /\ (i - 1) + m = j - 1 /\ (i - 1) + (m + 1) = j /\ j - 1 \in 0 .. n
        BY <1>1
    <2>2. off[j - 1] = off[i - 1]
        BY <1>4, <2>1
    <2>3. PlainUnit(nals[j]) = <<>>
        BY <2>1 DEF PlainUnit, Arrives
    <2>4. off[j] = off[j - 1] + 0 /\ off[j - 1] \in Nat
        BY <1>2, <2>1, <2>3, EmptySeq
    <2> HIDE DEF j
    <2>5. off[j] = off[j - 1]
        BY <2>4
    <2> QED BY <2>1, <2>2, <2>5
<1> HIDE DEF T
<1>5. k - i \in T
    <2>1. Nat \subseteq T
        BY <1>3, <1>4, NumberInduction
    <2>2. k - i \in Nat
        BY <1>1
    <2> QED BY <2>1, <2>2
<1>6. (i - 1) + (k - i) = k - 1
    BY <1>1
<1> QED BY <1>1, <1>5, <1>6 DEF T

\* The bytes of samples that wait.
Waiting(samples) == FlattenSeq([k \in 1 .. Len(samples) |-> PlainAll(samples[k].nals)])

\* The bytes that wait with no sample, one and two.
LEMMA WaitingOf ==
    /\ Waiting(<<>>) = <<>>
    /\ \A a \in Seq(Seq(Byte)) : \A x : Waiting(<< Sample(a, x) >>) = PlainAll(a)
    /\ \A a, b \in Seq(Seq(Byte)) : \A x, y :
          Waiting(<< Sample(a, x), Sample(b, y) >>) = PlainAll(a) \o PlainAll(b)
<1>1. Waiting(<<>>) = <<>>
    <2>1. [k \in 1 .. Len(<<>>) |-> PlainAll(<<>>[k].nals)] = <<>>
        OBVIOUS
    <2> QED BY <2>1, FlattenEmpty DEF Waiting
<1>2. ASSUME NEW a \in Seq(Seq(Byte)), NEW x
      PROVE  Waiting(<< Sample(a, x) >>) = PlainAll(a)
    <2> DEFINE samples == << Sample(a, x) >>
               A == PlainAll(a)
    <2>1. A \in Seq(Byte)
        BY PlainAllRow
    <2>2. Sample(a, x).nals = a
        BY DEF Sample
    <2>3. [k \in 1 .. Len(samples) |-> PlainAll(samples[k].nals)] = <<A>>
        BY <2>2
    <2> HIDE DEF A
    <2>4. FlattenSeq(<<A>>) = A
        BY <2>1, FlattenOne
    <2> QED BY <2>3, <2>4 DEF Waiting, A
<1>3. ASSUME NEW a \in Seq(Seq(Byte)), NEW b \in Seq(Seq(Byte)), NEW x, NEW y
      PROVE  Waiting(<< Sample(a, x), Sample(b, y) >>) = PlainAll(a) \o PlainAll(b)
    <2> DEFINE samples == << Sample(a, x), Sample(b, y) >>
               A == PlainAll(a)
               B == PlainAll(b)
    <2>1. A \in Seq(Byte) /\ B \in Seq(Byte)
        BY PlainAllRow
    <2>2. Sample(a, x).nals = a /\ Sample(b, y).nals = b
        BY DEF Sample
    <2>3. [k \in 1 .. Len(samples) |-> PlainAll(samples[k].nals)] = <<A, B>>
        BY <2>2
    <2> HIDE DEF A, B
    <2>4. Append(<<A>>, B) = <<A, B>> /\ <<A>> \in Seq(Seq(Byte))
        BY <2>1, TwoInRow
    <2>5. FlattenSeq(<<A, B>>) = A \o B
        BY <2>1, <2>4, FlattenOne, FlattenAppend
    <2> QED BY <2>3, <2>5 DEF Waiting, A, B
<1> QED BY <1>1, <1>2, <1>3

\* What is read and not yet sent.
Pending == IF spc = "read" THEN PlainAll(oFrames) ELSE Waiting(frames)

\* Some of it may be lost when the ingester is cancelled, and then nothing more
\* is sent.
Underway ==
    \/ spc = "read"
    \/ spc = "group" /\ sctx
    \/ spc = "write" /\ (sctx \/ frames # <<>>)

\* A unit that is read is pending, if anything is still to be sent.
LEMMA ReadPending ==
    ASSUME NEW u \in Seq(Byte), spc = "read", frames = <<>>, oFrames \in Seq(Seq(Byte)),
           oFrames' = Append(oFrames, u), sctx' = sctx, sctx \in BOOLEAN,
           ReadSps(u) \/ ReadOther(u) \/ ReadPps(u) \/ ReadPicture(u), Underway'
    PROVE  Pending' = Pending \o PlainUnit(u)
<1>1. Pending = PlainAll(oFrames)
    BY DEF Pending
<1>2. PlainAll(oFrames') = PlainAll(oFrames) \o PlainUnit(u)
    BY PlainAllRow
<1>3. CASE spc' = "read"
    <2>1. Pending' = PlainAll(oFrames')
        BY <1>3 DEF Pending
    <2> QED BY <1>1, <1>2, <2>1
<1>4. CASE spc' = "write"
    <2>1. Pending' = Waiting(frames')
        BY <1>4 DEF Pending
    <2>2. Waiting(frames') = PlainAll(oFrames')
        <3>1. CASE ReadSps(u)
            <4>1. IF sctx THEN spc' = "read" ELSE frames' = <<>>
                BY <3>1 DEF ReadSps
            <4>2. sctx \/ frames' # <<>>
                BY <1>4 DEF Underway
            <4> QED BY <1>4, <4>1, <4>2
        <3>2. CASE ReadOther(u)
            <4>1. oFrames' = <<u>> /\ frames' = << Sample(<<u>>, 1) >>
                BY <3>2 DEF ReadOther
            <4>2. <<u>> \in Seq(Seq(Byte))
                OBVIOUS
            <4> QED BY <4>1, <4>2, WaitingOf
        <3>3. CASE ReadPps(u)
            <4>1. PICK s \in SpsNal :
                     /\ oFrames' = <<s, u>>
                     /\ IF sctx THEN spc' = "read" ELSE frames' = << Sample(<<s, u>>, 1) >>
                BY <3>3 DEF ReadPps
            <4>2. s \in Seq(Byte)
                BY Parameters
            <4>3. <<s, u>> \in Seq(Seq(Byte))
                BY <4>2
            <4>4. frames' = << Sample(<<s, u>>, 1) >>
                BY <1>4, <4>1
            <4> QED BY <4>1, <4>3, <4>4, WaitingOf
        <3>4. CASE ReadPicture(u)
            <4>1. PICK s \in SpsNal, p \in PpsNal :
                     /\ oFrames = <<s, p>>
                     /\ frames' = << Sample(<<s, p>>, 0), Sample(<<u>>, 1) >>
                BY <3>4 DEF ReadPicture
            <4>2. s \in Seq(Byte) /\ p \in Seq(Byte)
                BY Parameters
            <4>3. <<s, p>> \in Seq(Seq(Byte)) /\ <<u>> \in Seq(Seq(Byte))
                BY <4>2
            <4>4. Waiting(frames') = PlainAll(<<s, p>>) \o PlainAll(<<u>>)
                <5> DEFINE a == <<s, p>>
                           b == <<u>>
                <5>1. a \in Seq(Seq(Byte)) /\ b \in Seq(Seq(Byte))
                    BY <4>3
                <5>2. frames' = << Sample(a, 0), Sample(b, 1) >>
                    BY <4>1
                <5> HIDE DEF a, b
                <5>3. Waiting(<< Sample(a, 0), Sample(b, 1) >>) = PlainAll(a) \o PlainAll(b)
                    BY <5>1, WaitingOf
                <5> QED BY <5>2, <5>3 DEF a, b
            <4>5. PlainAll(<<u>>) = PlainUnit(u)
                BY PlainFew
            <4> QED BY <1>2, <4>1, <4>4, <4>5
        <3> QED BY <3>1, <3>2, <3>3, <3>4
    <2> QED BY <1>1, <1>2, <2>1, <2>2
<1>5. spc' = "read" \/ spc' = "write"
    BY DEF ReadSps, ReadOther, ReadPps, ReadPicture
<1> QED BY <1>3, <1>4, <1>5

\* What is written goes from the bytes that are pending to those that are sent.
LEMMA WritePending ==
    ASSUME timestamp \in Nat, sent \in Seq(GoodPacket), wire \in Seq(GoodPacket),
           NothingLeft \/ PictureLeft \/ GroupLeft \/ PairLeft, WriteSample
    PROVE  \E P \in Seq(GoodPacket) :
              /\ sent' = sent \o P /\ wire' = wire \o P
              /\ Pending = Bytes(P) \o Pending'
              /\ Bytes(P) \in Seq(Byte) /\ Pending' \in Seq(Byte)
<1>1. spc = "write" /\ spc' = "write"
    BY DEF WriteSample
<1>2. Pending = Waiting(frames) /\ Pending' = Waiting(frames')
    BY <1>1 DEF Pending
<1>3. CASE WriteSilent
    <2>1. PICK d \in OtherNal : /\ UnitType(d) \in Silent /\ frames = << Sample(<<d>>, 1) >>
                                /\ sent' = sent /\ wire' = wire /\ frames' = <<>>
        BY <1>3 DEF WriteSilent
    <2>2. d \in Seq(Byte) /\ <<d>> \in Seq(Seq(Byte))
        BY Parameters
    <2>3. PlainAll(<<d>>) = <<>>
        BY <2>1, <2>2, PlainFew, PacketsOfSilent
    <2>4. Pending = <<>> /\ Pending' = <<>>
        BY <1>2, <2>1, <2>2, <2>3, WaitingOf
    <2>5. <<>> \in Seq(GoodPacket) /\ Bytes(<<>>) = <<>> /\ <<>> \in Seq(Byte)
        BY BytesRow, EmptySeq
    <2>6. sent' = sent \o <<>> /\ wire' = wire \o <<>> /\ <<>> \o <<>> = <<>>
        BY <2>1, <2>5, ConcatEmptySeq
    <2> QED BY <2>4, <2>5, <2>6
<1>4. ASSUME NEW d \in OtherNal, WritePicture(d)
      PROVE  \E P \in Seq(GoodPacket) :
                /\ sent' = sent \o P /\ wire' = wire \o P
                /\ Pending = Bytes(P) \o Pending'
                /\ Bytes(P) \in Seq(Byte) /\ Pending' \in Seq(Byte)
    <2> DEFINE P == Packets(Sample(<<d>>, 1))
    <2>1. /\ UnitType(d) \notin Silent /\ frames = << Sample(<<d>>, 1) >> /\ frames' = <<>>
          /\ sent' = sent \o P /\ wire' = wire \o P
        BY <1>4 DEF WritePicture
    <2>2. P \in Seq(GoodPacket) /\ Bytes(P) = PlainUnit(d)
        BY <2>1, PacketsOfUnit
    <2> HIDE DEF P
    <2>3. d \in Seq(Byte) /\ <<d>> \in Seq(Seq(Byte))
        BY Parameters
    <2>4. Pending = PlainUnit(d) /\ Pending' = <<>>
        BY <1>2, <2>1, <2>3, PlainFew, WaitingOf
    <2>5. PlainUnit(d) \in Seq(Byte) /\ <<>> \in Seq(Byte)
        BY <2>3, PlainUnitType, EmptySeq
    <2>6. PlainUnit(d) \o <<>> = PlainUnit(d)
        BY <2>5, ConcatEmptySeq
    <2> QED BY <2>1, <2>2, <2>4, <2>5, <2>6
<1>5. ASSUME NEW s \in SpsNal, NEW p \in PpsNal, WritePair(s, p)
      PROVE  \E P \in Seq(GoodPacket) :
                /\ sent' = sent \o P /\ wire' = wire \o P
                /\ Pending = Bytes(P) \o Pending'
                /\ Bytes(P) \in Seq(Byte) /\ Pending' \in Seq(Byte)
    <2> DEFINE q == PairPacket(s, p)
    <2>1. /\ sent' = sent \o <<q>> /\ wire' = wire \o <<q>>
          /\ \/ frames = << Sample(<<s, p>>, 1) >> /\ frames' = <<>>
             \/ \E d \in OtherNal : /\ frames = << Sample(<<s, p>>, 0), Sample(<<d>>, 1) >>
                                    /\ frames' = << Sample(<<d>>, 1) >>
        BY <1>5 DEF WritePair
    <2>2. q \in GoodPacket /\ Output(q.payload) = PlainAll(<<s, p>>)
        BY <1>5, PacketsOfPair DEF WritePair
    <2> HIDE DEF q
    <2>3. <<q>> \in Seq(GoodPacket) /\ q \in Carrying
        BY <2>2, GoodPackets
    <2>4. Bytes(<<q>>) = PlainAll(<<s, p>>)
        BY <2>2, <2>3, BytesRow
    <2>5. s \in Seq(Byte) /\ p \in Seq(Byte)
        BY Parameters
    <2>6. <<s, p>> \in Seq(Seq(Byte))
        BY <2>5
    <2>7. PlainAll(<<s, p>>) \in Seq(Byte) /\ <<>> \in Seq(Byte)
        BY <2>6, PlainAllRow, EmptySeq
    <2>8. Pending = PlainAll(<<s, p>>) \o Pending' /\ Pending' \in Seq(Byte)
        <3>1. CASE frames = << Sample(<<s, p>>, 1) >> /\ frames' = <<>>
            <4>1. Pending = PlainAll(<<s, p>>) /\ Pending' = <<>>
                BY <1>2, <2>6, <3>1, WaitingOf
            <4> QED BY <2>7, <4>1, ConcatEmptySeq
        <3>2. ASSUME NEW d \in OtherNal, frames = << Sample(<<s, p>>, 0), Sample(<<d>>, 1) >>,
                     frames' = << Sample(<<d>>, 1) >>
              PROVE  Pending = PlainAll(<<s, p>>) \o Pending' /\ Pending' \in Seq(Byte)
            <4>1. d \in Seq(Byte) /\ <<d>> \in Seq(Seq(Byte))
                BY Parameters
            <4>2. Pending = PlainAll(<<s, p>>) \o PlainAll(<<d>>)
                <5> DEFINE a == <<s, p>>
                           b == <<d>>
                <5>1. a \in Seq(Seq(Byte)) /\ b \in Seq(Seq(Byte))
                    BY <2>6, <4>1
                <5>2. Pending = Waiting(<< Sample(a, 0), Sample(b, 1) >>)
                    BY <1>2, <3>2
                <5> HIDE DEF a, b
                <5>3. Waiting(<< Sample(a, 0), Sample(b, 1) >>) = PlainAll(a) \o PlainAll(b)
                    BY <5>1, WaitingOf
                <5> QED BY <5>2, <5>3 DEF a, b
            <4>3. Pending' = PlainAll(<<d>>)
                BY <1>2, <3>2, <4>1, WaitingOf
            <4>4. PlainAll(<<d>>) \in Seq(Byte)
                BY <4>1, PlainAllRow
            <4> QED BY <4>2, <4>3, <4>4
        <3> QED BY <2>1, <3>1, <3>2
    <2> QED BY <2>1, <2>3, <2>4, <2>7, <2>8
<1> QED BY <1>3, <1>4, <1>5, WriteStep

\* What was sent repeats the file.  With what is pending it ends, in the pass
\* under way, where the reader is; between two passes it ends with the file.
Passed(off) ==
    /\ spc = "open" /\ sctx => Len(Bytes(sent)) = passes * Len(plain)
    /\ Underway =>
          /\ passes > 0
          /\ Repeats(Bytes(sent) \o Pending, plain)
          /\ Len(Bytes(sent) \o Pending) = (passes - 1) * Len(plain) + off[at - 1]
ContentInv ==
    /\ Repeats(Bytes(sent), plain)
    /\ Len(Bytes(sent)) <= passes * Len(plain)
    /\ \A off : PlainPlaces(file.nals, off) => Passed(off)

\* One pass more.
LEMMA TimesNext ==
    ASSUME NEW a \in Nat, NEW n \in Nat
    PROVE  /\ a * n \in Nat /\ (a + 1) * n = a * n + n
           /\ a > 0 => (a - 1) * n \in Nat /\ (a - 1) * n + n = a * n
OBVIOUS

\* The types of what ContentInv is about, and where the units are.
LEMMA ContentTypes ==
    ASSUME IInv
    PROVE  /\ file.nals \in Seq(Seq(Byte)) /\ Len(file.nals) \in Nat /\ Len(file.nals) > 0
           /\ plain = PlainAll(file.nals) /\ plain \in Seq(Byte) /\ Len(plain) \in Nat
           /\ at \in 1 .. Len(file.nals) + 1 /\ passes \in Nat
           /\ Bytes(sent) \in Seq(Byte) /\ Len(Bytes(sent)) \in Nat
           /\ sent \in Seq(GoodPacket) /\ wire \in Seq(GoodPacket)
           /\ timestamp \in Nat /\ sctx \in BOOLEAN /\ oFrames \in Seq(Seq(Byte))
           /\ spc \in {"open", "group", "read"} => frames = <<>>
           /\ \A off : PlainPlaces(file.nals, off) =>
                 /\ off[at - 1] \in Nat /\ off[at - 1] <= Len(plain)
                 /\ off[0] = 0 /\ off[Len(file.nals)] = Len(plain)
<1>1. file \in CutFile /\ plain = PlainAll(file.nals)
    BY DEF IInv, FileCut
<1>2. file.nals \in Seq(Nal) /\ file.nals # <<>>
    BY <1>1 DEF CutFile
<1>3. file.nals \in Seq(Seq(Byte)) /\ Len(file.nals) \in Nat /\ Len(file.nals) > 0
    <2>1. Nal \subseteq Seq(Byte)
        BY DEF Nal
    <2> QED BY <1>2, <2>1, SeqMonotonic, EmptySeq
<1>4. plain \in Seq(Byte) /\ Len(plain) \in Nat
    BY <1>1, <1>3, PlainAllRow, LenProperties
<1>5. /\ at \in Nat \ {0} /\ timestamp \in Nat /\ sctx \in BOOLEAN
      /\ oFrames \in Seq(Seq(Byte)) /\ passes \in 0 .. MaxPasses
      /\ spc \in {"open", "group", "read"} => frames = <<>>
    BY DEF IInv, TypeOK, SenderTypes
<1>6. at <= Len(file.nals) + 1
    BY DEF IInv, SenderInv
<1>7. at \in 1 .. Len(file.nals) + 1 /\ passes \in Nat
    BY <1>3, <1>5, <1>6, SenderAssumption
<1>8. sent \in Seq(GoodPacket) /\ wire \in Seq(GoodPacket)
    BY DEF IInv, PacketsInv, PacketsGood
<1>9. Bytes(sent) \in Seq(Byte)
    BY <1>8, GoodPackets, BytesRow
<1>10. Len(Bytes(sent)) \in Nat
    BY <1>9, LenProperties
<1>11. ASSUME NEW off, PlainPlaces(file.nals, off)
       PROVE  /\ off[at - 1] \in Nat /\ off[at - 1] <= Len(plain)
              /\ off[0] = 0 /\ off[Len(file.nals)] = Len(plain)
    <2> DEFINE n == Len(file.nals)
    <2>1. /\ off \in [0 .. n -> Nat] /\ off[0] = 0 /\ Len(plain) = off[n]
          /\ \A i \in 1 .. n : off[i] <= off[n]
        BY <1>1, <1>11 DEF PlainPlaces
    <2> HIDE DEF n
    <2>2. n \in Nat /\ at \in 1 .. n + 1
        BY <1>3, <1>7 DEF n
    <2>3. at - 1 \in 0 .. n /\ (at - 1 = 0 \/ at - 1 \in 1 .. n)
        BY <2>2
    <2>4. off[at - 1] \in Nat /\ off[n] \in Nat
        BY <2>1, <2>2, <2>3
    <2>5. off[at - 1] <= off[n]
        <3>1. CASE at - 1 = 0
            BY <2>1, <2>4, <3>1
        <3>2. CASE at - 1 \in 1 .. n
            BY <2>1, <3>2
        <3> QED BY <2>3, <3>1, <3>2
    <2> QED BY <2>1, <2>4, <2>5 DEF n
<1> QED BY <1>1, <1>3, <1>4, <1>5, <1>7, <1>8, <1>9, <1>10, <1>11

\* Writing moves bytes from what is pending to what was sent.
LEMMA ContentWrite ==
    ASSUME IInv, ContentInv, WriteSample, sctx' = sctx
    PROVE  ContentInv'
<1>1. /\ spc = "write" /\ spc' = "write" /\ frames # <<>> /\ file' = file /\ plain' = plain
      /\ at' = at /\ passes' = passes
    BY DEF WriteSample, fileVars
<1>2. /\ file.nals \in Seq(Seq(Byte)) /\ plain \in Seq(Byte) /\ Len(plain) \in Nat
      /\ passes \in Nat /\ Bytes(sent) \in Seq(Byte) /\ timestamp \in Nat
      /\ sent \in Seq(GoodPacket) /\ wire \in Seq(GoodPacket)
      /\ \A off : PlainPlaces(file.nals, off) => off[at - 1] \in Nat /\ off[at - 1] <= Len(plain)
    BY ContentTypes
<1>3. NothingLeft \/ PictureLeft \/ GroupLeft \/ PairLeft
    BY <1>1 DEF IInv, SenderInv
<1>4. PICK P \in Seq(GoodPacket) :
         /\ sent' = sent \o P /\ Pending = Bytes(P) \o Pending'
         /\ Bytes(P) \in Seq(Byte) /\ Pending' \in Seq(Byte)
    BY <1>2, <1>3, WritePending
<1>5. Bytes(sent') = Bytes(sent) \o Bytes(P)
    BY <1>2, <1>4, GoodPackets, BytesRow
<1> DEFINE a == Bytes(sent)
           b == Bytes(P)
           c == Pending'
           all == a \o Pending
<1>6. Bytes(sent)' = a \o b /\ a \o b \in Seq(Byte) /\ (a \o b) \o c = all
    <2>1. Bytes(sent)' = Bytes(sent')
        BY DEF Bytes
    <2>2. a \o b \in Seq(Byte)
        BY <1>2, <1>4, ConcatProperties
    <2>3. (a \o b) \o c = a \o (b \o c)
        <3>1. a \in Seq(Byte) /\ b \in Seq(Byte) /\ c \in Seq(Byte)
            BY <1>2, <1>4
        <3> HIDE DEF a, b, c
        <3> QED BY <3>1, Associative, SMTT(40)
    <2> QED BY <1>4, <1>5, <2>1, <2>2, <2>3
<1>7. Underway
    BY <1>1 DEF Underway
<1>8. ASSUME NEW off, PlainPlaces(file.nals, off)
      PROVE  /\ passes > 0 /\ Repeats(all, plain)
             /\ Len(all) = (passes - 1) * Len(plain) + off[at - 1]
    BY <1>7, <1>8 DEF ContentInv, Passed
<1> HIDE DEF a, b, c, all
<1>9. PICK off : PlainPlaces(file.nals, off)
    BY <1>2, PlainPlacesExist
<1>10. Repeats(a \o b, plain)
    BY <1>4, <1>6, <1>8, <1>9, RepeatsBefore DEF c
<1>11. Len(a \o b) <= passes * Len(plain)
    <2> DEFINE d == a \o b
    <2>1. d \in Seq(Byte) /\ d \o c = all /\ c \in Seq(Byte)
        BY <1>4, <1>6 DEF c
    <2> HIDE DEF d
    <2>2. Len(d \o c) = Len(d) + Len(c) /\ Len(d) \in Nat /\ Len(c) \in Nat
        BY <2>1, ConcatProperties, LenProperties
    <2> DEFINE x == (passes - 1) * Len(plain)
               y == passes * Len(plain)
               z == off[at - 1]
    <2>3. x \in Nat /\ y \in Nat /\ x + Len(plain) = y
        BY <1>2, <1>8, <1>9, TimesNext
    <2>4. Len(all) = x + z /\ z \in Nat /\ z <= Len(plain)
        BY <1>2, <1>8, <1>9
    <2> HIDE DEF x, y, z
    <2>5. Len(d) <= y
        BY <1>2, <2>1, <2>2, <2>3, <2>4
    <2> QED BY <2>5 DEF d, y
<1>12. \A o : PlainPlaces(file.nals, o) => Passed(o)'
    <2> SUFFICES ASSUME NEW o, PlainPlaces(file.nals, o) PROVE Passed(o)'
        OBVIOUS
    <2>1. /\ passes > 0 /\ Repeats(all, plain)
          /\ Len(all) = (passes - 1) * Len(plain) + o[at - 1]
        BY <1>8
    <2>2. (Bytes(sent) \o Pending)' = all
        BY <1>6 DEF c
    <2> QED BY <1>1, <2>1, <2>2 DEF Passed, Repeats
<1> QED BY <1>1, <1>6, <1>10, <1>11, <1>12 DEF ContentInv, Repeats, PlainPlaces

\* Reading adds the next unit to what is pending.
LEMMA ContentRead ==
    ASSUME IInv, ContentInv, ReadNAL, sctx' = sctx
    PROVE  ContentInv'
<1>1. /\ spc = "read" /\ file' = file /\ plain' = plain /\ passes' = passes /\ sent' = sent
    BY DEF ReadNAL, fileVars
<1>2. /\ file.nals \in Seq(Seq(Byte)) /\ plain = PlainAll(file.nals)
      /\ plain \in Seq(Byte) /\ Len(plain) \in Nat
      /\ at \in 1 .. Len(file.nals) + 1 /\ Len(file.nals) \in Nat
      /\ passes \in Nat /\ Bytes(sent) \in Seq(Byte) /\ sctx \in BOOLEAN
      /\ oFrames \in Seq(Seq(Byte)) /\ frames = <<>>
    BY <1>1, ContentTypes
<1>3. /\ FileCut /\ at \in Nat \ {0} /\ at <= Len(file.nals) + 1
      /\ GroupEmpty \/ GroupSps \/ GroupPair
    BY <1>1, <1>2 DEF IInv, SenderInv
<1>4. PICK k \in at .. Len(file.nals) :
         /\ at' = k + 1 /\ oFrames' = Append(oFrames, file.nals[k])
         /\ \A j \in at .. k - 1 : UnitType(file.nals[j]) = SEI
         /\ \/ ReadSps(file.nals[k]) \/ ReadOther(file.nals[k])
            \/ ReadPps(file.nals[k]) \/ ReadPicture(file.nals[k])
    BY <1>1, <1>2, <1>3, ReadStep
<1> DEFINE u == file.nals[k]
           a == Bytes(sent)
           p == Pending
<1>5. k \in 1 .. Len(file.nals) /\ at' - 1 = k
    BY <1>2, <1>3, <1>4
<1>6. u \in Seq(Byte) /\ PlainUnit(u) \in Seq(Byte)
    BY <1>2, <1>5, ElementOfSeq, PlainUnitType
<1>7. Underway /\ p = PlainAll(oFrames) /\ p \in Seq(Byte)
    BY <1>1, <1>2, PlainAllRow DEF Underway, Pending
<1>8. Underway' => Pending' = p \o PlainUnit(u)
    <2> SUFFICES ASSUME Underway' PROVE Pending' = p \o PlainUnit(u)
        OBVIOUS
    <2>1. /\ oFrames' = Append(oFrames, u)
          /\ ReadSps(u) \/ ReadOther(u) \/ ReadPps(u) \/ ReadPicture(u)
        BY <1>4
    <2> HIDE DEF u
    <2> QED BY <1>1, <1>2, <1>6, <2>1, ReadPending
<1>9. spc' # "open"
    BY <1>4 DEF ReadSps, ReadOther, ReadPps, ReadPicture
<1>10. Bytes(sent)' = a
    BY <1>1 DEF Bytes
<1>11. \A off : PlainPlaces(file.nals, off) => Passed(off)'
    <2> SUFFICES ASSUME NEW off, PlainPlaces(file.nals, off), Underway'
                 PROVE  /\ passes > 0
                        /\ Repeats((Bytes(sent) \o Pending)', plain)
                        /\ Len((Bytes(sent) \o Pending)') = (passes - 1) * Len(plain) + off[k]
        BY <1>1, <1>5, <1>9 DEF Passed, Repeats
    <2>1. /\ passes > 0 /\ Repeats(a \o p, plain)
          /\ Len(a \o p) = (passes - 1) * Len(plain) + off[at - 1]
        BY <1>7 DEF ContentInv, Passed
    <2>2. off[k - 1] = off[at - 1]
        <3>1. /\ file.nals \in Seq(Seq(Byte)) /\ at \in Nat \ {0} /\ k \in at .. Len(file.nals)
              /\ \A j \in at .. k - 1 : UnitType(file.nals[j]) = SEI
            BY <1>2, <1>3, <1>4
        <3> QED BY <3>1, PlacesOverSei
    <2>3. passes - 1 \in Nat
        BY <1>2, <2>1
    <2> HIDE DEF u, a, p
    <2>4. a \in Seq(Byte) /\ a \o p \in Seq(Byte)
        BY <1>2, <1>7, ConcatProperties DEF a
    <2>5. /\ Repeats((a \o p) \o PlainUnit(u), plain)
          /\ Len((a \o p) \o PlainUnit(u)) = (passes - 1) * Len(plain) + off[k]
        <3> DEFINE b == a \o p
        <3>1. /\ b \in Seq(Byte) /\ Repeats(b, PlainAll(file.nals))
              /\ Len(b) = (passes - 1) * Len(PlainAll(file.nals)) + off[k - 1]
            BY <1>2, <2>1, <2>2, <2>4
        <3> HIDE DEF b
        <3>2. /\ Repeats(b \o PlainUnit(file.nals[k]), PlainAll(file.nals))
              /\ Len(b \o PlainUnit(file.nals[k]))
                    = (passes - 1) * Len(PlainAll(file.nals)) + off[k]
            <4>1. /\ file.nals \in Seq(Seq(Byte)) /\ k \in 1 .. Len(file.nals)
                  /\ passes - 1 \in Nat
                BY <1>2, <1>5, <2>3
            <4> DEFINE nals == file.nals
                       q == passes - 1
            <4>2. /\ nals \in Seq(Seq(Byte)) /\ PlainPlaces(nals, off) /\ q \in Nat
                  /\ k \in 1 .. Len(nals) /\ b \in Seq(Byte) /\ Repeats(b, PlainAll(nals))
                  /\ Len(b) = q * Len(PlainAll(nals)) + off[k - 1]
                BY <3>1, <4>1
            <4> HIDE DEF nals, q
            <4>3. /\ Repeats(b \o PlainUnit(nals[k]), PlainAll(nals))
                  /\ Len(b \o PlainUnit(nals[k])) = q * Len(PlainAll(nals)) + off[k]
                BY <4>2, RepeatsGrow
            <4> QED BY <4>3 DEF nals, q
        <3> QED BY <1>2, <3>2 DEF b, u
    <2>6. (a \o p) \o PlainUnit(u) = a \o (p \o PlainUnit(u))
        <3>1. a \in Seq(Byte) /\ p \in Seq(Byte) /\ PlainUnit(u) \in Seq(Byte)
            BY <1>6, <1>7, <2>4
        <3> DEFINE b == PlainUnit(u)
        <3> HIDE DEF b
        <3>2. b \in Seq(Byte)
            BY <3>1 DEF b
        <3>3. (a \o p) \o b = a \o (p \o b)
            BY <3>1, <3>2, Associative, SMTT(40)
        <3> QED BY <3>3 DEF b
    <2>7. (Bytes(sent) \o Pending)' = (a \o p) \o PlainUnit(u)
        BY <1>8, <1>10, <2>6
    <2> QED BY <2>1, <2>5, <2>7
<1>12. Repeats(a, plain) /\ Len(a) <= passes * Len(plain)
    BY DEF ContentInv
<1> QED BY <1>1, <1>10, <1>11, <1>12 DEF ContentInv, Repeats, PlainPlaces

\* At the end of the file nothing is pending.
LEMMA EndOfFile ==
    ASSUME IInv, spc = "read", NextNAL(file, at).err # "nil"
    PROVE  at = Len(file.nals) + 1 /\ oFrames = <<>>
<1>1. /\ file \in CutFile /\ at \in Nat \ {0} /\ at <= Len(file.nals) + 1
      /\ GroupEmpty \/ GroupSps \/ GroupPair
    BY DEF IInv, FileCut, TypeOK, SenderTypes, SenderInv
<1>2. Len(file.nals) \in Nat /\ at \in 1 .. Len(file.nals) + 1
    BY <1>1, OrderedFacts
<1>3. at > Len(file.nals)
    BY <1>1, NextNALFinds
<1>4. ~GroupSps
    BY <1>1, <1>2, <1>3, NextAfterSps DEF GroupSps
<1>5. ~GroupPair
    BY <1>1, <1>2, <1>3, NextAfterPair DEF GroupPair
<1> QED BY <1>1, <1>2, <1>3, <1>4, <1>5 DEF GroupEmpty

\* Steps in which nothing is sent and no unit is read.
LEMMA ContentOthers ==
    ASSUME IInv, ContentInv,
           Open \/ Stop \/ NewGroup \/ ReadFails \/ WriteFails \/ GroupWritten, sctx' = sctx
    PROVE  ContentInv'
<1>1. /\ file' = file /\ plain' = plain /\ sent' = sent /\ frames' = frames
    BY DEF fileVars, Open, Stop, NewGroup, ReadFails, WriteFails, GroupWritten
<1>2. /\ plain \in Seq(Byte) /\ Len(plain) \in Nat /\ passes \in Nat
      /\ Bytes(sent) \in Seq(Byte) /\ Len(Bytes(sent)) \in Nat
      /\ spc \in {"open", "group", "read"} => frames = <<>>
      /\ \A off : PlainPlaces(file.nals, off) =>
            off[0] = 0 /\ off[Len(file.nals)] = Len(plain) /\ off[at - 1] \in Nat
      /\ at \in 1 .. Len(file.nals) + 1 /\ Len(file.nals) \in Nat
    BY ContentTypes
<1> DEFINE a == Bytes(sent)
           x == passes * Len(plain)
<1>3. Bytes(sent)' = a
    BY <1>1 DEF Bytes
<1>4. Repeats(a, plain) /\ Len(a) <= x
    BY DEF ContentInv
<1>5. a \o <<>> = a /\ Waiting(<<>>) = <<>> /\ PlainAll(<<>>) = <<>>
    BY <1>2, ConcatEmptySeq, WaitingOf, PlainAllRow
<1>6. x \in Nat /\ (passes + 1) * Len(plain) = x + Len(plain)
    BY <1>2, TimesNext
<1>7. ASSUME passes' = passes, \A off : PlainPlaces(file.nals, off) => Passed(off)'
      PROVE  ContentInv'
    BY <1>1, <1>3, <1>4, <1>7 DEF ContentInv, Repeats, PlainPlaces
<1>8. CASE Open
    <2>1. /\ spc = "open" /\ sctx /\ passes' = passes + 1 /\ at' = 1 /\ spc' = "group"
        BY <1>8 DEF Open, Running
    <2>2. Pending' = <<>>
        BY <1>1, <1>2, <1>5, <2>1 DEF Pending
    <2>3. (Bytes(sent) \o Pending)' = a
        BY <1>3, <1>5, <2>2
    <2>4. ASSUME NEW off, PlainPlaces(file.nals, off) PROVE Passed(off)'
        <3>1. Len(a) = x /\ off[0] = 0
            BY <1>2, <2>1, <2>4 DEF ContentInv, Passed
        <3>2. passes' > 0 /\ passes' - 1 = passes /\ at' - 1 = 0 /\ x + 0 = x
            BY <1>2, <1>6, <2>1
        <3>3. Len(a) = (passes' - 1) * Len(plain) + off[at' - 1]
            BY <3>1, <3>2
        <3> HIDE DEF a, x
        <3> QED BY <1>1, <1>4, <2>1, <2>3, <3>2, <3>3 DEF Passed, Repeats
    <2>5. Len(a) <= passes' * Len(plain)
        <3>1. passes' * Len(plain) = x + Len(plain)
            BY <1>6, <2>1
        <3> HIDE DEF x, a
        <3>2. Len(a) \in Nat
            BY <1>2 DEF a
        <3> QED BY <1>2, <1>4, <1>6, <3>1, <3>2
    <2> HIDE DEF a
    <2> QED BY <1>1, <1>3, <1>4, <2>4, <2>5 DEF ContentInv, Repeats, PlainPlaces
<1>9. CASE Stop \/ WriteFails
    <2>1. spc' = "stopped" /\ passes' = passes
        BY <1>9 DEF Stop, WriteFails
    <2>2. \A off : Passed(off)'
        BY <2>1 DEF Passed, Underway
    <2> QED BY <1>7, <2>1, <2>2
<1>10. CASE NewGroup
    <2>1. spc = "group" /\ sctx /\ spc' = "read" /\ oFrames' = <<>> /\ at' = at /\ passes' = passes
        BY <1>10 DEF NewGroup, Running
    <2>2. Pending = <<>> /\ Pending' = <<>> /\ Underway
        BY <1>2, <1>5, <2>1 DEF Pending, Underway
    <2>3. (Bytes(sent) \o Pending)' = Bytes(sent) \o Pending
        BY <1>3, <2>2
    <2>4. ASSUME NEW off, PlainPlaces(file.nals, off) PROVE Passed(off)'
        <3>1. /\ passes > 0
              /\ Repeats(Bytes(sent) \o Pending, plain)
              /\ Len(Bytes(sent) \o Pending) = (passes - 1) * Len(plain) + off[at - 1]
            BY <2>2, <2>4 DEF ContentInv, Passed
        <3> QED BY <1>1, <2>1, <2>3, <3>1 DEF Passed, Repeats
    <2> QED BY <1>7, <2>1, <2>4
<1>11. CASE ReadFails
    <2>1. /\ spc = "read" /\ NextNAL(file, at).err # "nil" /\ passes' = passes /\ at' = at
          /\ spc' = "open" \/ spc' = "stopped"
        BY <1>11 DEF ReadFails
    <2>2. at = Len(file.nals) + 1 /\ oFrames = <<>>
        BY <2>1, EndOfFile
    <2>3. Pending = <<>> /\ Underway /\ ~Underway'
        BY <1>5, <2>1, <2>2 DEF Pending, Underway
    <2>4. ASSUME NEW off, PlainPlaces(file.nals, off) PROVE Passed(off)'
        <3>1. /\ passes > 0
              /\ Len(a) = (passes - 1) * Len(plain) + off[at - 1]
            BY <1>5, <2>3, <2>4 DEF ContentInv, Passed
        <3>2. at - 1 = Len(file.nals) /\ off[at - 1] = Len(plain)
            BY <1>2, <2>2, <2>4
        <3>3. (passes - 1) * Len(plain) + Len(plain) = x
            BY <1>2, <3>1, TimesNext
        <3>4. Len(a) = x
            BY <3>1, <3>2, <3>3
        <3> HIDE DEF a
        <3> QED BY <1>1, <1>3, <2>1, <2>3, <3>4 DEF Passed
    <2> QED BY <1>7, <2>1, <2>4
<1>12. CASE GroupWritten
    <2>1. /\ spc = "write" /\ frames = <<>> /\ spc' = "group" /\ at' = at /\ passes' = passes
        BY <1>12 DEF GroupWritten, Written
    <2>2. Pending = <<>> /\ Pending' = <<>> /\ (Underway' => Underway)
        BY <1>1, <1>5, <2>1 DEF Pending, Underway
    <2>3. (Bytes(sent) \o Pending)' = Bytes(sent) \o Pending
        BY <1>3, <2>2
    <2>4. ASSUME NEW off, PlainPlaces(file.nals, off) PROVE Passed(off)'
        <3>1. Underway =>
                 /\ passes > 0
                 /\ Repeats(Bytes(sent) \o Pending, plain)
                 /\ Len(Bytes(sent) \o Pending) = (passes - 1) * Len(plain) + off[at - 1]
            BY <2>4 DEF ContentInv, Passed
        <3> QED BY <1>1, <2>1, <2>2, <2>3, <3>1 DEF Passed, Repeats
    <2> QED BY <1>7, <2>1, <2>4
<1> QED BY <1>8, <1>9, <1>10, <1>11, <1>12

\* Steps that change nothing the sender keeps, and cancellation.
LEMMA ContentStays ==
    ASSUME IInv, ContentInv,
           /\ file' = file /\ plain' = plain /\ at' = at /\ spc' = spc /\ passes' = passes
           /\ oFrames' = oFrames /\ frames' = frames /\ sent' = sent,
           sctx' = sctx \/ sctx' = FALSE
    PROVE  ContentInv'
<1>1. Bytes(sent)' = Bytes(sent) /\ Pending' = Pending
    BY DEF Bytes, Pending, Waiting, PlainAll
<1>2. Underway' => Underway
    <2>1. sctx' => sctx
        OBVIOUS
    <2> QED BY <2>1 DEF Underway
<1>3. ASSUME NEW off, PlainPlaces(file.nals, off) PROVE Passed(off)'
    <2>1. Passed(off)
        BY <1>3 DEF ContentInv
    <2>2. (Bytes(sent) \o Pending)' = Bytes(sent) \o Pending
        BY <1>1
    <2>3. spc' = "open" /\ sctx' => Len(Bytes(sent)') = passes' * Len(plain')
        BY <1>1, <2>1 DEF Passed
    <2>4. Underway' =>
             /\ passes' > 0
             /\ Repeats((Bytes(sent) \o Pending)', plain')
             /\ Len((Bytes(sent) \o Pending)') = (passes' - 1) * Len(plain') + off[at' - 1]
        BY <1>2, <2>1, <2>2 DEF Passed
    <2> QED BY <2>3, <2>4 DEF Passed, Repeats
<1> QED BY <1>1, <1>3 DEF ContentInv, Repeats, PlainPlaces

\* What arrives, as long as nothing is lost or overtaken: before the first key
\* frame everything is under way, then it is recorded or under way, until the
\* file is closed.
ArrivedInv ==
    faults = 0 =>
        /\ ~hasKeyFrame => wire = sent
        /\ hasKeyFrame /\ dv_h264 = "open" => recorded \o Bytes(wire) = Bytes(sent)
        /\ \E rest \in Seq(Byte) : recorded \o rest = Bytes(sent)

\* Bytes, one row after another.
LEMMA BytesAssociative ==
    \A a, b, c \in Seq(Byte) : (a \o b) \o c = a \o (b \o c)
BY Associative

\* More is sent.
LEMMA ArrivedSend ==
    ASSUME ArrivedInv, sent \in Seq(GoodPacket), wire \in Seq(GoodPacket),
           recorded \in Seq(Byte), NEW P \in Seq(GoodPacket),
           sent' = sent \o P, wire' = wire \o P,
           UNCHANGED <<hasKeyFrame, dv_h264, recorded, faults>>
    PROVE  ArrivedInv'
<1> SUFFICES ASSUME faults = 0
             PROVE  /\ ~hasKeyFrame => wire' = sent'
                    /\ hasKeyFrame /\ dv_h264 = "open" => recorded \o Bytes(wire)' = Bytes(sent)'
                    /\ \E rest \in Seq(Byte) : recorded \o rest = Bytes(sent)'
    BY DEF ArrivedInv
<1> DEFINE a == Bytes(sent)
           w == Bytes(wire)
           b == Bytes(P)
<1>1. /\ a \in Seq(Byte) /\ w \in Seq(Byte) /\ b \in Seq(Byte)
      /\ Bytes(sent \o P) = a \o b /\ Bytes(wire \o P) = w \o b
    BY GoodPackets, BytesRow
<1>2. Bytes(sent)' = a \o b /\ Bytes(wire)' = w \o b
    BY <1>1 DEF Bytes
<1>3. \A rest \in Seq(Byte) : recorded \o rest = a =>
         recorded \o (rest \o b) = a \o b /\ rest \o b \in Seq(Byte)
    <2> HIDE DEF a, b, w
    <2> TAKE rest \in Seq(Byte)
    <2>1. (recorded \o rest) \o b = recorded \o (rest \o b)
        <3>1. b \in Seq(Byte)
            BY <1>1
        <3> QED BY <3>1, BytesAssociative
    <2>2. rest \o b \in Seq(Byte)
        BY <1>1, ConcatProperties
    <2> QED BY <2>1, <2>2
<1>4. ~hasKeyFrame => wire' = sent'
    BY DEF ArrivedInv
<1>5. hasKeyFrame /\ dv_h264 = "open" => recorded \o w = a
    BY DEF ArrivedInv
<1>6. PICK rest \in Seq(Byte) : recorded \o rest = a
    BY DEF ArrivedInv
<1> HIDE DEF a, b, w
<1>7. hasKeyFrame /\ dv_h264 = "open" => recorded \o (w \o b) = a \o b
    BY <1>1, <1>3, <1>5
<1>8. \E r \in Seq(Byte) : recorded \o r = a \o b
    BY <1>3, <1>6
<1> QED BY <1>2, <1>4, <1>7, <1>8

\* A packet is read: the first one is a key frame, and recorded if the file is
\* open.
LEMMA ArrivedRead ==
    ASSUME ArrivedInv, FirstIsPair, RecorderInv, hasKeyFrame \in BOOLEAN,
           sent \in Seq(GoodPacket), wire \in Seq(GoodPacket), recorded \in Seq(Byte),
           ReadRTP, sent' = sent, faults' = faults
    PROVE  ArrivedInv'
<1> SUFFICES ASSUME faults = 0
             PROVE  /\ ~hasKeyFrame' => wire' = sent
                    /\ hasKeyFrame' /\ dv_h264 = "open" => recorded' \o Bytes(wire)' = Bytes(sent)
                    /\ \E rest \in Seq(Byte) : recorded' \o rest = Bytes(sent)
    BY DEF ArrivedInv, ReadRTP, Bytes
<1> DEFINE h == Head(wire)
           t == Tail(wire)
           p == h.payload
           a == Bytes(sent)
           x == Output(p)
           y == Bytes(t)
<1>1. /\ wire # <<>> /\ wire' = t
      /\ hasKeyFrame' = (hasKeyFrame \/ IsKeyFrame(p))
      /\ recorded' = IF hasKeyFrame' /\ dv_h264 = "open" THEN recorded \o x ELSE recorded
    BY DEF ReadRTP
<1>2. h \in GoodPacket /\ t \in Seq(GoodPacket) /\ h \in Carrying
    BY <1>1, HeadTailProperties, GoodPackets
<1>3. wire = <<h>> \o t
    <2>1. Len(wire) \in Nat /\ Len(wire) > 0 /\ Len(t) = Len(wire) - 1 /\ h = wire[1]
          /\ \A i \in 1 .. Len(t) : t[i] = wire[i + 1]
        BY <1>1, EmptySeq, HeadTailProperties
    <2>2. <<h>> \in Seq(GoodPacket) /\ Len(<<h>>) = 1 /\ <<h>>[1] = h
        BY <1>2
    <2> HIDE DEF h, t
    <2> DEFINE g == <<h>>
               j == g \o t
    <2>3. /\ j \in Seq(GoodPacket) /\ Len(j) = Len(g) + Len(t)
          /\ \A i \in 1 .. Len(g) + Len(t) : j[i] = IF i <= Len(g) THEN g[i] ELSE t[i - Len(g)]
        BY <1>2, <2>2, ConcatProperties
    <2> HIDE DEF g, j
    <2>4. Len(g) = 1 /\ g[1] = h
        BY <2>2 DEF g
    <2>5. Len(j) = Len(wire)
        BY <2>1, <2>3, <2>4
    <2>6. \A i \in 1 .. Len(wire) : wire[i] = j[i]
        <3> TAKE i \in 1 .. Len(wire)
        <3>1. CASE i = 1
            BY <2>1, <2>3, <2>4, <3>1
        <3>2. CASE i # 1
            <4>1. /\ i \in 1 .. 1 + Len(t) /\ ~(i <= 1) /\ i - 1 \in 1 .. Len(t)
                  /\ (i - 1) + 1 = i
                BY <2>1, <3>2
            <4>2. j[i] = t[i - 1]
                BY <2>3, <2>4, <4>1
            <4>3. t[i - 1] = wire[(i - 1) + 1]
                BY <2>1, <4>1
            <4> QED BY <4>1, <4>2, <4>3
        <3> QED BY <3>1, <3>2
    <2>7. wire = j
        BY <2>3, <2>5, <2>6, SeqEqual
    <2> QED BY <2>7 DEF j, g
<1>4. /\ x \in Seq(Byte) /\ y \in Seq(Byte) /\ a \in Seq(Byte)
      /\ Bytes(wire) = x \o y /\ Bytes(wire)' = y
    <2>1. y \in Seq(Byte) /\ a \in Seq(Byte) /\ Bytes(<<h>>) = x
        BY <1>2, GoodPackets, BytesRow
    <2>2. <<h>> \in Seq(Carrying) /\ t \in Seq(Carrying)
        BY <1>2, GoodPackets
    <2>3. Bytes(<<h>> \o t) = Bytes(<<h>>) \o y /\ Bytes(<<h>>) \in Seq(Byte)
        BY <2>2, BytesRow
    <2>4. Bytes(wire)' = y
        BY <1>1 DEF Bytes
    <2> QED BY <1>3, <2>1, <2>3, <2>4
<1>5. /\ ~hasKeyFrame => wire = sent
      /\ hasKeyFrame /\ dv_h264 = "open" => recorded \o Bytes(wire) = a
      /\ \E rest \in Seq(Byte) : recorded \o rest = a
    BY DEF ArrivedInv
<1>6. ~hasKeyFrame => IsKeyFrame(p) /\ recorded = <<>>
    <2> SUFFICES ASSUME ~hasKeyFrame PROVE IsKeyFrame(p) /\ recorded = <<>>
        OBVIOUS
    <2>1. wire = sent /\ recorded = <<>>
        BY <1>5 DEF RecorderInv
    <2>2. sent # <<>> /\ h = sent[1]
        BY <1>1, <2>1
    <2>3. KeyPayload(p)
        BY <2>2 DEF FirstIsPair
    <2>4. PICK s \in SpsNal, q \in PpsNal : p.type = STAPA /\ p.data = <<s, q>>
        BY <2>3 DEF KeyPayload
    <2>5. UnitType(s) = SPS /\ p.data[1] = s
        BY <2>4, Parameters
    <2>6. UnitType(p.data[1]) = SPS
        BY <2>5
    <2> HIDE DEF p
    <2> QED BY <2>1, <2>4, <2>6 DEF IsKeyFrame
<1>7. hasKeyFrame' = TRUE
    BY <1>1, <1>6
<1> HIDE DEF h, t, p, a, x, y
<1>8. CASE dv_h264 = "open"
    <2>1. recorded' = recorded \o x
        BY <1>1, <1>7, <1>8
    <2>2. recorded \o (x \o y) = a
        <3>1. CASE hasKeyFrame
            BY <1>4, <1>5, <1>8, <3>1
        <3>2. CASE ~hasKeyFrame
            <4>1. recorded = <<>> /\ x \o y = a
                BY <1>4, <1>5, <1>6, <3>2 DEF a
            <4> QED BY <1>4, <4>1, ConcatEmptySeq
        <3> QED BY <3>1, <3>2
    <2>3. (recorded \o x) \o y = recorded \o (x \o y)
        BY <1>4, Associative, SMTT(40)
    <2>4. recorded' \o y = a
        BY <2>1, <2>2, <2>3
    <2> QED BY <1>4, <1>7, <2>4 DEF a
<1>9. CASE dv_h264 # "open"
    BY <1>1, <1>5, <1>7, <1>9 DEF a
<1> QED BY <1>8, <1>9

\* At first nothing is sent, and no byte of the file has been passed.
LEMMA InitContent == Init => ContentInv /\ ArrivedInv
<1> SUFFICES ASSUME Init PROVE ContentInv /\ ArrivedInv
    OBVIOUS
<1>1. /\ at = 1 /\ spc = "open" /\ passes = 0 /\ sent = <<>> /\ wire = <<>>
      /\ hasKeyFrame = FALSE /\ recorded = <<>>
    BY DEF Init, SenderInit
<1>2. Bytes(sent) = <<>> /\ Len(<<>>) = 0 /\ <<>> \in Seq(Byte) /\ <<>> \o <<>> = <<>>
    BY <1>1, BytesRow, EmptySeq, ConcatEmptySeq
<1>3. Len(plain) \in Nat
    BY InitInv, ContentTypes
<1>4. passes * Len(plain) = 0
    BY <1>1, <1>3
<1>5. \A off : Passed(off)
    BY <1>1, <1>2, <1>4 DEF Passed, Underway
<1>6. ContentInv
    <2>1. Repeats(Bytes(sent), plain)
        BY <1>2 DEF Repeats
    <2> QED BY <1>2, <1>4, <1>5, <2>1 DEF ContentInv
<1>7. ArrivedInv
    <2>1. recorded \o <<>> = Bytes(sent)
        BY <1>1, <1>2
    <2> QED BY <1>1, <1>2, <2>1 DEF ArrivedInv
<1> QED BY <1>6, <1>7

\* Every step keeps the contents.
LEMMA NextContent == IInv /\ ContentInv /\ [Next]_vars => ContentInv'
<1> SUFFICES ASSUME IInv, ContentInv, [Next]_vars PROVE ContentInv'
    OBVIOUS
<1>1. CASE Sender
    <2>1. sctx' = sctx
        BY <1>1 DEF Sender
    <2> QED BY <1>1, <2>1, ContentRead, ContentWrite, ContentOthers DEF Sender
<1>2. CASE Receiver \/ Network \/ ReceiverCancelled \/ SenderCancelled \/ UNCHANGED vars
    <2>1. /\ file' = file /\ plain' = plain /\ at' = at /\ spc' = spc /\ passes' = passes
          /\ oFrames' = oFrames /\ frames' = frames /\ sent' = sent
          /\ sctx' = sctx \/ sctx' = FALSE
        BY <1>2 DEF Receiver, Network, ReceiverCancelled, SenderCancelled, vars, senderSide,
                    fileVars, senderVars
    <2> QED BY <2>1, ContentStays
<1> QED BY <1>1, <1>2 DEF Next, Done

\* Every step keeps what arrives.
LEMMA NextArrived == IInv /\ ArrivedInv /\ [Next]_vars => ArrivedInv'
<1> SUFFICES ASSUME IInv, ArrivedInv, [Next]_vars PROVE ArrivedInv'
    OBVIOUS
<1>1. /\ sent \in Seq(GoodPacket) /\ wire \in Seq(GoodPacket) /\ timestamp \in Nat
      /\ recorded \in Seq(Byte) /\ hasKeyFrame \in BOOLEAN
      /\ faults \in 0 .. MaxFaults /\ MaxFaults \in Nat
      /\ FirstIsPair /\ RecorderInv
    BY CallAssumption DEF IInv, TypeOK, SenderTypes, PacketsInv, PacketsGood
<1>2. CASE Sender /\ UNCHANGED <<recorderVars, faults>> /\ WriteSample
    <2>1. UNCHANGED <<hasKeyFrame, dv_h264, recorded, faults>>
        BY <1>2 DEF recorderVars
    <2>2. NothingLeft \/ PictureLeft \/ GroupLeft \/ PairLeft
        BY <1>2 DEF IInv, SenderInv, WriteSample
    <2>3. PICK P \in Seq(GoodPacket) : sent' = sent \o P /\ wire' = wire \o P
        BY <1>1, <1>2, <2>2, WritePending
    <2> QED BY <1>1, <2>1, <2>3, ArrivedSend
<1>3. CASE Receiver /\ ReadRTP
    <2>1. sent' = sent /\ faults' = faults
        BY <1>3 DEF Receiver, senderSide
    <2> QED BY <1>1, <1>3, <2>1, ArrivedRead
<1>4. CASE Network
    <2>1. faults' # 0
        BY <1>1, <1>4 DEF Network
    <2> QED BY <2>1 DEF ArrivedInv
<1>5. ASSUME sent' = sent, wire' = wire, hasKeyFrame' = hasKeyFrame, recorded' = recorded,
             faults' = faults, hasKeyFrame /\ dv_h264' = "open" => dv_h264 = "open"
      PROVE  ArrivedInv'
    BY <1>5 DEF ArrivedInv, Bytes
<1>6. CASE Sender /\ UNCHANGED <<recorderVars, faults>> /\ ~WriteSample
    <2>1. sent' = sent /\ wire' = wire
        BY <1>6 DEF Sender, Open, Stop, NewGroup, ReadNAL, ReadFails, WriteFails, GroupWritten
    <2> QED BY <1>5, <1>6, <2>1 DEF recorderVars
<1>7. CASE Receiver /\ ~ReadRTP
    <2>1. sent' = sent /\ faults' = faults
        BY <1>7 DEF Receiver, senderSide
    <2>2. /\ wire' = wire /\ hasKeyFrame' = hasKeyFrame /\ recorded' = recorded
          /\ hasKeyFrame /\ dv_h264' = "open" => dv_h264 = "open"
        BY <1>1, <1>7 DEF Receiver, TrackStarts, FileFails, TrackFails, TrackReturns, DoClose, PliReturns,
                          MediaFuncReturns, RecorderInv
    <2> QED BY <1>5, <2>1, <2>2
<1>8. CASE SenderCancelled \/ ReceiverCancelled \/ UNCHANGED vars
    <2>1. /\ sent' = sent /\ wire' = wire /\ hasKeyFrame' = hasKeyFrame
          /\ recorded' = recorded /\ faults' = faults /\ dv_h264' = dv_h264
        BY <1>8 DEF SenderCancelled, ReceiverCancelled, vars, senderSide, recorderVars
    <2> QED BY <1>5, <2>1
<1> QED BY <1>2, <1>3, <1>4, <1>6, <1>7, <1>8 DEF Next, Done

\* The recording repeats the file, as far as it goes.
LEMMA ContentSeen ==
    ASSUME IInv, ContentInv, ArrivedInv
    PROVE  SameVideo
<1> SUFFICES ASSUME faults = 0
             PROVE  /\ Len(recorded) <= passes * Len(plain)
                    /\ \A k \in 1 .. Len(recorded) :
                          recorded[k] = plain[((k - 1) % Len(plain)) + 1]
    BY DEF SameVideo
<1>1. PICK rest \in Seq(Byte) : recorded \o rest = Bytes(sent)
    BY DEF ArrivedInv
<1>2. recorded \in Seq(Byte)
    BY DEF IInv, TypeOK
<1>3. Repeats(Bytes(sent), plain) /\ Len(Bytes(sent)) <= passes * Len(plain)
    BY DEF ContentInv
<1>4. Repeats(recorded, plain)
    <2>1. Repeats(recorded \o rest, plain)
        BY <1>1, <1>3
    <2> QED BY <1>2, <2>1, RepeatsBefore
<1>5. Len(recorded) <= passes * Len(plain)
    <2> DEFINE x == passes * Len(plain)
    <2>1. x \in Nat
        BY ContentTypes, TimesNext
    <2>2. /\ Len(recorded \o rest) = Len(recorded) + Len(rest)
          /\ Len(recorded) \in Nat /\ Len(rest) \in Nat
        BY <1>2, ConcatProperties, LenProperties
    <2> HIDE DEF x
    <2>3. Len(recorded) + Len(rest) <= x
        BY <1>1, <1>3, <2>2 DEF x
    <2> QED BY <2>1, <2>2, <2>3 DEF x
<1> QED BY <1>4, <1>5 DEF Repeats

\* What is recorded is what was in the file, byte for byte and pass after pass,
\* as long as no packet is lost or overtaken: SEI units, delimiters, filler and
\* units of one or two bytes aside (Arrives), whatever units the file has and
\* however they are grouped into samples, packed together or cut into pieces,
\* nothing is missing, repeated or in another place, and nothing is recorded
\* that was not sent, whenever either side is cancelled (ingester.go:96,
\* h264_packet.go:158, h264writer.go:53).
THEOREM VideoArrives == Spec => []SameVideo
<1>1. Init => IInv /\ ContentInv /\ ArrivedInv
    BY InitInv, InitContent
<1>2. (IInv /\ ContentInv /\ ArrivedInv) /\ [Next]_vars => (IInv /\ ContentInv /\ ArrivedInv)'
    BY NextInv, NextContent, NextArrived
<1>3. IInv /\ ContentInv /\ ArrivedInv => SameVideo
    BY ContentSeen
<1> QED BY <1>1, <1>2, <1>3, PTL DEF Spec
=============================================================================
