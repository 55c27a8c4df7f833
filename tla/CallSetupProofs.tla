---------------------------- MODULE CallSetupProofs ----------------------------
(***************************************************************************)
(* Proofs about CallSetup, for every set of profiles and of offers that    *)
(* its assumptions allow: that a profile which is accepted has everything  *)
(* for each agent, and that the descriptions that are edited fit.          *)
(*                                                                         *)
(* Range patterns flatten a sequence of sequences, which SequencesExt does *)
(* with a recursive function.  That the result is a sequence needs         *)
(* induction; it is done here with sets of numbers, from the theorem that  *)
(* a set with a well-founded relation has a minimal element.               *)
(***************************************************************************)
EXTENDS CallSetup, SequenceTheorems, WellFoundedInduction, TLAPS

-----------------------------------------------------------------------------
(***************************************************************************)
(* Numbers and flattened sequences.                                        *)
(***************************************************************************)

\* A set of natural numbers has a least one.
LEMMA LeastNumber ==
  ASSUME NEW T, T \subseteq Nat, T # {}
  PROVE  \E x \in T : \A y \in T : x <= y
<1> DEFINE R == OpToRel(<, Nat)
<1>1. IsWellFoundedOn(R, Nat)
  BY NatLessThanWellFounded
<1>2. PICK x \in T : \A y \in T : ~ (<<y, x>> \in R)
  <2> HIDE DEF R
  <2> QED BY <1>1, WFMin
<1>3. ASSUME NEW y \in T, ~(x <= y) PROVE FALSE
  <2>1. y < x /\ x \in Nat /\ y \in Nat
    BY <1>3
  <2>2. <<y, x>> \in R
    BY <2>1 DEF OpToRel
  <2> QED BY <1>2, <2>2
<1> QED BY <1>3

\* Induction, as a statement about a set.
LEMMA NumberInduction ==
  ASSUME NEW S, 0 \in S, \A n \in Nat : n \in S => n + 1 \in S
  PROVE  Nat \subseteq S
<1> SUFFICES ASSUME Nat \ S # {} PROVE FALSE
  OBVIOUS
<1>1. PICK x \in Nat \ S : \A y \in Nat \ S : x <= y
  BY LeastNumber
<1>2. x # 0 /\ x - 1 \in Nat /\ x = (x - 1) + 1
  OBVIOUS
<1>3. x - 1 \in S
  BY <1>1, <1>2
<1> QED BY <1>2, <1>3

\* What FlattenSeq computes, step by step: f[i] is the first i sequences joined.
LEMMA Flattening ==
  ASSUME NEW S, NEW seqs \in Seq(Seq(S)), seqs # <<>>
  PROVE  \E f \in [1 .. Len(seqs) -> Seq(S)] :
            /\ FlattenSeq(seqs) = f[Len(seqs)]
            /\ f[1] = seqs[1]
            /\ \A i \in 1 .. Len(seqs) - 1 : f[i + 1] = f[i] \o seqs[i + 1]
<1> DEFINE N == Len(seqs)
           UpTo(n, g) == /\ n > 0 => g[1] = seqs[1]
                         /\ \A i \in 1 .. n - 1 : g[i + 1] = g[i] \o seqs[i + 1]
           K == {n \in Nat : n <= N => \E g \in [1 .. n -> Seq(S)] : UpTo(n, g)}
<1>0. N \in Nat /\ N > 0 /\ \A i \in 1 .. N : seqs[i] \in Seq(S)
  BY EmptySeq, LenProperties, ElementOfSeq
<1> HIDE DEF N
<1>1. 0 \in K
  <2>1. [i \in 1 .. 0 |-> <<>>] \in [1 .. 0 -> Seq(S)]
    OBVIOUS
  <2>2. UpTo(0, [i \in 1 .. 0 |-> <<>>])
    OBVIOUS
  <2> QED BY <2>1, <2>2
<1>2. ASSUME NEW n \in Nat, n \in K PROVE n + 1 \in K
  <2>0. ASSUME n + 1 <= N
        PROVE  \E g \in [1 .. n + 1 -> Seq(S)] : UpTo(n + 1, g)
    <3>0. n <= N /\ n + 1 \in 1 .. N
      BY <1>0, <2>0
    <3>1. PICK g \in [1 .. n -> Seq(S)] : UpTo(n, g)
      <4> HIDE DEF UpTo
      <4> QED BY <1>2, <3>0
    <3> DEFINE x == IF n = 0 THEN seqs[1] ELSE g[n] \o seqs[n + 1]
               h == [i \in 1 .. n + 1 |-> IF i = n + 1 THEN x ELSE g[i]]
    <3>2. x \in Seq(S)
      <4>1. CASE n = 0 BY <4>1, <1>0
      <4>2. CASE n # 0
        <5>1. g[n] \in Seq(S) /\ seqs[n + 1] \in Seq(S)
          BY <4>2, <1>0, <3>0
        <5> QED BY <4>2, <5>1, ConcatProperties
      <4> QED BY <4>1, <4>2
    <3>3. h \in [1 .. n + 1 -> Seq(S)]
      <4> HIDE DEF x
      <4> QED BY <3>2
    <3>4. h[1] = seqs[1]
      BY <3>1
    <3>5. ASSUME NEW i \in 1 .. (n + 1) - 1 PROVE h[i + 1] = h[i] \o seqs[i + 1]
      <4>1. i \in 1 .. n + 1 /\ i + 1 \in 1 .. n + 1 /\ n # 0 /\ i # n + 1 /\ i \in 1 .. n
        OBVIOUS
      <4>2. CASE i = n
        BY <4>1, <4>2
      <4>3. CASE i # n
        <5>1. i \in 1 .. n - 1 /\ i + 1 # n + 1
          BY <4>1, <4>3
        <5>2. g[i + 1] = g[i] \o seqs[i + 1]
          BY <3>1, <5>1
        <5> QED BY <4>1, <5>1, <5>2
      <4> QED BY <4>2, <4>3
    <3> HIDE DEF h
    <3> QED BY <3>3, <3>4, <3>5
  <2> HIDE DEF UpTo
  <2> QED BY <2>0
<1>3. PICK g \in [1 .. N -> Seq(S)] : UpTo(N, g)
  <2>1. N \in K
    <3> HIDE DEF K
    <3> QED BY <1>0, <1>1, <1>2, NumberInduction
  <2> HIDE DEF UpTo
  <2> QED BY <2>1
<1> DEFINE fix(f) == f = [i \in 1 .. N |-> IF i = 1 THEN seqs[i] ELSE f[i - 1] \o seqs[i]]
           c == CHOOSE f : fix(f)
<1>4. fix(g)
  <2>1. ASSUME NEW i \in 1 .. N
        PROVE  g[i] = IF i = 1 THEN seqs[i] ELSE g[i - 1] \o seqs[i]
    <3>1. CASE i = 1
      BY <1>0, <1>3, <3>1
    <3>2. CASE i # 1
      <4>1. i - 1 \in 1 .. N - 1 /\ (i - 1) + 1 = i
        BY <1>0, <3>2
      <4>2. g[(i - 1) + 1] = g[i - 1] \o seqs[(i - 1) + 1]
        BY <1>3, <4>1
      <4> QED BY <3>2, <4>1, <4>2
    <3> QED BY <3>1, <3>2
  <2> QED BY <2>1
<1>5. fix(c)
  <2> HIDE DEF fix
  <2> QED BY <1>4
<1>6. FlattenSeq(seqs) = c[N]
  BY <1>0 DEF FlattenSeq, N
<1> HIDE DEF c
<1>7. UpTo(N, c)
  <2>1. \A i \in 1 .. N : c[i] = IF i = 1 THEN seqs[i] ELSE c[i - 1] \o seqs[i]
    BY <1>5
  <2>2. 1 \in 1 .. N
    BY <1>0
  <2>3. ASSUME NEW i \in 1 .. N - 1 PROVE c[i + 1] = c[i] \o seqs[i + 1]
    <3>1. i + 1 \in 1 .. N /\ i + 1 # 1 /\ (i + 1) - 1 = i
      BY <1>0
    <3>2. c[i + 1] = c[(i + 1) - 1] \o seqs[i + 1]
      BY <2>1, <3>1, Zenon
    <3> QED BY <3>1, <3>2
  <2> QED BY <2>1, <2>2, <2>3
<1> DEFINE L == {n \in Nat : \A i \in 1 .. N : i <= n => c[i] \in Seq(S)}
<1>8. 0 \in L
  OBVIOUS
<1>9. ASSUME NEW n \in Nat, n \in L PROVE n + 1 \in L
  <2> SUFFICES ASSUME n + 1 <= N PROVE c[n + 1] \in Seq(S)
    BY <1>0, <1>9
  <2>1. CASE n = 0
    BY <2>1, <1>0, <1>7
  <2>2. CASE n # 0
    <3>1. n \in 1 .. N - 1 /\ n \in 1 .. N /\ n + 1 \in 1 .. N
      BY <1>0, <2>2
    <3>2. c[n] \in Seq(S) /\ seqs[n + 1] \in Seq(S)
      BY <1>0, <1>9, <3>1
    <3>3. c[n + 1] = c[n] \o seqs[n + 1]
      BY <1>7, <3>1
    <3> QED BY <3>2, <3>3, ConcatProperties
  <2> QED BY <2>1, <2>2
<1>10. N \in L
  <2> HIDE DEF L
  <2> QED BY <1>0, <1>8, <1>9, NumberInduction
<1>11. c \in [1 .. N -> Seq(S)]
  <2>1. \A i \in 1 .. N : c[i] \in Seq(S)
    BY <1>0, <1>10
  <2>2. c = [i \in 1 .. N |-> c[i]]
    BY <1>5
  <2> QED BY <2>1, <2>2
<1>12. c[1] = seqs[1] /\ \A i \in 1 .. N - 1 : c[i + 1] = c[i] \o seqs[i + 1]
  BY <1>0, <1>7
<1> HIDE DEF UpTo, K, L, fix
<1> QED BY <1>6, <1>11, <1>12 DEF N

\* Nothing joined is nothing.
LEMMA FlattenEmpty == FlattenSeq(<<>>) = <<>>
BY DEF FlattenSeq

\* Sequences over S joined are a sequence over S.
LEMMA FlattenType ==
  ASSUME NEW S, NEW seqs \in Seq(Seq(S))
  PROVE  FlattenSeq(seqs) \in Seq(S)
<1>1. CASE seqs = <<>>
  <2>1. FlattenSeq(seqs) = <<>>
    BY <1>1, FlattenEmpty
  <2> QED BY <2>1
<1>2. CASE seqs # <<>>
  <2>1. Len(seqs) \in 1 .. Len(seqs)
    BY <1>2, EmptySeq, LenProperties
  <2>2. PICK f \in [1 .. Len(seqs) -> Seq(S)] : FlattenSeq(seqs) = f[Len(seqs)]
    BY <1>2, Flattening
  <2> QED BY <2>1, <2>2
<1> QED BY <1>1, <1>2

-----------------------------------------------------------------------------
(***************************************************************************)
(* Profiles.                                                               *)
(***************************************************************************)

\* A part that is spelt right gives a sequence of names.
LEMMA NamesOfPart ==
    ASSUME NEW part \in Part, part.first <= part.last
    PROVE  \E S : Names(part) \in Seq(S)
<1> DEFINE times == IF part.repeat < 0 THEN 0 ELSE part.repeat
           count == part.last - part.first + 1
           n == count * times
           name(k) == part.first + IF part.each THEN (k - 1) \div times ELSE (k - 1) % count
<1>1. times \in Nat /\ count \in Nat
    BY DEF Part
<1>2. n \in Nat
    <2> HIDE DEF times, count
    <2> QED BY <1>1
<1>3. Names(part) = [k \in 1 .. n |-> name(k)]
    BY DEF Names
<1> DEFINE s == Names(part)
           S == {s[k] : k \in 1 .. n}
<1>4. DOMAIN s = 1 .. n /\ s = [k \in 1 .. n |-> s[k]]
    <2> HIDE DEF n, name
    <2> QED BY <1>3
<1> HIDE DEF n, s
<1>5. s \in Seq(S)
    BY <1>2, <1>4
<1> QED BY <1>5 DEF s

\* A pattern without an error gives a sequence.
LEMMA NamesOfPattern ==
    ASSUME NEW rp \in Pattern, ~IsError(rp)
    PROVE  \E S : parseRangePattern(rp) \in Seq(S)
<1> DEFINE names == [k \in 1 .. Len(rp) |-> Names(rp[k])]
           S == UNION {{Names(rp[k])[i] : i \in DOMAIN Names(rp[k])} : k \in 1 .. Len(rp)}
<1>0. Len(rp) \in Nat /\ \A k \in 1 .. Len(rp) : rp[k] \in Part /\ rp[k].first <= rp[k].last
    <2>1. rp \in Seq(Part) /\ Len(rp) \in Nat /\ DOMAIN rp = 1 .. Len(rp)
        BY DEF Pattern
    <2>2. ASSUME NEW k \in 1 .. Len(rp) PROVE rp[k] \in Part /\ rp[k].first <= rp[k].last
        <3>1. rp[k] \in Part /\ ~(rp[k].last < rp[k].first)
            BY <2>1 DEF IsError
        <3> QED BY <3>1 DEF Part
    <2> QED BY <2>1, <2>2
<1>1. ASSUME NEW k \in 1 .. Len(rp) PROVE Names(rp[k]) \in Seq(S)
    <2>1. PICK R : Names(rp[k]) \in Seq(R)
        BY <1>0, NamesOfPart
    <2> DEFINE s == Names(rp[k])
    <2>2. Len(s) \in Nat /\ DOMAIN s = 1 .. Len(s) /\ s = [i \in 1 .. Len(s) |-> s[i]]
        <3> HIDE DEF s
        <3> QED BY <2>1 DEF s
    <2>3. \A i \in 1 .. Len(s) : s[i] \in S
        <3>1. {Names(rp[k])[i] : i \in DOMAIN Names(rp[k])} \subseteq S
            BY Zenon
        <3>2. \A i \in DOMAIN s : s[i] \in {Names(rp[k])[j] : j \in DOMAIN Names(rp[k])}
            BY Zenon
        <3> HIDE DEF S, s
        <3> QED BY <2>2, <3>1, <3>2
    <2> HIDE DEF s, S
    <2>4. s \in Seq(S)
        BY <2>2, <2>3
    <2> QED BY <2>4 DEF s
<1> HIDE DEF S
<1>2. names \in Seq(Seq(S))
    BY <1>0, <1>1
<1> HIDE DEF names
<1>3. FlattenSeq(names) \in Seq(S)
    BY <1>2, FlattenType
<1> QED BY <1>3 DEF parseRangePattern, names

\* What a slice of names is long.
LEMMA SliceLength ==
    ASSUME NEW rp \in Pattern, ~IsError(rp)
    PROVE  /\ Len(parseRangePattern(rp)) \in Nat
           /\ DOMAIN parseRangePattern(rp) = 1 .. Len(parseRangePattern(rp))
BY NamesOfPattern
-----------------------------------------------------------------------------
(***************************************************************************)
(* Lines of an SDP.                                                        *)
(***************************************************************************)

\* strings.Index finds the first line with a prefix.
LEMMA IndexIsFirst ==
    ASSUME NEW sdp, Len(sdp) \in Nat, NEW prefix
    PROVE  LET k == Index(sdp, prefix) IN
           /\ k \in 0 .. Len(sdp)
           /\ k = 0 => \A i \in 1 .. Len(sdp) : sdp[i][1] # prefix
           /\ k # 0 => sdp[k][1] = prefix /\ \A i \in 1 .. k - 1 : sdp[i][1] # prefix
<1> DEFINE I == {i \in 1 .. Len(sdp) : sdp[i][1] = prefix}
           k == Index(sdp, prefix)
<1>0. Len(sdp) \in Nat
    OBVIOUS
<1>1. k = IF I # {} THEN Min(I) ELSE 0
    BY DEF Index, SelectInSeq
<1>2. CASE I = {}
    BY <1>0, <1>1, <1>2
<1>3. CASE I # {}
    <2>1. I \subseteq Nat
        BY <1>0
    <2> HIDE DEF I
    <2>2. \E x \in I : \A y \in I : x <= y
        BY <1>3, <2>1, LeastNumber
    <2>3. Min(I) \in I /\ \A y \in I : Min(I) <= y
        BY <2>2 DEF Min
    <2>4. k \in I /\ \A y \in I : k <= y
        BY <1>1, <1>3, <2>3
    <2> HIDE DEF k
    <2>5. k \in 1 .. Len(sdp) /\ sdp[k][1] = prefix
        BY <2>4 DEF I
    <2>6. ASSUME NEW i \in 1 .. k - 1 PROVE sdp[i][1] # prefix
        BY <1>0, <2>4, <2>5 DEF I
    <2> QED BY <1>0, <2>5, <2>6 DEF k
<1> QED BY <1>2, <1>3

\* The line that a section of a kind begins with.
MediaLine(kind) == IF kind = "video" THEN "m=video" ELSE "m=audio"

\* What is put at the end of a remote SDP.
Attributes == <<<<"a=sendrecv">>, <<"a=mid:0">>>>

\* It begins no section, and the lines before it stay where they are.
LEMMA AttributesAtEnd ==
    ASSUME NEW sdp \in Sdp
    PROVE  /\ DOMAIN sdp \subseteq DOMAIN (sdp \o Attributes)
           /\ MediaLines(sdp \o Attributes) = MediaLines(sdp)
           /\ \A k \in DOMAIN sdp : (sdp \o Attributes)[k] = sdp[k]
<1> DEFINE n == Len(sdp)
           more == sdp \o Attributes
           All == Line \cup {<<"a=sendrecv">>, <<"a=mid:0">>}
<1>1. n \in Nat /\ DOMAIN sdp = 1 .. n
    BY DEF Sdp
<1>2. /\ Attributes \in Seq(All) /\ Len(Attributes) = 2
      /\ Attributes[1] = <<"a=sendrecv">> /\ Attributes[2] = <<"a=mid:0">>
    BY DEF Attributes
<1>3. /\ more \in Seq(All) /\ Len(more) = n + 2
      /\ \A i \in 1 .. n + 2 : more[i] = IF i <= n THEN sdp[i] ELSE Attributes[i - n]
    <2>1. sdp \in Seq(All)
        <3>1. sdp \in Seq(Line) /\ Line \subseteq All
            BY DEF Sdp
        <3> HIDE DEF All
        <3> QED BY <3>1, SeqMonotonic
    <2> HIDE DEF All
    <2>2. /\ sdp \o Attributes \in Seq(All)
          /\ Len(sdp \o Attributes) = Len(sdp) + Len(Attributes)
          /\ \A i \in 1 .. Len(sdp) + Len(Attributes) :
                (sdp \o Attributes)[i] = IF i <= Len(sdp) THEN sdp[i]
                                         ELSE Attributes[i - Len(sdp)]
        BY <1>2, <2>1, ConcatProperties
    <2> QED BY <1>1, <1>2, <2>2
<1> HIDE DEF n, more
<1>4. DOMAIN more = 1 .. n + 2
    BY <1>3
<1>5. \A i \in 1 .. n : more[i] = sdp[i]
    BY <1>1, <1>3
<1>6. ASSUME NEW i \in (1 .. n + 2) \ (1 .. n)
      PROVE  more[i][1] \notin {"m=audio", "m=video"}
    <2>1. i = n + 1 \/ i = n + 2
        BY <1>1
    <2>2. more[i] = Attributes[i - n] /\ i - n \in {1, 2}
        BY <1>1, <1>3, <2>1
    <2>3. more[i] = <<"a=sendrecv">> \/ more[i] = <<"a=mid:0">>
        BY <1>2, <2>2
    <2> QED BY <2>3
<1>7. MediaLines(more) = MediaLines(sdp)
    BY <1>1, <1>4, <1>5, <1>6 DEF MediaLines
<1> QED BY <1>1, <1>3, <1>5, <1>7 DEF more

\* What FreeSWITCH offers, cut down to the preferred medium and with the two
\* attributes at its end, has one section: that of the call's kind.
LEMMA OneSectionLeft ==
    ASSUME NEW sdp \in Offers
    PROVE  \E k \in DOMAIN ForPion(sdp) :
              /\ MediaLines(ForPion(sdp)) = {k}
              /\ ForPion(sdp)[k][1] = MediaLine(KindOf(sdp))
<1> DEFINE audio == Index(sdp, "m=audio")
           video == Index(sdp, "m=video")
           n == Len(sdp)
<1>0. /\ sdp \in Sdp /\ n \in Nat /\ DOMAIN sdp = 1 .. n
      /\ MediaLines(sdp) # {}
      /\ \A j, k \in MediaLines(sdp) : sdp[j][1] = sdp[k][1] => j = k
    BY OffersAssumption DEF Sdp
<1>1. /\ audio \in 0 .. n
      /\ audio = 0 => \A i \in 1 .. n : sdp[i][1] # "m=audio"
      /\ audio # 0 => sdp[audio][1] = "m=audio"
    BY <1>0, IndexIsFirst
<1>2. /\ video \in 0 .. n
      /\ video = 0 => \A i \in 1 .. n : sdp[i][1] # "m=video"
      /\ video # 0 => sdp[video][1] = "m=video"
    BY <1>0, IndexIsFirst
<1>3. /\ Has(sdp, "m=audio") <=> audio # 0
      /\ Has(sdp, "m=video") <=> video # 0
    BY DEF Has
<1>4. WithoutAudio(sdp) = IF audio < video
                          THEN SubSeq(sdp, 1, audio - 1) \o SubSeq(sdp, video, n)
                          ELSE SubSeq(sdp, 1, audio - 1)
    BY DEF WithoutAudio
<1> HIDE DEF audio, video, n
\* The lines with media are these two.
<1>5. ASSUME NEW i \in 1 .. n
      PROVE  /\ sdp[i][1] = "m=audio" <=> audio # 0 /\ i = audio
             /\ sdp[i][1] = "m=video" <=> video # 0 /\ i = video
    BY <1>0, <1>1, <1>2 DEF MediaLines
<1>6. audio # 0 \/ video # 0
    BY <1>0, <1>5 DEF MediaLines
<1>7. audio # 0 /\ video # 0 => audio # video
    BY <1>1, <1>2
\* The two pieces of an SDP.
<1>8. ASSUME audio # 0
      PROVE  /\ SubSeq(sdp, 1, audio - 1) \in Sdp /\ Len(SubSeq(sdp, 1, audio - 1)) = audio - 1
             /\ \A i \in 1 .. audio - 1 : SubSeq(sdp, 1, audio - 1)[i] = sdp[i]
    <2>1. 1 \in Int /\ audio - 1 \in Int /\ \A i \in 1 .. audio - 1 : sdp[i] \in Line
        BY <1>0, <1>1, <1>8 DEF Sdp
    <2> QED BY <1>1, <1>8, <2>1, SubSeqProperties DEF Sdp
<1>9. ASSUME video # 0
      PROVE  /\ SubSeq(sdp, video, n) \in Sdp /\ Len(SubSeq(sdp, video, n)) = n - video + 1
             /\ \A i \in 1 .. n - video + 1 : SubSeq(sdp, video, n)[i] = sdp[video + i - 1]
    <2>1. video \in Int /\ n \in Int /\ \A i \in video .. n : sdp[i] \in Line
        BY <1>0, <1>2, <1>9 DEF Sdp
    <2> QED BY <1>0, <1>2, <1>9, <2>1, SubSeqProperties DEF Sdp
\* It is enough to find the section in what the attributes are put to.
<1> SUFFICES ASSUME NEW p \in Sdp,
                    p = IF audio # 0 /\ video # 0 THEN WithoutAudio(sdp) ELSE sdp
             PROVE  \E k \in DOMAIN p :
                       /\ MediaLines(p) = {k}
                       /\ p[k][1] = MediaLine(KindOf(sdp))
    <2> DEFINE q == IF audio # 0 /\ video # 0 THEN WithoutAudio(sdp) ELSE sdp
    <2>1. ForPion(sdp) = q \o Attributes
        BY <1>3 DEF ForPion, Attributes
    <2>2. q \in Sdp
        <3>1. CASE audio # 0 /\ video # 0
            <4>1. SubSeq(sdp, 1, audio - 1) \in Sdp /\ SubSeq(sdp, video, n) \in Sdp
                BY <1>8, <1>9, <3>1
            <4>2. SubSeq(sdp, 1, audio - 1) \o SubSeq(sdp, video, n) \in Sdp
                BY <4>1, ConcatProperties DEF Sdp
            <4> QED BY <1>0, <1>4, <4>1, <4>2
        <3>2. CASE audio = 0 \/ video = 0
            BY <1>0, <1>3, <3>2
        <3> QED BY <3>1, <3>2
    <2> QED BY <2>1, <2>2, AttributesAtEnd
<1>10. CASE audio = 0 \/ video = 0
    <2>1. p = sdp
        BY <1>10
    <2>2. CASE audio = 0
        <3>1. KindOf(sdp) = "video" /\ video \in 1 .. n
            BY <1>2, <1>3, <1>6, <2>2 DEF KindOf
        <3>2. sdp[video][1] = "m=video"
            BY <1>2, <3>1
        <3>3. MediaLines(sdp) = {video}
            BY <1>0, <1>5, <2>2, <3>1 DEF MediaLines
        <3> QED BY <1>0, <2>1, <3>1, <3>2, <3>3 DEF MediaLine
    <2>3. CASE video = 0
        <3>1. KindOf(sdp) = "audio" /\ audio \in 1 .. n
            BY <1>1, <1>3, <1>6, <2>3 DEF KindOf
        <3>2. sdp[audio][1] = "m=audio"
            BY <1>1, <3>1
        <3>3. MediaLines(sdp) = {audio}
            BY <1>0, <1>5, <2>3, <3>1 DEF MediaLines
        <3> QED BY <1>0, <2>1, <3>1, <3>2, <3>3 DEF MediaLine
    <2> QED BY <1>10, <2>2, <2>3
<1>11. CASE audio # 0 /\ video # 0
    <2> DEFINE front == SubSeq(sdp, 1, audio - 1)
               back == SubSeq(sdp, video, n)
    <2>0. KindOf(sdp) = "video" /\ audio \in 1 .. n /\ video \in 1 .. n
          /\ sdp[video][1] = "m=video"
        BY <1>1, <1>2, <1>3, <1>11 DEF KindOf
    <2>1. CASE audio > video
        <3>1. p = front
            BY <1>4, <1>11, <2>0, <2>1
        <3>2. front \in Sdp /\ Len(front) = audio - 1 /\ \A i \in 1 .. audio - 1 : front[i] = sdp[i]
            BY <1>8, <1>11
        <3> HIDE DEF front
        <3>3. DOMAIN p = 1 .. audio - 1
            BY <3>1, <3>2 DEF Sdp
        <3>4. video \in DOMAIN p /\ p[video][1] = "m=video"
            BY <2>0, <2>1, <3>1, <3>2, <3>3
        <3>5. ASSUME NEW i \in 1 .. audio - 1
              PROVE  p[i][1] \in {"m=audio", "m=video"} <=> i = video
            <4>1. i \in 1 .. n /\ p[i] = sdp[i] /\ i # audio
                BY <1>0, <2>0, <3>1, <3>2
            <4> QED BY <1>5, <1>11, <4>1
        <3>6. MediaLines(p) = {video}
            BY <3>3, <3>4, <3>5 DEF MediaLines
        <3> QED BY <2>0, <3>4, <3>6 DEF MediaLine
    <2>2. CASE audio < video
        <3>1. p = front \o back
            BY <1>4, <1>11, <2>0, <2>2
        <3>2. front \in Sdp /\ Len(front) = audio - 1 /\ \A i \in 1 .. audio - 1 : front[i] = sdp[i]
            BY <1>8, <1>11
        <3>3. /\ back \in Sdp /\ Len(back) = n - video + 1
              /\ \A i \in 1 .. n - video + 1 : back[i] = sdp[video + i - 1]
            BY <1>9, <1>11
        <3> DEFINE len == audio - 1 + (n - video + 1)
        <3> HIDE DEF front, back
        <3>4. /\ p \in Sdp /\ Len(p) = len
              /\ \A i \in 1 .. len : p[i] = IF i <= audio - 1 THEN front[i] ELSE back[i - (audio - 1)]
            <4>1. /\ front \o back \in Seq(Line) /\ Len(front \o back) = Len(front) + Len(back)
                  /\ \A i \in 1 .. Len(front) + Len(back) :
                        (front \o back)[i] = IF i <= Len(front) THEN front[i]
                                             ELSE back[i - Len(front)]
                BY <3>2, <3>3, ConcatProperties DEF Sdp
            <4> QED BY <3>1, <3>2, <3>3, <4>1 DEF Sdp
        <3>5. DOMAIN p = 1 .. len
            BY <3>4 DEF Sdp
        <3>6. ASSUME NEW i \in 1 .. len
              PROVE  p[i] = sdp[IF i < audio THEN i ELSE video + i - audio]
            <4>1. CASE i < audio
                BY <2>0, <3>2, <3>4, <4>1
            <4>2. CASE ~(i < audio)
                <5>1. i - (audio - 1) \in 1 .. n - video + 1 /\ video + (i - (audio - 1)) - 1 = video + i - audio
                    BY <1>0, <2>0, <4>2
                <5>2. p[i] = back[i - (audio - 1)]
                    BY <2>0, <3>4, <4>2
                <5> QED BY <3>3, <4>2, <5>1, <5>2
            <4> QED BY <4>1, <4>2
        <3>7. audio \in 1 .. len /\ p[audio] = sdp[video]
            <4>1. audio \in 1 .. len /\ video + audio - audio = video
                BY <1>0, <2>0, <2>2
            <4> QED BY <2>0, <3>6, <4>1
        <3>8. ASSUME NEW i \in 1 .. len
              PROVE  p[i][1] \in {"m=audio", "m=video"} <=> i = audio
            <4>1. CASE i < audio
                <5>1. i \in 1 .. n /\ i # audio /\ i # video /\ p[i] = sdp[i]
                    BY <1>0, <2>0, <2>2, <3>6, <4>1
                <5> QED BY <1>5, <5>1
            <4>2. CASE ~(i < audio)
                <5>1. /\ video + i - audio \in 1 .. n /\ video + i - audio # audio
                      /\ video + i - audio = video <=> i = audio
                      /\ p[i] = sdp[video + i - audio]
                    BY <1>0, <2>0, <2>2, <3>6, <4>2
                <5> QED BY <1>5, <1>11, <5>1
            <4> QED BY <4>1, <4>2
        <3>9. MediaLines(p) = {audio}
            BY <3>5, <3>7, <3>8 DEF MediaLines
        <3> QED BY <2>0, <3>5, <3>7, <3>9 DEF MediaLine
    <2> QED BY <1>1, <1>2, <1>7, <1>11, <2>0, <2>1, <2>2
<1> QED BY <1>10, <1>11
\* Replacing an item of a line: the first line with the prefix has the new
\* item if it is long enough, and the other lines are as before.
LEMMA ItemReplaced ==
    ASSUME NEW sdp, Len(sdp) \in Nat, DOMAIN sdp = 1 .. Len(sdp), NEW prefix, NEW i, NEW new
    PROVE  /\ DOMAIN replaceNthItemInALineOfSDP(sdp, prefix, i, new) = 1 .. Len(sdp)
           /\ Len(replaceNthItemInALineOfSDP(sdp, prefix, i, new)) = Len(sdp)
           /\ \A j \in 1 .. Len(sdp) :
                 replaceNthItemInALineOfSDP(sdp, prefix, i, new)[j] =
                    IF j = Index(sdp, prefix) /\ i <= Len(sdp[j])
                    THEN [sdp[j] EXCEPT ![i] = new] ELSE sdp[j]
<1> DEFINE k == Index(sdp, prefix)
           n == Len(sdp)
           t == replaceNthItemInALineOfSDP(sdp, prefix, i, new)
           u == [sdp EXCEPT ![k] = [sdp[k] EXCEPT ![i] = new]]
<1>1. k \in 0 .. n
    BY IndexIsFirst
<1>2. t = IF k # 0 /\ i <= Len(sdp[k]) THEN u ELSE sdp
    BY DEF replaceNthItemInALineOfSDP, Has
<1> HIDE DEF k, t
<1> SUFFICES /\ DOMAIN t = 1 .. n /\ Len(t) = n
             /\ \A j \in 1 .. n : t[j] = IF j = k /\ i <= Len(sdp[j])
                                         THEN [sdp[j] EXCEPT ![i] = new] ELSE sdp[j]
    BY Zenon DEF k, t
<1>3. CASE k # 0 /\ i <= Len(sdp[k])
    <2>1. DOMAIN u = 1 .. n /\ Len(u) = n
        OBVIOUS
    <2>2. \A j \in 1 .. n : u[j] = IF j = k THEN [sdp[j] EXCEPT ![i] = new] ELSE sdp[j]
        OBVIOUS
    <2> HIDE DEF u
    <2> QED BY <1>1, <1>2, <1>3, <2>1, <2>2
<1>4. CASE ~(k # 0 /\ i <= Len(sdp[k]))
    BY <1>1, <1>2, <1>4
<1> QED BY <1>3, <1>4

\* In a description with a candidate, the address and the port are those of the
\* first one after the edits for TURN.
LEMMA RelayNamed ==
    ASSUME NEW kind, NEW r, r # NoRelay
    PROVE  LET sdp == ForTurn(LocalDescription(kind, r)) IN
           \A k \in DOMAIN sdp :
              /\ sdp[k][1] = "c=IN" => sdp[k][3] = r.ip
              /\ sdp[k][1] \in {"m=audio", "m=video"} => sdp[k][2] = r.port
<1> DEFINE m == IF kind = "video" THEN "m=video" ELSE "m=audio"
           s1 == <<<<"v=0">>, <<m, "9", "RTP">>, <<"c=IN", "IP4", "0.0.0.0">>, <<"a=mid:0">>>>
           s2 == <<Candidate(r), Candidate([ip |-> "relay2", port |-> "50002"])>>
           sdp == LocalDescription(kind, r)
<1>1. /\ Len(sdp) = 6 /\ DOMAIN sdp = 1 .. 6
      /\ sdp[1] = <<"v=0">> /\ sdp[2] = <<m, "9", "RTP">>
      /\ sdp[3] = <<"c=IN", "IP4", "0.0.0.0">> /\ sdp[4] = <<"a=mid:0">>
      /\ sdp[5] = Candidate(r)
      /\ sdp[6] = Candidate([ip |-> "relay2", port |-> "50002"])
    <2> DEFINE S == {s1[k] : k \in 1 .. 4} \cup {s2[k] : k \in 1 .. 2}
    <2>1. sdp = s1 \o s2
        BY DEF LocalDescription
    <2>2. s1 \in Seq(S) /\ Len(s1) = 4 /\ s2 \in Seq(S) /\ Len(s2) = 2
        OBVIOUS
    <2> HIDE DEF S
    <2>3. /\ s1 \o s2 \in Seq(S) /\ Len(s1 \o s2) = Len(s1) + Len(s2)
          /\ \A i \in 1 .. Len(s1) + Len(s2) :
                (s1 \o s2)[i] = IF i <= Len(s1) THEN s1[i] ELSE s2[i - Len(s1)]
        <3> HIDE DEF s1, s2
        <3> QED BY <2>2, ConcatProperties
    <2>4. \A i \in 1 .. 6 : sdp[i] = IF i <= 4 THEN s1[i] ELSE s2[i - 4]
        BY <2>1, <2>2, <2>3
    <2>5. Len(sdp) = 6 /\ DOMAIN sdp = 1 .. 6
        BY <2>1, <2>2, <2>3
    <2> HIDE DEF sdp
    <2> QED BY <2>4, <2>5
<1> HIDE DEF sdp
\* The first items of the lines.
<1>2. /\ sdp[1][1] = "v=0" /\ sdp[2][1] = m /\ sdp[3][1] = "c=IN" /\ sdp[4][1] = "a=mid:0"
      /\ sdp[5][1] = "a=candidate" /\ sdp[6][1] = "a=candidate"
      /\ Len(sdp[2]) = 3 /\ Len(sdp[3]) = 3
      /\ Len(sdp[5]) = 7 /\ sdp[5][5] = r.ip /\ sdp[5][6] = r.port
    <2>1. \A x : /\ Len(Candidate(x)) = 7 /\ Candidate(x)[1] = "a=candidate"
                 /\ Candidate(x)[5] = x.ip /\ Candidate(x)[6] = x.port
        BY DEF Candidate
    <2>2. Len(<<m, "9", "RTP">>) = 3 /\ Len(<<"c=IN", "IP4", "0.0.0.0">>) = 3
        OBVIOUS
    <2> QED BY <1>1, <2>1, <2>2
<1>m. m \in {"m=audio", "m=video"}
    OBVIOUS
<1> HIDE DEF m
<1>3. /\ getNthItemInALineOfSDP(sdp, "a=candidate", 5) = r.ip
      /\ getNthItemInALineOfSDP(sdp, "a=candidate", 6) = r.port
    <2>1. Index(sdp, "a=candidate") = 5
        <3> DEFINE k == Index(sdp, "a=candidate")
        <3>1. /\ k \in 0 .. 6
              /\ k = 0 => \A i \in 1 .. 6 : sdp[i][1] # "a=candidate"
              /\ k # 0 => sdp[k][1] = "a=candidate" /\ \A i \in 1 .. k - 1 : sdp[i][1] # "a=candidate"
            BY <1>1, IndexIsFirst
        <3> HIDE DEF k
        <3>2. k = 5
            BY <1>2, <1>m, <3>1
        <3> QED BY <3>2 DEF k
    <2>2. Has(sdp, "a=candidate") /\ 5 <= Len(sdp[5]) /\ 6 <= Len(sdp[5])
        BY <1>2, <2>1 DEF Has
    <2> QED BY <1>2, <2>1, <2>2 DEF getNthItemInALineOfSDP
<1> DEFINE addressed == replaceNthItemInALineOfSDP(sdp, "c=IN", 3, r.ip)
           video == replaceNthItemInALineOfSDP(addressed, "m=video", 2, r.port)
           audio == replaceNthItemInALineOfSDP(video, "m=audio", 2, r.port)
<1>4. ForTurn(sdp) = audio
    BY <1>3 DEF ForTurn
<1>5. /\ Len(addressed) = 6 /\ DOMAIN addressed = 1 .. 6
      /\ \A k \in {1, 2, 4, 5, 6} : addressed[k] = sdp[k]
      /\ addressed[3][1] = "c=IN" /\ addressed[3][3] = r.ip
    <2>1. Index(sdp, "c=IN") = 3
        <3> DEFINE k == Index(sdp, "c=IN")
        <3>1. /\ k \in 0 .. 6
              /\ k = 0 => \A i \in 1 .. 6 : sdp[i][1] # "c=IN"
              /\ k # 0 => sdp[k][1] = "c=IN" /\ \A i \in 1 .. k - 1 : sdp[i][1] # "c=IN"
            BY <1>1, IndexIsFirst
        <3> HIDE DEF k
        <3>2. k = 3
            BY <1>2, <1>m, <3>1
        <3> QED BY <3>2 DEF k
    <2>2. /\ DOMAIN addressed = 1 .. Len(sdp) /\ Len(addressed) = Len(sdp)
          /\ \A j \in 1 .. Len(sdp) :
                addressed[j] = IF j = Index(sdp, "c=IN") /\ 3 <= Len(sdp[j])
                               THEN [sdp[j] EXCEPT ![3] = r.ip] ELSE sdp[j]
        <3>1. Len(sdp) \in Nat /\ DOMAIN sdp = 1 .. Len(sdp)
            BY <1>1
        <3> QED BY <3>1, ItemReplaced
    <2> HIDE DEF addressed
    <2>3. addressed[3] = [sdp[3] EXCEPT ![3] = r.ip]
        BY <1>1, <1>2, <2>1, <2>2
    <2>4. addressed[3][1] = "c=IN" /\ addressed[3][3] = r.ip
        BY <1>1, <2>3
    <2>5. \A k \in {1, 2, 4, 5, 6} : addressed[k] = sdp[k]
        BY <1>1, <2>1, <2>2
    <2> QED BY <1>1, <2>2, <2>4, <2>5
<1> HIDE DEF addressed
<1>6. /\ Len(video) = 6 /\ DOMAIN video = 1 .. 6
      /\ \A k \in {1, 3, 4, 5, 6} : video[k] = addressed[k]
      /\ video[2] = IF m = "m=video" THEN [sdp[2] EXCEPT ![2] = r.port] ELSE sdp[2]
    <2>1. Index(addressed, "m=video") = IF m = "m=video" THEN 2 ELSE 0
        <3> DEFINE k == Index(addressed, "m=video")
        <3>1. /\ k \in 0 .. 6
              /\ k = 0 => \A i \in 1 .. 6 : addressed[i][1] # "m=video"
              /\ k # 0 => addressed[k][1] = "m=video" /\ \A i \in 1 .. k - 1 : addressed[i][1] # "m=video"
            <4>1. Len(addressed) \in Nat /\ Len(addressed) = 6
                BY <1>5
            <4>2. /\ k \in 0 .. Len(addressed)
                  /\ k = 0 => \A i \in 1 .. Len(addressed) : addressed[i][1] # "m=video"
                  /\ k # 0 => addressed[k][1] = "m=video" /\ \A i \in 1 .. k - 1 : addressed[i][1] # "m=video"
                BY <4>1, IndexIsFirst
            <4> HIDE DEF k
            <4> QED BY <4>1, <4>2
        <3> HIDE DEF k
        <3>2. \A i \in 1 .. 6 : addressed[i][1] = "m=video" <=> i = 2 /\ m = "m=video"
            BY <1>2, <1>5, <1>m
        <3>3. k = IF m = "m=video" THEN 2 ELSE 0
            BY <3>1, <3>2
        <3> QED BY <3>3 DEF k
    <2>2. /\ DOMAIN video = 1 .. Len(addressed) /\ Len(video) = Len(addressed)
          /\ \A j \in 1 .. Len(addressed) :
                video[j] = IF j = Index(addressed, "m=video") /\ 2 <= Len(addressed[j])
                           THEN [addressed[j] EXCEPT ![2] = r.port] ELSE addressed[j]
        <3>1. Len(addressed) \in Nat /\ DOMAIN addressed = 1 .. Len(addressed)
            BY <1>5
        <3> QED BY <3>1, ItemReplaced
    <2> HIDE DEF video
    <2>3. \A k \in {1, 3, 4, 5, 6} : video[k] = addressed[k]
        BY <1>5, <2>1, <2>2
    <2>4. addressed[2] = sdp[2] /\ 2 <= Len(sdp[2])
        BY <1>2, <1>5
    <2>5. video[2] = IF m = "m=video" THEN [sdp[2] EXCEPT ![2] = r.port] ELSE sdp[2]
        BY <1>5, <2>1, <2>2, <2>4
    <2> QED BY <1>5, <2>2, <2>3, <2>5
<1> HIDE DEF video
<1>7. video[2][1] = m /\ Len(video[2]) = 3
    <2>1. Len([<<m, "9", "RTP">> EXCEPT ![2] = r.port]) = 3
        OBVIOUS
    <2> QED BY <1>1, <1>2, <1>6, <2>1
<1>8. /\ DOMAIN audio = 1 .. 6
      /\ \A k \in {1, 3, 4, 5, 6} : audio[k] = video[k]
      /\ audio[2] = IF m = "m=audio" THEN [video[2] EXCEPT ![2] = r.port] ELSE video[2]
    <2>1. Index(video, "m=audio") = IF m = "m=audio" THEN 2 ELSE 0
        <3> DEFINE k == Index(video, "m=audio")
        <3>1. /\ k \in 0 .. 6
              /\ k = 0 => \A i \in 1 .. 6 : video[i][1] # "m=audio"
              /\ k # 0 => video[k][1] = "m=audio" /\ \A i \in 1 .. k - 1 : video[i][1] # "m=audio"
            <4>1. Len(video) \in Nat /\ Len(video) = 6
                BY <1>6
            <4>2. /\ k \in 0 .. Len(video)
                  /\ k = 0 => \A i \in 1 .. Len(video) : video[i][1] # "m=audio"
                  /\ k # 0 => video[k][1] = "m=audio" /\ \A i \in 1 .. k - 1 : video[i][1] # "m=audio"
                BY <4>1, IndexIsFirst
            <4> HIDE DEF k
            <4> QED BY <4>1, <4>2
        <3> HIDE DEF k
        <3>2. \A i \in 1 .. 6 : video[i][1] = "m=audio" <=> i = 2 /\ m = "m=audio"
            BY <1>2, <1>5, <1>6, <1>7, <1>m
        <3>3. k = IF m = "m=audio" THEN 2 ELSE 0
            BY <3>1, <3>2
        <3> QED BY <3>3 DEF k
    <2>2. /\ DOMAIN audio = 1 .. Len(video) /\ Len(audio) = Len(video)
          /\ \A j \in 1 .. Len(video) :
                audio[j] = IF j = Index(video, "m=audio") /\ 2 <= Len(video[j])
                           THEN [video[j] EXCEPT ![2] = r.port] ELSE video[j]
        <3>1. Len(video) \in Nat /\ DOMAIN video = 1 .. Len(video)
            BY <1>6
        <3> QED BY <3>1, ItemReplaced
    <2> HIDE DEF audio
    <2> QED BY <1>6, <1>7, <2>1, <2>2
<1> HIDE DEF audio
<1>9. audio[2][1] = m /\ audio[2][2] = r.port
    <2>1. CASE m = "m=video"
        <3>1. audio[2] = [<<m, "9", "RTP">> EXCEPT ![2] = r.port]
            BY <1>1, <1>6, <1>8, <2>1
        <3> QED BY <3>1
    <2>2. CASE m = "m=audio"
        <3>1. audio[2] = [<<m, "9", "RTP">> EXCEPT ![2] = r.port]
            BY <1>1, <1>6, <1>8, <2>2
        <3> QED BY <3>1
    <2> QED BY <1>m, <2>1, <2>2
<1>10. ASSUME NEW k \in 1 .. 6
       PROVE  /\ audio[k][1] = "c=IN" => audio[k][3] = r.ip
              /\ audio[k][1] \in {"m=audio", "m=video"} => audio[k][2] = r.port
    BY <1>2, <1>5, <1>6, <1>8, <1>9, <1>m
<1> QED BY <1>4, <1>8, <1>10 DEF sdp

-----------------------------------------------------------------------------
(***************************************************************************)
(* The invariant.                                                          *)
(***************************************************************************)

\* How far the program is, and what it has then.
Places ==
    /\ file \in Files
    /\ step \in {"profile", "refused", "agents", "panic", "describe", "waitOffer",
                "waitAnswer", "done"}
    /\ ua \in Nat
    /\ step = "profile" => ua = 0
    /\ step \notin {"profile", "refused"} =>
          /\ ~Refused(file) /\ cp = Accepted(file)
          /\ ua <= cp.maxconcurrentcalls

\* No agent found a slice too short.
NoPanic == step # "panic"

\* The remote SDP comes from an offer or an answer of the call's kind.
RemoteFits ==
    /\ remote # <<>> => \E sdp \in Offers : remote = ForPion(sdp) /\ callKind = KindOf(sdp)
    /\ step \in {"profile", "refused", "agents", "waitOffer"} => remote = <<>>

\* What was sent was made for TURN when the profile says so.
SentFits ==
    /\ sent # <<>> /\ cp.iceurls => \E kind : sent = ForTurn(LocalDescription(kind, relay))
    /\ step \in {"profile", "agents", "waitOffer", "describe"} => sent = <<>>

IInv == Places /\ NoPanic /\ RemoteFits /\ SentFits

\* A profile that is not refused: what ParseCallProfile then knows of its slices.
LEMMA AcceptedProfile ==
    ASSUME NEW f \in Profile, ~Refused(f)
    PROVE  LET p == Accepted(f) IN
           /\ p.maxconcurrentcalls \in Nat \ {0} /\ p.totalcalls \in Int
           /\ p.totalcalls > 0 => p.maxconcurrentcalls <= p.totalcalls
           /\ \A n \in 1 .. p.maxconcurrentcalls :
                 /\ n \in DOMAIN p.localports /\ n \in DOMAIN p.accounts /\ n \in DOMAIN p.passwords
                 /\ p.role = "uac" => n \in DOMAIN p.calledparties
<1> DEFINE q == Parsed(f)
           p == Accepted(f)
<1>1. /\ f.accounts \in Pattern /\ f.passwords \in Pattern /\ f.calledparties \in Pattern
      /\ ~IsError(f.accounts) /\ ~IsError(f.passwords) /\ ~IsError(LocalPorts(f))
      /\ f.role = "uac" => ~IsError(f.calledparties)
      /\ ~SomethingMissing(q) /\ ~(Wanted(q) > Len(q.accounts))
    BY DEF Profile, Refused, PatternError
<1>2. /\ Len(q.accounts) \in Nat /\ DOMAIN q.accounts = 1 .. Len(q.accounts)
      /\ Len(q.passwords) \in Nat /\ DOMAIN q.passwords = 1 .. Len(q.passwords)
    BY <1>1, SliceLength DEF Parsed
<1>3. LocalPorts(f) \in Pattern
    <2>1. CASE f.localports = NoPorts
        <3> DEFINE r == Len(parseRangePattern(f.accounts))
                   part == [wellFormed |-> TRUE, first |-> 0, last |-> 0, each |-> FALSE,
                            repeat |-> r]
        <3>1. r \in Nat
            BY <1>1, SliceLength
        <3>2. LocalPorts(f) = <<part>>
            BY <2>1 DEF LocalPorts
        <3> HIDE DEF r
        <3>3. part \in Part
            BY <3>1 DEF Part
        <3> HIDE DEF part
        <3> QED BY <3>2, <3>3 DEF Pattern
    <2>2. CASE f.localports # NoPorts
        BY <2>2 DEF LocalPorts, Profile
    <2> QED BY <2>1, <2>2
<1>4. Len(q.localports) \in Nat /\ DOMAIN q.localports = 1 .. Len(q.localports)
    BY <1>1, <1>3, SliceLength DEF Parsed
<1>5. /\ q.role = f.role
      /\ q.role = "uac" => /\ Len(q.calledparties) \in Nat
                           /\ DOMAIN q.calledparties = 1 .. Len(q.calledparties)
    BY <1>1, SliceLength DEF Parsed
<1>6. q.maxconcurrentcalls \in Int /\ q.totalcalls \in Int
    <2>1. /\ f["maxconcurrentcalls"] = f.maxconcurrentcalls
          /\ f["totalcalls"] = f.totalcalls
        OBVIOUS
    <2> QED BY <2>1 DEF Parsed, Number, Profile
<1>7. LET n == Len(q.accounts) IN
      /\ n # 0 /\ n <= Len(q.passwords) /\ n <= Len(q.localports)
      /\ q.role = "uac" => n <= Len(q.calledparties)
    BY <1>1, <1>2, <1>4, <1>5 DEF SomethingMissing
<1>8. Wanted(q) \in 1 .. Len(q.accounts)
    BY <1>1, <1>2, <1>6, <1>7 DEF Wanted
<1>9. /\ p.role = q.role /\ p.accounts = q.accounts /\ p.passwords = q.passwords
      /\ p.localports = q.localports /\ p.calledparties = q.calledparties
      /\ p.totalcalls = q.totalcalls
      /\ p.maxconcurrentcalls = IF q.totalcalls > 0 /\ q.totalcalls < Wanted(q) THEN q.totalcalls
                                                                            ELSE Wanted(q)
    <2>1. DOMAIN q = {"role", "mediatype", "iceurls", "accounts", "passwords", "calledparties",
                      "localports", "maxconcurrentcalls", "totalcalls"}
        BY DEF Parsed
    <2>2. p = [q EXCEPT !.maxconcurrentcalls =
                  IF q.totalcalls > 0 /\ q.totalcalls < Wanted(q) THEN q.totalcalls ELSE Wanted(q)]
        BY DEF Accepted
    <2> HIDE DEF p, q
    <2> QED BY <2>1, <2>2
<1> HIDE DEF p, q
<1>10. /\ p.maxconcurrentcalls \in 1 .. Len(q.accounts) /\ p.totalcalls \in Int
       /\ p.totalcalls > 0 => p.maxconcurrentcalls <= p.totalcalls
    BY <1>2, <1>6, <1>8, <1>9
<1>11. ASSUME NEW n \in 1 .. p.maxconcurrentcalls
       PROVE  /\ n \in DOMAIN p.localports /\ n \in DOMAIN p.accounts /\ n \in DOMAIN p.passwords
              /\ p.role = "uac" => n \in DOMAIN p.calledparties
    BY <1>2, <1>4, <1>5, <1>7, <1>9, <1>10
<1> QED BY <1>2, <1>10, <1>11 DEF p

\* The program begins with a profile to read.
LEMMA InitInvariant == Init => IInv
<1> SUFFICES ASSUME Init PROVE IInv
    OBVIOUS
<1>1. Places /\ NoPanic
    BY DEF Init, Places, NoPanic
<1>2. RemoteFits
    BY DEF Init, RemoteFits
<1>3. SentFits
    BY DEF Init, SentFits
<1> QED BY <1>1, <1>2, <1>3 DEF IInv

\* Every step keeps the program on its way, with what it has.
LEMMA PlacesStep == IInv /\ [Next]_vars => Places' /\ NoPanic'
<1> SUFFICES ASSUME IInv, [Next]_vars PROVE Places' /\ NoPanic'
    OBVIOUS
<1> USE DEF IInv, Places, NoPanic
<1>0. step \notin {"profile", "refused"} =>
         /\ cp.maxconcurrentcalls \in Nat \ {0}
         /\ \A n \in 1 .. cp.maxconcurrentcalls :
               /\ n \in DOMAIN cp.localports /\ n \in DOMAIN cp.accounts
               /\ n \in DOMAIN cp.passwords
               /\ cp.role = "uac" => n \in DOMAIN cp.calledparties
    BY AcceptedProfile, ProfileAssumption
<1>1. CASE ParseCallProfile
    <2>1. CASE Refused(file)
        BY <1>1, <2>1 DEF ParseCallProfile
    <2>2. CASE ~Refused(file)
        <3>1. Accepted(file).maxconcurrentcalls \in Nat
            BY <2>2, AcceptedProfile, ProfileAssumption
        <3> QED BY <1>1, <2>2, <3>1 DEF ParseCallProfile
    <2> QED BY <2>1, <2>2
<1>2. CASE StartAgent
    <2>1. ua + 1 \in 1 .. cp.maxconcurrentcalls
        BY <1>0, <1>2 DEF StartAgent
    <2>2. \A slice \in Slices : ua + 1 \in DOMAIN slice
        BY <1>0, <1>2, <2>1 DEF StartAgent, Slices
    <2> QED BY <1>0, <1>2, <2>1, <2>2 DEF StartAgent
<1>3. CASE CallBegins
    BY <1>3 DEF CallBegins
<1>4. CASE SendDescription
    BY <1>4 DEF SendDescription
<1>5. CASE GetOffer
    BY <1>5 DEF GetOffer
<1>6. CASE GetAnswer
    BY <1>6 DEF GetAnswer
<1>7. CASE Done \/ UNCHANGED vars
    BY <1>7 DEF Done, vars
<1> QED BY <1>1, <1>2, <1>3, <1>4, <1>5, <1>6, <1>7 DEF Next

\* The descriptions stay what they were made as.
LEMMA DescriptionsStep == IInv /\ [Next]_vars => RemoteFits' /\ SentFits'
<1> SUFFICES ASSUME IInv, [Next]_vars PROVE RemoteFits' /\ SentFits'
    OBVIOUS
<1> USE DEF IInv, RemoteFits, SentFits
<1>1. CASE ParseCallProfile
    BY <1>1 DEF ParseCallProfile
<1>2. CASE StartAgent
    BY <1>2 DEF StartAgent
<1>3. CASE CallBegins
    BY <1>3 DEF CallBegins
<1>4. CASE SendDescription
    <2>1. RemoteFits'
        BY <1>4 DEF SendDescription
    <2>2. cp.iceurls => sent' = ForTurn(LocalDescription(callKind, relay'))
        BY <1>4 DEF SendDescription
    <2>3. step' \in {"waitAnswer", "done"} /\ cp' = cp
        BY <1>4 DEF SendDescription
    <2> QED BY <2>1, <2>2, <2>3
<1>5. CASE GetOffer
    <2>1. PICK offer \in Offers : callKind' = KindOf(offer) /\ remote' = ForPion(offer)
        BY <1>5 DEF GetOffer
    <2>2. step = "waitOffer" /\ step' = "describe" /\ UNCHANGED <<cp, sent, relay>>
        BY <1>5 DEF GetOffer
    <2> QED BY <2>1, <2>2
<1>6. CASE GetAnswer
    BY <1>6 DEF GetAnswer, Answers
<1>7. CASE Done \/ UNCHANGED vars
    BY <1>7 DEF Done, vars
<1> QED BY <1>1, <1>2, <1>3, <1>4, <1>5, <1>6, <1>7 DEF Next

\* The invariant holds in every state.
THEOREM Invariance == Spec => []IInv
<1>1. IInv /\ [Next]_vars => IInv'
    BY PlacesStep, DescriptionsStep DEF IInv
<1> QED BY InitInvariant, <1>1, PTL DEF Spec

-----------------------------------------------------------------------------
(***************************************************************************)
(* The properties.                                                         *)
(***************************************************************************)

\* Whatever the patterns of a profile repeat or leave out, no agent that main
\* starts indexes past a slice (sip/ua.go:58, 75, 83, 115), and there is at least
\* one agent and none that would never get a call.
THEOREM EveryAgentProvided == Spec => []AgentsProvided
<1>1. IInv => AgentsProvided
    <2> SUFFICES ASSUME IInv PROVE AgentsProvided
        OBVIOUS
    <2>1. step \notin {"profile", "refused"} =>
             /\ cp.maxconcurrentcalls > 0
             /\ cp.totalcalls > 0 => cp.maxconcurrentcalls <= cp.totalcalls
        BY AcceptedProfile, ProfileAssumption DEF IInv, Places
    <2> QED BY <2>1 DEF IInv, NoPanic, AgentsProvided
<1> QED BY Invariance, <1>1, PTL

\* Whatever order the sections of an SDP come in, pion gets the one of the call's
\* kind only; and with TURN, what is sent names one candidate's address and port.
THEOREM DescriptionsFit == Spec => []SdpsFit
<1>1. IInv => OneMedium
    <2> SUFFICES ASSUME IInv, remote # <<>> PROVE OneMedium
        BY DEF OneMedium
    <2>1. PICK sdp \in Offers : remote = ForPion(sdp) /\ callKind = KindOf(sdp)
        BY DEF IInv, RemoteFits
    <2> QED BY <2>1, OneSectionLeft DEF OneMedium, MediaLine
<1>2. IInv => NamesRelay
    <2> SUFFICES ASSUME IInv, sent # <<>>, cp.iceurls, relay # NoRelay PROVE NamesRelay
        BY DEF NamesRelay
    <2>1. PICK kind : sent = ForTurn(LocalDescription(kind, relay))
        BY DEF IInv, SentFits
    <2>2. \A k \in DOMAIN sent :
             /\ sent[k][1] = "c=IN" => sent[k][3] = relay.ip
             /\ sent[k][1] \in {"m=audio", "m=video"} => sent[k][2] = relay.port
        BY <2>1, RelayNamed
    <2> QED BY <2>2 DEF NamesRelay
<1> QED BY Invariance, <1>1, <1>2, PTL DEF SdpsFit
=============================================================================
