---------------------------- MODULE TextCodecProofs ----------------------------
(***************************************************************************)
(* Proofs about the colour code and the text codec: what comes back of     *)
(* every image, video and sound whose file the codec wrote, and of text    *)
(* that other programs wrote, for all sizes and all contents.              *)
(***************************************************************************)
EXTENDS TextCodec, SequenceTheorems, WellFoundedInduction, TLAPS

-----------------------------------------------------------------------------
(***************************************************************************)
(* Induction, stated for a set: no operator has to be guessed.             *)
(***************************************************************************)

\* The least-number principle.
LEMMA LeastElement ==
  ASSUME NEW T \in SUBSET Nat, T # {}
  PROVE  \E m \in T : \A k \in T : ~(k < m)
<1> DEFINE R == OpToRel(<, Nat)
<1>1. IsWellFoundedOn(R, Nat)
  BY NatLessThanWellFounded
<1>2. \E m \in T : \A k \in T : ~(<<k, m>> \in R)
  <2> HIDE DEF R
  <2> QED
    BY <1>1, WFMin, Zenon
<1>3. \A k \in Nat, m \in Nat : k < m => <<k, m>> \in R
  BY DEF OpToRel
<1> QED
  BY <1>2, <1>3

\* Induction over the natural numbers.
LEMMA SetInduction ==
  ASSUME NEW H, 0 \in H, \A n \in Nat : n \in H => n + 1 \in H
  PROVE  Nat \subseteq H
<1> DEFINE T == Nat \ H
<1> SUFFICES ASSUME T # {} PROVE FALSE
  OBVIOUS
<1>1. PICK m \in T : \A k \in T : ~(k < m)
  BY LeastElement
<1>2. m # 0 /\ m - 1 \in Nat /\ m - 1 < m
  OBVIOUS
<1>3. m - 1 \in H
  BY <1>1, <1>2
<1>4. (m - 1) + 1 \in H /\ (m - 1) + 1 = m
  BY <1>2, <1>3
<1> QED
  BY <1>4

\* Induction over sequences, from the front.
LEMMA SeqInduction ==
  ASSUME NEW T, NEW H, <<>> \in H,
         \A s \in Seq(T), x \in T : s \in H => Append(s, x) \in H
  PROVE  Seq(T) \subseteq H
<1> DEFINE N == {n \in Nat : \A s \in Seq(T) : Len(s) = n => s \in H}
<1>1. 0 \in N
  BY EmptySeq
<1>2. ASSUME NEW n \in Nat, n \in N
      PROVE  n + 1 \in N
  <2> SUFFICES ASSUME NEW s \in Seq(T), Len(s) = n + 1
               PROVE  s \in H
    OBVIOUS
  <2>1. s # <<>>
    OBVIOUS
  <2>2. PICK u \in Seq(T), x \in T : s = Append(u, x)
    BY <2>1, SequenceEmptyOrAppend
  <2>3. Len(u) = n
    BY <2>2
  <2> QED
    BY <1>2, <2>2, <2>3
<1>3. Nat \subseteq N
  <2> HIDE DEF N
  <2> QED
    BY <1>1, <1>2, SetInduction
<1> QED
  BY <1>3

\* Sequences put together in two ways.
LEMMA AppendConcat ==
  ASSUME NEW T, NEW a \in Seq(T), NEW b \in Seq(T), NEW x \in T
  PROVE  a \o Append(b, x) = Append(a \o b, x) /\ a \o b \in Seq(T)
<1>1. Append(b, x) = b \o <<x>> /\ a \o b \in Seq(T) /\ <<x>> \in Seq(T)
  OBVIOUS
<1>2. Append(a \o b, x) = (a \o b) \o <<x>>
  BY <1>1, AppendIsConcat
<1>3. (a \o b) \o <<x>> = a \o (b \o <<x>>)
  BY <1>1
<1> QED
  BY <1>1, <1>2, <1>3

LEMMA ConcatTwice ==
  ASSUME NEW T, NEW a \in Seq(T), NEW b \in Seq(T), NEW c \in Seq(T)
  PROVE  (a \o b) \o c = a \o (b \o c) /\ a \o b \in Seq(T) /\ b \o c \in Seq(T)
OBVIOUS

-----------------------------------------------------------------------------
(***************************************************************************)
(* Loops over a sequence.                                                  *)
(***************************************************************************)

\* The states of a loop, before each turn and after k of them.
Runs(f, step, base, seq, k) ==
  f = [i \in 0..k |-> IF i = 0 THEN base ELSE step[f[i - 1]][seq[i]]]

\* A loop of any number of turns goes through such states.
LEMMA RunExists ==
  ASSUME NEW step, NEW base, NEW seq, NEW N \in Nat
  PROVE  \E f : Runs(f, step, base, seq, N)
<1> DEFINE P(f, k) == Runs(f, step, base, seq, k)
           H == {k \in Nat : \E f : P(f, k)}
<1>1. 0 \in H
  <2> DEFINE f == [i \in 0..0 |-> base]
  <2>1. P(f, 0)
    BY DEF Runs
  <2> QED
    BY <2>1
<1>2. ASSUME NEW k \in Nat, k \in H
      PROVE  k + 1 \in H
  <2>1. PICK f : P(f, k)
    BY <1>2
  <2> DEFINE g == [i \in 0..(k + 1) |-> IF i = k + 1 THEN step[f[k]][seq[k + 1]] ELSE f[i]]
  <2>2. P(g, k + 1)
    <3>1. \A i \in 0..k : g[i] = f[i]
      OBVIOUS
    <3>2. \A i \in 0..k : f[i] = IF i = 0 THEN base ELSE step[f[i - 1]][seq[i]]
      BY <2>1 DEF Runs
    <3>3. \A i \in 0..(k + 1) : g[i] = IF i = 0 THEN base ELSE step[g[i - 1]][seq[i]]
      <4> SUFFICES ASSUME NEW i \in 0..(k + 1)
                   PROVE  g[i] = IF i = 0 THEN base ELSE step[g[i - 1]][seq[i]]
        OBVIOUS
      <4>1. CASE i = k + 1
        <5>1. g[i] = step[f[k]][seq[k + 1]] /\ g[i - 1] = f[k]
          BY <3>1, <4>1
        <5> QED
          BY <4>1, <5>1
      <4>2. CASE i = 0
        BY <3>1, <3>2, <4>2
      <4>3. CASE i \in 1..k
        <5>1. g[i] = f[i] /\ g[i - 1] = f[i - 1] /\ f[i] = step[f[i - 1]][seq[i]]
          BY <3>1, <3>2, <4>3
        <5> QED
          BY <4>3, <5>1
      <4> QED
        BY <4>1, <4>2, <4>3
    <3> DEFINE h == [i \in 0..(k + 1) |-> IF i = 0 THEN base ELSE step[g[i - 1]][seq[i]]]
    <3>4. g = h
      BY <3>3
    <3> QED
      BY <3>4 DEF Runs
  <2>3. k + 1 \in Nat
    OBVIOUS
  <2> HIDE DEF P, g
  <2> QED
    BY <2>2, <2>3, Zenon
<1>3. Nat \subseteq H
  <2> HIDE DEF H
  <2> QED
    BY <1>1, <1>2, SetInduction
<1> QED
  BY <1>3

\* The same, turn by turn.
TurnByTurn(f, step, base, seq, k) ==
  f[0] = base /\ \A i \in 1..k : f[i] = step[f[i - 1]][seq[i]]

\* A loop over a sequence, unrolled.
LEMMA FoldUnrolled ==
  ASSUME NEW step, NEW base, NEW T, NEW seq \in Seq(T)
  PROVE  \E f : /\ TurnByTurn(f, step, base, seq, Len(seq))
                /\ Fold(step, base, seq) = f[Len(seq)]
<1> DEFINE f == CHOOSE g : Runs(g, step, base, seq, Len(seq))
<1>1. Len(seq) \in Nat
  OBVIOUS
<1>2. Runs(f, step, base, seq, Len(seq))
  BY <1>1, RunExists, Zenon
<1>3. Fold(step, base, seq) = f[Len(seq)]
  BY Zenon DEF Fold, Runs
<1>4. TurnByTurn(f, step, base, seq, Len(seq))
  <2> HIDE DEF f
  <2>1. 0 \in 0..Len(seq) /\ \A i \in 1..Len(seq) : i \in 0..Len(seq) /\ i # 0
    BY <1>1
  <2>2. \A i \in 0..Len(seq) : f[i] = IF i = 0 THEN base ELSE step[f[i - 1]][seq[i]]
    BY <1>2, Zenon DEF Runs
  <2> QED
    BY <2>1, <2>2, Zenon DEF TurnByTurn
<1> QED
  BY <1>3, <1>4

\* A loop over nothing.
LEMMA FoldEmpty ==
  ASSUME NEW step, NEW base
  PROVE  Fold(step, base, <<>>) = base
<1>1. <<>> \in Seq({}) /\ Len(<<>>) = 0
  OBVIOUS
<1>2. PICK f : TurnByTurn(f, step, base, <<>>, Len(<<>>)) /\ Fold(step, base, <<>>) = f[Len(<<>>)]
  BY <1>1, FoldUnrolled, Zenon
<1>3. f[0] = base
  BY <1>2, Zenon DEF TurnByTurn
<1> QED
  BY <1>1, <1>2, <1>3

\* The last turn of a loop.
LEMMA FoldAppend ==
  ASSUME NEW step, NEW base, NEW T, NEW seq \in Seq(T), NEW c \in T
  PROVE  Fold(step, base, Append(seq, c)) = step[Fold(step, base, seq)][c]
<1> DEFINE N == Len(seq)
           long == Append(seq, c)
<1>1. /\ N \in Nat /\ long \in Seq(T) /\ Len(long) = N + 1 /\ long[N + 1] = c
      /\ \A i \in 1..N : long[i] = seq[i]
  BY AppendProperties
<1>2. PICK f : TurnByTurn(f, step, base, long, Len(long)) /\ Fold(step, base, long) = f[Len(long)]
  BY <1>1, FoldUnrolled, Zenon
<1>3. PICK g : TurnByTurn(g, step, base, seq, N) /\ Fold(step, base, seq) = g[N]
  BY FoldUnrolled, Zenon
<1> HIDE DEF N, long
<1> DEFINE H == {k \in Nat : k <= N => f[k] = g[k]}
<1>4. 0 \in H
  BY <1>2, <1>3 DEF TurnByTurn
<1>5. ASSUME NEW k \in Nat, k \in H
      PROVE  k + 1 \in H
  <2> SUFFICES ASSUME k + 1 <= N PROVE f[k + 1] = g[k + 1]
    OBVIOUS
  <2>1. k + 1 \in 1..N /\ k + 1 \in 1..Len(long) /\ (k + 1) - 1 = k /\ k <= N
    BY <1>1
  <2>2. f[k] = g[k] /\ long[k + 1] = seq[k + 1]
    BY <1>1, <1>5, <2>1
  <2>3. f[k + 1] = step[f[k]][long[k + 1]] /\ g[k + 1] = step[g[k]][seq[k + 1]]
    BY <1>2, <1>3, <2>1 DEF TurnByTurn
  <2> QED
    BY <2>2, <2>3
<1>6. Nat \subseteq H
  <2> HIDE DEF H
  <2> QED
    BY <1>4, <1>5, SetInduction
<1>7. f[N] = g[N]
  BY <1>1, <1>6
<1>8. N + 1 \in 1..Len(long) /\ (N + 1) - 1 = N
  BY <1>1
<1>9. f[N + 1] = step[f[N]][c]
  BY <1>1, <1>2, <1>8 DEF TurnByTurn
<1> QED
  BY <1>1, <1>2, <1>3, <1>7, <1>9 DEF long

\* A loop over one element.
LEMMA FoldOne ==
  ASSUME NEW step, NEW base, NEW c
  PROVE  Fold(step, base, <<c>>) = step[base][c]
<1>1. <<c>> = Append(<<>>, c) /\ <<>> \in Seq({c}) /\ c \in {c}
  OBVIOUS
<1>2. \A w \in Seq({c}) : Fold(step, base, Append(w, c)) = step[Fold(step, base, w)][c]
  BY <1>1, FoldAppend
<1> QED
  BY <1>1, <1>2, FoldEmpty, Zenon

\* A loop over two sequences, one after the other.
LEMMA FoldConcat ==
  ASSUME NEW step, NEW base, NEW T, NEW s \in Seq(T), NEW u \in Seq(T)
  PROVE  Fold(step, base, s \o u) = Fold(step, Fold(step, base, s), u)
<1> DEFINE H == {v \in Seq(T) : Fold(step, base, s \o v) = Fold(step, Fold(step, base, s), v)}
<1>1. <<>> \in H
  BY FoldEmpty, ConcatEmptySeq, EmptySeq
<1>2. ASSUME NEW v \in Seq(T), NEW x \in T, v \in H
      PROVE  Append(v, x) \in H
  <2>1. s \o Append(v, x) = Append(s \o v, x) /\ s \o v \in Seq(T) /\ Append(v, x) \in Seq(T)
    OBVIOUS
  <2>2. Fold(step, base, s \o Append(v, x)) = step[Fold(step, base, s \o v)][x]
    <3>1. \A w \in Seq(T) : Fold(step, base, Append(w, x)) = step[Fold(step, base, w)][x]
      BY FoldAppend
    <3> QED
      BY <2>1, <3>1
  <2>3. Fold(step, Fold(step, base, s), Append(v, x)) = step[Fold(step, Fold(step, base, s), v)][x]
    BY FoldAppend
  <2> QED
    BY <1>2, <2>1, <2>2, <2>3
<1>3. Seq(T) \subseteq H
  <2> HIDE DEF H
  <2> QED
    BY <1>1, <1>2, SeqInduction
<1> QED
  BY <1>3

\* A loop ends in a state of the kind its turns keep.
LEMMA FoldInvariant ==
  ASSUME NEW step, NEW base, NEW T, NEW seq \in Seq(T), NEW S, base \in S,
         \A s \in S, c \in T : step[s][c] \in S
  PROVE  Fold(step, base, seq) \in S
<1> DEFINE H == {v \in Seq(T) : Fold(step, base, v) \in S}
<1>1. <<>> \in H
  BY FoldEmpty, EmptySeq
<1>2. ASSUME NEW v \in Seq(T), NEW x \in T, v \in H
      PROVE  Append(v, x) \in H
  BY <1>2, FoldAppend, AppendProperties
<1>3. Seq(T) \subseteq H
  <2> HIDE DEF H
  <2> QED
    BY <1>1, <1>2, SeqInduction
<1> QED
  BY <1>3

-----------------------------------------------------------------------------
(***************************************************************************)
(* The colour code.                                                        *)
(***************************************************************************)

\* What \div computes.
LEMMA Quotient ==
  ASSUME NEW n \in Nat, NEW k \in Nat \ {0}
  PROVE  n \div k \in Nat /\ (n \div k) * k <= n /\ n < (n \div k) * k + k
OBVIOUS

\* A square is no less than the square of a smaller number.
LEMMA SquareGrows ==
  ASSUME NEW x \in Int, NEW k \in Nat, x >= k \/ x <= -k
  PROVE  Square(x) \in Int /\ Square(x) >= 0 /\ Square(x) >= k * k
<1>1. Square(x) = x * x
  BY DEF Square
<1>2. CASE x >= k
  <2>1. (x - k) * (x + k) >= 0
    BY <1>2
  <2> QED
    BY <1>1, <1>2, <2>1
<1>3. CASE x <= -k
  <2>1. (-x - k) * (-x + k) >= 0
    BY <1>3
  <2> QED
    BY <1>1, <1>3, <2>1
<1> QED
  BY <1>2, <1>3

\* A pixel near a base colour has much of its channel, and little of the
\* others.
LEMMA NearChannels ==
  ASSUME NEW c \in Color, NEW l \in Letter, Near(c, l)
  PROVE  /\ ChannelOf(c, l) > 155
         /\ \A m \in Letter \ {l} : ChannelOf(c, m) < 100
<1>1. c.r \in Int /\ c.g \in Int /\ c.b \in Int
  BY DEF Color, Channel
<1>2. \A x \in Int : Square(x) \in Int /\ Square(x) >= 0
  BY SquareGrows
<1>3. \A x \in Int : x >= 100 \/ x <= -100 => Square(x) >= 10000
  BY SquareGrows
<1>4. ASSUME NEW x \in Int, NEW yy \in Int, NEW z \in Int,
             Square(x - 255) + Square(yy - 0) + Square(z - 0) < 100 * 100
      PROVE  x > 155 /\ yy < 100 /\ z < 100
  <2>1. x - 255 \in Int /\ yy - 0 \in Int /\ z - 0 \in Int
    OBVIOUS
  <2> DEFINE p == Square(x - 255)
             q == Square(yy - 0)
             r == Square(z - 0)
  <2>2. p \in Int /\ q \in Int /\ r \in Int /\ p >= 0 /\ q >= 0 /\ r >= 0
    BY <1>2, <2>1
  <2>3. p + q + r < 10000
    BY <1>4
  <2>4. /\ x - 255 <= -100 => p >= 10000
        /\ yy - 0 >= 100 => q >= 10000
        /\ z - 0 >= 100 => r >= 10000
    BY <1>3, <2>1
  <2> HIDE DEF p, q, r
  <2> QED
    BY <2>2, <2>3, <2>4
<1>5. ASSUME NEW p \in Int, NEW q \in Int, NEW r \in Int
      PROVE  p + q + r = q + p + r /\ p + q + r = r + p + q
  OBVIOUS
<1>6. CASE l = "R"
  <2>1. Square(c.r - 255) + Square(c.g - 0) + Square(c.b - 0) < 100 * 100
    BY <1>6 DEF Near, BASE_COLORS, RGB, Letter
  <2>2. c.r > 155 /\ c.g < 100 /\ c.b < 100
    BY <1>1, <1>4, <2>1, Zenon
  <2> QED
    BY <1>6, <2>2 DEF ChannelOf, Letter
<1>7. CASE l = "G"
  <2>1. Square(c.r - 0) + Square(c.g - 255) + Square(c.b - 0) < 100 * 100
    BY <1>7 DEF Near, BASE_COLORS, RGB, Letter
  <2>2. Square(c.g - 255) + Square(c.r - 0) + Square(c.b - 0) < 100 * 100
    <3>1. Square(c.r - 0) \in Int /\ Square(c.g - 255) \in Int /\ Square(c.b - 0) \in Int
      BY <1>1, <1>2
    <3> QED
      BY <1>5, <2>1, <3>1
  <2>3. c.g > 155 /\ c.r < 100 /\ c.b < 100
    BY <1>1, <1>4, <2>2, Zenon
  <2> QED
    BY <1>7, <2>3 DEF ChannelOf, Letter
<1>8. CASE l = "B"
  <2>1. Square(c.r - 0) + Square(c.g - 0) + Square(c.b - 255) < 100 * 100
    BY <1>8 DEF Near, BASE_COLORS, RGB, Letter
  <2>2. Square(c.b - 255) + Square(c.r - 0) + Square(c.g - 0) < 100 * 100
    <3>1. Square(c.r - 0) \in Int /\ Square(c.g - 0) \in Int /\ Square(c.b - 255) \in Int
      BY <1>1, <1>2
    <3> QED
      BY <1>5, <2>1, <3>1
  <2>3. c.b > 155 /\ c.r < 100 /\ c.g < 100
    BY <1>1, <1>4, <2>2, Zenon
  <2> QED
    BY <1>8, <2>3 DEF ChannelOf, Letter
<1> QED
  BY <1>6, <1>7, <1>8 DEF Letter

\* No pixel is near two base colours.
LEMMA NearOne ==
  ASSUME NEW c \in Color, NEW l \in Letter, NEW m \in Letter, Near(c, l), Near(c, m)
  PROVE  l = m
<1> SUFFICES ASSUME l # m PROVE FALSE
  OBVIOUS
<1>1. ChannelOf(c, m) \in Int
  BY DEF ChannelOf, Letter, Color, Channel
<1>2. ChannelOf(c, m) > 155 /\ ChannelOf(c, m) < 100
  BY NearChannels
<1> QED
  BY <1>1, <1>2

\* The code of a pixel, without the order: one letter, if any base colour is
\* near, and never with D.
CodeOf(c) ==
  IF \E l \in Letter : Near(c, l)
  THEN LetterCode(c, CHOOSE l \in Letter : Near(c, l))
  ELSE IF Dark(c) THEN <<"R", "G", "B", "D">> ELSE <<"R", "G", "B">>

\* A pixel near a base colour has that letter for its code.
LEMMA CodeOfLetter ==
  ASSUME NEW c \in Color, NEW l \in Letter, Near(c, l)
  PROVE  /\ CodeOf(c) = LetterCode(c, l)
         /\ CodeOf(c) \in {<<l, "L">>, <<l>>}
<1>1. (CHOOSE m \in Letter : Near(c, m)) = l
  BY NearOne, Zenon
<1>2. CodeOf(c) = LetterCode(c, l)
  BY <1>1, Zenon DEF CodeOf
<1>3. ChannelOf(c, l) \in Int
  BY DEF ChannelOf, Letter, Color, Channel
<1>4. ~(ChannelOf(c, l) < 55)
  BY <1>3, NearChannels
<1>5. LetterCode(c, l) \in {<<l, "L">>, <<l>>}
  BY <1>4 DEF LetterCode
<1> QED
  BY <1>2, <1>5

\* Whatever the order of BASE_COLORS, rgbToCode makes the same code of a pixel.
LEMMA CodeIsCodeOf ==
  ASSUME NEW c \in Color, NEW o \in Orders
  PROVE  rgbToCode(c, o) = CodeOf(c)
<1> DEFINE p(i) == LetterCode(c, o[i])
<1>1. /\ o[1] \in Letter /\ o[2] \in Letter /\ o[3] \in Letter
      /\ o[1] # o[2] /\ o[1] # o[3] /\ o[2] # o[3]
      /\ \A l \in Letter : l = o[1] \/ l = o[2] \/ l = o[3]
  BY DEF Orders, Letter
<1>2. \A l \in Letter : ~Near(c, l) => LetterCode(c, l) = <<>>
  BY Zenon DEF LetterCode
<1>3. ASSUME NEW s \in {<<a, "L">> : a \in Letter} \cup {<<a>> : a \in Letter}
      PROVE  s # <<>> /\ s \o <<>> \o <<>> = s /\ <<>> \o s \o <<>> = s /\ <<>> \o <<>> \o s = s
  OBVIOUS
<1>4. CASE \A l \in Letter : ~Near(c, l)
  <2>1. p(1) = <<>> /\ p(2) = <<>> /\ p(3) = <<>> /\ <<>> \o <<>> \o <<>> = <<>>
    <3>1. <<>> \o <<>> \o <<>> = <<>>
      OBVIOUS
    <3> QED
      BY <1>1, <1>2, <1>4, <3>1, Zenon
  <2> QED
    BY <1>4, <2>1 DEF rgbToCode, CodeOf
<1>5. ASSUME NEW l \in Letter, Near(c, l)
      PROVE  rgbToCode(c, o) = CodeOf(c)
  <2> DEFINE s == LetterCode(c, l)
  <2>1. CodeOf(c) = s /\ s \in {<<a, "L">> : a \in Letter} \cup {<<a>> : a \in Letter}
    BY <1>5, CodeOfLetter
  <2>2. \A m \in Letter \ {l} : LetterCode(c, m) = <<>>
    BY <1>2, <1>5, NearOne, Zenon
  <2>3. \/ p(1) = s /\ p(2) = <<>> /\ p(3) = <<>>
        \/ p(1) = <<>> /\ p(2) = s /\ p(3) = <<>>
        \/ p(1) = <<>> /\ p(2) = <<>> /\ p(3) = s
    BY <1>1, <2>2, Zenon
  <2>4. p(1) \o p(2) \o p(3) = s /\ s # <<>>
    BY <1>3, <2>1, <2>3, Zenon
  <2> QED
    BY <2>1, <2>4, Zenon DEF rgbToCode
<1> QED
  BY <1>4, <1>5, Zenon

\* For each of the 2^24 pixels, and all orders in which the library may
\* traverse BASE_COLORS, rgbToCode makes the same code: builds agree.
THEOREM CodeIgnoresOrder ==
  \A c \in Color : \A o1, o2 \in Orders : rgbToCode(c, o1) = rgbToCode(c, o2)
BY CodeIsCodeOf, Zenon

-----------------------------------------------------------------------------
(***************************************************************************)
(* Codes decoded.  Count and Mixed are recursive functions: what they      *)
(* compute follows from the least-number principle, stated for a set.      *)
(***************************************************************************)

\* One turn of the two loops of codeToRGB.
CountTurn(code, v, i) == v + (IF code[i] \in Letter THEN 1 ELSE 0)
MixTurn(code, ch, v, i) ==
  IF code[i] \notin Letter THEN v
  ELSE Min255((2 * v + BASE_COLORS[code[i]][ch] * Factor2(code, i)) \div 2)

Counts(f, code, k) ==
  f = [i \in 0..k |-> IF i = 0 THEN 0 ELSE CountTurn(code, f[i - 1], i)]
Mixes(f, code, ch, k) ==
  f = [i \in 0..k |-> IF i = 0 THEN 0 ELSE MixTurn(code, ch, f[i - 1], i)]

\* The function that counts the letters exists for every length.
LEMMA CountingExists ==
  ASSUME NEW code, NEW N \in Nat
  PROVE  \E f : Counts(f, code, N)
<1> DEFINE T == {k \in Nat : ~\E f : Counts(f, code, k)}
<1> SUFFICES ASSUME T # {} PROVE FALSE
  BY Zenon
<1>1. PICK m \in T : \A k \in T : ~(k < m)
  BY LeastElement
<1>2. CASE m = 0
  <2> DEFINE f == [i \in 0..0 |-> 0]
  <2>1. \A i \in 0..0 : i = 0
    OBVIOUS
  <2>2. Counts(f, code, 0)
    BY <2>1 DEF Counts
  <2> QED
    BY <1>2, <2>2, Zenon
<1>3. CASE m # 0
  <2>1. m - 1 \in Nat /\ m - 1 < m /\ m \in Nat
    BY <1>3
  <2>2. PICK f : Counts(f, code, m - 1)
    BY <1>1, <2>1, Zenon
  <2> DEFINE g == [i \in 0..m |-> IF i = m THEN CountTurn(code, f[m - 1], m) ELSE f[i]]
  <2>3. ASSUME NEW i \in 0..m
        PROVE  g[i] = IF i = 0 THEN 0 ELSE CountTurn(code, g[i - 1], i)
    <3>1. CASE i = m
      <4>1. m - 1 \in 0..m /\ m - 1 # m
        BY <2>1
      <4> QED
        BY <1>3, <3>1, <4>1, Zenon
    <3>2. CASE i # m
      <4>1. i \in 0..(m - 1)
        BY <2>1, <3>2
      <4>2. f[i] = IF i = 0 THEN 0 ELSE CountTurn(code, f[i - 1], i)
        BY <2>2, <4>1, Zenon DEF Counts
      <4>3. i # 0 => i - 1 \in 0..m /\ i - 1 # m
        BY <2>1, <4>1
      <4> QED
        BY <3>2, <4>2, <4>3, Zenon
    <3> QED
      BY <3>1, <3>2
  <2>4. Counts(g, code, m)
    <3>1. g = [i \in 0..m |-> g[i]]
      OBVIOUS
    <3> HIDE DEF g
    <3> QED
      BY <2>3, <3>1, Zenon DEF Counts
  <2> QED
    BY <2>1, <2>4, Zenon
<1> QED
  BY <1>2, <1>3

\* The function that mixes a channel exists for every length.
LEMMA MixingExists ==
  ASSUME NEW code, NEW ch, NEW N \in Nat
  PROVE  \E f : Mixes(f, code, ch, N)
<1> DEFINE T == {k \in Nat : ~\E f : Mixes(f, code, ch, k)}
<1> SUFFICES ASSUME T # {} PROVE FALSE
  BY Zenon
<1>1. PICK m \in T : \A k \in T : ~(k < m)
  BY LeastElement
<1>2. CASE m = 0
  <2> DEFINE f == [i \in 0..0 |-> 0]
  <2>1. \A i \in 0..0 : i = 0
    OBVIOUS
  <2>2. Mixes(f, code, ch, 0)
    BY <2>1 DEF Mixes
  <2> QED
    BY <1>2, <2>2, Zenon
<1>3. CASE m # 0
  <2>1. m - 1 \in Nat /\ m - 1 < m /\ m \in Nat
    BY <1>3
  <2>2. PICK f : Mixes(f, code, ch, m - 1)
    BY <1>1, <2>1, Zenon
  <2> DEFINE g == [i \in 0..m |->
                     IF i = m THEN MixTurn(code, ch, f[m - 1], m) ELSE f[i]]
  <2>3. ASSUME NEW i \in 0..m
        PROVE  g[i] = IF i = 0 THEN 0 ELSE MixTurn(code, ch, g[i - 1], i)
    <3>1. CASE i = m
      <4>1. m - 1 \in 0..m /\ m - 1 # m
        BY <2>1
      <4> QED
        BY <1>3, <3>1, <4>1, Zenon
    <3>2. CASE i # m
      <4>1. i \in 0..(m - 1)
        BY <2>1, <3>2
      <4>2. f[i] = IF i = 0 THEN 0 ELSE MixTurn(code, ch, f[i - 1], i)
        BY <2>2, <4>1, Zenon DEF Mixes
      <4>3. i # 0 => i - 1 \in 0..m /\ i - 1 # m
        BY <2>1, <4>1
      <4> QED
        BY <3>2, <4>2, <4>3, Zenon
    <3> QED
      BY <3>1, <3>2
  <2>4. Mixes(g, code, ch, m)
    <3>1. g = [i \in 0..m |-> g[i]]
      OBVIOUS
    <3> HIDE DEF g
    <3> QED
      BY <2>3, <3>1, Zenon DEF Mixes
  <2> QED
    BY <2>1, <2>4, Zenon
<1> QED
  BY <1>2, <1>3

\* Count and Mixed go through a code letter by letter.
LEMMA CountUnrolled ==
  ASSUME NEW code, Len(code) \in Nat
  PROVE  \E f : /\ Count(code) = f[Len(code)] /\ f[0] = 0
                /\ \A i \in 1..Len(code) : f[i] = CountTurn(code, f[i - 1], i)
<1> DEFINE f == CHOOSE f : Counts(f, code, Len(code))
<1>1. Counts(f, code, Len(code))
  BY CountingExists, Zenon
<1>2. Count(code) = f[Len(code)]
  BY Zenon DEF Count, Counts, CountTurn
<1> HIDE DEF f
<1>3. \A i \in 0..Len(code) : f[i] = IF i = 0 THEN 0 ELSE CountTurn(code, f[i - 1], i)
  BY <1>1, Zenon DEF Counts
<1>4. 0 \in 0..Len(code) /\ \A i \in 1..Len(code) : i \in 0..Len(code) /\ i # 0
  OBVIOUS
<1> QED
  BY <1>2, <1>3, <1>4, Zenon

\* A channel is mixed turn by turn, from 0.
LEMMA MixedUnrolled ==
  ASSUME NEW code, NEW ch, Len(code) \in Nat
  PROVE  \E f : /\ Mixed(code, ch) = f[Len(code)] /\ f[0] = 0
                /\ \A i \in 1..Len(code) : f[i] = MixTurn(code, ch, f[i - 1], i)
<1> DEFINE f == CHOOSE f : Mixes(f, code, ch, Len(code))
<1>1. Mixes(f, code, ch, Len(code))
  BY MixingExists, Zenon
<1>2. Mixed(code, ch) = f[Len(code)]
  BY Zenon DEF Mixed, Mixes, MixTurn
<1> HIDE DEF f
<1>3. \A i \in 0..Len(code) : f[i] = IF i = 0 THEN 0 ELSE MixTurn(code, ch, f[i - 1], i)
  BY <1>1, Zenon DEF Mixes
<1>4. 0 \in 0..Len(code) /\ \A i \in 1..Len(code) : i \in 0..Len(code) /\ i # 0
  OBVIOUS
<1> QED
  BY <1>2, <1>3, <1>4, Zenon

ChannelName == {"r", "g", "b"}

\* A base colour has all or nothing of a channel.
LEMMA BaseChannel ==
  ASSUME NEW l \in Letter, NEW ch \in ChannelName
  PROVE  BASE_COLORS[l][ch] \in {0, 255}
BY DEF Letter, ChannelName, BASE_COLORS, RGB

\* A turn keeps a channel within its byte.
LEMMA MixTurnInRange ==
  ASSUME NEW code, NEW ch \in ChannelName, NEW v \in Channel, NEW i
  PROVE  MixTurn(code, ch, v, i) \in Channel
<1>1. Factor2(code, i) \in {1, 2, 3}
  BY DEF Factor2
<1>2. \A b \in {0, 255}, k \in {1, 2, 3} : Min255((2 * v + b * k) \div 2) \in Channel
  BY DEF Min255, Channel
<1>3. CASE code[i] \in Letter
  <2> DEFINE b == BASE_COLORS[code[i]][ch]
             k == Factor2(code, i)
  <2>1. b \in {0, 255} /\ k \in {1, 2, 3}
    BY <1>1, <1>3, BaseChannel
  <2>2. MixTurn(code, ch, v, i) = Min255((2 * v + b * k) \div 2)
    BY <1>3 DEF MixTurn
  <2> HIDE DEF b, k
  <2> QED
    BY <1>2, <2>1, <2>2
<1> QED
  BY <1>3, Zenon DEF MixTurn

\* A mixed channel fits its byte.
LEMMA MixedInRange ==
  ASSUME NEW code, Len(code) \in Nat, NEW ch \in ChannelName
  PROVE  Mixed(code, ch) \in Channel
<1>1. PICK f : /\ Mixed(code, ch) = f[Len(code)] /\ f[0] = 0
               /\ \A i \in 1..Len(code) : f[i] = MixTurn(code, ch, f[i - 1], i)
  BY MixedUnrolled
<1> DEFINE T == {k \in Nat : k <= Len(code) /\ f[k] \notin Channel}
<1> SUFFICES ASSUME T # {} PROVE FALSE
  <2>1. Len(code) <= Len(code)
    OBVIOUS
  <2> QED
    BY <1>1, <2>1, Zenon
<1>2. PICK m \in T : \A k \in T : ~(k < m)
  BY LeastElement
<1>3. m # 0
  <2>1. 0 \in Channel
    BY DEF Channel
  <2> QED
    BY <1>1, <2>1, Zenon
<1>4. m \in 1..Len(code) /\ m - 1 \in Nat /\ m - 1 < m /\ m - 1 <= Len(code)
  BY <1>3
<1>5. f[m - 1] \in Channel
  BY <1>2, <1>4, Zenon
<1>6. f[m] = MixTurn(code, ch, f[m - 1], m)
  BY <1>1, <1>4, Zenon
<1>7. f[m] \in Channel
  BY <1>5, <1>6, MixTurnInRange
<1> QED
  BY <1>7, Zenon

\* The number of letters is a natural number.
LEMMA CountInRange ==
  ASSUME NEW code, Len(code) \in Nat
  PROVE  Count(code) \in Nat
<1>1. PICK f : /\ Count(code) = f[Len(code)] /\ f[0] = 0
               /\ \A i \in 1..Len(code) : f[i] = CountTurn(code, f[i - 1], i)
  BY CountUnrolled, Zenon
<1> DEFINE T == {k \in Nat : k <= Len(code) /\ f[k] \notin Nat}
<1> SUFFICES ASSUME T # {} PROVE FALSE
  <2>1. Len(code) <= Len(code)
    OBVIOUS
  <2> QED
    BY <1>1, <2>1, Zenon
<1>2. PICK m \in T : \A k \in T : ~(k < m)
  BY LeastElement
<1>3. m # 0
  BY <1>1
<1>4. m \in 1..Len(code) /\ m - 1 \in Nat /\ m - 1 < m /\ m - 1 <= Len(code)
  BY <1>3
<1>5. f[m - 1] \in Nat
  BY <1>2, <1>4, Zenon
<1>6. \A v \in Nat : CountTurn(code, v, m) \in Nat
  BY DEF CountTurn
<1> QED
  BY <1>1, <1>4, <1>5, <1>6, Zenon

\* Whatever word a text holds, of any letters and any length, codeToRGB makes
\* of it a pixel whose channels fit their bytes.
THEOREM EveryCodeIsAColor ==
  ASSUME NEW S, NEW code \in Seq(S)
  PROVE  codeToRGB(code) \in Color
<1>1. Len(code) \in Nat
  OBVIOUS
<1>2. Count(code) \in Nat
  BY <1>1, CountInRange, Zenon
<1>3. /\ Mixed(code, "r") \in Channel /\ Mixed(code, "g") \in Channel
      /\ Mixed(code, "b") \in Channel
  BY <1>1, MixedInRange DEF ChannelName
<1>4. CASE Count(code) = 0
  BY <1>4 DEF codeToRGB, RGB, Color, Channel
<1>5. CASE Count(code) # 0
  <2>1. \A v \in Channel, n \in Nat \ {0} : v \div n \in Channel
    <3> SUFFICES ASSUME NEW v \in 0..255, NEW n \in Nat \ {0}
                 PROVE  v \div n \in 0..255
      BY DEF Channel
    <3> DEFINE q == v \div n
    <3>1. q \in Nat /\ q * n <= v
      BY Quotient
    <3> HIDE DEF q
    <3>2. q * (n - 1) >= 0
      BY <3>1
    <3>3. q <= v
      BY <3>1, <3>2
    <3>4. q \in 0..255
      BY <3>1, <3>3
    <3> QED
      BY <3>4 DEF q
  <2>2. Count(code) \in Nat \ {0}
    BY <1>2, <1>5
  <2>3. /\ Mixed(code, "r") \div Count(code) \in Channel
        /\ Mixed(code, "g") \div Count(code) \in Channel
        /\ Mixed(code, "b") \div Count(code) \in Channel
    BY <1>3, <2>1, <2>2, Zenon
  <2> QED
    BY <1>5, <2>3 DEF codeToRGB, RGB, Color
<1> QED
  BY <1>4, <1>5

\* A turn over a letter without a modifier, with L, with D, and over a modifier.
LEMMA Turns ==
  ASSUME NEW code, NEW ch \in ChannelName, NEW i
  PROVE  /\ code[i] \in {"L", "D"} => \A v : MixTurn(code, ch, v, i) = v
         /\ code[i] \in Letter => \A v \in 0..255 : BASE_COLORS[code[i]][ch] = 0 =>
              MixTurn(code, ch, v, i) = v
         /\ code[i] \in Letter /\ BASE_COLORS[code[i]][ch] = 255 =>
              /\ Factor2(code, i) \in {2, 3} => MixTurn(code, ch, 0, i) = 255
              /\ Factor2(code, i) = 1 => MixTurn(code, ch, 0, i) = 127
<1>1. code[i] \in {"L", "D"} => \A v : MixTurn(code, ch, v, i) = v
  BY DEF MixTurn, Letter
<1>2. Factor2(code, i) \in {1, 2, 3}
  BY DEF Factor2
<1>3. \A v \in 0..255, k \in {1, 2, 3} : Min255((2 * v + 0 * k) \div 2) = v
  BY DEF Min255
<1>4. /\ \A k \in {2, 3} : Min255((2 * 0 + 255 * k) \div 2) = 255
      /\ Min255((2 * 0 + 255 * 1) \div 2) = 127
  BY DEF Min255
<1> DEFINE b == BASE_COLORS[code[i]][ch]
           k == Factor2(code, i)
<1>5. code[i] \in Letter =>
        \A v : MixTurn(code, ch, v, i) = Min255((2 * v + b * k) \div 2)
  BY Zenon DEF MixTurn
<1> HIDE DEF b, k
<1>6. ASSUME code[i] \in Letter, b = 0, NEW v \in 0..255
      PROVE  MixTurn(code, ch, v, i) = v
  <2>1. MixTurn(code, ch, v, i) = Min255((2 * v + 0 * k) \div 2)
    BY <1>5, <1>6, Zenon
  <2> QED
    BY <1>2, <1>3, <2>1, Zenon DEF k
<1>7. ASSUME code[i] \in Letter, b = 255
      PROVE  /\ k \in {2, 3} => MixTurn(code, ch, 0, i) = 255
             /\ k = 1 => MixTurn(code, ch, 0, i) = 127
  <2>1. MixTurn(code, ch, 0, i) = Min255((2 * 0 + 255 * k) \div 2)
    BY <1>5, <1>7, Zenon
  <2>2. k \in {2, 3} => MixTurn(code, ch, 0, i) = 255
    BY <1>4, <2>1
  <2>3. k = 1 => MixTurn(code, ch, 0, i) = 127
    BY <1>4, <2>1
  <2> QED
    BY <2>2, <2>3
<1> QED
  BY <1>1, <1>6, <1>7, Zenon DEF b, k

\* The turn over a letter, by what its base colour has of the channel.
LEMMA LetterTurns ==
  ASSUME NEW code, NEW ch \in ChannelName, NEW i, NEW l \in Letter, code[i] = l
  PROVE  /\ BASE_COLORS[l][ch] = 0 => \A v \in 0..255 : MixTurn(code, ch, v, i) = v
         /\ BASE_COLORS[l][ch] = 255 /\ Factor2(code, i) = 1 =>
              MixTurn(code, ch, 0, i) = 127
         /\ BASE_COLORS[l][ch] = 255 /\ Factor2(code, i) \in {2, 3} =>
              MixTurn(code, ch, 0, i) = 255
<1>1. code[i] \in Letter
  OBVIOUS
<1>2. BASE_COLORS[code[i]][ch] = BASE_COLORS[l][ch]
  OBVIOUS
<1> QED
  BY <1>1, <1>2, Turns

\* The code of one letter is decoded to its base colour, with L or without.
LEMMA LetterDecoded ==
  ASSUME NEW l \in Letter, NEW code \in {<<l, "L">>, <<l>>}
  PROVE  codeToRGB(code) = BASE_COLORS[l]
<1>1. /\ code[1] = l /\ Len(code) \in {1, 2} /\ Len(code) \in Nat /\ 1 \in 1..Len(code)
      /\ Len(code) = 2 => code[2] = "L" /\ 2 \in 1..Len(code)
  OBVIOUS
<1>2. Factor2(code, 1) \in {2, 3}
  BY DEF Factor2, Letter
<1>3. Count(code) = 1
  <2>1. PICK f : /\ Count(code) = f[Len(code)] /\ f[0] = 0
                 /\ \A i \in 1..Len(code) : f[i] = CountTurn(code, f[i - 1], i)
    BY <1>1, CountUnrolled
  <2>2. f[1] = CountTurn(code, f[0], 1)
    BY <1>1, <2>1
  <2>3. f[1] = 1
    BY <1>1, <2>1, <2>2 DEF CountTurn
  <2>4. CASE Len(code) = 2
    <3>1. f[2] = CountTurn(code, f[1], 2)
      BY <1>1, <2>1, <2>4
    <3>2. f[2] = 1
      BY <1>1, <2>3, <2>4, <3>1 DEF CountTurn, Letter
    <3> QED
      BY <2>1, <2>4, <3>2
  <2> QED
    BY <1>1, <2>1, <2>3, <2>4
<1>4. ASSUME NEW ch \in ChannelName
      PROVE  Mixed(code, ch) = BASE_COLORS[l][ch]
  <2>1. PICK f : /\ Mixed(code, ch) = f[Len(code)] /\ f[0] = 0
                 /\ \A i \in 1..Len(code) : f[i] = MixTurn(code, ch, f[i - 1], i)
    BY <1>1, MixedUnrolled
  <2>2. f[1] = MixTurn(code, ch, 0, 1)
    BY <1>1, <2>1
  <2>3. f[1] = BASE_COLORS[l][ch]
    <3>1. 0 \in 0..255
      OBVIOUS
    <3>2. BASE_COLORS[l][ch] \in {0, 255}
      BY BaseChannel
    <3>3. /\ BASE_COLORS[l][ch] = 0 => f[1] = 0
          /\ BASE_COLORS[l][ch] = 255 => f[1] = 255
      BY <1>1, <1>2, <2>2, <3>1, LetterTurns
    <3> QED
      BY <3>2, <3>3, Zenon
  <2>4. CASE Len(code) = 2
    <3>1. f[2] = MixTurn(code, ch, f[1], 2)
      BY <1>1, <2>1, <2>4
    <3>2. f[2] = f[1]
      BY <1>1, <2>4, <3>1, Turns
    <3> QED
      BY <2>1, <2>3, <2>4, <3>2
  <2> QED
    BY <1>1, <2>1, <2>3, <2>4
<1>5. \A v \in {0, 255} : v \div 1 = v
  OBVIOUS
<1>6. /\ Mixed(code, "r") \div 1 = BASE_COLORS[l]["r"]
      /\ Mixed(code, "g") \div 1 = BASE_COLORS[l]["g"]
      /\ Mixed(code, "b") \div 1 = BASE_COLORS[l]["b"]
  BY <1>4, <1>5, BaseChannel DEF ChannelName
<1>7. BASE_COLORS[l] = RGB(BASE_COLORS[l]["r"], BASE_COLORS[l]["g"], BASE_COLORS[l]["b"])
  BY DEF BASE_COLORS, Letter, RGB
<1> QED
  BY <1>3, <1>6, <1>7 DEF codeToRGB

\* The turns over R, G and B, the last with a modifier or without.
LEMMA GreyTurns ==
  ASSUME NEW code, NEW k \in {1, 2}, code[1] = "R", code[2] = "G", code[3] = "B",
         Factor2(code, 1) = 2, Factor2(code, 2) = 2, Factor2(code, 3) = k
  PROVE  /\ MixTurn(code, "r", 0, 1) = 255 /\ MixTurn(code, "r", 255, 2) = 255
         /\ MixTurn(code, "r", 255, 3) = 255
         /\ MixTurn(code, "g", 0, 1) = 0 /\ MixTurn(code, "g", 0, 2) = 255
         /\ MixTurn(code, "g", 255, 3) = 255
         /\ MixTurn(code, "b", 0, 1) = 0 /\ MixTurn(code, "b", 0, 2) = 0
         /\ MixTurn(code, "b", 0, 3) = IF k = 1 THEN 127 ELSE 255
<1>1. /\ code[1] \in Letter /\ code[2] \in Letter /\ code[3] \in Letter
  BY DEF Letter
<1>2. /\ BASE_COLORS["R"]["r"] = 255 /\ BASE_COLORS["R"]["g"] = 0 /\ BASE_COLORS["R"]["b"] = 0
      /\ BASE_COLORS["G"]["r"] = 0 /\ BASE_COLORS["G"]["g"] = 255 /\ BASE_COLORS["G"]["b"] = 0
      /\ BASE_COLORS["B"]["r"] = 0 /\ BASE_COLORS["B"]["g"] = 0 /\ BASE_COLORS["B"]["b"] = 255
  BY DEF Letter, BASE_COLORS, RGB
<1>3. /\ MixTurn(code, "r", 0, 1) = 255 /\ MixTurn(code, "r", 255, 2) = 255
      /\ MixTurn(code, "r", 255, 3) = 255
  BY <1>1, <1>2 DEF MixTurn, Min255
<1>4. /\ MixTurn(code, "g", 0, 1) = 0 /\ MixTurn(code, "g", 0, 2) = 255
      /\ MixTurn(code, "g", 255, 3) = 255
  BY <1>1, <1>2 DEF MixTurn, Min255
<1>5. /\ MixTurn(code, "b", 0, 1) = 0 /\ MixTurn(code, "b", 0, 2) = 0
      /\ MixTurn(code, "b", 0, 3) = IF k = 1 THEN 127 ELSE 255
  BY <1>1, <1>2 DEF MixTurn, Min255
<1> QED
  BY <1>3, <1>4, <1>5

\* Grey codes: the dark one has less blue, for D follows B.
LEMMA GreyDecoded ==
  ASSUME NEW code \in {<<"R", "G", "B", "D">>, <<"R", "G", "B">>}
  PROVE  codeToRGB(code) = RGB(85, 85, IF Len(code) = 4 THEN 42 ELSE 85)
<1>1. /\ code[1] = "R" /\ code[2] = "G" /\ code[3] = "B"
      /\ Len(code) \in {3, 4} /\ Len(code) \in Nat
      /\ 1 \in 1..Len(code) /\ 2 \in 1..Len(code) /\ 3 \in 1..Len(code)
      /\ Len(code) = 4 => code[4] = "D" /\ 4 \in 1..Len(code)
  OBVIOUS
<1>2. /\ Factor2(code, 1) = 2 /\ Factor2(code, 2) = 2
      /\ Factor2(code, 3) = IF Len(code) = 4 THEN 1 ELSE 2
  BY <1>1 DEF Factor2
<1>3. Count(code) = 3
  <2>1. PICK f : /\ Count(code) = f[Len(code)] /\ f[0] = 0
                 /\ \A i \in 1..Len(code) : f[i] = CountTurn(code, f[i - 1], i)
    BY <1>1, CountUnrolled
  <2>2. /\ f[1] = CountTurn(code, f[0], 1) /\ f[2] = CountTurn(code, f[1], 2)
        /\ f[3] = CountTurn(code, f[2], 3)
        /\ Len(code) = 4 => f[4] = CountTurn(code, f[3], 4)
    BY <1>1, <2>1
  <2>3. f[1] = 1
    BY <1>1, <2>1, <2>2 DEF CountTurn, Letter
  <2>4. f[2] = 2
    BY <1>1, <2>2, <2>3 DEF CountTurn, Letter
  <2>5. f[3] = 3
    BY <1>1, <2>2, <2>4 DEF CountTurn, Letter
  <2>6. Len(code) = 4 => f[4] = 3
    BY <1>1, <2>2, <2>5 DEF CountTurn, Letter
  <2> QED
    BY <1>1, <2>1, <2>5, <2>6
<1>4. ASSUME NEW ch \in ChannelName, NEW a, NEW b, NEW d,
             a = MixTurn(code, ch, 0, 1), b = MixTurn(code, ch, a, 2),
             d = MixTurn(code, ch, b, 3)
      PROVE  Mixed(code, ch) = d
  <2>1. PICK f : /\ Mixed(code, ch) = f[Len(code)] /\ f[0] = 0
                 /\ \A i \in 1..Len(code) : f[i] = MixTurn(code, ch, f[i - 1], i)
    BY <1>1, MixedUnrolled
  <2>2. f[1] = a
    BY <1>1, <1>4, <2>1
  <2>3. f[2] = b
    BY <1>1, <1>4, <2>1, <2>2
  <2>4. f[3] = d
    BY <1>1, <1>4, <2>1, <2>3
  <2>5. Len(code) = 4 => f[4] = MixTurn(code, ch, d, 4)
    BY <1>1, <2>1, <2>4
  <2>6. Len(code) = 4 => f[4] = d
    BY <1>1, <2>5, Turns
  <2> QED
    BY <1>1, <2>1, <2>4, <2>6
<1>5. /\ "r" \in ChannelName /\ "g" \in ChannelName /\ "b" \in ChannelName
  BY DEF ChannelName
<1>6. PICK k \in {1, 2} : Factor2(code, 3) = k /\ (k = 1 <=> Len(code) = 4)
  BY <1>1, <1>2
<1>7. /\ Mixed(code, "r") = 255 /\ Mixed(code, "g") = 255
      /\ Mixed(code, "b") = IF k = 1 THEN 127 ELSE 255
  <2>1. /\ MixTurn(code, "r", 0, 1) = 255 /\ MixTurn(code, "r", 255, 2) = 255
        /\ MixTurn(code, "r", 255, 3) = 255
        /\ MixTurn(code, "g", 0, 1) = 0 /\ MixTurn(code, "g", 0, 2) = 255
        /\ MixTurn(code, "g", 255, 3) = 255
        /\ MixTurn(code, "b", 0, 1) = 0 /\ MixTurn(code, "b", 0, 2) = 0
        /\ MixTurn(code, "b", 0, 3) = IF k = 1 THEN 127 ELSE 255
    BY <1>1, <1>2, <1>6, GreyTurns
  <2> QED
    BY <1>4, <1>5, <2>1
<1>8. Mixed(code, "b") = IF Len(code) = 4 THEN 127 ELSE 255
  BY <1>6, <1>7
<1>9. 255 \div 3 = 85 /\ 127 \div 3 = 42
  OBVIOUS
<1> QED
  BY <1>3, <1>7, <1>8, <1>9 DEF codeToRGB

-----------------------------------------------------------------------------
(***************************************************************************)
(* Colours encoded and decoded again.                                      *)
(***************************************************************************)

\* A pixel encoded by one build and decoded.
Trip(c, o) == codeToRGB(rgbToCode(c, o))

\* The colours that letters of a code stand for, without modifiers.
HueOf(code) == {l \in Letter : \E i \in DOMAIN code : code[i] = l}

\* A base colour is near itself.
LEMMA BaseIsNear ==
  ASSUME NEW l \in Letter
  PROVE  BASE_COLORS[l] \in Color /\ Near(BASE_COLORS[l], l)
<1>1. PICK r \in {0, 255}, g \in {0, 255}, b \in {0, 255} : BASE_COLORS[l] = RGB(r, g, b)
  BY DEF BASE_COLORS, Letter
<1>2. /\ BASE_COLORS[l].r = r /\ BASE_COLORS[l].g = g /\ BASE_COLORS[l].b = b
  BY <1>1 DEF RGB
<1>3. Square(r - r) + Square(g - g) + Square(b - b) < 100 * 100
  BY DEF Square
<1>4. Near(BASE_COLORS[l], l)
  BY <1>2, <1>3 DEF Near
<1> QED
  BY <1>1, <1>4 DEF Color, Channel, RGB

\* The two greys are near no base colour, and not dark.
LEMMA GreyIsFar ==
  ASSUME NEW v \in {42, 85}
  PROVE  /\ RGB(85, 85, v) \in Color /\ ~Dark(RGB(85, 85, v))
         /\ \A l \in Letter : ~Near(RGB(85, 85, v), l)
<1> DEFINE c == RGB(85, 85, v)
<1>1. c.r = 85 /\ c.g = 85 /\ c.b = v
  BY DEF RGB
<1>2. c \in Color
  BY DEF Color, Channel, RGB
<1>3. ~Dark(c)
  BY <1>1 DEF Dark
<1>4. ASSUME NEW l \in Letter
      PROVE  ~Near(c, l)
  <2>1. ChannelOf(c, l) \in {42, 85}
    BY <1>1 DEF ChannelOf, Letter
  <2> HIDE DEF c
  <2>2. Near(c, l) => ChannelOf(c, l) > 155
    BY <1>2, NearChannels, Zenon
  <2> QED
    BY <2>1, <2>2
<1> QED
  BY <1>2, <1>3, <1>4

\* What a pixel becomes: the base colour it is near to, or a grey.
LEMMA TripEnds ==
  ASSUME NEW c \in Color, NEW o \in Orders
  PROVE  \/ \E l \in Letter : /\ Near(c, l) /\ Trip(c, o) = BASE_COLORS[l]
                              /\ HueOf(rgbToCode(c, o)) = {l}
         \/ /\ \A l \in Letter : ~Near(c, l)
            /\ Trip(c, o) = RGB(85, 85, IF Dark(c) THEN 42 ELSE 85)
            /\ HueOf(rgbToCode(c, o)) = Letter
<1>1. rgbToCode(c, o) = CodeOf(c)
  BY CodeIsCodeOf
<1>2. ASSUME NEW l \in Letter, Near(c, l)
      PROVE  Trip(c, o) = BASE_COLORS[l] /\ HueOf(rgbToCode(c, o)) = {l}
  <2>1. CodeOf(c) \in {<<l, "L">>, <<l>>}
    BY <1>2, CodeOfLetter
  <2>2. codeToRGB(CodeOf(c)) = BASE_COLORS[l]
    BY <2>1, LetterDecoded
  <2>3. HueOf(CodeOf(c)) = {l}
    <3>1. ASSUME NEW s \in {<<l, "L">>, <<l>>}
          PROVE  \A x \in Letter : (\E i \in DOMAIN s : s[i] = x) <=> x = l
      BY DEF Letter
    <3> QED
      BY <2>1, <3>1, Zenon DEF HueOf
  <2> QED
    BY <1>1, <2>2, <2>3 DEF Trip
<1>3. ASSUME \A l \in Letter : ~Near(c, l)
      PROVE  /\ Trip(c, o) = RGB(85, 85, IF Dark(c) THEN 42 ELSE 85)
             /\ HueOf(rgbToCode(c, o)) = Letter
  <2>1. CodeOf(c) = IF Dark(c) THEN <<"R", "G", "B", "D">> ELSE <<"R", "G", "B">>
    BY <1>3, Zenon DEF CodeOf
  <2>2. /\ Len(<<"R", "G", "B", "D">>) = 4 /\ Len(<<"R", "G", "B">>) = 3
    OBVIOUS
  <2>3. codeToRGB(CodeOf(c)) = RGB(85, 85, IF Dark(c) THEN 42 ELSE 85)
    <3>1. CASE Dark(c)
      <4>1. codeToRGB(<<"R", "G", "B", "D">>) = RGB(85, 85, 42)
        BY <2>2, GreyDecoded
      <4> QED
        BY <2>1, <3>1, <4>1
    <3>2. CASE ~Dark(c)
      <4>1. codeToRGB(<<"R", "G", "B">>) = RGB(85, 85, 85)
        BY <2>2, GreyDecoded
      <4> QED
        BY <2>1, <3>2, <4>1
    <3> QED
      BY <3>1, <3>2
  <2>4. HueOf(CodeOf(c)) = Letter
    <3>1. ASSUME NEW s \in {<<"R", "G", "B", "D">>, <<"R", "G", "B">>}
          PROVE  \A x \in Letter : \E i \in DOMAIN s : s[i] = x
      <4>1. 1 \in DOMAIN s /\ 2 \in DOMAIN s /\ 3 \in DOMAIN s
        OBVIOUS
      <4>2. s[1] = "R" /\ s[2] = "G" /\ s[3] = "B"
        OBVIOUS
      <4> QED
        BY <4>1, <4>2, Zenon DEF Letter
    <3> QED
      BY <2>1, <3>1, Zenon DEF HueOf
  <2> QED
    BY <1>1, <2>3, <2>4 DEF Trip
<1> QED
  BY <1>2, <1>3, Zenon

\* For each of the 2^24 pixels, and whatever order each build has for
\* BASE_COLORS: what rgbToCode and codeToRGB make of a pixel keeps its letters
\* when it is encoded again, and from the second round on no longer changes.
\* Darkness alone is lost: the dark grey becomes the other in round two.
THEOREM ColorsSettle ==
  \A c \in Color : \A o1, o2, o3 \in Orders :
    LET once == Trip(c, o1)
        twice == Trip(once, o2)
    IN  /\ HueOf(rgbToCode(once, o2)) = HueOf(rgbToCode(c, o1))
        /\ Trip(twice, o3) = twice
        /\ once = twice \/ Dark(c)
<1> SUFFICES ASSUME NEW c \in Color, NEW o1 \in Orders, NEW o2 \in Orders, NEW o3 \in Orders
             PROVE  /\ HueOf(rgbToCode(Trip(c, o1), o2)) = HueOf(rgbToCode(c, o1))
                    /\ Trip(Trip(Trip(c, o1), o2), o3) = Trip(Trip(c, o1), o2)
                    /\ Trip(c, o1) = Trip(Trip(c, o1), o2) \/ Dark(c)
  OBVIOUS
<1>1. ASSUME NEW l \in Letter, NEW o \in Orders
      PROVE  Trip(BASE_COLORS[l], o) = BASE_COLORS[l] /\ HueOf(rgbToCode(BASE_COLORS[l], o)) = {l}
  BY BaseIsNear, NearOne, TripEnds, Zenon
<1>2. ASSUME NEW v \in {42, 85}, NEW o \in Orders
      PROVE  Trip(RGB(85, 85, v), o) = RGB(85, 85, 85) /\ HueOf(rgbToCode(RGB(85, 85, v), o)) = Letter
  BY GreyIsFar, TripEnds
<1>3. CASE \E l \in Letter : Trip(c, o1) = BASE_COLORS[l] /\ HueOf(rgbToCode(c, o1)) = {l}
  BY <1>1, <1>3, Zenon
<1>4. ASSUME NEW v \in {42, 85}, v = 42 => Dark(c),
             Trip(c, o1) = RGB(85, 85, v), HueOf(rgbToCode(c, o1)) = Letter
      PROVE  /\ HueOf(rgbToCode(Trip(c, o1), o2)) = HueOf(rgbToCode(c, o1))
             /\ Trip(Trip(Trip(c, o1), o2), o3) = Trip(Trip(c, o1), o2)
             /\ Trip(c, o1) = Trip(Trip(c, o1), o2) \/ Dark(c)
  <2>1. 85 \in {42, 85}
    OBVIOUS
  <2>2. Trip(RGB(85, 85, 85), o3) = RGB(85, 85, 85)
    BY <1>2, <2>1
  <2>3. Trip(Trip(c, o1), o2) = RGB(85, 85, 85) /\ HueOf(rgbToCode(Trip(c, o1), o2)) = Letter
    BY <1>2, <1>4
  <2> QED
    BY <1>4, <2>2, <2>3
<1>5. \/ \E l \in Letter : Trip(c, o1) = BASE_COLORS[l] /\ HueOf(rgbToCode(c, o1)) = {l}
      \/ /\ Trip(c, o1) = RGB(85, 85, IF Dark(c) THEN 42 ELSE 85)
         /\ HueOf(rgbToCode(c, o1)) = Letter
  BY TripEnds, Zenon
<1>6. PICK v \in {42, 85} : v = (IF Dark(c) THEN 42 ELSE 85) /\ (v = 42 => Dark(c))
  OBVIOUS
<1> QED
  BY <1>3, <1>4, <1>5, <1>6

-----------------------------------------------------------------------------
(***************************************************************************)
(* Sequences of sequences.                                                 *)
(***************************************************************************)

\* A function on 1..n is a sequence of length n.
LEMMA FunctionIsSeq ==
  ASSUME NEW S, NEW n \in Nat, NEW f \in [1..n -> S]
  PROVE  f \in Seq(S) /\ Len(f) = n /\ DOMAIN f = 1..n
<1>1. f \in Seq(S)
  BY SeqDef
<1>2. Len(f) \in Nat /\ DOMAIN f = 1..Len(f) /\ DOMAIN f = 1..n
  BY <1>1, LenProperties
<1> QED
  BY <1>1, <1>2

\* A sequence is a function on 1..Len.
LEMMA SeqIsFunction ==
  ASSUME NEW S, NEW s \in Seq(S)
  PROVE  s \in [1..Len(s) -> S] /\ s = [i \in 1..Len(s) |-> s[i]] /\ Len(s) \in Nat
OBVIOUS

Cat(T) == [a \in Seq(T) |-> [b \in Seq(T) |-> a \o b]]

\* FlattenSeq is a loop that puts sequences one after another.
LEMMA FlattenIsFold ==
  ASSUME NEW T, NEW ss \in Seq(Seq(T))
  PROVE  FlattenSeq(ss) = Fold(Cat(T), <<>>, ss)
<1>0. Len(ss) \in Nat /\ (ss = <<>> <=> Len(ss) = 0) /\ \A i \in 1..Len(ss) : ss[i] \in Seq(T)
  OBVIOUS
<1>1. CASE Len(ss) = 0
  <2>1. FlattenSeq(ss) = ss
    BY <1>1, Zenon DEF FlattenSeq
  <2> QED
    BY <1>0, <1>1, <2>1, FoldEmpty
<1>2. CASE Len(ss) # 0
  <2> DEFINE N == Len(ss)
             P(h) == h = [i \in 1..N |-> IF i = 1 THEN ss[i] ELSE h[i - 1] \o ss[i]]
  <2>1. PICK f : TurnByTurn(f, Cat(T), <<>>, ss, N) /\ Fold(Cat(T), <<>>, ss) = f[N]
    BY FoldUnrolled, Zenon
  <2> HIDE DEF N
  <2>2. N \in Nat /\ N >= 1 /\ \A i \in 1..N : ss[i] \in Seq(T)
    BY <1>0, <1>2 DEF N
  <2>3. f[0] = <<>> /\ \A i \in 1..N : f[i] = Cat(T)[f[i - 1]][ss[i]]
    BY <2>1, Zenon DEF TurnByTurn
  <2>4. \A i \in 0..N : f[i] \in Seq(T)
    <3> DEFINE H == {i \in Nat : i <= N => f[i] \in Seq(T)}
    <3>1. 0 \in H
      <4>1. <<>> \in Seq(T)
        OBVIOUS
      <4> QED
        BY <2>3, <4>1
    <3>2. ASSUME NEW i \in Nat, i \in H
          PROVE  i + 1 \in H
      <4> SUFFICES ASSUME i + 1 <= N PROVE f[i + 1] \in Seq(T)
        OBVIOUS
      <4>1. i + 1 \in 1..N /\ (i + 1) - 1 = i /\ f[i] \in Seq(T)
        BY <2>2, <3>2
      <4>2. f[i + 1] = Cat(T)[f[i]][ss[i + 1]]
        BY <2>3, <4>1
      <4> QED
        BY <2>2, <4>1, <4>2 DEF Cat
    <3>3. Nat \subseteq H
      <4> HIDE DEF H
      <4> QED
        BY <3>1, <3>2, SetInduction
    <3> QED
      BY <2>2, <3>3
  <2>5. \A i \in 1..N : f[i] = f[i - 1] \o ss[i]
    <3> SUFFICES ASSUME NEW i \in 1..N PROVE f[i] = f[i - 1] \o ss[i]
      OBVIOUS
    <3>1. f[i - 1] \in Seq(T) /\ ss[i] \in Seq(T)
      BY <2>2, <2>4
    <3> QED
      BY <2>3, <3>1 DEF Cat
  <2> DEFINE g == [i \in 1..N |-> f[i]]
  <2>6. P(g)
    <3>1. \A i \in 1..N : g[i] = IF i = 1 THEN ss[i] ELSE g[i - 1] \o ss[i]
      <4> SUFFICES ASSUME NEW i \in 1..N
                   PROVE  g[i] = IF i = 1 THEN ss[i] ELSE g[i - 1] \o ss[i]
        OBVIOUS
      <4>1. CASE i = 1
        <5>1. 1 \in 1..N /\ 1 - 1 = 0
          BY <2>2
        <5>2. f[1] = f[0] \o ss[1] /\ ss[1] \in Seq(T)
          BY <2>2, <2>5, <5>1
        <5>3. \A s \in Seq(T) : <<>> \o s = s
          OBVIOUS
        <5>4. f[1] = ss[1]
          BY <2>3, <5>2, <5>3, Zenon
        <5> QED
          BY <4>1, <5>1, <5>4
      <4>2. CASE i # 1
        <5>1. i - 1 \in 1..N
          BY <2>2, <4>2
        <5> QED
          BY <2>5, <4>2, <5>1
      <4> QED
        BY <4>1, <4>2
    <3> DEFINE k == [i \in 1..N |-> IF i = 1 THEN ss[i] ELSE g[i - 1] \o ss[i]]
    <3>2. g = k
      BY <3>1
    <3> QED
      BY <3>2
  <2> DEFINE h == CHOOSE x : P(x)
  <2>7. P(h)
    <3> HIDE DEF P, g
    <3> QED
      BY <2>6, Zenon
  <2>8. FlattenSeq(ss) = h[N]
    BY <1>2, Zenon DEF FlattenSeq, N
  <2> HIDE DEF h
  <2>9. \A i \in 1..N : h[i] = IF i = 1 THEN ss[i] ELSE h[i - 1] \o ss[i]
    BY <2>7, Zenon
  <2>10. h[N] = f[N]
    <3> DEFINE H == {i \in Nat : i + 1 <= N => h[i + 1] = f[i + 1]}
    <3>1. 0 \in H
      <4>1. 1 \in 1..N /\ 1 - 1 = 0 /\ 0 + 1 = 1
        BY <2>2
      <4>2. h[1] = ss[1] /\ f[1] = f[0] \o ss[1] /\ ss[1] \in Seq(T)
        BY <2>2, <2>5, <2>9, <4>1
      <4>3. \A s \in Seq(T) : <<>> \o s = s
        OBVIOUS
      <4>4. h[1] = f[1]
        BY <2>3, <4>2, <4>3, Zenon
      <4> QED
        BY <4>1, <4>4
    <3>2. ASSUME NEW i \in Nat, i \in H
          PROVE  i + 1 \in H
      <4> SUFFICES ASSUME (i + 1) + 1 <= N PROVE h[(i + 1) + 1] = f[(i + 1) + 1]
        OBVIOUS
      <4> DEFINE j == (i + 1) + 1
      <4>1. j \in 1..N /\ j # 1 /\ j - 1 = i + 1 /\ h[i + 1] = f[i + 1]
        BY <2>2, <3>2
      <4> HIDE DEF j
      <4>2. f[j] = f[j - 1] \o ss[j] /\ h[j] = h[j - 1] \o ss[j]
        BY <2>5, <2>9, <4>1, Zenon
      <4>3. h[j] = f[j]
        BY <4>1, <4>2
      <4> QED
        BY <4>3 DEF j
    <3>3. Nat \subseteq H
      <4> HIDE DEF H
      <4> QED
        BY <3>1, <3>2, SetInduction
    <3>4. N - 1 \in H /\ (N - 1) + 1 = N
      BY <2>2, <3>3
    <3> QED
      BY <2>2, <3>4
  <2> QED
    BY <2>1, <2>8, <2>10
<1> QED
  BY <1>1, <1>2

\* What FlattenSeq makes of no, one more and two lots of sequences.
LEMMA FlattenEmpty == FlattenSeq(<<>>) = <<>>
BY DEF FlattenSeq

LEMMA FlattenType ==
  ASSUME NEW T, NEW ss \in Seq(Seq(T))
  PROVE  FlattenSeq(ss) \in Seq(T)
<1>1. \A a \in Seq(T), b \in Seq(T) : Cat(T)[a][b] \in Seq(T)
  BY DEF Cat
<1>2. <<>> \in Seq(T)
  OBVIOUS
<1>3. Fold(Cat(T), <<>>, ss) \in Seq(T)
  BY <1>1, <1>2, FoldInvariant
<1> QED
  BY <1>3, FlattenIsFold

LEMMA FlattenAppend ==
  ASSUME NEW T, NEW ss \in Seq(Seq(T)), NEW s \in Seq(T)
  PROVE  FlattenSeq(Append(ss, s)) = FlattenSeq(ss) \o s
<1>1. Append(ss, s) \in Seq(Seq(T))
  OBVIOUS
<1>2. /\ FlattenSeq(Append(ss, s)) = Fold(Cat(T), <<>>, Append(ss, s))
      /\ FlattenSeq(ss) = Fold(Cat(T), <<>>, ss)
  BY <1>1, FlattenIsFold
<1>3. Fold(Cat(T), <<>>, Append(ss, s)) = Cat(T)[Fold(Cat(T), <<>>, ss)][s]
  BY FoldAppend
<1>4. FlattenSeq(ss) \in Seq(T)
  BY FlattenType
<1> QED
  BY <1>2, <1>3, <1>4 DEF Cat

LEMMA FlattenOne ==
  ASSUME NEW T, NEW s \in Seq(T)
  PROVE  FlattenSeq(<<s>>) = s
<1>1. <<s>> = Append(<<>>, s) /\ <<>> \in Seq(Seq(T)) /\ <<>> \o s = s
  OBVIOUS
<1>2. FlattenSeq(Append(<<>>, s)) = FlattenSeq(<<>>) \o s
  BY <1>1, FlattenAppend, Zenon
<1> QED
  BY <1>1, <1>2, FlattenEmpty

\* Sequences of sequences, one lot after another.
LEMMA FlattenConcat ==
  ASSUME NEW T, NEW ss \in Seq(Seq(T)), NEW tt \in Seq(Seq(T))
  PROVE  FlattenSeq(ss \o tt) = FlattenSeq(ss) \o FlattenSeq(tt)
<1> DEFINE H == {v \in Seq(Seq(T)) : FlattenSeq(ss \o v) = FlattenSeq(ss) \o FlattenSeq(v)}
<1>0. FlattenSeq(ss) \in Seq(T)
  BY FlattenType
<1>1. <<>> \in H
  <2>1. <<>> \in Seq(Seq(T)) /\ ss \o <<>> = ss /\ \A s \in Seq(T) : s \o <<>> = s
    OBVIOUS
  <2> QED
    BY <1>0, <2>1, FlattenEmpty
<1>2. ASSUME NEW v \in Seq(Seq(T)), NEW x \in Seq(T), v \in H
      PROVE  Append(v, x) \in H
  <2>1. ss \o Append(v, x) = Append(ss \o v, x) /\ ss \o v \in Seq(Seq(T))
        /\ Append(v, x) \in Seq(Seq(T))
    OBVIOUS
  <2>2. \A w \in Seq(Seq(T)) : FlattenSeq(Append(w, x)) = FlattenSeq(w) \o x
    BY FlattenAppend
  <2>3. FlattenSeq(ss \o Append(v, x)) = FlattenSeq(ss \o v) \o x
    BY <2>1, <2>2
  <2>4. FlattenSeq(Append(v, x)) = FlattenSeq(v) \o x
    BY <2>2
  <2>5. FlattenSeq(v) \in Seq(T)
    BY FlattenType
  <2>6. \A a, b \in Seq(T) : (a \o b) \o x = a \o (b \o x)
    OBVIOUS
  <2>7. FlattenSeq(ss \o v) = FlattenSeq(ss) \o FlattenSeq(v)
    BY <1>2
  <2>8. FlattenSeq(ss \o Append(v, x)) = FlattenSeq(ss) \o FlattenSeq(Append(v, x))
    BY <1>0, <2>3, <2>4, <2>5, <2>6, <2>7
  <2> QED
    BY <2>1, <2>8
<1>3. Seq(Seq(T)) \subseteq H
  <2> HIDE DEF H
  <2> QED
    BY <1>1, <1>2, SeqInduction
<1> QED
  BY <1>3

\* The pieces that Join puts one after another.
Pieces(parts, sep) == [i \in 1..Len(parts) |-> IF i = 1 THEN parts[i] ELSE sep \o parts[i]]

\* Join of no part, of one, and of one more.
LEMMA PiecesType ==
  ASSUME NEW parts \in Seq(Text), NEW sep \in Text
  PROVE  Pieces(parts, sep) \in Seq(Text) /\ Len(Pieces(parts, sep)) = Len(parts)
<1> USE DEF Text
<1>1. Len(parts) \in Nat /\ \A i \in 1..Len(parts) : parts[i] \in Text
  OBVIOUS
<1>2. Pieces(parts, sep) \in [1..Len(parts) -> Text]
  BY <1>1 DEF Pieces
<1> QED
  BY <1>1, <1>2, FunctionIsSeq

LEMMA JoinType ==
  ASSUME NEW parts \in Seq(Text), NEW sep \in Text
  PROVE  Join(parts, sep) \in Text /\ Join(parts, sep) = FlattenSeq(Pieces(parts, sep))
<1> USE DEF Text
<1>1. Join(parts, sep) = FlattenSeq(Pieces(parts, sep))
  BY Zenon DEF Join, Pieces
<1>2. FlattenSeq(Pieces(parts, sep)) \in Text
  BY PiecesType, FlattenType
<1> QED
  BY <1>1, <1>2

LEMMA JoinEmpty ==
  ASSUME NEW sep
  PROVE  Join(<<>>, sep) = <<>>
<1>1. [i \in 1..Len(<<>>) |-> IF i = 1 THEN <<>>[i] ELSE sep \o <<>>[i]] = <<>>
  OBVIOUS
<1> QED
  BY <1>1, FlattenEmpty DEF Join

LEMMA JoinOne ==
  ASSUME NEW p \in Text, NEW sep \in Text
  PROVE  Join(<<p>>, sep) = p
<1> USE DEF Text
<1>1. <<p>> \in Seq(Text) /\ Len(<<p>>) = 1 /\ <<p>>[1] = p
  OBVIOUS
<1>2. Pieces(<<p>>, sep) = <<p>>
  BY <1>1 DEF Pieces
<1>3. Join(<<p>>, sep) = FlattenSeq(Pieces(<<p>>, sep))
  BY Zenon DEF Join, Pieces
<1>4. FlattenSeq(<<p>>) = p
  BY FlattenOne
<1> QED
  BY <1>2, <1>3, <1>4

LEMMA JoinAppend ==
  ASSUME NEW parts \in Seq(Text), NEW sep \in Text, NEW p \in Text, parts # <<>>
  PROVE  Join(Append(parts, p), sep) = Join(parts, sep) \o (sep \o p)
<1> DEFINE long == Append(parts, p)
           N == Len(parts)
<1> USE DEF Text
<1>1. /\ long \in Seq(Text) /\ Len(long) = N + 1 /\ long[N + 1] = p
      /\ N \in Nat /\ N >= 1 /\ sep \o p \in Text
      /\ \A i \in 1..N : long[i] = parts[i]
  OBVIOUS
<1>2. Pieces(long, sep) = Append(Pieces(parts, sep), sep \o p)
  <2> DEFINE a == Pieces(long, sep)
             b == Pieces(parts, sep)
             c == Append(b, sep \o p)
  <2>1. a \in Seq(Text) /\ b \in Seq(Text) /\ Len(a) = N + 1 /\ Len(b) = N
    BY <1>1, PiecesType
  <2>2. /\ \A i \in 1..(N + 1) : a[i] = IF i = 1 THEN long[i] ELSE sep \o long[i]
        /\ \A i \in 1..N : b[i] = IF i = 1 THEN parts[i] ELSE sep \o parts[i]
    BY <1>1 DEF Pieces
  <2> HIDE DEF a, b, long, N
  <2>3. /\ c \in Seq(Text) /\ Len(c) = N + 1 /\ c[N + 1] = sep \o p
        /\ \A i \in 1..N : c[i] = b[i]
    BY <1>1, <2>1
  <2> HIDE DEF c
  <2>4. \A i \in 1..(N + 1) : a[i] = c[i]
    <3> SUFFICES ASSUME NEW i \in 1..(N + 1) PROVE a[i] = c[i]
      OBVIOUS
    <3>1. CASE i = N + 1
      <4>1. i # 1 /\ long[i] = p /\ c[i] = sep \o p
        BY <1>1, <2>3, <3>1
      <4> QED
        BY <2>2, <4>1
    <3>2. CASE i # N + 1
      <4>1. i \in 1..N
        BY <1>1, <3>2
      <4> QED
        BY <1>1, <2>2, <2>3, <4>1
    <3> QED
      BY <3>1, <3>2
  <2>5. a = c
    BY <2>1, <2>3, <2>4, SeqEqual
  <2> QED
    BY <2>5 DEF a, b, c, long
<1>3. /\ Join(long, sep) = FlattenSeq(Pieces(long, sep))
      /\ Join(parts, sep) = FlattenSeq(Pieces(parts, sep))
  BY <1>1, JoinType
<1>4. Pieces(parts, sep) \in Seq(Text)
  BY PiecesType
<1>5. FlattenSeq(Append(Pieces(parts, sep), sep \o p)) = FlattenSeq(Pieces(parts, sep)) \o (sep \o p)
  BY <1>1, <1>4, FlattenAppend
<1> QED
  BY <1>2, <1>3, <1>5

-----------------------------------------------------------------------------
(***************************************************************************)
(* A sequence cut into pieces of equal length, the rows of an image.       *)
(***************************************************************************)
Piece(s, w, y) == [x \in 1..w |-> s[(y - 1) * w + x]]
PiecesOf(s, w, h) == [y \in 1..h |-> Piece(s, w, y)]

\* An element of a piece lies inside of the sequence.
LEMMA PlaceInside ==
  ASSUME NEW w \in Nat, NEW h \in Nat, NEW x \in 1..w, NEW y \in 1..h
  PROVE  (y - 1) * w + x \in 1..(w * h)
<1>1. (y - 1) * w >= 0 /\ (h - y) * w >= 0 /\ (y - 1) * w \in Int /\ w * h \in Int
  OBVIOUS
<1>2. (h - y) * w = w * h - (y - 1) * w - w
  OBVIOUS
<1>3. (y - 1) * w + w <= w * h
  BY <1>1, <1>2
<1> QED
  BY <1>1, <1>3

\* A piece is a sequence of the given length.
LEMMA PieceType ==
  ASSUME NEW T, NEW s \in Seq(T), NEW w \in Nat, NEW h \in Nat, Len(s) = w * h, NEW y \in 1..h
  PROVE  Piece(s, w, y) \in Seq(T) /\ Len(Piece(s, w, y)) = w
<1>1. \A x \in 1..w : s[(y - 1) * w + x] \in T
  BY PlaceInside
<1>2. Piece(s, w, y) \in [1..w -> T]
  BY <1>1 DEF Piece
<1> QED
  BY <1>2, FunctionIsSeq

LEMMA PiecesOfType ==
  ASSUME NEW T, NEW s \in Seq(T), NEW w \in Nat, NEW h \in Nat, Len(s) = w * h
  PROVE  PiecesOf(s, w, h) \in Seq(Seq(T)) /\ Len(PiecesOf(s, w, h)) = h
<1>1. PiecesOf(s, w, h) \in [1..h -> Seq(T)]
  BY PieceType DEF PiecesOf
<1> QED
  BY <1>1, FunctionIsSeq

\* A product that grows by one factor.
LEMMA NextProduct ==
  ASSUME NEW w \in Nat, NEW k \in Nat
  PROVE  w * (k + 1) = w * k + w /\ w * k \in Nat /\ k * w = w * k
OBVIOUS

\* Together the pieces are the sequence.
LEMMA FlattenPieces ==
  ASSUME NEW T, NEW s \in Seq(T), NEW w \in Nat, NEW h \in Nat, Len(s) = w * h
  PROVE  FlattenSeq(PiecesOf(s, w, h)) = s
<1> DEFINE H == {k \in Nat : k <= h => FlattenSeq(PiecesOf(s, w, k)) = SubSeq(s, 1, w * k)}
<1>0. \A y \in 1..h : Piece(s, w, y) \in Seq(T) /\ Len(Piece(s, w, y)) = w
  BY PieceType
<1>1. 0 \in H
  <2>1. PiecesOf(s, w, 0) = <<>> /\ w * 0 = 0 /\ SubSeq(s, 1, 0) = <<>>
    BY DEF PiecesOf
  <2> QED
    BY <2>1, FlattenEmpty
<1>2. ASSUME NEW k \in Nat, k \in H
      PROVE  k + 1 \in H
  <2> SUFFICES ASSUME k + 1 <= h
               PROVE  FlattenSeq(PiecesOf(s, w, k + 1)) = SubSeq(s, 1, w * (k + 1))
    OBVIOUS
  <2> DEFINE n == w * k
             m == w * (k + 1)
  <2>1. n \in Nat /\ m = n + w /\ ((k + 1) - 1) * w = n
    BY NextProduct
  <2>2. m <= Len(s) /\ n <= Len(s)
    <3>1. (h - (k + 1)) * w >= 0
      OBVIOUS
    <3>2. (h - (k + 1)) * w = w * h - m
      OBVIOUS
    <3> QED
      BY <2>1, <3>1, <3>2
  <2> HIDE DEF n, m
  <2>3. k \in Nat /\ k + 1 \in 1..h /\ k <= h
    OBVIOUS
  <2>4. /\ Piece(s, w, k + 1) \in Seq(T)
        /\ \A y \in 1..k : Piece(s, w, y) \in Seq(T)
    BY <1>0, <2>3
  <2>5. PiecesOf(s, w, k) \in Seq(Seq(T)) /\ Len(PiecesOf(s, w, k)) = k
    <3>1. PiecesOf(s, w, k) \in [1..k -> Seq(T)]
      BY <2>4 DEF PiecesOf
    <3> QED
      BY <3>1, FunctionIsSeq
  <2>6. PiecesOf(s, w, k + 1) = Append(PiecesOf(s, w, k), Piece(s, w, k + 1))
    <3> DEFINE a == PiecesOf(s, w, k + 1)
               b == PiecesOf(s, w, k)
               c == Append(b, Piece(s, w, k + 1))
    <3>1. a \in Seq(Seq(T)) /\ Len(a) = k + 1
      <4>1. \A y \in 1..(k + 1) : Piece(s, w, y) \in Seq(T)
        BY <1>0, <2>3
      <4>2. a \in [1..(k + 1) -> Seq(T)] /\ k + 1 \in Nat
        BY <4>1 DEF PiecesOf
      <4> HIDE DEF a
      <4> QED
        BY <4>2, FunctionIsSeq
    <3>2. /\ \A y \in 1..(k + 1) : a[y] = Piece(s, w, y)
          /\ \A y \in 1..k : b[y] = Piece(s, w, y)
      BY DEF PiecesOf
    <3> HIDE DEF a, b
    <3>3. /\ c \in Seq(Seq(T)) /\ Len(c) = k + 1 /\ c[k + 1] = Piece(s, w, k + 1)
          /\ \A y \in 1..k : c[y] = b[y]
      BY <2>4, <2>5 DEF b
    <3> HIDE DEF c
    <3>4. \A y \in 1..(k + 1) : a[y] = c[y]
      <4>1. \A y \in 1..(k + 1) : y = k + 1 \/ y \in 1..k
        OBVIOUS
      <4> QED
        BY <3>2, <3>3, <4>1
    <3>5. a = c
      BY <3>1, <3>3, <3>4, SeqEqual
    <3> QED
      BY <3>5 DEF a, b, c
  <2>7. FlattenSeq(PiecesOf(s, w, k + 1)) = FlattenSeq(PiecesOf(s, w, k)) \o Piece(s, w, k + 1)
    BY <2>4, <2>5, <2>6, FlattenAppend
  <2>8. FlattenSeq(PiecesOf(s, w, k)) = SubSeq(s, 1, n)
    BY <1>2, <2>3 DEF n
  <2>9. Piece(s, w, k + 1) = SubSeq(s, n + 1, m)
    <3> DEFINE a == Piece(s, w, k + 1)
               b == SubSeq(s, n + 1, m)
    <3>1. a \in Seq(T) /\ Len(a) = w
      BY <1>0, <2>3
    <3>2. \A x \in 1..w : a[x] = s[n + x]
      BY <2>1 DEF Piece
    <3>3. b \in Seq(T) /\ Len(b) = w /\ \A x \in 1..w : b[x] = s[n + x]
      BY <2>1, <2>2
    <3> HIDE DEF a, b
    <3>4. a = b
      BY <3>1, <3>2, <3>3, SeqEqual
    <3> QED
      BY <3>4 DEF a, b
  <2>10. SubSeq(s, 1, n) \o SubSeq(s, n + 1, m) = SubSeq(s, 1, m)
    BY <2>1, <2>2
  <2> QED
    BY <2>7, <2>8, <2>9, <2>10 DEF m
<1>3. Nat \subseteq H
  <2> HIDE DEF H
  <2> QED
    BY <1>1, <1>2, SetInduction
<1>4. FlattenSeq(PiecesOf(s, w, h)) = SubSeq(s, 1, w * h)
  BY <1>3
<1> QED
  BY <1>4

-----------------------------------------------------------------------------
(***************************************************************************)
(* Loops over texts and over lines: the same, with the types fixed.        *)
(***************************************************************************)
LEMMA TextFold ==
  ASSUME NEW step, NEW base
  PROVE  /\ \A t \in Text, c \in Token : Fold(step, base, Append(t, c)) = step[Fold(step, base, t)][c]
         /\ \A t, u \in Text : Fold(step, base, t \o u) = Fold(step, Fold(step, base, t), u)
<1> USE DEF Text
<1>1. \A t \in Text, c \in Token : Fold(step, base, Append(t, c)) = step[Fold(step, base, t)][c]
  BY FoldAppend
<1>2. \A t, u \in Text : Fold(step, base, t \o u) = Fold(step, Fold(step, base, t), u)
  BY FoldConcat
<1> QED
  BY <1>1, <1>2, Zenon

LEMMA LinesFold ==
  ASSUME NEW step, NEW base
  PROVE  /\ \A t \in Seq(Text), c \in Text :
              Fold(step, base, Append(t, c)) = step[Fold(step, base, t)][c]
         /\ \A t, u \in Seq(Text) : Fold(step, base, t \o u) = Fold(step, Fold(step, base, t), u)
<1>1. \A t \in Seq(Text), c \in Text :
        Fold(step, base, Append(t, c)) = step[Fold(step, base, t)][c]
  BY FoldAppend
<1>2. \A t, u \in Seq(Text) : Fold(step, base, t \o u) = Fold(step, Fold(step, base, t), u)
  BY FoldConcat
<1> QED
  BY <1>1, <1>2, Zenon

\* Texts, and lines, put together.
LEMMA TextSums ==
  /\ <<>> \in Text /\ <<>> \in Seq(Text)
  /\ \A a, b \in Text : a \o b \in Text
  /\ \A a, b, c \in Text : (a \o b) \o c = a \o (b \o c)
  /\ \A a, b \in Text, x \in Token : a \o Append(b, x) = Append(a \o b, x)
  /\ \A a \in Text : a \o <<>> = a /\ <<>> \o a = a
  /\ \A a \in Text, x \in Token : Append(a, x) \in Text /\ Append(a, x) = a \o <<x>> /\ <<x>> \in Text
<1> USE DEF Text
<1>1. <<>> \in Text /\ <<>> \in Seq(Text)
  OBVIOUS
<1>2. \A a, b \in Text : a \o b \in Text
  OBVIOUS
<1>3. \A a, b, c \in Text : (a \o b) \o c = a \o (b \o c)
  BY ConcatTwice
<1>4. \A a, b \in Text, x \in Token : a \o Append(b, x) = Append(a \o b, x)
  BY AppendConcat
<1>5. \A a \in Text : a \o <<>> = a /\ <<>> \o a = a
  OBVIOUS
<1>6. \A a \in Text, x \in Token : Append(a, x) \in Text /\ Append(a, x) = a \o <<x>> /\ <<x>> \in Text
  OBVIOUS
<1> QED
  BY <1>1, <1>2, <1>3, <1>4, <1>5, <1>6, Zenon

LEMMA LineSums ==
  /\ \A a, b \in Seq(Text) : a \o b \in Seq(Text)
  /\ \A a, b, c \in Seq(Text) : (a \o b) \o c = a \o (b \o c)
  /\ \A a, b \in Seq(Text), x \in Text : a \o Append(b, x) = Append(a \o b, x)
  /\ \A a \in Seq(Text) : a \o <<>> = a /\ <<>> \o a = a
  /\ \A a \in Seq(Text), x \in Text : /\ Append(a, x) \in Seq(Text) /\ Append(a, x) = a \o <<x>>
                                      /\ <<x>> \in Seq(Text)
<1>2. \A a, b \in Seq(Text) : a \o b \in Seq(Text)
  OBVIOUS
<1>3. \A a, b, c \in Seq(Text) : (a \o b) \o c = a \o (b \o c)
  BY ConcatTwice
<1>4. \A a, b \in Seq(Text), x \in Text : a \o Append(b, x) = Append(a \o b, x)
  BY AppendConcat
<1>5. \A a \in Seq(Text) : a \o <<>> = a /\ <<>> \o a = a
  OBVIOUS
<1>6. \A a \in Seq(Text), x \in Text : /\ Append(a, x) \in Seq(Text) /\ Append(a, x) = a \o <<x>>
                                       /\ <<x>> \in Seq(Text)
  OBVIOUS
<1> QED
  BY <1>2, <1>3, <1>4, <1>5, <1>6, Zenon

-----------------------------------------------------------------------------
(***************************************************************************)
(* Tokens, lines and words.                                                *)
(***************************************************************************)
LineState == [done : Seq(Text), line : Text]
WordState == [done : Text, word : Token]

\* Tokens that stand inside of a line, and words.
Inner == Token \ {NL}
Word == Token \ {SP, NL, NoWord}

\* The separators.
Space == <<SP>>
Newline == <<NL>>
Blank == <<NL, NL>>

\* White space, the marker and no word are different tokens.
LEMMA TokenFacts ==
  /\ SP \in Token /\ NL \in Token /\ Marker \in Token /\ NoWord \in Token
  /\ SP # NL /\ SP # NoWord /\ NL # NoWord
  /\ Marker \in Word /\ SP \in Inner
  /\ SP.num = <<>> /\ NL.num = <<>> /\ Marker.num = <<>>
<1>1. /\ <<" ">> \in Seq(Char) /\ <<"\n">> \in Seq(Char) /\ <<>> \in Seq(Char)
      /\ <<>> \in Seq(Int)
  <2>1. " " \in Char /\ "\n" \in Char
    BY CharAssumption
  <2>2. \A c \in Char : <<c>> \in Seq(Char)
    OBVIOUS
  <2>3. <<>> \in Seq(Char) /\ <<>> \in Seq(Int)
    OBVIOUS
  <2> QED
    BY <2>1, <2>2, <2>3, Zenon
<1>2. MarkerChars \in Seq(Char)
  <2>1. /\ "-" \in Char /\ "A" \in Char /\ "U" \in Char /\ "D" \in Char /\ "I" \in Char
        /\ "O" \in Char /\ "_" \in Char /\ "S" \in Char /\ "T" \in Char /\ "R" \in Char
    BY CharAssumption
  <2>2. \A a, u, d, i, o, b, s, t, r, h \in Char :
          <<h, h, h, a, u, d, i, o, b, s, t, a, r, t, h, h, h>> \in Seq(Char)
    OBVIOUS
  <2> QED
    BY <2>1, <2>2, Zenon DEF MarkerChars
<1>3. <<" ">> # <<"\n">> /\ <<" ">> # <<>> /\ <<"\n">> # <<>>
  OBVIOUS
<1>4. MarkerChars # <<" ">> /\ MarkerChars # <<"\n">> /\ MarkerChars # <<>>
  BY DEF MarkerChars
<1> QED
  BY <1>1, <1>2, <1>3, <1>4 DEF SP, NL, Marker, NoWord, Plain, Token, Word, Inner

LEMMA Separators ==
  /\ Space \in Seq(Token) /\ Newline \in Seq(Token) /\ Blank \in Seq(Token)
  /\ Space \in Text /\ Newline \in Text /\ Blank \in Text
  /\ Blank = Newline \o Newline
BY TokenFacts DEF Space, Newline, Blank, Text

LEMMA InnerIsText ==
  Seq(Inner) \subseteq Text /\ Seq(Seq(Inner)) \subseteq Seq(Text)
<1>1. Seq(Inner) \subseteq Seq(Token)
  BY SeqMonotonic DEF Inner
<1>2. Seq(Seq(Inner)) \subseteq Seq(Seq(Token))
  BY <1>1, SeqMonotonic
<1> QED
  BY <1>1, <1>2 DEF Text

\* One turn of the loop that cuts lines.
LEMMA LineTurn ==
  ASSUME NEW acc \in LineState, NEW c \in Token
  PROVE  /\ c = NL => AddToLine[acc][c] = [done |-> Append(acc.done, acc.line), line |-> <<>>]
         /\ c # NL => AddToLine[acc][c] = [done |-> acc.done, line |-> Append(acc.line, c)]
         /\ AddToLine[acc][c] \in LineState
<1>1. acc.done \in Seq(Text) /\ acc.line \in Text
  BY DEF LineState
<1>2. AddToLine[acc][c] = IF c = NL THEN [done |-> Append(acc.done, acc.line), line |-> <<>>]
                                    ELSE [done |-> acc.done, line |-> Append(acc.line, c)]
  BY DEF AddToLine, LineState
<1>3. Append(acc.done, acc.line) \in Seq(Text) /\ <<>> \in Text /\ Append(acc.line, c) \in Text
  BY <1>1 DEF Text
<1> HIDE DEF Text, Token, NL
<1> QED
  BY <1>1, <1>2, <1>3 DEF LineState

\* The loop over any text ends in a state.
LEMMA LineFoldType ==
  ASSUME NEW acc \in LineState, NEW t \in Text
  PROVE  Fold(AddToLine, acc, t) \in LineState
<1>1. \A s \in LineState, c \in Token : AddToLine[s][c] \in LineState
  BY LineTurn
<1>2. t \in Seq(Token)
  BY DEF Text
<1> QED
  BY <1>1, <1>2, FoldInvariant

\* Two texts, one after the other.
LEMMA LineFold ==
  \A s \in LineState, t \in Text, u \in Text :
    /\ Fold(AddToLine, s, t) \in LineState
    /\ Fold(AddToLine, s, t \o u) = Fold(AddToLine, Fold(AddToLine, s, t), u)
<1> SUFFICES ASSUME NEW s \in LineState, NEW t \in Text, NEW u \in Text
             PROVE  /\ Fold(AddToLine, s, t) \in LineState
                    /\ Fold(AddToLine, s, t \o u) = Fold(AddToLine, Fold(AddToLine, s, t), u)
  OBVIOUS
<1>1. Fold(AddToLine, s, t \o u) = Fold(AddToLine, Fold(AddToLine, s, t), u)
  BY TextFold
<1> QED
  BY <1>1, LineFoldType

\* A text without a newline goes to the line that is being read.
LEMMA LineRun ==
  ASSUME NEW acc \in LineState, NEW r \in Seq(Inner)
  PROVE  Fold(AddToLine, acc, r) = [done |-> acc.done, line |-> acc.line \o r]
<1> DEFINE H == {v \in Seq(Inner) :
                   Fold(AddToLine, acc, v) = [done |-> acc.done, line |-> acc.line \o v]}
<1>0. acc.done \in Seq(Text) /\ acc.line \in Seq(Token) /\ Seq(Inner) \subseteq Seq(Token)
  BY SeqMonotonic DEF LineState, Text, Inner
<1>1. <<>> \in H
  <2>1. <<>> \in Seq(Inner) /\ \A s \in Seq(Token) : s \o <<>> = s
    OBVIOUS
  <2>2. acc = [done |-> acc.done, line |-> acc.line]
    BY DEF LineState
  <2>3. Fold(AddToLine, acc, <<>>) = acc
    BY FoldEmpty
  <2> QED
    BY <1>0, <2>1, <2>2, <2>3
<1>2. ASSUME NEW v \in Seq(Inner), NEW x \in Inner, v \in H
      PROVE  Append(v, x) \in H
  <2> DEFINE s == [done |-> acc.done, line |-> acc.line \o v]
  <2>1. x \in Token /\ x # NL /\ v \in Seq(Token) /\ Append(v, x) \in Seq(Inner)
    BY <1>0 DEF Inner
  <2>2. s \in LineState
    BY <1>0, <2>1 DEF LineState, Text
  <2>3. Fold(AddToLine, acc, Append(v, x)) = AddToLine[Fold(AddToLine, acc, v)][x]
    BY FoldAppend
  <2>4. Fold(AddToLine, acc, v) = s
    BY <1>2
  <2>5. AddToLine[s][x] = [done |-> s.done, line |-> Append(s.line, x)]
    BY <2>1, <2>2, LineTurn
  <2>6. Append(acc.line \o v, x) = acc.line \o Append(v, x)
    <3>1. \A a \in Seq(Token) : a \o Append(v, x) = Append(a \o v, x)
      BY <2>1, AppendConcat
    <3> QED
      BY <1>0, <3>1
  <2>7. s.done = acc.done /\ s.line = acc.line \o v
    OBVIOUS
  <2>8. Fold(AddToLine, acc, Append(v, x)) = [done |-> acc.done, line |-> acc.line \o Append(v, x)]
    BY <2>3, <2>4, <2>5, <2>6, <2>7
  <2> QED
    BY <2>1, <2>8
<1>3. Seq(Inner) \subseteq H
  <2> HIDE DEF H
  <2> QED
    BY <1>1, <1>2, SeqInduction
<1> QED
  BY <1>3

\* A newline ends the line that is being read.
LEMMA NewlineEnds ==
  ASSUME NEW acc \in LineState
  PROVE  /\ Fold(AddToLine, acc, Newline) = [done |-> Append(acc.done, acc.line), line |-> <<>>]
         /\ [done |-> Append(acc.done, acc.line), line |-> <<>>] \in LineState
<1>1. Fold(AddToLine, acc, Newline) = AddToLine[acc][NL]
  BY FoldOne DEF Newline
<1> QED
  BY <1>1, TokenFacts, LineTurn

\* Lines joined by newlines are found again: all but the last are complete,
\* the last is the one being read.
LEMMA JoinedLines ==
  ASSUME NEW acc \in LineState, acc.line = <<>>, NEW rows \in Seq(Seq(Inner)), rows # <<>>
  PROVE  LET end == Fold(AddToLine, acc, Join(rows, Newline))
         IN  end \in LineState /\ Append(end.done, end.line) = acc.done \o rows
<1> DEFINE End(v) == Fold(AddToLine, acc, Join(v, Newline))
           H == {v \in Seq(Seq(Inner)) :
                   v # <<>> => /\ End(v) \in LineState
                               /\ Append(End(v).done, End(v).line) = acc.done \o v}
<1>0. /\ acc.done \in Seq(Text) /\ Seq(Inner) \subseteq Text
      /\ Seq(Seq(Inner)) \subseteq Seq(Text) /\ Newline \in Text
  BY InnerIsText, Separators DEF LineState
<1>1. <<>> \in H
  OBVIOUS
<1>2. ASSUME NEW v \in Seq(Seq(Inner)), NEW x \in Seq(Inner), v \in H
      PROVE  Append(v, x) \in H
  <2>0. Append(v, x) \in Seq(Seq(Inner)) /\ x \in Text /\ v \in Seq(Text)
    BY <1>0
  <2>r. \A a, b : [done |-> a, line |-> b].done = a /\ [done |-> a, line |-> b].line = b
    OBVIOUS
  <2>1. CASE v = <<>>
    <3>1. Append(v, x) = <<x>>
      BY <2>1
    <3>2. Join(<<x>>, Newline) = x
      BY <1>0, <2>0, JoinOne
    <3>3. End(Append(v, x)) = [done |-> acc.done, line |-> acc.line \o x]
      BY <3>1, <3>2, LineRun
    <3>4. acc.line \o x = x /\ acc.done \o <<x>> = Append(acc.done, x)
      BY <1>0, <2>0, TextSums, LineSums, Zenon
    <3>5. [done |-> acc.done, line |-> x] \in LineState
      BY <1>0, <2>0 DEF LineState
    <3> HIDE DEF End
    <3>6. End(Append(v, x)) = [done |-> acc.done, line |-> x]
      BY <3>3, <3>4
    <3>7. End(Append(v, x)) \in LineState
          /\ Append(End(Append(v, x)).done, End(Append(v, x)).line) = acc.done \o Append(v, x)
      <4> DEFINE e == End(Append(v, x))
      <4> HIDE DEF e
      <4>1. e.done = acc.done /\ e.line = x /\ e \in LineState
        BY <2>r, <3>5, <3>6, Zenon DEF e
      <4>2. Append(e.done, e.line) = acc.done \o Append(v, x)
        BY <3>1, <3>4, <4>1, Zenon
      <4> QED
        BY <4>1, <4>2 DEF e
    <3> QED
      BY <2>0, <3>7, Zenon
  <2>2. CASE v # <<>>
    <3> DEFINE s == End(v)
               u == [done |-> Append(s.done, s.line), line |-> <<>>]
    <3>1. s \in LineState /\ Append(s.done, s.line) = acc.done \o v
      BY <1>2, <2>2
    <3>2. Join(Append(v, x), Newline) = Join(v, Newline) \o (Newline \o x)
      BY <1>0, <2>0, <2>2, JoinAppend, Zenon
    <3>3. Join(v, Newline) \in Text /\ Newline \o x \in Text
      BY <1>0, <2>0, JoinType, TextSums, Zenon
    <3>4. End(Append(v, x)) = Fold(AddToLine, s, Newline \o x)
      <4>1. Fold(AddToLine, acc, Join(v, Newline) \o (Newline \o x))
              = Fold(AddToLine, Fold(AddToLine, acc, Join(v, Newline)), Newline \o x)
        BY <3>3, LineFold, Zenon
      <4> QED
        BY <3>2, <4>1, Zenon
    <3> HIDE DEF s
    <3>5. Fold(AddToLine, s, Newline \o x) = Fold(AddToLine, Fold(AddToLine, s, Newline), x)
      BY <1>0, <2>0, <3>1, LineFold, Zenon
    <3>6. Fold(AddToLine, s, Newline) = u /\ u \in LineState
      BY <3>1, NewlineEnds
    <3>8. Fold(AddToLine, u, x) = [done |-> u.done, line |-> u.line \o x]
      BY <3>6, LineRun, Zenon
    <3>9. u.done = acc.done \o v /\ u.line \o x = x
      BY <2>r, <2>0, <3>1, TextSums, Zenon
    <3> HIDE DEF u, End
    <3>10. End(Append(v, x)) = [done |-> acc.done \o v, line |-> x]
      BY <3>4, <3>5, <3>6, <3>8, <3>9, Zenon
    <3>11. acc.done \o Append(v, x) = Append(acc.done \o v, x) /\ acc.done \o v \in Seq(Text)
      <4>1. acc.done \in Seq(Text) /\ v \in Seq(Text) /\ x \in Text
        BY <1>0, <2>0
      <4> QED
        BY <4>1, AppendConcat
    <3>12. [done |-> acc.done \o v, line |-> x] \in LineState
      BY <2>0, <3>11 DEF LineState
    <3>13. End(Append(v, x)) \in LineState
           /\ Append(End(Append(v, x)).done, End(Append(v, x)).line) = acc.done \o Append(v, x)
      BY <2>r, <3>10, <3>11, <3>12, Zenon
    <3> QED
      BY <2>0, <3>13, Zenon
  <2> QED
    BY <2>1, <2>2
<1>3. Seq(Seq(Inner)) \subseteq H
  <2> HIDE DEF H
  <2> QED
    BY <1>1, <1>2, SeqInduction
<1> QED
  BY <1>3

-----------------------------------------------------------------------------
(***************************************************************************)
(* A function applied to every element.                                    *)
(***************************************************************************)
Map(f, s) == [i \in 1..Len(s) |-> f[s[i]]]

LEMMA MapType ==
  ASSUME NEW T, NEW S, NEW f \in [T -> S], NEW s \in Seq(T)
  PROVE  Map(f, s) \in Seq(S) /\ Len(Map(f, s)) = Len(s)
<1>1. Len(s) \in Nat /\ \A i \in 1..Len(s) : s[i] \in T
  OBVIOUS
<1>2. Map(f, s) \in [1..Len(s) -> S]
  BY <1>1 DEF Map
<1> QED
  BY <1>1, <1>2, FunctionIsSeq

LEMMA MapLen ==
  ASSUME NEW f, NEW T, NEW s \in Seq(T)
  PROVE  Len(Map(f, s)) = Len(s) /\ DOMAIN Map(f, s) = 1..Len(s)
<1> DEFINE S == {f[x] : x \in T}
<1>1. Len(s) \in Nat /\ \A i \in 1..Len(s) : s[i] \in T
  OBVIOUS
<1>2. \A i \in 1..Len(s) : f[s[i]] \in S
  BY <1>1, Zenon
<1> HIDE DEF S
<1>3. Map(f, s) \in [1..Len(s) -> S]
  BY <1>2, Zenon DEF Map
<1> QED
  BY <1>1, <1>3, FunctionIsSeq

LEMMA MapEmpty ==
  ASSUME NEW f
  PROVE  Map(f, <<>>) = <<>>
BY DEF Map

LEMMA MapAppend ==
  ASSUME NEW T, NEW S, NEW f \in [T -> S], NEW s \in Seq(T), NEW x \in T
  PROVE  Map(f, Append(s, x)) = Append(Map(f, s), f[x])
<1> DEFINE n == Len(s)
           long == Append(s, x)
           a == Map(f, long)
           m == Map(f, s)
           b == Append(m, f[x])
<1>1. n \in Nat /\ long \in Seq(T) /\ Len(long) = n + 1 /\ long[n + 1] = x
      /\ \A i \in 1..n : long[i] = s[i]
  OBVIOUS
<1> HIDE DEF long
<1>2. a \in Seq(S) /\ Len(a) = n + 1 /\ m \in Seq(S) /\ Len(m) = n /\ f[x] \in S
  BY <1>1, MapType
<1>3. /\ \A i \in 1..(n + 1) : a[i] = f[long[i]]
      /\ \A i \in 1..n : m[i] = f[s[i]]
  BY <1>1 DEF Map
<1> HIDE DEF a, m, n
<1>4. b \in Seq(S) /\ Len(b) = n + 1 /\ b[n + 1] = f[x] /\ \A i \in 1..n : b[i] = m[i]
  BY <1>2
<1> HIDE DEF b
<1>5. \A i \in 1..(n + 1) : i = n + 1 \/ i \in 1..n
  BY <1>1
<1>6. \A i \in 1..(n + 1) : a[i] = b[i]
  <2> SUFFICES ASSUME NEW i \in 1..(n + 1) PROVE a[i] = b[i]
    OBVIOUS
  <2>1. CASE i = n + 1
    BY <1>1, <1>3, <1>4, <2>1
  <2>2. CASE i \in 1..n
    BY <1>1, <1>3, <1>4, <2>2
  <2> QED
    BY <1>5, <2>1, <2>2
<1>7. a = b
  BY <1>2, <1>4, <1>6, SeqEqual
<1> QED
  BY <1>7 DEF a, b, m, long

\* Applied to two sequences, one after the other.
-----------------------------------------------------------------------------
(***************************************************************************)
(* Words of a line.                                                        *)
(***************************************************************************)
WordsBegin == [done |-> <<>>, word |-> NoWord]

\* Nothing changes a token that is glued to no word.
LEMMA GlueNothing ==
  \A c \in Token : Glue(NoWord, c) = c
<1> SUFFICES ASSUME NEW c \in Token PROVE Glue(NoWord, c) = c
  OBVIOUS
<1>1. c.chars \in Seq(Char) /\ c.num \in Seq(Int) /\ c = [chars |-> c.chars, num |-> c.num]
  BY DEF Token
<1>2. <<>> \o c.chars = c.chars /\ <<>> \o c.num = c.num
  BY <1>1
<1>3. NoWord.chars = <<>> /\ NoWord.num = <<>>
  BY DEF NoWord, Plain
<1> QED
  BY <1>1, <1>2, <1>3 DEF Glue

LEMMA GlueType ==
  \A a, b \in Token : Glue(a, b) \in Token
<1> SUFFICES ASSUME NEW a \in Token, NEW b \in Token PROVE Glue(a, b) \in Token
  OBVIOUS
<1>1. a.chars \in Seq(Char) /\ a.num \in Seq(Int) /\ b.chars \in Seq(Char) /\ b.num \in Seq(Int)
  BY DEF Token
<1>2. a.chars \o b.chars \in Seq(Char) /\ a.num \o b.num \in Seq(Int)
  BY <1>1
<1> QED
  BY <1>2 DEF Glue, Token

LEMMA WithWordType ==
  \A acc \in WordState : WithWord(acc) \in Text
<1> SUFFICES ASSUME NEW acc \in WordState PROVE WithWord(acc) \in Text
  OBVIOUS
<1>1. acc.done \in Text /\ acc.word \in Token
  BY DEF WordState
<1>2. Append(acc.done, acc.word) \in Text
  BY <1>1, TextSums, Zenon
<1> QED
  BY <1>1, <1>2 DEF WithWord

\* One turn of the loop that cuts words.
LEMMA WordTurn ==
  ASSUME NEW acc \in WordState, NEW c \in Token
  PROVE  /\ c = SP => AddToWord[acc][c] = [done |-> WithWord(acc), word |-> NoWord]
         /\ c # SP => AddToWord[acc][c] = [done |-> acc.done, word |-> Glue(acc.word, c)]
         /\ AddToWord[acc][c] \in WordState
<1>1. acc.done \in Text /\ acc.word \in Token
  BY DEF WordState
<1>2. AddToWord[acc][c] = IF c = SP THEN [done |-> WithWord(acc), word |-> NoWord]
                                    ELSE [done |-> acc.done, word |-> Glue(acc.word, c)]
  BY DEF AddToWord, WordState
<1>3. WithWord(acc) \in Text /\ Glue(acc.word, c) \in Token /\ NoWord \in Token
  BY <1>1, WithWordType, GlueType, TokenFacts, Zenon
<1> QED
  BY <1>1, <1>2, <1>3 DEF WordState

LEMMA WordFold ==
  \A s \in WordState, t \in Text, u \in Text :
    /\ Fold(AddToWord, s, t) \in WordState
    /\ Fold(AddToWord, s, t \o u) = Fold(AddToWord, Fold(AddToWord, s, t), u)
<1> SUFFICES ASSUME NEW s \in WordState, NEW t \in Text, NEW u \in Text
             PROVE  /\ Fold(AddToWord, s, t) \in WordState
                    /\ Fold(AddToWord, s, t \o u) = Fold(AddToWord, Fold(AddToWord, s, t), u)
  OBVIOUS
<1>1. Fold(AddToWord, s, t \o u) = Fold(AddToWord, Fold(AddToWord, s, t), u)
  BY TextFold
<1>2. \A a \in WordState, c \in Token : AddToWord[a][c] \in WordState
  BY WordTurn
<1>3. Fold(AddToWord, s, t) \in WordState
  BY <1>2, FoldInvariant DEF Text
<1> QED
  BY <1>1, <1>3

\* A space ends a word, and a token begins one.
LEMMA SpaceEnds ==
  \A acc \in WordState :
    Fold(AddToWord, acc, Space) = [done |-> WithWord(acc), word |-> NoWord]
<1> SUFFICES ASSUME NEW acc \in WordState
             PROVE  Fold(AddToWord, acc, Space) = [done |-> WithWord(acc), word |-> NoWord]
  OBVIOUS
<1>1. Fold(AddToWord, acc, Space) = AddToWord[acc][SP]
  BY FoldOne DEF Space
<1> QED
  BY <1>1, TokenFacts, WordTurn

LEMMA WordBegins ==
  ASSUME NEW d \in Text, NEW c \in Word
  PROVE  LET acc == [done |-> d, word |-> NoWord]
         IN  /\ acc \in WordState
             /\ Fold(AddToWord, acc, <<c>>) = [done |-> d, word |-> c]
             /\ WithWord([done |-> d, word |-> c]) = Append(d, c)
<1> DEFINE acc == [done |-> d, word |-> NoWord]
<1>1. acc \in WordState /\ acc.done = d /\ acc.word = NoWord
  BY TokenFacts DEF WordState
<1>2. c \in Token /\ c # SP /\ c # NoWord
  BY DEF Word
<1>3. Glue(NoWord, c) = c
  BY <1>2, GlueNothing
<1> HIDE DEF acc
<1>4. Fold(AddToWord, acc, <<c>>) = AddToWord[acc][c]
  BY FoldOne
<1>5. AddToWord[acc][c] = [done |-> acc.done, word |-> Glue(acc.word, c)]
  BY <1>1, <1>2, WordTurn
<1>6. WithWord([done |-> d, word |-> c]) = Append(d, c)
  BY <1>2 DEF WithWord
<1> QED
  BY <1>1, <1>3, <1>4, <1>5, <1>6 DEF acc

\* A row of an image: words with spaces between them.
Ones == [c \in Token |-> <<c>>]
RowOf(ws) == Join(Map(Ones, ws), Space)

LEMMA RowGrows ==
  ASSUME NEW ws \in Text, NEW c \in Token
  PROVE  /\ RowOf(<<>>) = <<>> /\ RowOf(ws) \in Text
         /\ ws = <<>> => RowOf(Append(ws, c)) = <<c>>
         /\ ws # <<>> => RowOf(Append(ws, c)) = RowOf(ws) \o (Space \o <<c>>)
<1>1. Ones \in [Token -> Text] /\ Ones[c] = <<c>> /\ <<c>> \in Text
  BY DEF Ones, Text
<1>2. Map(Ones, ws) \in Seq(Text) /\ Len(Map(Ones, ws)) = Len(ws)
  <2>1. ws \in Seq(Token)
    BY DEF Text
  <2>2. \A f \in [Token -> Text], s \in Seq(Token) : Map(f, s) \in Seq(Text) /\ Len(Map(f, s)) = Len(s)
    BY MapType
  <2> QED
    BY <1>1, <2>1, <2>2, Zenon
<1>3. Map(Ones, Append(ws, c)) = Append(Map(Ones, ws), <<c>>)
  <2>1. ws \in Seq(Token)
    BY DEF Text
  <2>2. Map(Ones, Append(ws, c)) = Append(Map(Ones, ws), Ones[c])
    BY <1>1, <2>1, MapAppend
  <2> QED
    BY <1>1, <2>2
<1>4. Map(Ones, <<>>) = <<>>
  BY MapEmpty
<1>5. RowOf(<<>>) = <<>>
  BY <1>4, JoinEmpty DEF RowOf
<1>6. RowOf(ws) \in Text
  BY <1>2, JoinType, Separators, Zenon DEF RowOf
<1>7. ASSUME ws = <<>>
      PROVE  RowOf(Append(ws, c)) = <<c>>
  <2> DEFINE p == <<c>>
  <2>1. p \in Text
    BY <1>1
  <2> HIDE DEF p
  <2>2. Append(<<>>, p) = <<p>>
    OBVIOUS
  <2>3. Join(<<p>>, Space) = p
    BY <2>1, JoinOne, Separators, Zenon
  <2>4. Map(Ones, Append(ws, c)) = <<p>>
    BY <1>3, <1>4, <1>7, <2>2 DEF p
  <2> QED
    BY <2>3, <2>4, Zenon DEF p, RowOf
<1>8. ASSUME ws # <<>>
      PROVE  RowOf(Append(ws, c)) = RowOf(ws) \o (Space \o <<c>>)
  <2> DEFINE p == <<c>>
             m == Map(Ones, ws)
  <2>1. p \in Text /\ Space \in Text /\ m \in Seq(Text)
    BY <1>1, <1>2, Separators
  <2>2. m # <<>>
    <3>1. Len(ws) # 0 /\ Len(<<>>) = 0
      BY <1>8 DEF Text
    <3> QED
      BY <1>2, <3>1
  <2> HIDE DEF p, m
  <2>3. Join(Append(m, p), Space) = Join(m, Space) \o (Space \o p)
    BY <2>1, <2>2, JoinAppend, Zenon
  <2> QED
    BY <1>3, <2>3, Zenon DEF p, m, RowOf
<1> QED
  BY <1>5, <1>6, <1>7, <1>8

\* The words of a row are found again.
LEMMA RowWords ==
  \A ws \in Seq(Word) : RowOf(ws) \in Seq(Inner) /\ Words(RowOf(ws)) = ws
<1> DEFINE End(v) == Fold(AddToWord, WordsBegin, RowOf(v))
           H == {v \in Seq(Word) : /\ RowOf(v) \in Seq(Inner) /\ End(v) \in WordState
                                   /\ WithWord(End(v)) = v}
<1>0. WordsBegin \in WordState /\ WithWord(WordsBegin) = <<>> /\ Seq(Word) \subseteq Text
  <2>1. Seq(Word) \subseteq Seq(Token)
    BY SeqMonotonic DEF Word
  <2> QED
    BY <2>1, TokenFacts, TextSums DEF WordsBegin, WordState, WithWord, Text
<1>1. <<>> \in H
  <2>1. <<>> \in Seq(Word) /\ <<>> \in Seq(Inner)
    OBVIOUS
  <2>2. RowOf(<<>>) = <<>>
    BY RowGrows, TokenFacts, TextSums, Zenon
  <2>3. Fold(AddToWord, WordsBegin, <<>>) = WordsBegin
    BY FoldEmpty
  <2> QED
    BY <1>0, <2>1, <2>2, <2>3, Zenon
<1>2. ASSUME NEW v \in Seq(Word), NEW x \in Word, v \in H
      PROVE  Append(v, x) \in H
  <2> DEFINE r == Append(v, x)
  <2>0. v \in Text /\ x \in Token /\ <<x>> \in Text /\ r \in Seq(Word) /\ Space \in Text
    <3>1. v \in Text /\ x \in Token /\ Space \in Text
      BY <1>0, Separators DEF Word
    <3>2. r \in Seq(Word)
      OBVIOUS
    <3> QED
      BY <3>1, <3>2, TextSums, Zenon
  <2>i. x \in Inner /\ SP \in Inner
    BY TokenFacts DEF Word, Inner
  <2>1. ASSUME NEW d \in Text, End(r) = Fold(AddToWord, [done |-> d, word |-> NoWord], <<x>>), d = v
        PROVE  End(r) \in WordState /\ WithWord(End(r)) = r
    <3> DEFINE e == End(r)
    <3>1. e = [done |-> d, word |-> x] /\ WithWord([done |-> d, word |-> x]) = Append(d, x)
      BY <2>1, WordBegins
    <3> HIDE DEF e
    <3>2. [done |-> d, word |-> x] \in WordState
      BY <2>0 DEF WordState
    <3>3. e \in WordState /\ WithWord(e) = r
      BY <2>1, <3>1, <3>2
    <3> QED
      BY <3>3 DEF e
  <2>2. CASE v = <<>>
    <3>1. RowOf(r) = <<x>>
      BY <2>0, <2>2, RowGrows
    <3>2. <<x>> \in Seq(Inner)
      BY <2>i
    <3>3. End(r) = Fold(AddToWord, [done |-> <<>>, word |-> NoWord], <<x>>)
      BY <3>1, Zenon DEF WordsBegin
    <3>4. End(r) \in WordState /\ WithWord(End(r)) = r
      BY <2>1, <2>2, <3>3, TextSums, Zenon
    <3> QED
      BY <2>0, <3>1, <3>2, <3>4, Zenon
  <2>3. CASE v # <<>>
    <3> DEFINE s == End(v)
               u == [done |-> WithWord(s), word |-> NoWord]
               y == <<x>>
    <3>1. RowOf(r) = RowOf(v) \o (Space \o y) /\ RowOf(v) \in Text
      BY <2>0, <2>3, RowGrows
    <3>2. RowOf(r) \in Seq(Inner)
      <4>1. RowOf(v) \in Seq(Inner) /\ y \in Seq(Inner) /\ Space \in Seq(Inner)
        BY <1>2, <2>i DEF Space
      <4> HIDE DEF y
      <4>2. \A a, b, c \in Seq(Inner) : a \o (b \o c) \in Seq(Inner)
        OBVIOUS
      <4> QED
        BY <3>1, <4>1, <4>2, Zenon
    <3>3. s \in WordState /\ WithWord(s) = v
      BY <1>2
    <3>4. Space \o y \in Text /\ y \in Text
      BY <2>0, TextSums, Zenon
    <3> HIDE DEF y, s
    <3>5. Fold(AddToWord, WordsBegin, RowOf(v) \o (Space \o y))
            = Fold(AddToWord, Fold(AddToWord, WordsBegin, RowOf(v)), Space \o y)
      BY <1>0, <3>1, <3>4, WordFold, Zenon
    <3>6. Fold(AddToWord, s, Space \o y) = Fold(AddToWord, Fold(AddToWord, s, Space), y)
      BY <2>0, <3>3, <3>4, WordFold, Zenon
    <3>7. Fold(AddToWord, s, Space) = u
      BY <3>3, SpaceEnds, Zenon
    <3>8. End(r) = Fold(AddToWord, [done |-> v, word |-> NoWord], y)
      BY <3>1, <3>3, <3>5, <3>6, <3>7 DEF s
    <3>9. End(r) \in WordState /\ WithWord(End(r)) = r
      BY <2>0, <2>1, <3>8, Zenon DEF y
    <3> QED
      BY <2>0, <3>2, <3>9, Zenon
  <2> QED
    BY <2>2, <2>3
<1>3. Seq(Word) \subseteq H
  <2> HIDE DEF H
  <2> QED
    BY <1>1, <1>2, SeqInduction
<1>4. \A ws \in Seq(Word) : Words(RowOf(ws)) = WithWord(End(ws))
  BY Zenon DEF Words, WordsBegin
<1> QED
  BY <1>3, <1>4, Zenon

-----------------------------------------------------------------------------
(***************************************************************************)
(* Images as texts, and back.                                              *)
(***************************************************************************)

\* The token of a pixel, the pixel of a word, and both, as functions.
CodeToken == [c \in Color |-> Plain(CodeOf(c))]
Decode == [w \in Token |-> codeToRGB(w.chars)]
Recolour == [c \in Color |-> codeToRGB(CodeOf(c))]

\* The letters of codes.
Sign == Letter \cup {"L", "D"}

\* The codes there are.
LEMMA CodesAre ==
  ASSUME NEW c \in Color
  PROVE  CodeOf(c) \in {<<l, "L">> : l \in Letter} \cup {<<l>> : l \in Letter}
                       \cup {<<"R", "G", "B", "D">>, <<"R", "G", "B">>}
<1>1. CASE \E l \in Letter : Near(c, l)
  BY <1>1, CodeOfLetter
<1>2. CASE ~\E l \in Letter : Near(c, l)
  BY <1>2, Zenon DEF CodeOf
<1> QED
  BY <1>1, <1>2

LEMMA SignsAre ==
  /\ Sign \subseteq Char /\ Letter \subseteq Sign
  /\ "L" \in Sign /\ "D" \in Sign /\ "R" \in Sign /\ "G" \in Sign /\ "B" \in Sign
  /\ " " \notin Sign /\ "\n" \notin Sign
BY CharAssumption DEF Letter, Sign

\* A code is made of letters and modifiers, one to four of them.
LEMMA CodeSigns ==
  ASSUME NEW c \in Color
  PROVE  CodeOf(c) \in Seq(Sign) /\ Len(CodeOf(c)) \in 1..4
<1>1. CodeOf(c) \in {<<l, "L">> : l \in Letter} \cup {<<l>> : l \in Letter}
                    \cup {<<"R", "G", "B", "D">>, <<"R", "G", "B">>}
  BY CodesAre
<1>2. \A T, a, b : a \in T /\ b \in T => <<a, b>> \in Seq(T) /\ Len(<<a, b>>) \in 1..4
  OBVIOUS
<1>3. \A T, a : a \in T => <<a>> \in Seq(T) /\ Len(<<a>>) \in 1..4
  OBVIOUS
<1>4. \A T, a, b, d, e : a \in T /\ b \in T /\ d \in T /\ e \in T =>
        <<a, b, d, e>> \in Seq(T) /\ Len(<<a, b, d, e>>) \in 1..4
  OBVIOUS
<1>5. \A T, a, b, d : a \in T /\ b \in T /\ d \in T =>
        <<a, b, d>> \in Seq(T) /\ Len(<<a, b, d>>) \in 1..4
  OBVIOUS
<1>6. ASSUME NEW l \in Letter
      PROVE  /\ <<l, "L">> \in Seq(Sign) /\ Len(<<l, "L">>) \in 1..4
             /\ <<l>> \in Seq(Sign) /\ Len(<<l>>) \in 1..4
  <2>1. l \in Sign
    BY SignsAre, Zenon
  <2> QED
    BY <2>1, <1>2, <1>3, SignsAre, Zenon
<1>7. /\ <<"R", "G", "B", "D">> \in Seq(Sign) /\ Len(<<"R", "G", "B", "D">>) \in 1..4
      /\ <<"R", "G", "B">> \in Seq(Sign) /\ Len(<<"R", "G", "B">>) \in 1..4
  BY <1>4, <1>5, SignsAre, Zenon
<1> QED
  BY <1>1, <1>6, <1>7, Zenon

\* The code of a pixel is a word of valid letters, and not the marker.
LEMMA CodeIsWord ==
  ASSUME NEW c \in Color
  PROVE  /\ CodeOf(c) \in Seq(Char) /\ CodeToken[c] = Plain(CodeOf(c))
         /\ CodeToken[c] \in Word /\ CodeToken[c] # Marker /\ CodeToken[c].num = <<>>
         /\ CodeToken[c].chars = CodeOf(c) /\ isValidCode(CodeOf(c))
<1> DEFINE s == CodeOf(c)
<1>1. s \in Seq(Sign) /\ Len(s) \in 1..4
  BY CodeSigns
<1>2. CodeToken[c] = [chars |-> s, num |-> <<>>] /\ CodeToken[c] = Plain(s)
  BY DEF CodeToken, Plain
<1> HIDE DEF s
<1>3. s \in Seq(Char) /\ s[1] \in Sign /\ \A i \in DOMAIN s : s[i] \in Sign
  <2>1. s[1] \in Sign /\ \A i \in DOMAIN s : s[i] \in Sign
    BY <1>1
  <2>2. s \in [1..Len(s) -> Sign] /\ Len(s) \in Nat /\ DOMAIN s = 1..Len(s)
    BY <1>1
  <2>3. s \in [1..Len(s) -> Char]
    BY <2>2, SignsAre, Zenon
  <2>4. s \in Seq(Char)
    BY <2>2, <2>3, FunctionIsSeq
  <2> QED
    BY <2>1, <2>4
<1>4. Len(<<>>) = 0 /\ <<" ">>[1] = " " /\ <<"\n">>[1] = "\n"
  OBVIOUS
<1>5. Len(MarkerChars) = 17
  BY DEF MarkerChars
<1>6. s # <<>> /\ s # MarkerChars
  <2>1. 0 \notin 1..4 /\ 17 \notin 1..4
    OBVIOUS
  <2> QED
    BY <1>1, <1>4, <1>5, <2>1, Zenon
<1>7. s # <<" ">> /\ s # <<"\n">>
  BY <1>3, <1>4, SignsAre, Zenon
<1>8. CodeToken[c] \in Token
  <2>1. <<>> \in Seq(Int)
    OBVIOUS
  <2>2. \A a \in Seq(Char), b \in Seq(Int) : [chars |-> a, num |-> b] \in Token
    BY DEF Token
  <2> QED
    BY <1>2, <1>3, <2>1, <2>2, Zenon
<1>9. \A a : CodeToken[c] = [chars |-> a, num |-> <<>>] => a = s
  BY <1>2
<1>10. CodeToken[c] \notin {SP, NL, NoWord, Marker}
  BY <1>6, <1>7, <1>9, Zenon DEF SP, NL, NoWord, Marker, Plain
<1>11. isValidCode(s)
  BY <1>3, <1>6, Zenon DEF isValidCode, Sign
<1>12. CodeToken[c].num = <<>> /\ CodeToken[c].chars = s
  BY <1>2
<1> QED
  BY <1>2, <1>3, <1>8, <1>10, <1>11, <1>12, Zenon DEF Word, s

\* Every word, of whatever letters, is read as a pixel.
LEMMA DecodeType ==
  /\ CodeToken \in [Color -> Word] /\ Decode \in [Token -> Color]
  /\ Recolour \in [Color -> Color]
  /\ \A c \in Color : Decode[CodeToken[c]] = Recolour[c]
<1>1. \A c \in Color : CodeToken[c] \in Word
  BY CodeIsWord
<1>2. CodeToken \in [Color -> Word]
  BY <1>1 DEF CodeToken
<1>3. \A w \in Token : codeToRGB(w.chars) \in Color
  <2> SUFFICES ASSUME NEW w \in Token PROVE codeToRGB(w.chars) \in Color
    OBVIOUS
  <2> DEFINE s == w.chars
  <2>1. s \in Seq(Char)
    BY DEF Token
  <2> HIDE DEF s
  <2>2. codeToRGB(s) \in Color
    BY <2>1, EveryCodeIsAColor
  <2> QED
    BY <2>2 DEF s
<1>4. Decode \in [Token -> Color]
  BY <1>3 DEF Decode
<1>5. \A c \in Color : codeToRGB(CodeOf(c)) \in Color /\ Decode[CodeToken[c]] = codeToRGB(CodeOf(c))
  <2> SUFFICES ASSUME NEW c \in Color
               PROVE  codeToRGB(CodeOf(c)) \in Color /\ Decode[CodeToken[c]] = codeToRGB(CodeOf(c))
    OBVIOUS
  <2>1. CodeToken[c] \in Token /\ CodeToken[c].chars = CodeOf(c)
    BY CodeIsWord DEF Word
  <2>2. Decode[CodeToken[c]] = codeToRGB(CodeToken[c].chars)
    BY <2>1, Zenon DEF Decode
  <2> QED
    BY <1>3, <2>1, <2>2, Zenon
<1>6. Recolour \in [Color -> Color] /\ \A c \in Color : Recolour[c] = codeToRGB(CodeOf(c))
  BY <1>5, Zenon DEF Recolour
<1> QED
  BY <1>2, <1>4, <1>5, <1>6, Zenon

\* The line of a row of pixels.
RowText == [p \in Seq(Color) |-> RowOf(Map(CodeToken, p))]

\* The words of such a line are the codes of its pixels.
LEMMA RowTextType ==
  /\ RowText \in [Seq(Color) -> Seq(Inner)]
  /\ \A p \in Seq(Color) : /\ RowText[p] = RowOf(Map(CodeToken, p))
                           /\ Words(RowText[p]) = Map(CodeToken, p)
                           /\ Map(CodeToken, p) \in Seq(Word)
<1>1. ASSUME NEW p \in Seq(Color)
      PROVE  /\ Map(CodeToken, p) \in Seq(Word) /\ RowOf(Map(CodeToken, p)) \in Seq(Inner)
             /\ Words(RowOf(Map(CodeToken, p))) = Map(CodeToken, p)
  <2>1. CodeToken \in [Color -> Word]
    BY DecodeType
  <2>2. Map(CodeToken, p) \in Seq(Word)
    BY <2>1, MapType
  <2> QED
    BY <2>2, RowWords, Zenon
<1> QED
  BY <1>1, Zenon DEF RowText

\* pixelToText writes the rows, whatever the order of the letters.
LEMMA PixelText ==
  ASSUME NEW P \in Seq(Color), NEW w \in Nat, NEW h \in Nat, Len(P) = w * h, NEW o \in Orders
  PROVE  pixelToText(P, w, h, o) = Join(Map(RowText, PiecesOf(P, w, h)), Newline)
<1> DEFINE row(y) == Join([x \in 1..w |-> <<Plain(rgbToCode(P[(y - 1) * w + x], o))>>], Space)
<1>1. ASSUME NEW y \in 1..h
      PROVE  row(y) = RowText[Piece(P, w, y)]
  <2> DEFINE q == Piece(P, w, y)
  <2>1. q \in Seq(Color) /\ Len(q) = w
    BY PieceType
  <2>2. ASSUME NEW x \in 1..w
        PROVE  q[x] = P[(y - 1) * w + x] /\ q[x] \in Color
    <3>1. q[x] = P[(y - 1) * w + x]
      BY Zenon DEF Piece
    <3>2. q[x] \in Color
      BY <2>1
    <3> QED
      BY <3>1, <3>2
  <2> HIDE DEF q
  <2>3. ASSUME NEW x \in 1..w
        PROVE  Map(CodeToken, q)[x] = Plain(rgbToCode(P[(y - 1) * w + x], o))
    <3>1. Map(CodeToken, q)[x] = CodeToken[q[x]]
      BY <2>1, Zenon DEF Map
    <3>2. CodeToken[q[x]] = Plain(CodeOf(q[x]))
      BY <2>2, CodeIsWord, Zenon
    <3>3. rgbToCode(q[x], o) = CodeOf(q[x])
      BY <2>2, CodeIsCodeOf, Zenon
    <3> QED
      BY <3>1, <3>2, <3>3, <2>2, Zenon
  <2> DEFINE M == Map(CodeToken, q)
  <2>4. M \in Seq(Token) /\ Len(M) = w
    <3>1. CodeToken \in [Color -> Token]
      BY DecodeType DEF Word
    <3>2. Map(CodeToken, q) \in Seq(Token)
      BY <3>1, <2>1, MapType
    <3>3. Len(Map(CodeToken, q)) = Len(q)
      BY <2>1, MapLen
    <3> QED
      BY <3>2, <3>3, <2>1
  <2>5. \A x \in 1..w : M[x] \in Token /\ M[x] = Plain(rgbToCode(P[(y - 1) * w + x], o))
    <3>1. \A x \in 1..w : M[x] \in Token
      <4> HIDE DEF M
      <4> QED BY <2>4
    <3> QED
      BY <3>1, <2>3
  <2> HIDE DEF M
  <2>6. Map(Ones, M) = [x \in 1..w |-> <<Plain(rgbToCode(P[(y - 1) * w + x], o))>>]
    <3>1. Map(Ones, M) = [x \in 1..w |-> Ones[M[x]]]
      BY <2>4 DEF Map
    <3>2. \A x \in 1..w : Ones[M[x]] = <<Plain(rgbToCode(P[(y - 1) * w + x], o))>>
      BY <2>5, Zenon DEF Ones
    <3> QED
      BY <3>1, <3>2, Zenon
  <2>7. row(y) = RowOf(M)
    BY <2>6, Zenon DEF RowOf
  <2> QED
    BY <2>7, <2>1, RowTextType, Zenon DEF M, q
<1>2. pixelToText(P, w, h, o) = Join([y \in 1..h |-> row(y)], Newline)
  BY Zenon DEF pixelToText, Space, Newline
<1> HIDE DEF row
<1>3. Len(PiecesOf(P, w, h)) = h /\ \A y \in 1..h : PiecesOf(P, w, h)[y] = Piece(P, w, y)
  <2>1. Len(PiecesOf(P, w, h)) = h
    BY PiecesOfType
  <2> QED
    BY <2>1, Zenon DEF PiecesOf
<1>4. Map(RowText, PiecesOf(P, w, h)) = [y \in 1..h |-> RowText[PiecesOf(P, w, h)[y]]]
  BY <1>3, Zenon DEF Map
<1>5. \A y \in 1..h : row(y) = RowText[PiecesOf(P, w, h)[y]]
  BY <1>1, <1>3, Zenon
<1>6. [y \in 1..h |-> row(y)] = [y \in 1..h |-> RowText[PiecesOf(P, w, h)[y]]]
  BY <1>5, Zenon
<1> QED
  BY <1>2, <1>4, <1>6, Zenon

-----------------------------------------------------------------------------
(***************************************************************************)
(* The loop of textToPixel.                                                *)
(***************************************************************************)
AddRowStep == [img \in ImageData |-> [line \in Text |-> AddRow(img, line)]]

LEMMA WordsType ==
  \A t \in Text : Words(t) \in Text
<1>1. WordsBegin \in WordState
  BY TokenFacts, TextSums, Zenon DEF WordsBegin, WordState
<1>2. ASSUME NEW t \in Text
      PROVE  Words(t) \in Text
  <2>1. Fold(AddToWord, WordsBegin, t) \in WordState
    BY <1>1, WordFold, TextSums, Zenon
  <2>2. Words(t) = WithWord(Fold(AddToWord, WordsBegin, t))
    BY Zenon DEF Words, WordsBegin
  <2> QED
    BY <2>1, <2>2, WithWordType, Zenon
<1> QED
  BY <1>2

\* The pixels of a line.
PixelsOf(line) == Map(Decode, Words(line))

LEMMA PixelsOfType ==
  \A t \in Text : PixelsOf(t) \in Seq(Color) /\ Len(PixelsOf(t)) = Len(Words(t))
<1>1. ASSUME NEW t \in Text
      PROVE  PixelsOf(t) \in Seq(Color) /\ Len(PixelsOf(t)) = Len(Words(t))
  <2> DEFINE ws == Words(t)
  <2>1. ws \in Seq(Token)
    BY WordsType, Zenon DEF Text
  <2> HIDE DEF ws
  <2>2. Decode \in [Token -> Color]
    BY DecodeType
  <2>3. Map(Decode, ws) \in Seq(Color)
    BY <2>1, <2>2, MapType
  <2>4. Len(Map(Decode, ws)) = Len(ws)
    BY <2>1, MapLen
  <2> QED
    BY <2>3, <2>4 DEF ws, PixelsOf
<1> QED
  BY <1>1

\* One turn of the loop.
LEMMA RowTurn ==
  ASSUME NEW img \in ImageData, NEW line \in Text
  PROVE  /\ AddRowStep[img][line] = AddRow(img, line)
         /\ line = <<>> => AddRow(img, line) = img
         /\ line # <<>> =>
              AddRow(img, line) =
                [pixels |-> img.pixels \o PixelsOf(line),
                 width  |-> IF img.width = 0 THEN Len(img.pixels \o PixelsOf(line)) \div (img.height + 1)
                                             ELSE img.width,
                 height |-> img.height + 1]
         /\ AddRow(img, line) \in ImageData
<1>1. AddRowStep[img][line] = AddRow(img, line)
  BY Zenon DEF AddRowStep
<1>2. line = <<>> => AddRow(img, line) = img
  BY DEF AddRow
<1> DEFINE row == [i \in 1..Len(Words(line)) |-> codeToRGB(Words(line)[i].chars)]
<1>3. row = PixelsOf(line)
  <2> DEFINE ws == Words(line)
  <2>1. ws \in Seq(Token)
    BY WordsType, Zenon DEF Text
  <2> HIDE DEF ws
  <2>2. \A i \in 1..Len(ws) : ws[i] \in Token
    BY <2>1
  <2>3. \A i \in 1..Len(ws) : Decode[ws[i]] = codeToRGB(ws[i].chars)
    BY <2>2, Zenon DEF Decode
  <2>4. [i \in 1..Len(ws) |-> codeToRGB(ws[i].chars)] = [i \in 1..Len(ws) |-> Decode[ws[i]]]
    BY <2>3, Zenon
  <2> QED
    BY <2>4 DEF ws, PixelsOf, Map
<1> HIDE DEF row
<1>4. line # <<>> =>
        AddRow(img, line) =
          [pixels |-> img.pixels \o row,
           width  |-> IF img.width = 0 THEN Len(img.pixels \o row) \div (img.height + 1)
                                       ELSE img.width,
           height |-> img.height + 1]
  BY Zenon DEF AddRow, row
<1>5. img.pixels \in Seq(Color) /\ img.width \in Nat /\ img.height \in Nat
  BY DEF ImageData
<1>6. row \in Seq(Color)
  BY <1>3, PixelsOfType, Zenon
<1>7. ASSUME line # <<>>
      PROVE  AddRow(img, line) \in ImageData
  <2> DEFINE px == img.pixels \o row
  <2>1. px \in Seq(Color) /\ Len(px) \in Nat
    BY <1>5, <1>6
  <2> HIDE DEF px
  <2>2. Len(px) \div (img.height + 1) \in Nat
    BY <2>1, <1>5, Quotient
  <2>3. \A a \in Nat, b \in Nat, c \in Seq(Color) : [pixels |-> c, width |-> a, height |-> b] \in ImageData
    BY DEF ImageData
  <2>4. (IF img.width = 0 THEN Len(px) \div (img.height + 1) ELSE img.width) \in Nat /\ img.height + 1 \in Nat
    BY <2>2, <1>5
  <2> QED
    BY <1>4, <1>7, <2>1, <2>3, <2>4, Zenon DEF px
<1> QED
  BY <1>1, <1>2, <1>3, <1>4, <1>7, Zenon

-----------------------------------------------------------------------------
LEMMA WordsEmpty == Words(<<>>) = <<>>
<1>1. Fold(AddToWord, WordsBegin, <<>>) = WordsBegin
  BY FoldEmpty
<1>2. Words(<<>>) = WithWord(Fold(AddToWord, WordsBegin, <<>>))
  BY Zenon DEF Words, WordsBegin
<1>3. WordsBegin.done = <<>> /\ WordsBegin.word = NoWord
  BY DEF WordsBegin
<1> QED
  BY <1>1, <1>2, <1>3, Zenon DEF WithWord

\* A row that is not empty has a line that is not, and its pixels are recoloured.
LEMMA RowPixels ==
  \A p \in Seq(Color) : /\ PixelsOf(RowText[p]) = Map(Recolour, p)
                        /\ p # <<>> => RowText[p] # <<>>
<1> SUFFICES ASSUME NEW p \in Seq(Color)
             PROVE  /\ PixelsOf(RowText[p]) = Map(Recolour, p)
                    /\ p # <<>> => RowText[p] # <<>>
  OBVIOUS
<1> DEFINE m == Map(CodeToken, p)
<1>1. Words(RowText[p]) = m /\ Len(m) = Len(p)
  <2>1. Len(m) = Len(p)
    BY MapLen
  <2> QED
    BY <2>1, RowTextType, Zenon
<1>2. Len(p) \in Nat /\ \A i \in 1..Len(p) : p[i] \in Color
  OBVIOUS
<1>3. \A i \in 1..Len(p) : m[i] = CodeToken[p[i]]
  BY Zenon DEF Map
<1> HIDE DEF m
<1>4. Map(Decode, m) = Map(Recolour, p)
  <2>1. \A i \in 1..Len(p) : Decode[m[i]] = Recolour[p[i]]
    BY <1>2, <1>3, DecodeType, Zenon
  <2>2. [i \in 1..Len(p) |-> Decode[m[i]]] = [i \in 1..Len(p) |-> Recolour[p[i]]]
    BY <2>1, Zenon
  <2> QED
    BY <1>1, <2>2, Zenon DEF Map
<1>5. ASSUME p # <<>> PROVE RowText[p] # <<>>
  <2>1. Len(p) # 0
    BY <1>5
  <2>2. Len(<<>>) = 0
    OBVIOUS
  <2> QED
    BY <1>1, <2>1, <2>2, WordsEmpty, Zenon
<1> QED
  BY <1>1, <1>4, <1>5, Zenon DEF PixelsOf

\* Rows of w pixels, and the image they make.
RowsOf(w) == {p \in Seq(Color) : Len(p) = w}
Painted(w, rows) ==
  [width |-> w, height |-> Len(rows), pixels |-> Map(Recolour, FlattenSeq(rows))]

LEMMA NoImageType == NoImage \in ImageData /\ NoImage.pixels = <<>> /\ NoImage.width = 0 /\ NoImage.height = 0
<1>1. <<>> \in Seq(Color)
  OBVIOUS
<1> QED
  BY <1>1 DEF NoImage, ImageData

\* Rows, and recoloured pixels, put together.
LEMMA RowTextAppend ==
  \A p \in Seq(Seq(Color)), q \in Seq(Color) :
    Map(RowText, Append(p, q)) = Append(Map(RowText, p), RowText[q])
<1>1. RowText \in [Seq(Color) -> Seq(Inner)]
  BY RowTextType
<1> DEFINE f == RowText
           T == Seq(Color)
           S == Seq(Inner)
<1> HIDE DEF f, T, S
<1>2. f \in [T -> S]
  BY <1>1 DEF f, T, S
<1>3. \A p \in Seq(T), q \in T : Map(f, Append(p, q)) = Append(Map(f, p), f[q])
  BY <1>2, MapAppend
<1> QED
  BY <1>3 DEF f, T, S

LEMMA RecolourConcat ==
  \A p, q \in Seq(Color) : Map(Recolour, p \o q) = Map(Recolour, p) \o Map(Recolour, q)
<1>1. Recolour \in [Color -> Color]
  BY DecodeType
<1> DEFINE f == Recolour
           T == Color
           S == Color
<1> HIDE DEF f, T, S
<1>2. f \in [T -> S]
  BY <1>1 DEF f, T, S
<1>3. ASSUME NEW s \in Seq(T), NEW t \in Seq(T)
      PROVE  Map(f, s \o t) = Map(f, s) \o Map(f, t)
  <2> DEFINE H == {v \in Seq(T) : Map(f, s \o v) = Map(f, s) \o Map(f, v)}
             m == Map(f, s)
  <2>0. m \in Seq(S)
    BY <1>2, MapType
  <2>1. <<>> \in H
    <3>1. <<>> \in Seq(T) /\ s \o <<>> = s /\ \A a \in Seq(S) : a \o <<>> = a
      OBVIOUS
    <3> QED
      BY <2>0, <3>1, MapEmpty
  <2>2. ASSUME NEW v \in Seq(T), NEW x \in T, v \in H
        PROVE  Append(v, x) \in H
    <3>1. s \o Append(v, x) = Append(s \o v, x) /\ s \o v \in Seq(T) /\ Append(v, x) \in Seq(T)
      OBVIOUS
    <3>2. \A w \in Seq(T) : Map(f, Append(w, x)) = Append(Map(f, w), f[x])
      BY <1>2, MapAppend
    <3>3. Map(f, s \o Append(v, x)) = Append(m \o Map(f, v), f[x])
      BY <2>2, <3>1, <3>2
    <3>4. Map(f, v) \in Seq(S) /\ f[x] \in S
      BY <1>2, MapType
    <3> HIDE DEF m
    <3>5. \A a \in Seq(S) : m \o Append(a, f[x]) = Append(m \o a, f[x])
      BY <2>0, <3>4, AppendConcat
    <3>6. Map(f, s \o Append(v, x)) = m \o Map(f, Append(v, x))
      BY <3>2, <3>3, <3>4, <3>5
    <3> QED
      BY <3>1, <3>6 DEF m
  <2>3. Seq(T) \subseteq H
    <3> HIDE DEF H
    <3> QED
      BY <2>1, <2>2, SeqInduction
  <2> QED
    BY <2>3
<1> QED
  BY <1>3, Zenon DEF f, T, S

LEMMA RowFold ==
  \A img \in ImageData, t \in Seq(Text), c \in Text :
    Fold(AddRowStep, img, Append(t, c)) = AddRowStep[Fold(AddRowStep, img, t)][c]
<1> SUFFICES ASSUME NEW img \in ImageData, NEW t \in Seq(Text), NEW c \in Text
             PROVE  Fold(AddRowStep, img, Append(t, c)) = AddRowStep[Fold(AddRowStep, img, t)][c]
  OBVIOUS
<1> DEFINE T == Text
<1> HIDE DEF T
<1>1. t \in Seq(T) /\ c \in T
  BY DEF T
<1> QED
  BY <1>1, FoldAppend

LEMMA RowsPaint ==
  ASSUME NEW w \in Nat \ {0}
  PROVE  \A rows \in Seq(RowsOf(w)) : rows # <<>> =>
           Fold(AddRowStep, NoImage, Map(RowText, rows)) = Painted(w, rows)
<1> DEFINE T == RowsOf(w)
           H == {s \in Seq(T) : /\ s = <<>> => Fold(AddRowStep, NoImage, Map(RowText, s)) = NoImage
                                /\ s # <<>> => Fold(AddRowStep, NoImage, Map(RowText, s)) = Painted(w, s)}
<1>1. <<>> \in H
  <2>1. <<>> \in Seq(T)
    OBVIOUS
  <2>2. Map(RowText, <<>>) = <<>>
    BY MapEmpty
  <2>3. Fold(AddRowStep, NoImage, <<>>) = NoImage
    BY FoldEmpty
  <2> QED
    BY <2>1, <2>2, <2>3, Zenon
<1>2. ASSUME NEW s \in Seq(T), NEW x \in T, s \in H
      PROVE  Append(s, x) \in H
  <2>1. x \in Seq(Color) /\ Len(x) = w /\ x # <<>>
    <3>1. x \in Seq(Color) /\ Len(x) = w
      BY DEF RowsOf
    <3> QED
      BY <3>1
  <2>2. s \in Seq(Seq(Color))
    <3>1. \A i \in 1..Len(s) : s[i] \in Seq(Color)
      BY DEF RowsOf
    <3>2. s \in [1..Len(s) -> Seq(Color)] /\ Len(s) \in Nat
      BY <3>1, SeqIsFunction
    <3> QED
      BY <3>2, FunctionIsSeq
  <2> HIDE DEF T
  <2> DEFINE img == Fold(AddRowStep, NoImage, Map(RowText, s))
             r == RowText[x]
             m == Map(RowText, s)
             fl == FlattenSeq(s)
             long == Append(s, x)
  <2>3. Append(s, x) \in Seq(T) /\ Append(s, x) # <<>> /\ Len(Append(s, x)) = Len(s) + 1 /\ Len(s) \in Nat
    OBVIOUS
  <2>4. Map(RowText, Append(s, x)) = Append(m, r)
    <3> QED
      BY <2>1, <2>2, RowTextAppend, Zenon
  <2>5. r \in Text /\ r # <<>> /\ PixelsOf(r) = Map(Recolour, x)
    <3>1. r \in Seq(Inner)
      BY RowTextType, <2>1
    <3>2. r \in Text
      BY <3>1, InnerIsText
    <3> QED
      BY <3>2, <2>1, RowPixels, Zenon
  <2>6. m \in Seq(Text)
    <3>1. RowText \in [Seq(Color) -> Text]
      BY RowTextType, InnerIsText
    <3> QED
      BY <3>1, <2>2, MapType
  <2>7. fl \in Seq(Color) /\ FlattenSeq(Append(s, x)) = fl \o x
    BY <2>1, <2>2, FlattenType, FlattenAppend
  <2>8. Map(Recolour, fl \o x) = Map(Recolour, fl) \o Map(Recolour, x)
    <3> HIDE DEF fl
    <3> QED
      BY <2>1, <2>7, RecolourConcat, Zenon
  <2>9. Fold(AddRowStep, NoImage, Append(m, r)) = AddRowStep[img][r]
    <3> QED
      BY <2>5, <2>6, RowFold, NoImageType, Zenon
  <2>10. Map(Recolour, fl) \in Seq(Color) /\ Map(Recolour, x) \in Seq(Color) /\ Len(Map(Recolour, x)) = w
    <3> HIDE DEF fl
    <3>1. Recolour \in [Color -> Color]
      BY DecodeType
    <3>2. Map(Recolour, fl) \in Seq(Color) /\ Map(Recolour, x) \in Seq(Color)
      BY <3>1, <2>1, <2>7, MapType
    <3>3. Len(Map(Recolour, x)) = w
      BY <2>1, MapLen
    <3> QED
      BY <3>2, <3>3
  <2> DEFINE a == Map(Recolour, fl)
             b == Map(Recolour, x)
  <2>11. (s = <<>> => img = NoImage) /\ (s # <<>> => img = Painted(w, s))
    BY <1>2, Zenon
  <2>12. Painted(w, s) = [width |-> w, height |-> Len(s), pixels |-> a]
    BY Zenon DEF Painted
  <2>13. Painted(w, long) = [width |-> w, height |-> Len(s) + 1, pixels |-> a \o b]
    BY <2>3, <2>7, <2>8, Zenon DEF Painted
  <2>14. a \o b \in Seq(Color)
    <3> HIDE DEF a, b
    <3> QED BY <2>10 DEF a, b
  <2> HIDE DEF img, a, b, r, fl, m
  <2>15. CASE s = <<>>
    <3>1. a = <<>>
      BY <2>15, FlattenEmpty, MapEmpty DEF a, fl
    <3>2. img = NoImage /\ img \in ImageData /\ img.pixels = <<>> /\ img.width = 0 /\ img.height = 0
      BY <2>15, <2>11, NoImageType
    <3>3. Len(s) = 0
      BY <2>15
    <3>4. AddRowStep[img][r] =
            [pixels |-> <<>> \o b, width |-> Len(<<>> \o b) \div (0 + 1), height |-> 0 + 1]
      BY <3>2, <2>5, RowTurn, Zenon DEF b
    <3>5. <<>> \o b = b /\ Len(b) = w
      BY <2>10 DEF b
    <3>6. w \div (0 + 1) = w
      OBVIOUS
    <3>7. AddRowStep[img][r] = [pixels |-> b, width |-> w, height |-> 0 + 1]
      BY <3>4, <3>5, <3>6, Zenon
    <3>8. Painted(w, long) = [width |-> w, height |-> 0 + 1, pixels |-> b]
      BY <2>13, <3>1, <3>3, <3>5, Zenon
    <3>9. AddRowStep[img][r] = Painted(w, long)
      BY <3>7, <3>8
    <3> QED
      BY <3>9, <2>3, <2>4, <2>9, Zenon DEF m, r
  <2>16. CASE s # <<>>
    <3>1. img = [width |-> w, height |-> Len(s), pixels |-> a]
      BY <2>16, <2>11, <2>12, Zenon
    <3>2. a \in Seq(Color)
      BY <2>10 DEF a
    <3>3. img \in ImageData /\ img.pixels = a /\ img.width = w /\ img.height = Len(s) /\ w # 0
      BY <3>1, <3>2, <2>3 DEF ImageData
    <3>4. AddRowStep[img][r] = [pixels |-> a \o b, width |-> w, height |-> Len(s) + 1]
      <4>1. \A n : (IF img.width = 0 THEN n ELSE img.width) = w
        BY <3>3
      <4>2. AddRowStep[img][r] =
              [pixels |-> img.pixels \o PixelsOf(r),
               width  |-> IF img.width = 0 THEN Len(img.pixels \o PixelsOf(r)) \div (img.height + 1)
                                           ELSE img.width,
               height |-> img.height + 1]
        BY <3>3, <2>5, RowTurn, Zenon
      <4> QED
        BY <4>1, <4>2, <3>3, <2>5, Zenon DEF b
    <3>5. AddRowStep[img][r] = Painted(w, long)
      BY <3>4, <2>13
    <3> QED
      BY <3>5, <2>3, <2>4, <2>9, Zenon DEF m, r
  <2> QED
    BY <2>15, <2>16
<1>3. Seq(T) \subseteq H
  <2> HIDE DEF T, H
  <2> QED BY <1>1, <1>2, SeqInduction
<1> QED
  BY <1>3, Zenon

-----------------------------------------------------------------------------
(***************************************************************************)
(* Rows that are not empty, one after another: the text of a frame.        *)
(***************************************************************************)
Row == Seq(Inner) \ {<<>>}
Frame == Seq(Row) \ {<<>>}

LEMMA RowIsText ==
  /\ Row \subseteq Text /\ Row \subseteq Seq(Inner)
  /\ Seq(Row) \subseteq Seq(Text) /\ Seq(Row) \subseteq Seq(Seq(Inner))
<1>1. Row \subseteq Text /\ Row \subseteq Seq(Inner)
  BY InnerIsText, Zenon DEF Row
<1>2. \A S, T : S \subseteq T => Seq(S) \subseteq Seq(T)
  <2> SUFFICES ASSUME NEW S, NEW T, S \subseteq T, NEW s \in Seq(S) PROVE s \in Seq(T)
    OBVIOUS
  <2>1. s \in [1..Len(s) -> S] /\ Len(s) \in Nat
    BY SeqIsFunction
  <2>2. s \in [1..Len(s) -> T]
    BY <2>1
  <2> QED
    BY <2>1, <2>2, FunctionIsSeq
<1> QED
  BY <1>1, <1>2, Zenon

\* What an appended element leaves at the end and before it.
LEMMA LastOfAppend ==
  ASSUME NEW a \in Seq(Text), NEW x \in Text, NEW b \in Seq(Text), NEW rows \in Seq(Text), rows # <<>>,
         Append(a, x) = b \o rows
  PROVE  x = rows[Len(rows)]
<1> DEFINE T == Text
<1> HIDE DEF T
<1>1. a \in Seq(T) /\ x \in T /\ b \in Seq(T) /\ rows \in Seq(T)
  BY DEF T
<1>2. Append(a, x)[Len(a) + 1] = x /\ Len(Append(a, x)) = Len(a) + 1
  BY <1>1
<1>3. Len(b \o rows) = Len(b) + Len(rows) /\ Len(rows) >= 1 /\ Len(rows) \in Nat /\ Len(b) \in Nat
  BY <1>1
<1>4. (b \o rows)[Len(b) + Len(rows)] = rows[Len(rows)]
  BY <1>1, <1>3
<1> QED
  BY <1>2, <1>3, <1>4

LEMMA FrameLines ==
  ASSUME NEW acc \in LineState, acc.line = <<>>, NEW rows \in Frame
  PROVE  LET end == Fold(AddToLine, acc, Join(rows, Newline))
         IN  /\ end \in LineState /\ Append(end.done, end.line) = acc.done \o rows
             /\ end.line # <<>>
<1> DEFINE end == Fold(AddToLine, acc, Join(rows, Newline))
<1>1. rows \in Seq(Row) /\ rows # <<>>
  BY DEF Frame
<1>2. rows \in Seq(Seq(Inner)) /\ rows \in Seq(Text)
  BY <1>1, RowIsText, Zenon
<1>3. end \in LineState /\ Append(end.done, end.line) = acc.done \o rows
  BY <1>1, <1>2, JoinedLines
<1> HIDE DEF end
<1>4. end.done \in Seq(Text) /\ end.line \in Text /\ acc.done \in Seq(Text)
  BY <1>3 DEF LineState
<1>5. end.line = rows[Len(rows)]
  BY <1>1, <1>2, <1>3, <1>4, LastOfAppend
<1>6. rows[Len(rows)] \in Row
  BY <1>1
<1>7. end.line # <<>>
  BY <1>5, <1>6, Zenon DEF Row
<1> QED
  BY <1>3, <1>7 DEF end

-----------------------------------------------------------------------------
FrameState == [frames : Seq(Text), current : Text]

LEMMA WithFrameType ==
  \A acc \in FrameState : WithFrame(acc) \in Seq(Text)
<1> SUFFICES ASSUME NEW acc \in FrameState PROVE WithFrame(acc) \in Seq(Text)
  OBVIOUS
<1>1. acc.frames \in Seq(Text) /\ acc.current \in Text
  BY DEF FrameState
<1> QED
  BY <1>1, LineSums, Zenon DEF WithFrame

LEMMA FrameTurn ==
  ASSUME NEW acc \in FrameState, NEW line \in Text
  PROVE  /\ line = <<>> => AddToFrame[acc][line] = [frames |-> WithFrame(acc), current |-> <<>>]
         /\ line # <<>> /\ acc.current = <<>> =>
              AddToFrame[acc][line] = [frames |-> acc.frames, current |-> line]
         /\ line # <<>> /\ acc.current # <<>> =>
              AddToFrame[acc][line] =
                [frames |-> acc.frames, current |-> acc.current \o (Newline \o line)]
<1>1. AddToFrame[acc][line] =
        IF line = <<>> THEN [frames |-> WithFrame(acc), current |-> <<>>]
        ELSE [frames |-> acc.frames,
              current |-> IF acc.current = <<>> THEN line ELSE acc.current \o <<NL>> \o line]
  BY Zenon DEF AddToFrame, FrameState
<1>2. (acc.current \o Newline) \o line = acc.current \o (Newline \o line)
  <2>1. acc.current \in Text
    BY DEF FrameState
  <2> QED
    <3>1. \A a, b, c \in Text : (a \o b) \o c = a \o (b \o c)
      BY TextSums, Zenon
    <3>2. Newline \in Text
      BY Separators, Zenon
    <3> QED
      BY <2>1, <3>1, <3>2, Zenon
<1> QED
  BY <1>1, <1>2, Zenon DEF Newline

LEMMA FrameFold ==
  \A acc \in FrameState :
    /\ \A t \in Seq(Text), c \in Text :
         Fold(AddToFrame, acc, Append(t, c)) = AddToFrame[Fold(AddToFrame, acc, t)][c]
    /\ \A t, u \in Seq(Text) :
         Fold(AddToFrame, acc, t \o u) = Fold(AddToFrame, Fold(AddToFrame, acc, t), u)
BY LinesFold

\* The lines of a frame are collected into its text.
LEMMA FrameRun ==
  ASSUME NEW acc \in FrameState, acc.current = <<>>
  PROVE  \A rows \in Frame :
           /\ Fold(AddToFrame, acc, rows) = [frames |-> acc.frames, current |-> Join(rows, Newline)]
           /\ Join(rows, Newline) # <<>> /\ Join(rows, Newline) \in Text
<1> DEFINE H == {s \in Seq(Row) :
                   s # <<>> =>
                     /\ Fold(AddToFrame, acc, s) = [frames |-> acc.frames, current |-> Join(s, Newline)]
                     /\ Join(s, Newline) # <<>> /\ Join(s, Newline) \in Text}
<1>1. <<>> \in H
  OBVIOUS
<1>2. ASSUME NEW s \in Seq(Row), NEW x \in Row, s \in H
      PROVE  Append(s, x) \in H
  <2>1. Append(s, x) \in Seq(Row)
    OBVIOUS
  <2>2. s \in Seq(Text) /\ x \in Text /\ x # <<>>
    <3>1. x \in Text /\ s \in Seq(Text)
      BY RowIsText, Zenon
    <3> QED
      BY <3>1, Zenon DEF Row
  <2>3. acc.frames \in Seq(Text)
    BY DEF FrameState
  <2>4. Fold(AddToFrame, acc, Append(s, x)) = AddToFrame[Fold(AddToFrame, acc, s)][x]
    BY <2>2, FrameFold, Zenon
  <2>5. CASE s = <<>>
    <3>1. Fold(AddToFrame, acc, s) = acc
      BY <2>5, FoldEmpty
    <3>2. AddToFrame[acc][x] = [frames |-> acc.frames, current |-> x]
      BY <2>2, FrameTurn, Zenon
    <3>3. Append(s, x) = <<x>>
      BY <2>5
    <3>4. Join(Append(s, x), Newline) = x
      BY <3>3, <2>2, JoinOne, Separators
    <3> QED
      BY <3>1, <3>2, <3>4, <2>1, <2>2, <2>4, Zenon
  <2>6. CASE s # <<>>
    <3> DEFINE t == Join(s, Newline)
    <3>1. /\ Fold(AddToFrame, acc, s) = [frames |-> acc.frames, current |-> t]
          /\ t # <<>> /\ t \in Text
      BY <2>6, <1>2, Zenon
    <3>2. Join(Append(s, x), Newline) = t \o (Newline \o x)
      BY <2>6, <2>2, Separators, JoinAppend
    <3> HIDE DEF t
    <3> DEFINE st == [frames |-> acc.frames, current |-> t]
    <3>3. st \in FrameState /\ st.frames = acc.frames /\ st.current = t
      BY <3>1, <2>3 DEF FrameState
    <3>4. AddToFrame[st][x] = [frames |-> acc.frames, current |-> t \o (Newline \o x)]
      <4> HIDE DEF st
      <4> QED
        BY <3>1, <3>3, <2>2, FrameTurn, Zenon
    <3>5. t \o (Newline \o x) \in Text
      BY <3>1, <2>2, Separators, TextSums, Zenon
    <3>6. t \o (Newline \o x) # <<>>
      <4> DEFINE u == Newline \o x
      <4>1. u \in Seq(Token)
        BY <2>2, Separators, TextSums, Zenon DEF Text
      <4>2. t \in Seq(Token) /\ t # <<>>
        BY <3>1, Zenon DEF Text
      <4> HIDE DEF u
      <4>3. Len(t \o u) = Len(t) + Len(u) /\ Len(t) > 0 /\ Len(u) >= 0 /\ Len(t) \in Nat /\ Len(u) \in Nat
        BY <4>1, <4>2
      <4>4. Len(t \o u) # 0
        BY <4>3
      <4>5. t \o u # <<>>
        BY <4>4
      <4> QED
        BY <4>5 DEF u
    <3> QED
      BY <3>1, <3>2, <3>4, <3>5, <3>6, <2>1, <2>4, Zenon
  <2> QED
    BY <2>5, <2>6
<1>3. Seq(Row) \subseteq H
  <2> HIDE DEF H
  <2> QED BY <1>1, <1>2, SeqInduction
<1> QED
  BY <1>3, Zenon DEF Frame

-----------------------------------------------------------------------------
(***************************************************************************)
(* Frames, joined by blank lines, and split again.                         *)
(***************************************************************************)
FrameText == [rows \in Frame |-> Join(rows, Newline)]

\* Frames all of whose rows are in L.
FrameOf(L) == Seq(Row \cap L) \ {<<>>}

LEMMA FrameOfType ==
  ASSUME NEW L, NEW x \in FrameOf(L)
  PROVE  x \in Frame /\ x \in Seq(L) /\ x # <<>>
<1>1. x \in Seq(Row \cap L) /\ x # <<>>
  BY DEF FrameOf
<1>2. x \in [1..Len(x) -> Row \cap L] /\ Len(x) \in Nat
  BY <1>1, SeqIsFunction
<1>3. x \in [1..Len(x) -> Row] /\ x \in [1..Len(x) -> L]
  BY <1>2, Zenon
<1>4. x \in Seq(Row) /\ x \in Seq(L)
  BY <1>2, <1>3, FunctionIsSeq
<1> QED
  BY <1>1, <1>4, Zenon DEF Frame

LEMMA FrameTextType ==
  /\ FrameText \in [Frame -> Text]
  /\ \A x \in Frame : FrameText[x] = Join(x, Newline)
<1>1. ASSUME NEW x \in Frame PROVE Join(x, Newline) \in Text
  <2>1. x \in Seq(Text)
    BY RowIsText, Zenon DEF Frame
  <2> QED
    BY <2>1, Separators, JoinType
<1> QED
  BY <1>1, Zenon DEF FrameText

LEMMA FrameTextAppend ==
  \A s \in Seq(Frame), x \in Frame :
    /\ Map(FrameText, Append(s, x)) = Append(Map(FrameText, s), FrameText[x])
    /\ Map(FrameText, s) \in Seq(Text)
    /\ s # <<>> => Map(FrameText, s) # <<>>
<1> SUFFICES ASSUME NEW s \in Seq(Frame), NEW x \in Frame
             PROVE  /\ Map(FrameText, Append(s, x)) = Append(Map(FrameText, s), FrameText[x])
                    /\ Map(FrameText, s) \in Seq(Text)
                    /\ s # <<>> => Map(FrameText, s) # <<>>
  OBVIOUS
<1>1. FrameText \in [Frame -> Text]
  BY FrameTextType
<1> DEFINE f == FrameText
           T == Frame
           S == Text
<1> HIDE DEF f, T, S
<1>2. f \in [T -> S] /\ s \in Seq(T) /\ x \in T
  BY <1>1 DEF f, T, S
<1>3. Map(f, Append(s, x)) = Append(Map(f, s), f[x])
  BY <1>2, MapAppend
<1>4. Map(f, s) \in Seq(S)
  BY <1>2, MapType
<1>5. Len(Map(f, s)) = Len(s)
  BY <1>2, MapLen
<1>6. s # <<>> => Len(s) # 0
  BY <1>2
<1>7. Len(<<>>) = 0
  OBVIOUS
<1>8. s # <<>> => Map(f, s) # <<>>
  BY <1>5, <1>6, <1>7, Zenon
<1> QED
  BY <1>3, <1>4, <1>8 DEF f, T, S

\* The lines a text has been split into, the last one too.
AllLines(t) ==
  LET end == Fold(AddToLine, NoLine, t) IN Append(end.done, end.line)

\* What is to be known after reading the text t of the frames fr.
FramesRead(L, t, fr) ==
  /\ t \in Text /\ Fold(AddToLine, NoLine, t) \in LineState
  /\ Fold(AddToLine, NoLine, t).line # <<>>
  /\ AllLines(t) \in Seq(L) /\ AllLines(t) \in Seq(Text)
  /\ Fold(AddToFrame, NoFrame, AllLines(t)) \in FrameState
  /\ Fold(AddToFrame, NoFrame, AllLines(t)).current # <<>>
  /\ WithFrame(Fold(AddToFrame, NoFrame, AllLines(t))) = Map(FrameText, fr)

LEMMA NoFrameType ==
  /\ NoFrame \in FrameState /\ NoFrame.frames = <<>> /\ NoFrame.current = <<>>
  /\ NoLine \in LineState /\ NoLine.done = <<>> /\ NoLine.line = <<>>
<1>1. <<>> \in Text /\ <<>> \in Seq(Text)
  BY TextSums
<1> QED
  BY <1>1 DEF NoFrame, FrameState, NoLine, LineState

\* One frame more at the end.
LEMMA OneFrame ==
  ASSUME NEW L, NEW x \in FrameOf(L)
  PROVE  FramesRead(L, FrameText[x], <<x>>)
<1>1. x \in Frame /\ x \in Seq(L) /\ x \in Seq(Text)
  <2>1. x \in Frame /\ x \in Seq(L)
    BY FrameOfType
  <2> QED
    BY <2>1, RowIsText, Zenon DEF Frame
<1> DEFINE t == FrameText[x]
           end == Fold(AddToLine, NoLine, t)
<1>2. t = Join(x, Newline) /\ t \in Text
  BY <1>1, FrameTextType, Zenon
<1>3. end \in LineState /\ Append(end.done, end.line) = <<>> \o x /\ end.line # <<>>
  <2>1. LET e == Fold(AddToLine, NoLine, Join(x, Newline))
        IN  /\ e \in LineState /\ Append(e.done, e.line) = NoLine.done \o x
            /\ e.line # <<>>
    BY <1>1, NoFrameType, FrameLines
  <2> QED
    BY <2>1, <1>2, NoFrameType, Zenon
<1>4. AllLines(t) = x
  <2>1. <<>> \o x = x
    BY <1>1
  <2> QED
    BY <1>3, <2>1, Zenon DEF AllLines
<1>5. /\ Fold(AddToFrame, NoFrame, x) = [frames |-> <<>>, current |-> t]
      /\ t # <<>>
  <2>1. /\ Fold(AddToFrame, NoFrame, x) = [frames |-> NoFrame.frames, current |-> Join(x, Newline)]
        /\ Join(x, Newline) # <<>>
    BY <1>1, NoFrameType, FrameRun
  <2> QED
    BY <2>1, <1>2, NoFrameType, Zenon
<1>6. Map(FrameText, <<x>>) = <<t>>
  BY DEF Map
<1> DEFINE st == [frames |-> <<>>, current |-> t]
<1> HIDE DEF t
<1>7. st \in FrameState /\ st.frames = <<>> /\ st.current = t
  <2>1. <<>> \in Seq(Text)
    BY TextSums
  <2> QED
    BY <2>1, <1>2 DEF FrameState
<1>8. WithFrame(st) = <<t>>
  <2>1. Append(<<>>, t) = <<t>>
    OBVIOUS
  <2> HIDE DEF st
  <2> QED
    BY <2>1, <1>5, <1>7, Zenon DEF WithFrame
<1> HIDE DEF st, end
<1>9. FramesRead(L, t, <<x>>)
  BY <1>1, <1>2, <1>3, <1>4, <1>5, <1>6, <1>7, <1>8, Zenon DEF FramesRead, end, st
<1> QED
  BY <1>9 DEF t

LEMMA NextFrame ==
  ASSUME NEW L, <<>> \in L, NEW x \in FrameOf(L), NEW s \in Seq(Frame), NEW J,
         FramesRead(L, J, s)
  PROVE  FramesRead(L, J \o (Blank \o FrameText[x]), Append(s, x))
<1> DEFINE t == FrameText[x]
           end == Fold(AddToLine, NoLine, J)
           D == AllLines(J)
           F == Fold(AddToFrame, NoFrame, D)
           K == J \o (Blank \o t)
<1>1. x \in Frame /\ x \in Seq(L) /\ x \in Seq(Text)
  <2>1. x \in Frame /\ x \in Seq(L)
    BY FrameOfType
  <2> QED
    BY <2>1, RowIsText, Zenon DEF Frame
<1>2. t = Join(x, Newline) /\ t \in Text
  BY <1>1, FrameTextType, Zenon
<1>3. /\ J \in Text /\ end \in LineState /\ D \in Seq(L) /\ D \in Seq(Text)
      /\ F \in FrameState /\ F.current # <<>> /\ WithFrame(F) = Map(FrameText, s)
  BY Zenon DEF FramesRead
<1>4. D = Append(end.done, end.line)
  BY Zenon DEF AllLines
<1> HIDE DEF end, D, F, t
<1>5. K \in Text /\ K = ((J \o Newline) \o Newline) \o t /\ (J \o Newline) \o Newline \in Text /\ J \o Newline \in Text
  <2>1. Newline \in Text /\ Blank = Newline \o Newline
    BY Separators
  <2>2. K = (J \o (Newline \o Newline)) \o t
    <3>1. (J \o Blank) \o t = J \o (Blank \o t)
      BY Separators, <1>2, <1>3, TextSums, Zenon
    <3> QED
      BY <3>1, <2>1, Zenon
  <2>3. J \o (Newline \o Newline) = (J \o Newline) \o Newline
    BY <2>1, <1>3, TextSums, Zenon
  <2>4. (J \o Newline) \o Newline \in Text /\ J \o Newline \in Text
    BY <2>1, <1>3, TextSums, Zenon
  <2>5. ((J \o Newline) \o Newline) \o t \in Text
    BY <2>4, <1>2, TextSums, Zenon
  <2> QED
    BY <2>2, <2>3, <2>4, <2>5, Zenon
<1> DEFINE e1 == [done |-> D, line |-> <<>>]
           e2 == [done |-> Append(D, <<>>), line |-> <<>>]
<1>6. /\ e1 \in LineState /\ e1.done = D /\ e1.line = <<>>
      /\ e2 \in LineState /\ e2.done = Append(D, <<>>) /\ e2.line = <<>>
      /\ Append(D, <<>>) \in Seq(Text)
  <2>1. <<>> \in Text /\ Append(D, <<>>) \in Seq(Text)
    BY <1>3, TextSums, LineSums, Zenon
  <2> QED
    BY <2>1, <1>3 DEF LineState
<1> HIDE DEF e1, e2
<1>7. Fold(AddToLine, NoLine, J \o Newline) = e1
  <2>1. Fold(AddToLine, NoLine, J \o Newline) = Fold(AddToLine, end, Newline)
    BY <1>3, Separators, NoFrameType, LineFold, Zenon DEF end
  <2>2. Fold(AddToLine, end, Newline) = [done |-> D, line |-> <<>>]
    BY <1>3, <1>4, NewlineEnds, Zenon
  <2> QED
    BY <2>1, <2>2, Zenon DEF e1
<1>8. Fold(AddToLine, NoLine, (J \o Newline) \o Newline) = e2
  <2>1. Fold(AddToLine, NoLine, (J \o Newline) \o Newline) = Fold(AddToLine, e1, Newline)
    BY <1>5, <1>7, Separators, NoFrameType, LineFold, Zenon
  <2>2. Fold(AddToLine, e1, Newline) = [done |-> Append(e1.done, e1.line), line |-> <<>>]
    BY <1>6, NewlineEnds, Zenon
  <2> QED
    BY <2>1, <2>2, <1>6, Zenon DEF e2
<1> DEFINE last == Fold(AddToLine, NoLine, K)
<1>9. last = Fold(AddToLine, e2, t)
  <2> DEFINE A == (J \o Newline) \o Newline
  <2> HIDE DEF A
  <2>1. A \in Text /\ K = A \o t /\ Fold(AddToLine, NoLine, A) = e2
    BY <1>5, <1>8, Zenon DEF A
  <2>2. Fold(AddToLine, NoLine, A \o t) = Fold(AddToLine, Fold(AddToLine, NoLine, A), t)
    BY <2>1, <1>2, NoFrameType, LineFold, Zenon
  <2> QED
    BY <2>1, <2>2, Zenon
<1>10. last \in LineState /\ Append(last.done, last.line) = Append(D, <<>>) \o x /\ last.line # <<>>
  <2>1. LET e == Fold(AddToLine, e2, Join(x, Newline))
        IN  /\ e \in LineState /\ Append(e.done, e.line) = e2.done \o x
            /\ e.line # <<>>
    BY <1>1, <1>6, FrameLines
  <2> QED
    BY <2>1, <1>2, <1>6, <1>9, Zenon
<1> HIDE DEF last
<1>11. AllLines(K) = Append(D, <<>>) \o x
  BY <1>10, Zenon DEF AllLines, last
<1>12. AllLines(K) \in Seq(L) /\ AllLines(K) \in Seq(Text)
  <2>1. Append(D, <<>>) \o x \in Seq(L)
    BY <1>1, <1>3
  <2>2. Append(D, <<>>) \o x \in Seq(Text)
    BY <1>1, <1>6, LineSums, Zenon
  <2> QED
    BY <1>11, <2>1, <2>2
<1> DEFINE M == Map(FrameText, s)
           st == [frames |-> M, current |-> <<>>]
           fin == [frames |-> M, current |-> t]
<1>13. M \in Seq(Text) /\ Map(FrameText, Append(s, x)) = Append(M, t)
  BY <1>1, FrameTextAppend, Zenon DEF t
<1> HIDE DEF M
<1>14. /\ st \in FrameState /\ st.frames = M /\ st.current = <<>>
       /\ fin \in FrameState /\ fin.frames = M /\ fin.current = t
  <2>1. <<>> \in Text
    BY TextSums
  <2> QED
    BY <2>1, <1>2, <1>13 DEF FrameState
<1> HIDE DEF st, fin
<1>15. Fold(AddToFrame, NoFrame, Append(D, <<>>)) = st
  <2>1. Fold(AddToFrame, NoFrame, Append(D, <<>>)) = AddToFrame[F][<<>>]
    BY <1>3, TextSums, NoFrameType, FrameFold, Zenon DEF F
  <2>2. AddToFrame[F][<<>>] = [frames |-> WithFrame(F), current |-> <<>>]
    BY <1>3, TextSums, FrameTurn, Zenon
  <2> QED
    BY <2>1, <2>2, <1>3, Zenon DEF st, M
<1>16. Fold(AddToFrame, NoFrame, AllLines(K)) = fin /\ t # <<>>
  <2>1. Fold(AddToFrame, NoFrame, AllLines(K)) = Fold(AddToFrame, st, x)
    <3> DEFINE A == Append(D, <<>>)
    <3> HIDE DEF A
    <3>1. A \in Seq(Text) /\ AllLines(K) = A \o x /\ Fold(AddToFrame, NoFrame, A) = st
      BY <1>6, <1>11, <1>15, Zenon DEF A
    <3>2. Fold(AddToFrame, NoFrame, A \o x) = Fold(AddToFrame, Fold(AddToFrame, NoFrame, A), x)
      BY <3>1, <1>1, NoFrameType, FrameFold, Zenon
    <3> QED
      BY <3>1, <3>2, Zenon
  <2>2. /\ Fold(AddToFrame, st, x) = [frames |-> st.frames, current |-> Join(x, Newline)]
        /\ Join(x, Newline) # <<>>
    BY <1>1, <1>14, FrameRun
  <2> QED
    BY <2>1, <2>2, <1>2, <1>14, Zenon DEF fin
<1>17. WithFrame(fin) = Map(FrameText, Append(s, x))
  BY <1>13, <1>14, <1>16, Zenon DEF WithFrame
<1> HIDE DEF K
<1>18. FramesRead(L, K, Append(s, x))
  BY <1>5, <1>10, <1>12, <1>14, <1>16, <1>17, Zenon DEF FramesRead, last
<1> QED
  BY <1>18 DEF K, t

\* Frames that are joined are read again.
LEMMA JoinedFrames ==
  ASSUME NEW L, <<>> \in L
  PROVE  \A fr \in Seq(FrameOf(L)) : fr # <<>> =>
           FramesRead(L, Join(Map(FrameText, fr), Blank), fr)
<1> DEFINE T == FrameOf(L)
           H == {s \in Seq(T) : s # <<>> => FramesRead(L, Join(Map(FrameText, s), Blank), s)}
<1>1. <<>> \in H
  OBVIOUS
<1>2. ASSUME NEW s \in Seq(T), NEW x \in T, s \in H
      PROVE  Append(s, x) \in H
  <2>1. x \in Frame
    BY FrameOfType
  <2>2. s \in Seq(Frame)
    <3>1. \A i \in 1..Len(s) : s[i] \in Frame
      <4>1. \A i \in 1..Len(s) : s[i] \in T
        OBVIOUS
      <4> QED
        BY <4>1, FrameOfType
    <3>2. s \in [1..Len(s) -> Frame] /\ Len(s) \in Nat
      BY <3>1, SeqIsFunction
    <3> QED
      BY <3>2, FunctionIsSeq
  <2> HIDE DEF T
  <2>3. Append(s, x) \in Seq(T)
    OBVIOUS
  <2> DEFINE M == Map(FrameText, s)
  <2>4. Map(FrameText, Append(s, x)) = Append(M, FrameText[x]) /\ M \in Seq(Text) /\ (s # <<>> => M # <<>>)
    BY <2>1, <2>2, FrameTextAppend, Zenon
  <2>5. FrameText[x] \in Text
    BY <2>1, FrameTextType, Zenon
  <2> HIDE DEF M
  <2>6. CASE s = <<>>
    <3>1. M = <<>>
      BY <2>6, MapEmpty DEF M
    <3>2. Append(M, FrameText[x]) = <<FrameText[x]>> /\ Append(s, x) = <<x>>
      BY <3>1, <2>6
    <3>3. Join(<<FrameText[x]>>, Blank) = FrameText[x]
      <4> DEFINE p == FrameText[x]
      <4> HIDE DEF p
      <4>1. p \in Text
        BY <2>5 DEF p
      <4>2. Join(<<p>>, Blank) = p
        BY <4>1, JoinOne, Separators
      <4> QED
        BY <4>2 DEF p
    <3>4. FramesRead(L, FrameText[x], <<x>>)
      BY OneFrame DEF T
    <3> QED
      BY <2>3, <2>4, <3>2, <3>3, <3>4, Zenon
  <2>7. CASE s # <<>>
    <3>1. M # <<>> /\ FramesRead(L, Join(M, Blank), s)
      BY <2>7, <2>4, <1>2, Zenon DEF M
    <3>2. Join(Append(M, FrameText[x]), Blank) = Join(M, Blank) \o (Blank \o FrameText[x])
      <4> DEFINE p == FrameText[x]
      <4> HIDE DEF p
      <4>1. p \in Text
        BY <2>5 DEF p
      <4>2. Join(Append(M, p), Blank) = Join(M, Blank) \o (Blank \o p)
        BY <4>1, <3>1, <2>4, JoinAppend, Separators
      <4> QED
        BY <4>2 DEF p
    <3>3. FramesRead(L, Join(M, Blank) \o (Blank \o FrameText[x]), Append(s, x))
      <4> DEFINE J == Join(M, Blank)
      <4> HIDE DEF J
      <4>1. FramesRead(L, J, s) /\ x \in FrameOf(L)
        BY <3>1 DEF J, T
      <4>2. FramesRead(L, J \o (Blank \o FrameText[x]), Append(s, x))
        BY <4>1, <2>2, NextFrame
      <4> QED
        BY <4>2 DEF J
    <3> QED
      BY <2>3, <2>4, <3>2, <3>3, Zenon
  <2> QED
    BY <2>6, <2>7
<1>3. Seq(T) \subseteq H
  <2> HIDE DEF T, H
  <2> QED BY <1>1, <1>2, SeqInduction
<1> QED
  BY <1>3, Zenon

-----------------------------------------------------------------------------
(***************************************************************************)
(* Splitting a text at the marker.                                         *)
(***************************************************************************)
MarkersIn(t) == {i \in 1..Len(t) : t[i] = Marker}

LEMMA SplitAt ==
  ASSUME NEW t
  PROVE  /\ MarkersIn(t) = {} => SplitAudio(t) = [video |-> t, audio |-> <<>>]
         /\ MarkersIn(t) # {} /\ Min(MarkersIn(t)) # 0 =>
              SplitAudio(t) = [video |-> SubSeq(t, 1, Min(MarkersIn(t)) - 1),
                               audio |-> SubSeq(t, Min(MarkersIn(t)) + 1 + (18 - Len(MarkerChars)), Len(t))]
<1> DEFINE at == SelectInSeq(t, LAMBDA c : c = Marker)
<1>1. at = IF MarkersIn(t) # {} THEN Min(MarkersIn(t)) ELSE 0
  BY Zenon DEF SelectInSeq, MarkersIn
<1>2. SplitAudio(t) = IF at = 0 THEN [video |-> t, audio |-> <<>>]
                      ELSE [video |-> SubSeq(t, 1, at - 1),
                            audio |-> SubSeq(t, at + 1 + (18 - Len(MarkerChars)), Len(t))]
  BY Zenon DEF SplitAudio
<1> HIDE DEF at
<1> QED
  BY <1>1, <1>2, Zenon

LEMMA MarkerLast ==
  ASSUME NEW t
  PROVE  EndsAtMarker(t) <=>
           t # <<>> /\ (IF MarkersIn(t) # {} THEN Min(MarkersIn(t)) ELSE 0) = Len(t)
BY Zenon DEF EndsAtMarker, SelectInSeq, MarkersIn

LEMMA SplitNone ==
  ASSUME NEW t \in Text, \A i \in 1..Len(t) : t[i] # Marker
  PROVE  SplitAudio(t).video = t /\ SplitAudio(t).audio = <<>> /\ ~EndsAtMarker(t)
<1>1. MarkersIn(t) = {}
  BY DEF MarkersIn
<1>2. SplitAudio(t) = [video |-> t, audio |-> <<>>]
  BY <1>1, SplitAt, Zenon
<1>3. ~EndsAtMarker(t)
  <2>1. t # <<>> => Len(t) # 0
    BY DEF Text
  <2> QED
    BY <1>1, <2>1, MarkerLast, Zenon
<1> QED
  BY <1>2, <1>3

LEMMA ConcatFirst ==
  ASSUME NEW T, NEW s \in Seq(T), NEW u \in Seq(T), NEW i \in 1..Len(s)
  PROVE  (s \o u)[i] = s[i]
OBVIOUS

LEMMA ConcatSecond ==
  ASSUME NEW T, NEW s \in Seq(T), NEW u \in Seq(T), NEW i \in 1..Len(u)
  PROVE  (s \o u)[Len(s) + i] = u[i]
<1> DEFINE j == Len(s) + i
<1>1. j \in 1..(Len(s) + Len(u)) /\ j > Len(s) /\ j - Len(s) = i
  OBVIOUS
<1> HIDE DEF j
<1>2. (s \o u)[j] = u[j - Len(s)]
  BY <1>1
<1> QED
  BY <1>1, <1>2 DEF j

\* Sequences cut where they were put together.
LEMMA CutConcat ==
  ASSUME NEW T, NEW v \in Seq(T), NEW a \in T, NEW b \in T, NEW u \in Seq(T)
  PROVE  LET t == v \o (<<a, b>> \o u) IN
         /\ t \in Seq(T) /\ Len(t) = Len(v) + 2 + Len(u)
         /\ \A i \in 1..Len(v) : t[i] = v[i]
         /\ t[Len(v) + 1] = a /\ t[Len(v) + 2] = b
         /\ \A i \in 1..Len(u) : t[Len(v) + 2 + i] = u[i]
<1> DEFINE ab == <<a, b>>
           m == ab \o u
<1>1. ab \in Seq(T) /\ Len(ab) = 2 /\ ab[1] = a /\ ab[2] = b
  OBVIOUS
<1> HIDE DEF ab
<1>2. /\ m \in Seq(T) /\ Len(m) = 2 + Len(u) /\ m[1] = a /\ m[2] = b
      /\ \A i \in 1..Len(u) : m[2 + i] = u[i]
  <2>1. /\ m \in Seq(T) /\ Len(m) = Len(ab) + Len(u)
        /\ \A i \in 1..Len(ab) : m[i] = ab[i]
        /\ \A i \in 1..Len(u) : m[Len(ab) + i] = u[i]
    <3>0. ab \in Seq(T)
      BY <1>1
    <3>1. m \in Seq(T) /\ Len(m) = Len(ab) + Len(u)
      BY <3>0
    <3>2. \A i \in 1..Len(ab) : m[i] = ab[i]
      BY <3>0, ConcatFirst
    <3>3. \A i \in 1..Len(u) : m[Len(ab) + i] = u[i]
      BY <3>0, ConcatSecond
    <3> QED
      BY <3>1, <3>2, <3>3
  <2>2. 1 \in 1..Len(ab) /\ 2 \in 1..Len(ab)
    BY <1>1
  <2> QED
    BY <1>1, <2>1, <2>2, Zenon
<1> HIDE DEF m
<1>3. /\ v \o m \in Seq(T) /\ Len(v \o m) = Len(v) + Len(m) /\ \A i \in 1..Len(v) : (v \o m)[i] = v[i]
      /\ \A i \in 1..Len(m) : (v \o m)[Len(v) + i] = m[i]
  <2>0. m \in Seq(T)
    BY <1>2
  <2>1. v \o m \in Seq(T) /\ Len(v \o m) = Len(v) + Len(m)
    BY <2>0
  <2>2. \A i \in 1..Len(v) : (v \o m)[i] = v[i]
    BY <2>0, ConcatFirst
  <2>3. \A i \in 1..Len(m) : (v \o m)[Len(v) + i] = m[i]
    BY <2>0, ConcatSecond
  <2> QED
    BY <2>1, <2>2, <2>3
<1>4. \A i \in 1..Len(u) : (v \o m)[Len(v) + 2 + i] = u[i]
  <2> SUFFICES ASSUME NEW i \in 1..Len(u) PROVE (v \o m)[Len(v) + 2 + i] = u[i]
    OBVIOUS
  <2>1. 2 + i \in 1..Len(m) /\ Len(v) \in Nat
    BY <1>2
  <2>2. (v \o m)[Len(v) + (2 + i)] = m[2 + i]
    BY <1>3, <2>1
  <2>3. Len(v) + (2 + i) = Len(v) + 2 + i
    BY <2>1
  <2> QED
    BY <1>2, <2>2, <2>3
<1>5. (v \o m)[Len(v) + 1] = a /\ (v \o m)[Len(v) + 2] = b
  BY <1>2, <1>3
<1> QED
  BY <1>2, <1>3, <1>4, <1>5 DEF m, ab

LEMMA SubSeqFirst ==
  ASSUME NEW T, NEW t \in Seq(T), NEW v \in Seq(T), Len(v) <= Len(t),
         \A i \in 1..Len(v) : t[i] = v[i]
  PROVE  SubSeq(t, 1, Len(v)) = v
<1>1. Len(v) \in Nat /\ Len(t) \in Nat
  OBVIOUS
<1>2. SubSeq(t, 1, Len(v)) = [i \in 1..Len(v) |-> t[i]]
  <2>1. SubSeq(t, 1, Len(v)) = [i \in 1..(1 + Len(v) - 1) |-> t[i + 1 - 1]]
    BY <1>1
  <2>2. 1 + Len(v) - 1 = Len(v)
    BY <1>1
  <2> QED
    BY <2>1, <2>2
<1>3. v = [i \in 1..Len(v) |-> v[i]]
  BY SeqIsFunction
<1>4. [i \in 1..Len(v) |-> t[i]] = [i \in 1..Len(v) |-> v[i]]
  BY Zenon
<1> QED
  BY <1>2, <1>3, <1>4, Zenon

LEMMA SubSeqLast ==
  ASSUME NEW T, NEW t \in Seq(T), NEW u \in Seq(T), NEW k \in Nat, Len(t) = k + Len(u),
         \A i \in 1..Len(u) : t[k + i] = u[i]
  PROVE  SubSeq(t, k + 1, Len(t)) = u
<1>1. Len(u) \in Nat /\ Len(t) \in Nat
  OBVIOUS
<1> DEFINE s == SubSeq(t, k + 1, Len(t))
<1>2. s \in Seq(T) /\ Len(s) = Len(u)
  BY <1>1
<1>3. \A i \in 1..Len(u) : s[i] = t[k + i]
  BY <1>1
<1> HIDE DEF s
<1>4. s = [i \in 1..Len(u) |-> s[i]] /\ u = [i \in 1..Len(u) |-> u[i]]
  BY <1>2, SeqIsFunction
<1>5. \A i \in 1..Len(u) : s[i] = u[i]
  BY <1>3, Zenon
<1>6. [i \in 1..Len(u) |-> s[i]] = [i \in 1..Len(u) |-> u[i]]
  BY <1>5, Zenon
<1>7. s = u
  BY <1>4, <1>6, Zenon
<1> QED
  BY <1>7 DEF s

LEMMA SplitThere ==
  ASSUME NEW v \in Text, NEW u \in Text, \A i \in 1..Len(v) : v[i] # Marker
  PROVE  LET t == v \o (<<Marker, NL>> \o u)
         IN  SplitAudio(t).video = v /\ SplitAudio(t).audio = u /\ ~EndsAtMarker(t)
<1> DEFINE t == v \o (<<Marker, NL>> \o u)
<1>0. v \in Seq(Token) /\ u \in Seq(Token) /\ Marker \in Token /\ NL \in Token
  BY TokenFacts, Zenon DEF Text
<1>1. /\ t \in Seq(Token) /\ Len(t) = Len(v) + 2 + Len(u)
      /\ \A i \in 1..Len(v) : t[i] = v[i]
      /\ t[Len(v) + 1] = Marker
      /\ \A i \in 1..Len(u) : t[Len(v) + 2 + i] = u[i]
  BY <1>0, CutConcat
<1> HIDE DEF t
<1> DEFINE k == Len(v)
<1>2. k \in Nat /\ Len(u) \in Nat
  BY <1>0
<1>3. Min(MarkersIn(t)) = k + 1 /\ MarkersIn(t) # {}
  <2>1. k + 1 \in MarkersIn(t)
    BY <1>1, <1>2 DEF MarkersIn
  <2>2. \A i \in MarkersIn(t) : i \in Nat /\ k + 1 <= i
    <3> SUFFICES ASSUME NEW i \in MarkersIn(t) PROVE i \in Nat /\ k + 1 <= i
      OBVIOUS
    <3>1. i \in 1..Len(t) /\ t[i] = Marker
      BY DEF MarkersIn
    <3>2. i \notin 1..k
      BY <3>1, <1>1, Zenon
    <3> QED
      BY <3>1, <3>2, <1>1, <1>2
  <2>3. \A m \in MarkersIn(t) : (\A i \in MarkersIn(t) : m <= i) => m = k + 1
    BY <2>1, <2>2, <1>2
  <2> HIDE DEF k
  <2> QED
    BY <2>1, <2>2, <2>3, Zenon DEF Min
<1>4. 18 - Len(MarkerChars) = 1 /\ k + 1 # 0 /\ (k + 1) - 1 = k /\ (k + 1) + 1 + 1 = (k + 2) + 1
  BY <1>2 DEF MarkerChars
<1>5. SplitAudio(t) = [video |-> SubSeq(t, 1, k), audio |-> SubSeq(t, (k + 2) + 1, Len(t))]
  <2> HIDE DEF k
  <2> QED BY <1>3, <1>4, SplitAt, Zenon
<1>6. SubSeq(t, 1, k) = v
  <2>1. Len(v) <= Len(t)
    BY <1>1, <1>2
  <2> QED
    BY <2>1, <1>0, <1>1, SubSeqFirst
<1>7. SubSeq(t, (k + 2) + 1, Len(t)) = u
  <2> DEFINE n == k + 2
  <2>1. n \in Nat /\ Len(t) = n + Len(u) /\ \A i \in 1..Len(u) : t[n + i] = u[i]
    BY <1>1, <1>2
  <2> HIDE DEF n
  <2>2. SubSeq(t, n + 1, Len(t)) = u
    BY <2>1, <1>0, <1>1, SubSeqLast
  <2> QED
    BY <2>2 DEF n
<1>8. SplitAudio(t) = [video |-> v, audio |-> u]
  BY <1>5, <1>6, <1>7, Zenon
<1>9. ~EndsAtMarker(t)
  <2>1. k + 1 # Len(t)
    BY <1>1, <1>2
  <2> HIDE DEF k
  <2> QED
    BY <1>3, <2>1, MarkerLast, Zenon
<1> QED
  BY <1>8, <1>9 DEF t

-----------------------------------------------------------------------------
(***************************************************************************)
(* The text of an image.                                                   *)
(***************************************************************************)
PixText(P, w, h) == Join(Map(RowText, PiecesOf(P, w, h)), Newline)

LEMMA SeqMono ==
  ASSUME NEW S, NEW T, S \subseteq T
  PROVE  Seq(S) \subseteq Seq(T)
<1> SUFFICES ASSUME NEW s \in Seq(S) PROVE s \in Seq(T)
  OBVIOUS
<1>1. s \in [1..Len(s) -> S] /\ Len(s) \in Nat
  BY SeqIsFunction
<1>2. s \in [1..Len(s) -> T]
  BY <1>1
<1> QED
  BY <1>1, <1>2, FunctionIsSeq

LEMMA JoinOver ==
  ASSUME NEW S, NEW parts \in Seq(Seq(S)), NEW sep \in Seq(S)
  PROVE  Join(parts, sep) \in Seq(S)
<1> DEFINE pcs == [i \in 1..Len(parts) |-> IF i = 1 THEN parts[i] ELSE sep \o parts[i]]
<1>1. Len(parts) \in Nat /\ \A i \in 1..Len(parts) : parts[i] \in Seq(S) /\ sep \o parts[i] \in Seq(S)
  OBVIOUS
<1>2. pcs \in [1..Len(parts) -> Seq(S)]
  BY <1>1, Zenon
<1>3. Join(parts, sep) = FlattenSeq(pcs)
  BY Zenon DEF Join
<1> HIDE DEF pcs
<1>4. pcs \in Seq(Seq(S))
  BY <1>1, <1>2, FunctionIsSeq
<1>5. FlattenSeq(pcs) \in Seq(S)
  BY <1>4, FlattenType
<1> QED
  BY <1>3, <1>5

\* The tokens of images.
PixelToken == {CodeToken[c] : c \in Color} \cup {SP, NL}

LEMMA PixelTokens ==
  /\ SP \in PixelToken /\ NL \in PixelToken /\ \A c \in Color : CodeToken[c] \in PixelToken
  /\ \A c \in PixelToken : c \in Token /\ c # Marker /\ c.num = <<>>
  /\ \A c \in PixelToken : c \notin {SP, NL} => isValidCode(c.chars)
<1>1. SP \in PixelToken /\ NL \in PixelToken /\ \A c \in Color : CodeToken[c] \in PixelToken
  BY Zenon DEF PixelToken
<1>2. /\ SP \in Token /\ NL \in Token /\ Marker \notin {SP, NL} /\ SP.num = <<>> /\ NL.num = <<>>
  BY TokenFacts, Zenon DEF Word
<1>3. \A c \in Color : /\ CodeToken[c] \in Token /\ CodeToken[c] # Marker /\ CodeToken[c].num = <<>>
                       /\ isValidCode(CodeToken[c].chars)
  <2> SUFFICES ASSUME NEW c \in Color
               PROVE  /\ CodeToken[c] \in Token /\ CodeToken[c] # Marker /\ CodeToken[c].num = <<>>
                      /\ isValidCode(CodeToken[c].chars)
    OBVIOUS
  <2> QED
    BY CodeIsWord, Zenon DEF Word
<1> QED
  BY <1>1, <1>2, <1>3, Zenon DEF PixelToken

LEMMA RowOver ==
  \A p \in Seq(Color) : RowText[p] \in Seq(PixelToken)
<1> SUFFICES ASSUME NEW p \in Seq(Color) PROVE RowText[p] \in Seq(PixelToken)
  OBVIOUS
<1> DEFINE m == Map(CodeToken, p)
           q == Map(Ones, m)
<1>1. RowText[p] = Join(q, Space)
  BY RowTextType, Zenon DEF RowOf
<1>2. Len(m) = Len(p) /\ Len(p) \in Nat /\ \A i \in 1..Len(p) : p[i] \in Color
  BY MapLen
<1>3. m \in Seq(Word)
  BY RowTextType, Zenon
<1>4. \A i \in 1..Len(p) : m[i] = CodeToken[p[i]]
  BY Zenon DEF Map
<1>5. \A i \in 1..Len(p) : m[i] \in PixelToken /\ m[i] \in Token
  BY <1>2, <1>4, PixelTokens, Zenon
<1> HIDE DEF m
<1>6. \A i \in 1..Len(p) : Ones[m[i]] \in Seq(PixelToken)
  <2>1. \A x \in PixelToken : <<x>> \in Seq(PixelToken)
    OBVIOUS
  <2>2. \A x \in Token : Ones[x] = <<x>>
    BY Zenon DEF Ones
  <2> QED
    BY <1>5, <2>1, <2>2, Zenon
<1>7. q \in [1..Len(p) -> Seq(PixelToken)]
  BY <1>2, <1>6, Zenon DEF Map
<1> HIDE DEF q
<1>8. q \in Seq(Seq(PixelToken))
  BY <1>2, <1>7, FunctionIsSeq
<1>9. Space \in Seq(PixelToken)
  BY PixelTokens DEF Space
<1>10. Join(q, Space) \in Seq(PixelToken)
  BY <1>8, <1>9, JoinOver
<1> QED
  BY <1>1, <1>10

LEMMA PixTextOver ==
  ASSUME NEW P \in Seq(Color), NEW w \in Nat, NEW h \in Nat, Len(P) = w * h
  PROVE  PixText(P, w, h) \in Seq(PixelToken)
<1> DEFINE pcs == PiecesOf(P, w, h)
           rows == Map(RowText, pcs)
<1>1. pcs \in Seq(Seq(Color))
  BY PiecesOfType
<1> HIDE DEF pcs
<1>2. RowText \in [Seq(Color) -> Seq(PixelToken)]
  BY RowOver, RowTextType
<1>3. rows \in Seq(Seq(PixelToken))
  BY <1>1, <1>2, MapType
<1>4. Newline \in Seq(PixelToken)
  BY PixelTokens DEF Newline
<1> HIDE DEF rows
<1>5. Join(rows, Newline) \in Seq(PixelToken)
  BY <1>3, <1>4, JoinOver
<1> QED
  BY <1>5 DEF PixText, rows, pcs

LEMMA RecolouredIs ==
  \A c \in Color : Recoloured(c) = Recolour[c]
<1> SUFFICES ASSUME NEW c \in Color PROVE Recoloured(c) = Recolour[c]
  OBVIOUS
<1>1. \E o : o \in Orders
  <2> DEFINE o == [i \in 1..3 |-> IF i = 1 THEN "R" ELSE IF i = 2 THEN "G" ELSE "B"]
  <2>1. o \in Orders
    BY DEF Orders, Letter
  <2> QED
    BY <2>1
<1> DEFINE o == CHOOSE x \in Orders : TRUE
<1>2. o \in Orders
  BY <1>1, Zenon
<1>3. Recoloured(c) = codeToRGB(rgbToCode(c, o))
  BY Zenon DEF Recoloured
<1> HIDE DEF o
<1>4. rgbToCode(c, o) = CodeOf(c)
  BY <1>2, CodeIsCodeOf
<1> QED
  BY <1>3, <1>4, Zenon DEF Recolour

\* The image that pixels make.
LEMMA ImageIs ==
  ASSUME NEW w, NEW P \in Seq(Color)
  PROVE  /\ P = <<>> => Image(w, P) = NoImage
         /\ P # <<>> => Image(w, P) = [width |-> w, height |-> Len(P) \div w, pixels |-> Map(Recolour, P)]
<1>1. \A i \in 1..Len(P) : P[i] \in Color
  OBVIOUS
<1>2. \A i \in 1..Len(P) : Recoloured(P[i]) = Recolour[P[i]]
  BY <1>1, RecolouredIs, Zenon
<1>3. [i \in 1..Len(P) |-> Recoloured(P[i])] = [i \in 1..Len(P) |-> Recolour[P[i]]]
  BY <1>2, Zenon
<1> QED
  BY <1>3, Zenon DEF Image, Map

LinesOf(w) == {l \in Text : l = <<>> \/ Len(Words(l)) = w}

\* The rows of an image with pixels are a frame.
LEMMA PictureFrame ==
  ASSUME NEW P \in Seq(Color), NEW w \in Nat \ {0}, NEW h \in Nat \ {0}, Len(P) = w * h
  PROVE  /\ Map(RowText, PiecesOf(P, w, h)) \in FrameOf(LinesOf(w))
         /\ FrameText[Map(RowText, PiecesOf(P, w, h))] = PixText(P, w, h)
         /\ PiecesOf(P, w, h) \in Seq(RowsOf(w)) /\ PiecesOf(P, w, h) # <<>>
<1> DEFINE pcs == PiecesOf(P, w, h)
           rows == Map(RowText, pcs)
           T == Row \cap LinesOf(w)
<1>1. pcs \in Seq(Seq(Color)) /\ Len(pcs) = h
  BY PiecesOfType
<1>2. \A y \in 1..h : pcs[y] = Piece(P, w, y)
  BY Zenon DEF PiecesOf
<1>3. \A y \in 1..h : Piece(P, w, y) \in Seq(Color) /\ Len(Piece(P, w, y)) = w
  <2> SUFFICES ASSUME NEW y \in 1..h
               PROVE  Piece(P, w, y) \in Seq(Color) /\ Len(Piece(P, w, y)) = w
    OBVIOUS
  <2>1. w \in Nat /\ h \in Nat
    OBVIOUS
  <2>2. Piece(P, w, y) \in Seq(Color)
    BY <1>1, <1>2
  <2>3. DOMAIN Piece(P, w, y) = 1..w
    BY DEF Piece
  <2> QED
    BY <2>1, <2>2, <2>3
<1>4. \A y \in 1..h : pcs[y] \in Seq(Color) /\ Len(pcs[y]) = w
  BY <1>2, <1>3, Zenon
<1> HIDE DEF pcs
<1>5. pcs \in Seq(RowsOf(w)) /\ pcs # <<>>
  <2>1. \A y \in 1..h : pcs[y] \in RowsOf(w)
    BY <1>4, Zenon DEF RowsOf
  <2>2. pcs \in [1..h -> Seq(Color)]
    BY <1>1, SeqIsFunction
  <2>3. pcs \in [1..h -> RowsOf(w)]
    BY <2>1, <2>2
  <2>4. pcs \in Seq(RowsOf(w))
    BY <2>3, FunctionIsSeq
  <2> QED
    BY <2>4, <1>1
<1>6. \A y \in 1..h : RowText[pcs[y]] \in T
  <2> SUFFICES ASSUME NEW y \in 1..h PROVE RowText[pcs[y]] \in T
    OBVIOUS
  <2> DEFINE p == pcs[y]
  <2>1. p \in Seq(Color) /\ Len(p) = w
    BY <1>4
  <2> HIDE DEF p
  <2>2. p # <<>>
    BY <2>1
  <2>3. RowText[p] \in Row
    BY <2>1, <2>2, RowTextType, RowPixels, Zenon DEF Row
  <2>4. RowText[p] \in Text
    BY <2>3, RowIsText, Zenon
  <2>5. Words(RowText[p]) = Map(CodeToken, p)
    BY <2>1, RowTextType, Zenon
  <2>6. Len(Map(CodeToken, p)) = w
    BY <2>1, MapLen
  <2>7. RowText[p] \in LinesOf(w)
    BY <2>4, <2>5, <2>6, Zenon DEF LinesOf
  <2> QED
    BY <2>3, <2>7 DEF p
<1> HIDE DEF T
<1>7. rows \in [1..h -> T]
  BY <1>1, <1>6, Zenon DEF Map
<1> HIDE DEF rows
<1>8. rows \in Seq(T) /\ Len(rows) = h
  BY <1>7, FunctionIsSeq
<1>9. rows # <<>>
  BY <1>8
<1>10. rows \in FrameOf(LinesOf(w))
  BY <1>8, <1>9, Zenon DEF FrameOf, T
<1>11. rows \in Frame
  BY <1>10, FrameOfType
<1>12. FrameText[rows] = Join(rows, Newline)
  BY <1>11, FrameTextType, Zenon
<1> QED
  BY <1>5, <1>10, <1>12 DEF rows, pcs, PixText

LEMMA QuotientExact ==
  ASSUME NEW w \in Nat \ {0}, NEW h \in Nat
  PROVE  (w * h) \div w = h /\ w * h \in Nat
<1> DEFINE n == w * h
           q == n \div w
<1>0. n \in Nat
  OBVIOUS
<1>1. q \in Nat /\ q * w <= n /\ n < q * w + w
  BY <1>0, Quotient
<1>2. q = h
  <2>1. CASE q < h
    <3>1. (h - q - 1) * w >= 0
      BY <2>1, <1>1
    <3>2. h * w - q * w - w = (h - q - 1) * w
      BY <1>1
    <3> HIDE DEF q
    <3> QED
      BY <3>1, <3>2, <1>1
  <2>2. CASE q > h
    <3>1. (q - h - 1) * w >= 0
      BY <2>2, <1>1
    <3>2. q * w - h * w - w = (q - h - 1) * w
      BY <1>1
    <3> HIDE DEF q
    <3> QED
      BY <3>1, <3>2, <1>1
  <2> QED
    BY <2>1, <2>2, <1>1
<1> QED
  BY <1>0, <1>2

\* Its rows make the image again.
LEMMA PicturePaints ==
  ASSUME NEW P \in Seq(Color), NEW w \in Nat \ {0}, NEW h \in Nat \ {0}, Len(P) = w * h
  PROVE  Fold(AddRowStep, NoImage, Map(RowText, PiecesOf(P, w, h))) = Image(w, P)
<1> DEFINE pcs == PiecesOf(P, w, h)
<1>1. pcs \in Seq(RowsOf(w)) /\ pcs # <<>>
  BY PictureFrame
<1>2. Len(pcs) = h
  BY PiecesOfType
<1>3. FlattenSeq(pcs) = P
  BY FlattenPieces
<1>4. P # <<>>
  <2>1. w * h # 0
    <3>1. (w - 1) * h >= 0 /\ (w - 1) * h = w * h - h
      OBVIOUS
    <3> QED
      BY <3>1
  <2> QED
    BY <2>1
<1>5. Len(P) \div w = h
  BY QuotientExact
<1>6. Image(w, P) = [width |-> w, height |-> h, pixels |-> Map(Recolour, P)]
  BY <1>4, <1>5, ImageIs, Zenon
<1> HIDE DEF pcs
<1>7. Fold(AddRowStep, NoImage, Map(RowText, pcs)) = Painted(w, pcs)
  BY <1>1, RowsPaint, Zenon
<1> QED
  BY <1>2, <1>3, <1>6, <1>7, Zenon DEF Painted, pcs

-----------------------------------------------------------------------------
(***************************************************************************)
(* Lines and frames of a text that has been read.                          *)
(***************************************************************************)
LEMMA LinesRead ==
  ASSUME NEW L, NEW t, NEW fr, FramesRead(L, t, fr)
  PROVE  /\ Lines(t) = AllLines(t) /\ Lines(t \o Newline) = AllLines(t)
         /\ SplitFrames(t) = Map(FrameText, fr) /\ SplitFrames(t \o Newline) = Map(FrameText, fr)
<1> DEFINE end == Fold(AddToLine, NoLine, t)
           D == AllLines(t)
<1>1. /\ t \in Text /\ end \in LineState /\ end.line # <<>>
      /\ WithFrame(Fold(AddToFrame, NoFrame, D)) = Map(FrameText, fr)
  BY Zenon DEF FramesRead
<1>2. D = Append(end.done, end.line)
  BY Zenon DEF AllLines
<1>3. Lines(t) = D
  BY <1>1, <1>2, Zenon DEF Lines
<1>4. Fold(AddToLine, NoLine, t \o Newline) = [done |-> D, line |-> <<>>]
  <2>1. Fold(AddToLine, NoLine, t \o Newline) = Fold(AddToLine, end, Newline)
    BY <1>1, Separators, NoFrameType, LineFold, Zenon
  <2> HIDE DEF end
  <2>2. Fold(AddToLine, end, Newline) = [done |-> Append(end.done, end.line), line |-> <<>>]
    BY <1>1, NewlineEnds
  <2> QED
    BY <1>2, <2>1, <2>2, Zenon
<1> HIDE DEF D
<1>5. [done |-> D, line |-> <<>>].line = <<>> /\ [done |-> D, line |-> <<>>].done = D
  OBVIOUS
<1>6. Lines(t \o Newline) = D
  BY <1>4, <1>5, Zenon DEF Lines
<1>7. SplitFrames(t) = Map(FrameText, fr) /\ SplitFrames(t \o Newline) = Map(FrameText, fr)
  BY <1>1, <1>3, <1>6, Zenon DEF SplitFrames
<1> QED
  BY <1>3, <1>6, <1>7 DEF D

\* The lines of the text of one frame are its rows.
LEMMA FrameRead ==
  \A x \in Frame : Lines(FrameText[x]) = x /\ textToPixel(FrameText[x]) = Fold(AddRowStep, NoImage, x)
<1> SUFFICES ASSUME NEW x \in Frame
             PROVE  Lines(FrameText[x]) = x /\ textToPixel(FrameText[x]) = Fold(AddRowStep, NoImage, x)
  OBVIOUS
<1> DEFINE t == FrameText[x]
           end == Fold(AddToLine, NoLine, t)
<1>1. t = Join(x, Newline)
  BY FrameTextType, Zenon
<1>2. x \in Seq(Text)
  BY RowIsText, Zenon DEF Frame
<1>3. Append(end.done, end.line) = x /\ end.line # <<>>
  <2>1. LET e == Fold(AddToLine, NoLine, Join(x, Newline))
        IN  /\ e \in LineState /\ Append(e.done, e.line) = NoLine.done \o x
            /\ e.line # <<>>
    BY NoFrameType, FrameLines
  <2>2. <<>> \o x = x
    BY <1>2
  <2> QED
    BY <2>1, <2>2, <1>1, NoFrameType, Zenon
<1>4. Lines(t) = x
  BY <1>3, Zenon DEF Lines
<1> HIDE DEF t
<1>5. textToPixel(t) = Fold(AddRowStep, NoImage, Lines(t))
  BY DEF textToPixel, AddRowStep
<1> QED
  BY <1>4, <1>5 DEF t

-----------------------------------------------------------------------------
(***************************************************************************)
(* An image without pixels.                                                *)
(***************************************************************************)

\* Empty lines change nothing.
LEMMA EmptyLines ==
  ASSUME NEW d \in Seq({<<>>})
  PROVE  Fold(AddRowStep, NoImage, d) = NoImage /\ Fold(AddToFrame, NoFrame, d) = NoFrame
<1> DEFINE T == {<<>>}
           S1 == {NoImage}
           S2 == {NoFrame}
<1>1. d \in Seq(T) /\ NoImage \in S1 /\ NoFrame \in S2
  OBVIOUS
<1>2. \A s \in S1, c \in T : AddRowStep[s][c] \in S1
  <2>1. AddRowStep[NoImage][<<>>] = NoImage
    BY NoImageType, TextSums, RowTurn, Zenon
  <2> QED
    BY <2>1, Zenon
<1>3. \A s \in S2, c \in T : AddToFrame[s][c] \in S2
  <2>1. AddToFrame[NoFrame][<<>>] = [frames |-> WithFrame(NoFrame), current |-> <<>>]
    BY NoFrameType, TextSums, FrameTurn, Zenon
  <2>2. WithFrame(NoFrame) = <<>>
    BY NoFrameType, Zenon DEF WithFrame
  <2>3. AddToFrame[NoFrame][<<>>] = NoFrame
    BY <2>1, <2>2, Zenon DEF NoFrame
  <2> QED
    BY <2>3, Zenon
<1> HIDE DEF T, S1, S2
<1>4. Fold(AddRowStep, NoImage, d) \in S1
  BY <1>1, <1>2, FoldInvariant
<1>5. Fold(AddToFrame, NoFrame, d) \in S2
  BY <1>1, <1>3, FoldInvariant
<1> QED
  BY <1>4, <1>5 DEF S1, S2

LEMMA LinesOfNothing == Lines(<<>>) = <<>>
<1>1. Fold(AddToLine, NoLine, <<>>) = NoLine
  BY FoldEmpty
<1> QED
  BY <1>1, NoFrameType, Zenon DEF Lines

LEMMA EmptyPicture ==
  ASSUME NEW P \in Seq(Color), NEW w \in Nat, NEW h \in Nat, Len(P) = w * h, w = 0 \/ h = 0
  PROVE  /\ textToPixel(PixText(P, w, h)) = NoImage
         /\ SplitFrames(PixText(P, w, h)) = <<>>
         /\ P = <<>>
<1> DEFINE pcs == PiecesOf(P, w, h)
           rows == Map(RowText, pcs)
           t == PixText(P, w, h)
<1>1. P = <<>>
  <2>1. w * h = 0
    OBVIOUS
  <2> QED
    BY <2>1
<1>2. pcs \in Seq(Seq(Color)) /\ Len(pcs) = h
  BY PiecesOfType
<1>3. Lines(t) \in Seq({<<>>})
  <2>1. CASE h = 0
    <3>1. pcs = <<>>
      BY <1>2, <2>1
    <3>2. rows = <<>>
      BY <3>1, MapEmpty
    <3>3. t = <<>>
      BY <3>2, JoinEmpty DEF PixText
    <3>4. <<>> \in Seq({<<>>})
      OBVIOUS
    <3> QED
      BY <3>3, <3>4, LinesOfNothing, Zenon
  <2>2. CASE h # 0
    <3>1. w = 0
      BY <2>2
    <3>2. \A y \in 1..h : pcs[y] = <<>>
      <4> SUFFICES ASSUME NEW y \in 1..h PROVE pcs[y] = <<>>
        OBVIOUS
      <4>1. pcs[y] = Piece(P, w, y)
        BY Zenon DEF PiecesOf
      <4>2. pcs[y] \in Seq(Color)
        BY <1>2
      <4>3. DOMAIN Piece(P, w, y) = 1..0
        BY <3>1 DEF Piece
      <4> HIDE DEF pcs
      <4>4. DOMAIN pcs[y] = 1..Len(pcs[y]) /\ Len(pcs[y]) \in Nat
        BY <4>2
      <4>5. 1..Len(pcs[y]) = 1..0
        BY <4>1, <4>3, <4>4, Zenon
      <4>6. Len(pcs[y]) = 0
        <5> DEFINE n == Len(pcs[y])
        <5>1. 1 \notin 1..0
          OBVIOUS
        <5>2. 1 \notin 1..n /\ n \in Nat
          BY <4>4, <4>5, <5>1, Zenon
        <5> HIDE DEF n
        <5>3. n = 0
          BY <5>2
        <5> QED
          BY <5>3 DEF n
      <4> QED
        BY <4>2, <4>6
    <3> HIDE DEF pcs
    <3>3. RowText[<<>>] = <<>>
      <4>1. <<>> \in Seq(Color)
        OBVIOUS
      <4>2. Map(CodeToken, <<>>) = <<>>
        BY MapEmpty
      <4>3. RowOf(<<>>) = <<>>
        BY RowGrows, TextSums, TokenFacts
      <4> QED
        BY <4>1, <4>2, <4>3, RowTextType, Zenon
    <3>4. rows \in [1..h -> {<<>>}]
      BY <1>2, <3>2, <3>3, Zenon DEF Map
    <3> HIDE DEF rows
    <3>5. rows \in Seq({<<>>}) /\ Len(rows) = h
      BY <3>4, FunctionIsSeq
    <3>6. rows # <<>>
      BY <3>5, <2>2
    <3>7. rows \in Seq(Seq(Inner))
      <4>1. {<<>>} \subseteq Seq(Inner)
        OBVIOUS
      <4> QED
        BY <4>1, <3>5, SeqMono
    <3> DEFINE end == Fold(AddToLine, NoLine, t)
    <3>8. t = Join(rows, Newline)
      BY DEF PixText, rows, pcs
    <3>9. end \in LineState /\ Append(end.done, end.line) = <<>> \o rows
      <4>1. LET e == Fold(AddToLine, NoLine, Join(rows, Newline))
            IN  e \in LineState /\ Append(e.done, e.line) = NoLine.done \o rows
        BY <3>6, <3>7, NoFrameType, JoinedLines
      <4> QED
        BY <4>1, <3>8, NoFrameType, Zenon
    <3> HIDE DEF end
    <3> DEFINE a == end.done
               b == end.line
    <3>10. a \in Seq(Text) /\ b \in Text /\ Append(a, b) = rows
      <4>1. <<>> \o rows = rows
        BY <3>5
      <4>2. a \in Seq(Text) /\ b \in Text
        BY <3>9 DEF LineState
      <4> QED
        BY <4>1, <4>2, <3>9, Zenon
    <3> HIDE DEF a, b
    <3>11. a \in Seq({<<>>}) /\ b = <<>>
      <4>1. Len(a) \in Nat /\ Len(Append(a, b)) = Len(a) + 1 /\ Append(a, b)[Len(a) + 1] = b
        BY <3>10
      <4>2. \A i \in 1..Len(a) : Append(a, b)[i] = a[i]
        BY <3>10
      <4>3. \A i \in 1..Len(rows) : rows[i] = <<>>
        BY <3>5
      <4>4. \A i \in 1..Len(a) : a[i] = <<>>
        BY <4>1, <4>2, <4>3, <3>10
      <4>5. b = <<>>
        BY <4>1, <4>3, <3>10
      <4>6. a \in [1..Len(a) -> {<<>>}]
        <5>1. a \in [1..Len(a) -> Text]
          BY <3>10, SeqIsFunction
        <5> QED
          BY <4>4, <5>1
      <4>7. a \in Seq({<<>>})
        BY <4>1, <4>6, FunctionIsSeq
      <4> QED
        BY <4>5, <4>7
    <3>12. Lines(t) = a
      BY <3>11, Zenon DEF Lines, end, a, b
    <3> QED
      BY <3>11, <3>12
  <2> QED
    BY <2>1, <2>2
<1> HIDE DEF t
<1>4. Fold(AddRowStep, NoImage, Lines(t)) = NoImage /\ Fold(AddToFrame, NoFrame, Lines(t)) = NoFrame
  <2> DEFINE d == Lines(t)
  <2> HIDE DEF d
  <2>1. d \in Seq({<<>>})
    BY <1>3 DEF d
  <2>2. Fold(AddRowStep, NoImage, d) = NoImage /\ Fold(AddToFrame, NoFrame, d) = NoFrame
    BY <2>1, EmptyLines
  <2> QED
    BY <2>2 DEF d
<1>5. textToPixel(t) = Fold(AddRowStep, NoImage, Lines(t))
  BY DEF textToPixel, AddRowStep
<1>6. SplitFrames(t) = <<>>
  BY <1>4, NoFrameType, Zenon DEF SplitFrames, WithFrame
<1> QED
  BY <1>1, <1>4, <1>5, <1>6 DEF t

-----------------------------------------------------------------------------
(***************************************************************************)
(* The frames of a video.                                                  *)
(***************************************************************************)
\* Recoloured frames, one after another.
RecolourAll == [p \in Seq(Color) |-> Map(Recolour, p)]

LEMMA RecolourAllType ==
  /\ RecolourAll \in [Seq(Color) -> Seq(Color)]
  /\ \A p \in Seq(Color) : RecolourAll[p] = Map(Recolour, p) /\ Len(RecolourAll[p]) = Len(p)
<1>1. ASSUME NEW p \in Seq(Color)
      PROVE  Map(Recolour, p) \in Seq(Color) /\ Len(Map(Recolour, p)) = Len(p)
  <2>1. Recolour \in [Color -> Color]
    BY DecodeType
  <2>2. Map(Recolour, p) \in Seq(Color)
    BY <2>1, MapType
  <2>3. Len(Map(Recolour, p)) = Len(p)
    BY MapLen
  <2> QED
    BY <2>2, <2>3
<1> QED
  BY <1>1, Zenon DEF RecolourAll

LEMMA FlattenRecoloured ==
  \A F \in Seq(Seq(Color)) :
    FlattenSeq(Map(RecolourAll, F)) = Map(Recolour, FlattenSeq(F))
<1> DEFINE T == Seq(Color)
           H == {F \in Seq(T) : FlattenSeq(Map(RecolourAll, F)) = Map(Recolour, FlattenSeq(F))}
<1>1. <<>> \in H
  <2>1. <<>> \in Seq(T)
    OBVIOUS
  <2>2. Map(RecolourAll, <<>>) = <<>> /\ Map(Recolour, <<>>) = <<>>
    BY MapEmpty
  <2> QED
    BY <2>1, <2>2, FlattenEmpty, Zenon
<1>2. ASSUME NEW F \in Seq(T), NEW x \in T, F \in H
      PROVE  Append(F, x) \in H
  <2>1. Append(F, x) \in Seq(T)
    OBVIOUS
  <2>2. FlattenSeq(Append(F, x)) = FlattenSeq(F) \o x /\ FlattenSeq(F) \in Seq(Color)
    BY FlattenAppend, FlattenType
  <2> DEFINE M == Map(RecolourAll, F)
             y == RecolourAll[x]
  <2>3. Map(RecolourAll, Append(F, x)) = Append(M, y)
    <3> DEFINE f == RecolourAll
    <3> HIDE DEF f, T
    <3>1. f \in [T -> T]
      BY RecolourAllType DEF f, T
    <3>2. Map(f, Append(F, x)) = Append(Map(f, F), f[x])
      BY <3>1, MapAppend
    <3> QED
      BY <3>2 DEF f
  <2>4. M \in Seq(Seq(Color)) /\ y \in Seq(Color) /\ y = Map(Recolour, x)
    <3>1. M \in Seq(Seq(Color))
      BY RecolourAllType, MapType
    <3> QED
      BY <3>1, RecolourAllType, Zenon
  <2> HIDE DEF M, y
  <2>5. FlattenSeq(Append(M, y)) = FlattenSeq(M) \o y
    BY <2>4, FlattenAppend
  <2>6. FlattenSeq(M) = Map(Recolour, FlattenSeq(F))
    BY <1>2, Zenon DEF M
  <2>7. Map(Recolour, FlattenSeq(F) \o x) = Map(Recolour, FlattenSeq(F)) \o Map(Recolour, x)
    BY <2>2, RecolourConcat, Zenon
  <2> QED
    BY <2>1, <2>2, <2>3, <2>4, <2>5, <2>6, <2>7, Zenon
<1>3. Seq(T) \subseteq H
  <2> HIDE DEF T, H
  <2> QED BY <1>1, <1>2, SeqInduction
<1> QED
  BY <1>3, Zenon

\* Frames of w x h pixels, their rows and their texts.
Shots(w, h) == {p \in Seq(Color) : Len(p) = w * h}
ShotRows(F, w, h) == [i \in 1..Len(F) |-> Map(RowText, PiecesOf(F[i], w, h))]
ShotTexts(F, w, h) == [i \in 1..Len(F) |-> PixText(F[i], w, h)]

LEMMA ShotsAre ==
  ASSUME NEW w \in Nat \ {0}, NEW h \in Nat \ {0}, NEW F \in Seq(Shots(w, h))
  PROVE  /\ ShotRows(F, w, h) \in Seq(FrameOf(LinesOf(w)))
         /\ Len(ShotRows(F, w, h)) = Len(F)
         /\ Map(FrameText, ShotRows(F, w, h)) = ShotTexts(F, w, h)
<1> DEFINE R == ShotRows(F, w, h)
           n == Len(F)
<1>1. n \in Nat /\ \A i \in 1..n : F[i] \in Shots(w, h)
  OBVIOUS
<1>2. \A i \in 1..n : F[i] \in Seq(Color) /\ Len(F[i]) = w * h
  BY <1>1, Zenon DEF Shots
<1>3. ASSUME NEW i \in 1..n
      PROVE  /\ Map(RowText, PiecesOf(F[i], w, h)) \in FrameOf(LinesOf(w))
             /\ FrameText[Map(RowText, PiecesOf(F[i], w, h))] = PixText(F[i], w, h)
  <2> DEFINE P == F[i]
  <2>1. P \in Seq(Color) /\ Len(P) = w * h
    BY <1>2
  <2> HIDE DEF P
  <2>2. /\ Map(RowText, PiecesOf(P, w, h)) \in FrameOf(LinesOf(w))
        /\ FrameText[Map(RowText, PiecesOf(P, w, h))] = PixText(P, w, h)
    BY <2>1, PictureFrame
  <2> QED
    BY <2>2 DEF P
<1>4. R \in [1..n -> FrameOf(LinesOf(w))]
  BY <1>3, Zenon DEF ShotRows
<1>5. \A i \in 1..n : FrameText[R[i]] = PixText(F[i], w, h)
  BY <1>3, Zenon DEF ShotRows
<1> HIDE DEF R
<1>6. R \in Seq(FrameOf(LinesOf(w))) /\ Len(R) = n
  BY <1>1, <1>4, FunctionIsSeq
<1>7. [i \in 1..n |-> FrameText[R[i]]] = [i \in 1..n |-> PixText(F[i], w, h)]
  BY <1>5, Zenon
<1>8. Map(FrameText, R) = ShotTexts(F, w, h)
  BY <1>6, <1>7, Zenon DEF Map, ShotTexts
<1> QED
  BY <1>6, <1>8 DEF R

\* An image comes back from its text.
LEMMA PictureComesBack ==
  ASSUME NEW P \in Seq(Color), NEW w \in Nat, NEW h \in Nat, Len(P) = w * h
  PROVE  textToPixel(PixText(P, w, h)) = Image(w, P)
<1>1. CASE w = 0 \/ h = 0
  <2>1. textToPixel(PixText(P, w, h)) = NoImage /\ P = <<>>
    BY <1>1, EmptyPicture
  <2> QED
    BY <2>1, ImageIs, Zenon
<1>2. CASE w # 0 /\ h # 0
  <2>0. w \in Nat \ {0} /\ h \in Nat \ {0}
    BY <1>2
  <2> DEFINE x == Map(RowText, PiecesOf(P, w, h))
  <2>1. x \in FrameOf(LinesOf(w)) /\ FrameText[x] = PixText(P, w, h)
    BY <2>0, PictureFrame
  <2>2. Fold(AddRowStep, NoImage, x) = Image(w, P)
    BY <2>0, PicturePaints
  <2> HIDE DEF x
  <2>3. x \in Frame
    BY <2>1, FrameOfType
  <2> QED
    BY <2>1, <2>2, <2>3, FrameRead, Zenon
<1> QED
  BY <1>1, <1>2

\* All frames of a video, under the size of the first.
LEMMA VideoIs ==
  ASSUME NEW w \in Nat \ {0}, NEW h \in Nat \ {0}, NEW F \in Seq(Shots(w, h))
  PROVE  /\ F = <<>> => VideoImage(ShotTexts(F, w, h)) = NoImage
         /\ F # <<>> => VideoImage(ShotTexts(F, w, h)) =
                          [width |-> w, height |-> h, pixels |-> Map(Recolour, FlattenSeq(F))]
<1> DEFINE n == Len(F)
           ft == ShotTexts(F, w, h)
           images == [i \in 1..n |-> Image(w, F[i])]
<1>1. n \in Nat /\ \A i \in 1..n : F[i] \in Seq(Color) /\ Len(F[i]) = w * h
  <2>1. n \in Nat /\ \A i \in 1..n : F[i] \in Shots(w, h)
    OBVIOUS
  <2> QED
    BY <2>1, Zenon DEF Shots
<1>2. \A i \in 1..n : textToPixel(PixText(F[i], w, h)) = Image(w, F[i])
  <2> SUFFICES ASSUME NEW i \in 1..n
               PROVE  textToPixel(PixText(F[i], w, h)) = Image(w, F[i])
    OBVIOUS
  <2> DEFINE P == F[i]
  <2>1. P \in Seq(Color) /\ Len(P) = w * h /\ w \in Nat /\ h \in Nat
    BY <1>1
  <2> HIDE DEF P
  <2>2. textToPixel(PixText(P, w, h)) = Image(w, P)
    BY <2>1, PictureComesBack
  <2> QED
    BY <2>2 DEF P
<1>3. ft = [i \in 1..n |-> PixText(F[i], w, h)]
  BY DEF ShotTexts
<1>4. Len(ft) = n
  <2>1. ft \in [1..n -> {PixText(F[i], w, h) : i \in 1..n}]
    BY <1>3, Zenon
  <2> HIDE DEF ft
  <2> QED
    BY <2>1, <1>1, FunctionIsSeq
<1>5. \A i \in 1..n : ft[i] = PixText(F[i], w, h)
  BY <1>3, Zenon
<1> HIDE DEF ft
<1>6. [i \in 1..Len(ft) |-> textToPixel(ft[i])] = images
  BY <1>2, <1>4, <1>5, Zenon
<1>7. VideoImage(ft) = IF images = <<>> THEN NoImage
                       ELSE [images[1] EXCEPT !.pixels =
                               FlattenSeq([i \in 1..Len(images) |-> images[i].pixels])]
  <2> HIDE DEF images
  <2> DEFINE im == [i \in 1..Len(ft) |-> textToPixel(ft[i])]
  <2>1. VideoImage(ft) = IF im = <<>> THEN NoImage
                         ELSE [im[1] EXCEPT !.pixels = FlattenSeq([i \in 1..Len(im) |-> im[i].pixels])]
    BY DEF VideoImage
  <2>2. im = images
    BY <1>6
  <2> HIDE DEF im
  <2> QED BY <2>1, <2>2
<1>8. \A i \in 1..n : Image(w, F[i]) = [width |-> w, height |-> h, pixels |-> Map(Recolour, F[i])]
  <2> SUFFICES ASSUME NEW i \in 1..n
               PROVE  Image(w, F[i]) = [width |-> w, height |-> h, pixels |-> Map(Recolour, F[i])]
    OBVIOUS
  <2> DEFINE P == F[i]
  <2>1. P \in Seq(Color) /\ Len(P) = w * h
    BY <1>1
  <2> HIDE DEF P
  <2>2. w * h # 0
    <3>1. (w - 1) * h >= 0 /\ (w - 1) * h = w * h - h
      OBVIOUS
    <3> QED
      BY <3>1
  <2>3. P # <<>>
    BY <2>1, <2>2
  <2>4. Len(P) \div w = h
    BY <2>1, QuotientExact
  <2>5. Image(w, P) = [width |-> w, height |-> h, pixels |-> Map(Recolour, P)]
    BY <2>1, <2>3, <2>4, ImageIs, Zenon
  <2> QED
    BY <2>5 DEF P
<1>9. images \in [1..n -> {Image(w, F[i]) : i \in 1..n}]
  BY Zenon
<1>10. Len(images) = n /\ \A i \in 1..n : images[i] = Image(w, F[i])
  <2>1. \A i \in 1..n : images[i] = Image(w, F[i])
    BY Zenon
  <2> HIDE DEF images
  <2>2. Len(images) = n
    BY <1>1, <1>9, FunctionIsSeq
  <2> QED
    BY <2>1, <2>2
<1>11. images \in Seq({Image(w, F[i]) : i \in 1..n})
  <2> HIDE DEF images
  <2> QED
    BY <1>1, <1>9, FunctionIsSeq
<1> HIDE DEF images
<1>12. CASE F = <<>>
  <2>1. n = 0
    BY <1>12
  <2>2. images = <<>>
    BY <2>1, <1>10, <1>11
  <2> QED
    BY <2>2, <1>7, <1>12, Zenon DEF ft
<1>13. CASE F # <<>>
  <2>1. n # 0 /\ 1 \in 1..n
    BY <1>13, <1>1
  <2>2. images # <<>>
    <3>1. Len(<<>>) = 0
      OBVIOUS
    <3> QED
      BY <2>1, <3>1, <1>10, Zenon
  <2>3. images[1] = [width |-> w, height |-> h, pixels |-> Map(Recolour, F[1])]
    BY <2>1, <1>8, <1>10, Zenon
  <2>4. \A X : [images[1] EXCEPT !.pixels = X] = [width |-> w, height |-> h, pixels |-> X]
    BY <2>3
  <2>5. \A i \in 1..n : images[i].pixels = RecolourAll[F[i]]
    <3> SUFFICES ASSUME NEW i \in 1..n PROVE images[i].pixels = RecolourAll[F[i]]
      OBVIOUS
    <3>1. images[i] = [width |-> w, height |-> h, pixels |-> Map(Recolour, F[i])]
      BY <1>8, <1>10, Zenon
    <3>2. images[i].pixels = Map(Recolour, F[i])
      BY <3>1
    <3> QED
      BY <3>2, <1>1, RecolourAllType, Zenon
  <2>6. [i \in 1..Len(images) |-> images[i].pixels] = Map(RecolourAll, F)
    BY <2>5, <1>10, Zenon DEF Map
  <2>7. F \in Seq(Seq(Color))
    <3>1. Shots(w, h) \subseteq Seq(Color)
      BY Zenon DEF Shots
    <3> QED
      BY <3>1, SeqMono
  <2>8. FlattenSeq(Map(RecolourAll, F)) = Map(Recolour, FlattenSeq(F))
    BY <2>7, FlattenRecoloured, Zenon
  <2>9. VideoImage(ft) = [width |-> w, height |-> h, pixels |-> Map(Recolour, FlattenSeq(F))]
    BY <2>2, <2>4, <2>6, <2>8, <1>7, Zenon
  <2> QED
    BY <2>9, <1>13, Zenon DEF ft
<1> QED
  BY <1>12, <1>13

\* decryptVideo makes the same of the text of an image.
LEMMA PictureAsVideo ==
  ASSUME NEW P \in Seq(Color), NEW w \in Nat, NEW h \in Nat, Len(P) = w * h
  PROVE  /\ VideoImage(SplitFrames(SplitAudio(PixText(P, w, h)).video)) = Image(w, P)
         /\ ~EndsAtMarker(PixText(P, w, h))
<1> DEFINE t == PixText(P, w, h)
<1>1. t \in Seq(PixelToken)
  BY PixTextOver
<1> HIDE DEF t
<1>2. SplitAudio(t).video = t /\ ~EndsAtMarker(t)
  <2>1. \A i \in 1..Len(t) : t[i] \in PixelToken
    BY <1>1
  <2>2. \A i \in 1..Len(t) : t[i] # Marker
    BY <2>1, PixelTokens, Zenon
  <2>3. t \in Text
    <3>1. PixelToken \subseteq Token
      BY PixelTokens, Zenon
    <3>2. t \in Seq(Token)
      BY <1>1, <3>1, SeqMono
    <3> QED
      BY <3>2 DEF Text
  <2> QED
    BY <2>2, <2>3, SplitNone
<1>3. CASE w = 0 \/ h = 0
  <2>1. SplitFrames(t) = <<>> /\ P = <<>>
    BY <1>3, EmptyPicture DEF t
  <2>2. VideoImage(<<>>) = NoImage
    <3>1. [i \in 1..Len(<<>>) |-> textToPixel(<<>>[i])] = <<>>
      OBVIOUS
    <3> QED
      BY <3>1 DEF VideoImage
  <2> QED
    BY <1>2, <2>1, <2>2, ImageIs, Zenon DEF t
<1>4. CASE w # 0 /\ h # 0
  <2>0. w \in Nat \ {0} /\ h \in Nat \ {0}
    BY <1>4
  <2> DEFINE F == <<P>>
             R == ShotRows(F, w, h)
  <2>1. P \in Shots(w, h)
    BY DEF Shots
  <2>2. F \in Seq(Shots(w, h)) /\ F # <<>> /\ Len(F) = 1 /\ F[1] = P
    BY <2>1
  <2> HIDE DEF F
  <2>3. /\ R \in Seq(FrameOf(LinesOf(w))) /\ Len(R) = 1 /\ Map(FrameText, R) = ShotTexts(F, w, h)
    BY <2>0, <2>2, ShotsAre
  <2> HIDE DEF R
  <2>4. R # <<>>
    <3>1. Len(<<>>) # 1
      OBVIOUS
    <3> QED
      BY <2>3, <3>1, Zenon
  <2>5. ShotTexts(F, w, h) = <<t>>
    <3>1. ShotTexts(F, w, h) = [i \in 1..1 |-> PixText(F[i], w, h)]
      BY <2>2, Zenon DEF ShotTexts
    <3>2. \A i \in 1..1 : PixText(F[i], w, h) = t
      <4>1. \A i \in 1..1 : i = 1
        OBVIOUS
      <4> QED
        BY <4>1, <2>2, Zenon DEF t
    <3>3. ShotTexts(F, w, h) = [i \in 1..1 |-> t]
      BY <3>1, <3>2, Zenon
    <3> QED
      BY <3>3
  <2>6. t \in Text
    <3>1. PixelToken \subseteq Token
      BY PixelTokens, Zenon
    <3>2. t \in Seq(Token)
      BY <1>1, <3>1, SeqMono
    <3> QED
      BY <3>2 DEF Text
  <2>7. Join(<<t>>, Blank) = t
    BY <2>6, JoinOne, Separators
  <2>8. FramesRead(LinesOf(w), t, R)
    <3>1. <<>> \in LinesOf(w)
      BY TextSums, Zenon DEF LinesOf
    <3>2. FramesRead(LinesOf(w), Join(Map(FrameText, R), Blank), R)
      BY <3>1, <2>3, <2>4, JoinedFrames
    <3> QED
      BY <3>2, <2>3, <2>5, <2>7, Zenon
  <2>9. SplitFrames(t) = <<t>>
    <3>1. SplitFrames(t) = Map(FrameText, R)
      BY <2>8, LinesRead
    <3> QED
      BY <3>1, <2>3, <2>5, Zenon
  <2>10. VideoImage(<<t>>) = textToPixel(t)
    <3> DEFINE im == textToPixel(t)
    <3>1. im = Image(w, P)
      BY PictureComesBack DEF t
    <3>2. P # <<>>
      <4>1. w * h # 0
        <5>1. (w - 1) * h >= 0 /\ (w - 1) * h = w * h - h
          BY <2>0
        <5> QED
          BY <5>1, <2>0
      <4> QED
        BY <4>1
    <3>3. im = [width |-> w, height |-> Len(P) \div w, pixels |-> Map(Recolour, P)]
      BY <3>1, <3>2, ImageIs, Zenon
    <3>4. VideoImage(<<t>>) = [width |-> w, height |-> h, pixels |-> Map(Recolour, FlattenSeq(F))]
      BY <2>0, <2>2, <2>5, VideoIs, Zenon
    <3>5. Len(P) \div w = h
      BY <2>0, QuotientExact
    <3>6. FlattenSeq(F) = P
      BY FlattenOne DEF F
    <3> QED
      BY <3>3, <3>4, <3>5, <3>6, Zenon
  <2>11. textToPixel(t) = Image(w, P)
    BY PictureComesBack DEF t
  <2> QED
    BY <1>2, <2>9, <2>10, <2>11, Zenon DEF t
<1> QED
  BY <1>3, <1>4

-----------------------------------------------------------------------------
(***************************************************************************)
(* Samples and amplitudes.                                                 *)
(***************************************************************************)
LEMMA ToIntType ==
  ASSUME NEW n \in Nat
  PROVE  ToInt(n) \in Int /\ (n <= INT_MAX => ToInt(n) = n)
<1> DEFINE k == 2 * (INT_MAX + 1)
<1>1. k \in Nat /\ k > 0 /\ k > INT_MAX /\ INT_MAX \in Nat
  BY IntMaxAssumption
<1> HIDE DEF k
<1>2. (n % k) \in Nat /\ (n <= INT_MAX => (n % k) = n)
  BY <1>1
<1> DEFINE m == n % k
<1>3. ToInt(n) = IF m <= INT_MAX THEN m ELSE m - k
  BY DEF ToInt, k
<1>4. m \in Nat /\ (n <= INT_MAX => m = n)
  BY <1>2
<1> HIDE DEF m
<1> QED
  BY <1>1, <1>3, <1>4

LEMMA StepIs ==
  ASSUME NEW size \in Nat, NEW r \in Int
  PROVE  /\ StepOf(size, r) \in Nat \ {0}
         /\ r > 0 /\ size >= r /\ size \div r <= INT_MAX => StepOf(size, r) = size \div r
<1> DEFINE q == IF r > 0 THEN size \div r ELSE 0
<1>1. q \in Nat
  <2>1. r > 0 => size \div r \in Nat
    BY Quotient
  <2> QED
    BY <2>1
<1>2. StepOf(size, r) = IF ToInt(q) < 1 THEN 1 ELSE ToInt(q)
  BY DEF StepOf
<1>3. r > 0 /\ size >= r => q = size \div r /\ q >= 1
  <2> SUFFICES ASSUME r > 0, size >= r PROVE q = size \div r /\ q >= 1
    OBVIOUS
  <2>1. q = size \div r
    OBVIOUS
  <2>2. size < q * r + r
    BY <2>1, Quotient
  <2> HIDE DEF q
  <2>3. q # 0
    BY <2>2
  <2> QED
    BY <2>1, <2>3, <1>1
<1> HIDE DEF q
<1>4. ToInt(q) \in Int /\ (q <= INT_MAX => ToInt(q) = q)
  BY <1>1, ToIntType
<1> QED
  BY <1>1, <1>2, <1>3, <1>4

\* How many samples are visited, and which.
LEMMA VisitedIs ==
  ASSUME NEW samps \in Seq(AnySample), NEW step \in Nat \ {0}
  PROVE  /\ Visited(samps, step) \in Seq(AnySample)
         /\ Len(Visited(samps, step)) = (Len(samps) + step - 1) \div step
         /\ \A i \in 1..Len(Visited(samps, step)) :
              Visited(samps, step)[i] = samps[(i - 1) * step + 1]
<1> DEFINE N == Len(samps)
           n == (N + step - 1) \div step
           v == Visited(samps, step)
<1>1. N \in Nat
  OBVIOUS
<1>2. n \in Nat /\ n * step <= N + step - 1
  <2>1. N + step - 1 \in Nat
    BY <1>1
  <2> QED
    BY <2>1, Quotient
<1>3. v = [i \in 1..n |-> samps[(i - 1) * step + 1]]
  BY DEF Visited
<1> HIDE DEF n
<1>4. \A i \in 1..n : samps[(i - 1) * step + 1] \in AnySample
  <2> SUFFICES ASSUME NEW i \in 1..n PROVE samps[(i - 1) * step + 1] \in AnySample
    OBVIOUS
  <2> DEFINE j == (i - 1) * step + 1
  <2>1. (n - i) * step >= 0 /\ (i - 1) * step >= 0
    BY <1>2
  <2>2. (i - 1) * step = i * step - step /\ (n - i) * step = n * step - i * step
    BY <1>2
  <2>3. j \in 1..N
    BY <2>1, <2>2, <1>1, <1>2
  <2> HIDE DEF j
  <2>4. samps[j] \in AnySample
    BY <2>3
  <2> QED
    BY <2>4 DEF j
<1>5. v \in [1..n -> AnySample]
  BY <1>3, <1>4, Zenon
<1>6. \A i \in 1..n : v[i] = samps[(i - 1) * step + 1]
  BY <1>3, Zenon
<1> HIDE DEF v
<1>7. v \in Seq(AnySample) /\ Len(v) = n
  BY <1>2, <1>5, FunctionIsSeq
<1> QED
  BY <1>6, <1>7 DEF v, n

LEMMA AbsType ==
  ASSUME NEW v \in Int
  PROVE  Abs(v) \in Nat
BY DEF Abs

\* An amplitude is in hundredths, at most 100 and at most one less than the sample.
LEMMA AmplitudeIs ==
  ASSUME NEW s \in AnySample, NEW na \in Int
  PROVE  /\ Amplitude(s, na) \in Int
         /\ na <= 100 => Amplitude(s, na) <= 100
         /\ ~s.nan => (IF Abs(s.v) > 1000 THEN 1000 ELSE Abs(s.v)) - 10 * Amplitude(s, na) \in 0..10
<1> DEFINE a == Abs(s.v)
           n == a \div 10
<1>1. s.v \in Int /\ s.nan \in BOOLEAN
  BY DEF AnySample
<1>2. a \in Nat
  BY <1>1, AbsType
<1> HIDE DEF a
<1>3. n \in Nat /\ n * 10 <= a /\ a < n * 10 + 10
  BY <1>2
<1>4. s.nan => Amplitude(s, na) = na
  BY DEF Amplitude
<1> HIDE DEF n
<1>5. ~s.nan => \/ a > 1000 /\ Amplitude(s, na) = 100
                \/ a <= 1000 /\ a = 10 * n /\ n \in RoundsDown /\ Amplitude(s, na) = n - 1
                \/ a <= 1000 /\ ~(a = 10 * n /\ n \in RoundsDown) /\ Amplitude(s, na) = n
  BY <1>2 DEF Amplitude, a, n
<1>6. CASE s.nan
  BY <1>4, <1>6
<1>7. CASE ~s.nan
  BY <1>2, <1>3, <1>5, <1>7 DEF a
<1> QED
  BY <1>6, <1>7

\* The amplitudes of samples.
Levels(samps, r, na) ==
  LET kept == Visited(samps, StepOf(Len(samps), r))
  IN  [i \in 1..Len(kept) |-> Amplitude(kept[i], na)]

LEMMA LevelsAre ==
  ASSUME NEW samps \in Seq(AnySample), NEW r \in Int, NEW na \in Int
  PROVE  LET step == StepOf(Len(samps), r)
             ns == Levels(samps, r, na)
         IN  /\ ns \in Seq(Int) /\ step \in Nat \ {0}
             /\ Len(ns) = (Len(samps) + step - 1) \div step
             /\ \A i \in 1..Len(ns) :
                  LET s == samps[(i - 1) * step + 1]
                  IN  s \in AnySample /\ ns[i] = Amplitude(s, na)
<1> DEFINE step == StepOf(Len(samps), r)
           kept == Visited(samps, step)
           n == Len(kept)
           ns == Levels(samps, r, na)
<1>1. step \in Nat \ {0}
  <2>1. Len(samps) \in Nat
    OBVIOUS
  <2> QED
    BY <2>1, StepIs
<1> HIDE DEF step
<1>2. /\ kept \in Seq(AnySample) /\ n = (Len(samps) + step - 1) \div step
      /\ \A i \in 1..n : kept[i] = samps[(i - 1) * step + 1]
  BY <1>1, VisitedIs
<1>3. ns = [i \in 1..n |-> Amplitude(kept[i], na)]
  BY DEF Levels, step
<1> HIDE DEF kept
<1>4. n \in Nat /\ \A i \in 1..n : kept[i] \in AnySample
  BY <1>2
<1>5. \A i \in 1..n : Amplitude(kept[i], na) \in Int
  BY <1>4, AmplitudeIs
<1>6. ns \in [1..n -> Int] /\ \A i \in 1..n : ns[i] = Amplitude(kept[i], na)
  BY <1>3, <1>5, Zenon
<1> HIDE DEF ns
<1>7. ns \in Seq(Int) /\ Len(ns) = n
  BY <1>4, <1>6, FunctionIsSeq
<1>8. \A i \in 1..Len(ns) : /\ samps[(i - 1) * step + 1] \in AnySample
                            /\ ns[i] = Amplitude(samps[(i - 1) * step + 1], na)
  BY <1>2, <1>4, <1>6, <1>7, Zenon
<1> QED
  BY <1>1, <1>2, <1>7, <1>8, Zenon DEF ns, step

-----------------------------------------------------------------------------
(***************************************************************************)
(* The numbers in a text.                                                  *)
(***************************************************************************)
NumOf == [c \in Token |-> c.num]

LEMMA NumbersAre ==
  /\ NumOf \in [Token -> Seq(Int)] /\ \A c \in Token : NumOf[c] = c.num
  /\ \A t \in Text : Numbers(t) = FlattenSeq(Map(NumOf, t))
<1>1. \A c \in Token : c.num \in Seq(Int)
  BY DEF Token
<1>2. NumOf \in [Token -> Seq(Int)] /\ \A c \in Token : NumOf[c] = c.num
  BY <1>1, Zenon DEF NumOf
<1>3. ASSUME NEW t \in Text PROVE Numbers(t) = FlattenSeq(Map(NumOf, t))
  <2>1. \A i \in 1..Len(t) : t[i] \in Token
    BY DEF Text
  <2>2. \A i \in 1..Len(t) : NumOf[t[i]] = t[i].num
    BY <1>2, <2>1, Zenon
  <2>3. [i \in 1..Len(t) |-> NumOf[t[i]]] = [i \in 1..Len(t) |-> t[i].num]
    BY <2>2, Zenon
  <2> QED
    BY <2>3, Zenon DEF Numbers, Map
<1> QED
  BY <1>2, <1>3, Zenon

LEMMA NumbersGrow ==
  /\ Numbers(<<>>) = <<>>
  /\ \A t \in Text : Numbers(t) \in Seq(Int)
  /\ \A t \in Text, c \in Token : Numbers(Append(t, c)) = Numbers(t) \o c.num
<1>1. Numbers(<<>>) = <<>>
  <2>1. [i \in 1..Len(<<>>) |-> <<>>[i].num] = <<>>
    OBVIOUS
  <2> QED
    BY <2>1, FlattenEmpty, Zenon DEF Numbers
<1>2. ASSUME NEW t \in Text, NEW c \in Token
      PROVE  /\ Numbers(t) \in Seq(Int)
             /\ Numbers(Append(t, c)) = Numbers(t) \o c.num
  <2> DEFINE f == NumOf
             T == Token
             S == Seq(Int)
             m == Map(f, t)
  <2> HIDE DEF f, T, S
  <2>1. f \in [T -> S] /\ t \in Seq(T) /\ c \in T /\ f[c] = c.num
    BY NumbersAre, Zenon DEF f, T, S, Text
  <2>2. Map(f, Append(t, c)) = Append(m, f[c])
    BY <2>1, MapAppend
  <2>3. m \in Seq(S)
    BY <2>1, MapType
  <2> HIDE DEF m
  <2>4. m \in Seq(Seq(Int)) /\ c.num \in Seq(Int)
    BY <2>3 DEF S, Token
  <2>5. FlattenSeq(m) \in Seq(Int)
    BY <2>4, FlattenType
  <2>6. FlattenSeq(Append(m, c.num)) = FlattenSeq(m) \o c.num
    <3> DEFINE x == c.num
    <3> HIDE DEF x
    <3>1. x \in Seq(Int)
      BY <2>4 DEF x
    <3>2. FlattenSeq(Append(m, x)) = FlattenSeq(m) \o x
      BY <3>1, <2>4, FlattenAppend
    <3> QED
      BY <3>2 DEF x
  <2>7. Numbers(t) = FlattenSeq(m)
    BY NumbersAre, Zenon DEF m, f
  <2>8. Append(t, c) \in Text
    BY TextSums, Zenon
  <2>9. Numbers(Append(t, c)) = FlattenSeq(Append(m, c.num))
    BY <2>1, <2>2, <2>8, NumbersAre, Zenon DEF f
  <2> QED
    BY <2>5, <2>6, <2>7, <2>9, Zenon
<1>3. \A t \in Text : Numbers(t) \in Seq(Int)
  BY <1>2, TokenFacts, Zenon
<1> QED
  BY <1>1, <1>2, <1>3, Zenon

LEMMA NumbersConcat ==
  \A t, u \in Text : Numbers(t \o u) = Numbers(t) \o Numbers(u)
<1> SUFFICES ASSUME NEW t \in Text
             PROVE  \A u \in Text : Numbers(t \o u) = Numbers(t) \o Numbers(u)
  OBVIOUS
<1> DEFINE H == {u \in Text : Numbers(t \o u) = Numbers(t) \o Numbers(u)}
<1>0. Numbers(t) \in Seq(Int)
  BY NumbersGrow, Zenon
<1>1. <<>> \in H
  <2>1. \A a \in Seq(Int) : a \o <<>> = a
    OBVIOUS
  <2>2. t \o <<>> = t /\ <<>> \in Text
    BY TextSums, Zenon
  <2> QED
    BY <1>0, <2>1, <2>2, NumbersGrow, Zenon
<1>2. ASSUME NEW u \in Text, NEW c \in Token, u \in H
      PROVE  Append(u, c) \in H
  <2>1. t \o Append(u, c) = Append(t \o u, c) /\ t \o u \in Text /\ Append(u, c) \in Text
    BY TextSums, Zenon
  <2>2. Numbers(Append(t \o u, c)) = Numbers(t \o u) \o c.num
    BY <2>1, NumbersGrow, Zenon
  <2>3. Numbers(Append(u, c)) = Numbers(u) \o c.num
    BY NumbersGrow, Zenon
  <2>4. Numbers(t \o u) = Numbers(t) \o Numbers(u)
    BY <1>2, Zenon
  <2>5. (Numbers(t) \o Numbers(u)) \o c.num = Numbers(t) \o (Numbers(u) \o c.num)
    <3>1. Numbers(u) \in Seq(Int)
      BY NumbersGrow, Zenon
    <3>2. c.num \in Seq(Int)
      BY DEF Token
    <3>3. \A x, y, z \in Seq(Int) : (x \o y) \o z = x \o (y \o z)
      BY ConcatTwice
    <3> QED
      BY <1>0, <3>1, <3>2, <3>3, Zenon
  <2> QED
    BY <2>1, <2>2, <2>3, <2>4, <2>5, Zenon
<1>3. Seq(Token) \subseteq H
  <2>1. \A u \in Seq(Token), c \in Token : u \in H => Append(u, c) \in H
    BY <1>2, Zenon DEF Text
  <2> HIDE DEF H
  <2> QED BY <1>1, <2>1, SeqInduction
<1> QED
  BY <1>3, Zenon DEF Text

\* Tokens without a number, and texts of them.
Mute == {c \in Token : c.num = <<>>}

LEMMA MuteNumbers ==
  \A t \in Seq(Mute) : t \in Text /\ Numbers(t) = <<>>
<1> DEFINE H == {t \in Seq(Mute) : t \in Text /\ Numbers(t) = <<>>}
<1>1. <<>> \in H
  <2>1. <<>> \in Seq(Mute)
    OBVIOUS
  <2> QED
    BY <2>1, TextSums, NumbersGrow, Zenon
<1>2. ASSUME NEW t \in Seq(Mute), NEW c \in Mute, t \in H
      PROVE  Append(t, c) \in H
  <2>1. Append(t, c) \in Seq(Mute)
    OBVIOUS
  <2>2. c \in Token /\ c.num = <<>> /\ t \in Text
    BY <1>2, Zenon DEF Mute
  <2>3. Numbers(Append(t, c)) = Numbers(t) \o c.num /\ Append(t, c) \in Text
    BY <2>2, NumbersGrow, TextSums, Zenon
  <2>4. <<>> \o <<>> = <<>>
    OBVIOUS
  <2> QED
    BY <1>2, <2>1, <2>2, <2>3, <2>4, Zenon
<1>3. Seq(Mute) \subseteq H
  <2> HIDE DEF H
  <2> QED BY <1>1, <1>2, SeqInduction
<1> QED
  BY <1>3, Zenon

-----------------------------------------------------------------------------
(***************************************************************************)
(* The text of sound, and back.                                            *)
(***************************************************************************)
AmpText == [n \in Int |-> <<Amp(n), NL>>]
AmpLine == [n \in Int |-> <<Amp(n)>>]
ToSample == [n \in Int |-> Sample(10 * n)]
LoudText(ns) == FlattenSeq(Map(AmpText, ns))

LEMMA AmpIs ==
  ASSUME NEW n \in Int
  PROVE  /\ Amp(n) \in Word /\ Amp(n) \in Token /\ Amp(n) \in Inner /\ Amp(n) # Marker
         /\ Amp(n).num = <<n>> /\ Amp(n).chars = <<"A", "(", ")">>
<1>1. Amp(n) = [chars |-> <<"A", "(", ")">>, num |-> <<n>>]
  BY DEF Amp
<1>2. Amp(n).num = <<n>> /\ Amp(n).chars = <<"A", "(", ")">>
  BY <1>1
<1>3. <<n>> # <<>>
  OBVIOUS
<1>4. SP.num = <<>> /\ NL.num = <<>> /\ Marker.num = <<>> /\ NoWord.num = <<>>
  BY DEF SP, NL, Marker, NoWord, Plain
<1>5. Amp(n) \notin {SP, NL, NoWord, Marker}
  BY <1>2, <1>3, <1>4, Zenon
<1>6. Amp(n) \in Token
  <2>1. <<n>> \in Seq(Int)
    OBVIOUS
  <2>2. "A" \in Char /\ "(" \in Char /\ ")" \in Char
    BY CharAssumption
  <2>3. \A a, b, c \in Char : <<a, b, c>> \in Seq(Char)
    OBVIOUS
  <2>4. <<"A", "(", ")">> \in Seq(Char)
    BY <2>2, <2>3, Zenon
  <2>5. \A a \in Seq(Char), b \in Seq(Int) : [chars |-> a, num |-> b] \in Token
    BY DEF Token
  <2> QED
    BY <1>1, <2>1, <2>4, <2>5, Zenon
<1> QED
  BY <1>2, <1>5, <1>6, Zenon DEF Word, Inner

LEMMA AmpTypes ==
  /\ AmpText \in [Int -> Text] /\ AmpLine \in [Int -> Text]
  /\ \A n \in Int : /\ AmpText[n] = AmpLine[n] \o Newline /\ AmpLine[n] = <<Amp(n)>>
                    /\ AmpLine[n] \in Seq(Inner) /\ AmpLine[n] # <<>>
                    /\ Numbers(AmpLine[n]) = <<n>> /\ Numbers(AmpText[n]) = <<n>>
<1>1. ASSUME NEW n \in Int
      PROVE  /\ <<Amp(n)>> \in Seq(Inner) /\ <<Amp(n)>> # <<>> /\ <<Amp(n)>> \in Text
             /\ <<Amp(n), NL>> \in Text /\ <<Amp(n), NL>> = <<Amp(n)>> \o Newline
             /\ Numbers(<<Amp(n)>>) = <<n>> /\ Numbers(<<Amp(n), NL>>) = <<n>>
  <2> DEFINE a == Amp(n)
  <2>1. a \in Token /\ a \in Inner /\ NL \in Token /\ a.num = <<n>> /\ NL.num = <<>>
    BY AmpIs, TokenFacts, Zenon
  <2> HIDE DEF a
  <2>2. <<a>> \in Seq(Inner) /\ <<a>> # <<>>
    BY <2>1
  <2>3. <<a>> \in Text /\ <<a>> = Append(<<>>, a) /\ <<a, NL>> = Append(<<a>>, NL)
    BY <2>1 DEF Text
  <2>4. <<a, NL>> \in Text
    BY <2>1, <2>3, TextSums, Zenon
  <2>5. <<a, NL>> = <<a>> \o Newline
    BY <2>1, <2>3, TextSums, Zenon DEF Newline
  <2>6. Numbers(<<a>>) = <<n>>
    <3>1. Numbers(Append(<<>>, a)) = <<>> \o <<n>>
      <4>1. <<>> \in Text
        BY TextSums
      <4>2. Numbers(Append(<<>>, a)) = Numbers(<<>>) \o a.num
        BY <4>1, <2>1, NumbersGrow, Zenon
      <4> QED
        BY <4>2, <2>1, NumbersGrow, Zenon
    <3>2. <<>> \o <<n>> = <<n>>
      OBVIOUS
    <3> QED
      BY <3>1, <3>2, <2>3, Zenon
  <2>7. Numbers(<<a, NL>>) = <<n>>
    <3>1. Numbers(Append(<<a>>, NL)) = <<n>> \o <<>>
      BY <2>1, <2>3, <2>6, NumbersGrow, Zenon
    <3>2. <<n>> \o <<>> = <<n>>
      OBVIOUS
    <3> QED
      BY <3>1, <3>2, <2>3, Zenon
  <2> QED
    BY <2>2, <2>3, <2>4, <2>5, <2>6, <2>7 DEF a
<1> QED
  BY <1>1, Zenon DEF AmpText, AmpLine

\* What sampleToText writes.
LEMMA SampleText ==
  ASSUME NEW samps \in Seq(AnySample), NEW r \in Int, NEW na \in Int
  PROVE  sampleToText(samps, r, na) = LoudText(Levels(samps, r, na))
<1> DEFINE kept == Visited(samps, StepOf(Len(samps), r))
           n == Len(kept)
           ns == Levels(samps, r, na)
<1>1. ns \in Seq(Int)
  BY LevelsAre
<1>2. ns = [i \in 1..n |-> Amplitude(kept[i], na)]
  BY DEF Levels
<1>3. sampleToText(samps, r, na) = FlattenSeq([i \in 1..n |-> <<Amp(Amplitude(kept[i], na)), NL>>])
  BY DEF sampleToText
<1>4. n \in Nat
  <2>1. Len(samps) \in Nat
    OBVIOUS
  <2>2. StepOf(Len(samps), r) \in Nat \ {0}
    BY <2>1, StepIs
  <2>3. kept \in Seq(AnySample)
    BY <2>2, VisitedIs
  <2> HIDE DEF kept
  <2> QED
    BY <2>3
<1>5. \A i \in 1..n : ns[i] = Amplitude(kept[i], na)
  BY <1>2, Zenon
<1>6. Len(ns) = n
  <2>1. DOMAIN ns = 1..n
    BY <1>2, Zenon
  <2> HIDE DEF ns, n
  <2> QED
    BY <2>1, <1>1, <1>4
<1>7. \A i \in 1..n : ns[i] \in Int
  <2> HIDE DEF ns, n
  <2> QED
    BY <1>1, <1>6
<1> HIDE DEF ns, kept
<1>8. \A i \in 1..n : AmpText[ns[i]] = <<Amp(Amplitude(kept[i], na)), NL>>
  BY <1>5, <1>7, Zenon DEF AmpText
<1>9. Map(AmpText, ns) = [i \in 1..n |-> <<Amp(Amplitude(kept[i], na)), NL>>]
  BY <1>6, <1>8, Zenon DEF Map
<1> QED
  BY <1>3, <1>9, Zenon DEF LoudText, ns

LEMMA LoudGrows ==
  /\ LoudText(<<>>) = <<>>
  /\ \A ns \in Seq(Int) : LoudText(ns) \in Text
  /\ \A ns \in Seq(Int), n \in Int : LoudText(Append(ns, n)) = LoudText(ns) \o AmpText[n]
<1>1. LoudText(<<>>) = <<>>
  <2>1. Map(AmpText, <<>>) = <<>>
    BY MapEmpty
  <2> QED
    BY <2>1, FlattenEmpty, Zenon DEF LoudText
<1>2. ASSUME NEW ns \in Seq(Int), NEW n \in Int
      PROVE  LoudText(ns) \in Text /\ LoudText(Append(ns, n)) = LoudText(ns) \o AmpText[n]
  <2> DEFINE f == AmpText
             S == Text
             m == Map(f, ns)
  <2> HIDE DEF f, S
  <2>1. f \in [Int -> S]
    BY AmpTypes, Zenon DEF f, S
  <2>2. Map(f, Append(ns, n)) = Append(m, f[n])
    BY <2>1, MapAppend
  <2>3. m \in Seq(S) /\ f[n] \in S
    BY <2>1, MapType
  <2> DEFINE x == f[n]
  <2> HIDE DEF m, x
  <2>4. m \in Seq(Seq(Token)) /\ x \in Seq(Token)
    BY <2>3, Zenon DEF S, Text, x
  <2>5. FlattenSeq(m) \in Seq(Token) /\ FlattenSeq(Append(m, x)) = FlattenSeq(m) \o x
    BY <2>4, FlattenType, FlattenAppend
  <2>6. LoudText(ns) = FlattenSeq(m) /\ LoudText(Append(ns, n)) = FlattenSeq(Append(m, x))
    BY <2>2, Zenon DEF LoudText, m, f, x
  <2> QED
    BY <2>5, <2>6, Zenon DEF x, f, Text
<1>3. \A ns \in Seq(Int) : LoudText(ns) \in Text
  <2>1. 0 \in Int
    OBVIOUS
  <2> QED
    BY <1>2, <2>1, Zenon
<1> QED
  BY <1>1, <1>2, <1>3, Zenon

\* Each amplitude is a line of its own.
LEMMA LoudLines ==
  ASSUME NEW d \in Seq(Text)
  PROVE  \A ns \in Seq(Int) :
           /\ Fold(AddToLine, [done |-> d, line |-> <<>>], LoudText(ns)) =
                [done |-> d \o Map(AmpLine, ns), line |-> <<>>]
           /\ Map(AmpLine, ns) \in Seq(Text)
           /\ Numbers(LoudText(ns)) = ns
<1> DEFINE st(x) == [done |-> x, line |-> <<>>]
           H == {ns \in Seq(Int) : /\ Fold(AddToLine, st(d), LoudText(ns)) = st(d \o Map(AmpLine, ns))
                                   /\ Map(AmpLine, ns) \in Seq(Text)
                                   /\ Numbers(LoudText(ns)) = ns}
<1>1. <<>> \in H
  <2>1. <<>> \in Seq(Int)
    OBVIOUS
  <2>2. Map(AmpLine, <<>>) = <<>>
    BY MapEmpty
  <2>3. Fold(AddToLine, st(d), <<>>) = st(d)
    BY FoldEmpty
  <2>4. d \o <<>> = d /\ <<>> \in Seq(Text)
    BY LineSums, TextSums, Zenon
  <2> QED
    BY <2>1, <2>2, <2>3, <2>4, LoudGrows, NumbersGrow, Zenon
<1>2. ASSUME NEW ns \in Seq(Int), NEW n \in Int, ns \in H
      PROVE  Append(ns, n) \in H
  <2>1. Append(ns, n) \in Seq(Int)
    OBVIOUS
  <2> DEFINE m == Map(AmpLine, ns)
             l == AmpLine[n]
             t == LoudText(ns)
  <2>2. Map(AmpLine, Append(ns, n)) = Append(m, l)
    <3> DEFINE f == AmpLine
               S == Text
    <3> HIDE DEF f, S
    <3>1. f \in [Int -> S]
      BY AmpTypes, Zenon DEF f, S
    <3>2. Map(f, Append(ns, n)) = Append(Map(f, ns), f[n])
      BY <3>1, MapAppend
    <3> QED
      BY <3>2 DEF f
  <2>3. /\ l \in Text /\ l \in Seq(Inner) /\ AmpText[n] = l \o Newline /\ AmpText[n] \in Text
        /\ Numbers(AmpText[n]) = <<n>>
    BY AmpTypes, Zenon
  <2>4. t \in Text /\ LoudText(Append(ns, n)) = t \o AmpText[n]
    BY LoudGrows, Zenon
  <2>5. Fold(AddToLine, st(d), t) = st(d \o m) /\ m \in Seq(Text) /\ Numbers(t) = ns
    BY <1>2, Zenon
  <2> HIDE DEF m, l, t
  <2>6. Append(m, l) \in Seq(Text) /\ d \o m \in Seq(Text) /\ d \o Append(m, l) = Append(d \o m, l)
    <3>1. Append(m, l) \in Seq(Text)
      BY <2>3, <2>5, LineSums, Zenon
    <3>2. d \o m \in Seq(Text)
      BY <2>5, LineSums, Zenon
    <3>3. d \o Append(m, l) = Append(d \o m, l)
      <4>1. \A a, b \in Seq(Text), x \in Text : a \o Append(b, x) = Append(a \o b, x)
        BY LineSums, Zenon
      <4>2. l \in Text /\ m \in Seq(Text)
        BY <2>3, <2>5, Zenon
      <4> QED
        BY <4>1, <4>2, Zenon
    <3> QED
      BY <3>1, <3>2, <3>3, Zenon
  <2> DEFINE g == d \o m
             s0 == st(g)
             s1 == [done |-> g, line |-> l]
  <2> HIDE DEF g
  <2>7. /\ s0 \in LineState /\ s0.done = g /\ s0.line = <<>>
        /\ s1 \in LineState /\ s1.done = g /\ s1.line = l
    <3>1. <<>> \in Text /\ g \in Seq(Text)
      BY <2>6, TextSums, Zenon DEF g
    <3> QED
      BY <3>1, <2>3 DEF LineState
  <2>8. st(d) \in LineState
    <3>1. <<>> \in Text
      BY TextSums
    <3> QED
      BY <3>1 DEF LineState
  <2>9. Fold(AddToLine, st(d), t \o AmpText[n]) = Fold(AddToLine, s0, AmpText[n])
    <3>1. Fold(AddToLine, st(d), t \o AmpText[n]) = Fold(AddToLine, Fold(AddToLine, st(d), t), AmpText[n])
      BY <2>3, <2>4, <2>8, LineFold, Zenon
    <3> QED
      BY <3>1, <2>5, Zenon DEF g
  <2> HIDE DEF s0, s1
  <2>10. Fold(AddToLine, s0, l \o Newline) = Fold(AddToLine, Fold(AddToLine, s0, l), Newline)
    BY <2>3, <2>7, Separators, LineFold, Zenon
  <2>11. Fold(AddToLine, s0, l) = s1
    <3>1. Fold(AddToLine, s0, l) = [done |-> s0.done, line |-> s0.line \o l]
      BY <2>3, <2>7, LineRun
    <3>2. <<>> \o l = l
      BY <2>3, TextSums, Zenon
    <3> QED
      BY <3>1, <3>2, <2>7, Zenon DEF s1
  <2>12. Fold(AddToLine, s1, Newline) = [done |-> Append(g, l), line |-> <<>>]
    <3>1. Fold(AddToLine, s1, Newline) = [done |-> Append(s1.done, s1.line), line |-> <<>>]
      BY <2>7, NewlineEnds
    <3> QED
      BY <3>1, <2>7, Zenon
  <2>13. Fold(AddToLine, st(d), LoudText(Append(ns, n))) = st(d \o Map(AmpLine, Append(ns, n)))
    BY <2>2, <2>3, <2>4, <2>6, <2>9, <2>10, <2>11, <2>12, Zenon DEF g
  <2>14. Numbers(LoudText(Append(ns, n))) = Append(ns, n)
    <3>1. Numbers(t \o AmpText[n]) = ns \o <<n>>
      BY <2>3, <2>4, <2>5, NumbersConcat, Zenon
    <3>2. ns \o <<n>> = Append(ns, n)
      OBVIOUS
    <3> QED
      BY <3>1, <3>2, <2>4, Zenon
  <2> QED
    BY <2>1, <2>2, <2>6, <2>13, <2>14, Zenon
<1>3. Seq(Int) \subseteq H
  <2> HIDE DEF H
  <2> QED BY <1>1, <1>2, SeqInduction
<1> QED
  BY <1>3, Zenon

MuteState == [done : Seq(Seq(Mute)), line : Seq(Mute)]

LEMMA MuteStates ==
  /\ Seq(Mute) \subseteq Text /\ Seq(Seq(Mute)) \subseteq Seq(Text) /\ MuteState \subseteq LineState
  /\ NoLine \in MuteState /\ Mute \subseteq Token
<1>1. Mute \subseteq Token
  BY Zenon DEF Mute
<1>2. Seq(Mute) \subseteq Text
  BY <1>1, SeqMono DEF Text
<1>3. Seq(Seq(Mute)) \subseteq Seq(Text)
  BY <1>2, SeqMono
<1>4. MuteState \subseteq LineState
  BY <1>2, <1>3 DEF MuteState, LineState
<1>5. NoLine \in MuteState
  <2>1. <<>> \in Seq(Mute) /\ <<>> \in Seq(Seq(Mute))
    OBVIOUS
  <2> QED
    BY <2>1 DEF NoLine, MuteState
<1> QED
  BY <1>1, <1>2, <1>3, <1>4, <1>5

\* The lines of a text without numbers have none.
LEMMA MuteFold ==
  \A t \in Seq(Mute) : Fold(AddToLine, NoLine, t) \in MuteState
<1>1. ASSUME NEW s \in MuteState, NEW c \in Mute
      PROVE  AddToLine[s][c] \in MuteState
  <2>1. s \in LineState /\ c \in Token
    BY MuteStates, Zenon
  <2>2. s.done \in Seq(Seq(Mute)) /\ s.line \in Seq(Mute)
    BY DEF MuteState
  <2>3. \A a \in Seq(Seq(Mute)), b \in Seq(Mute) : [done |-> a, line |-> b] \in MuteState
    BY DEF MuteState
  <2>4. Append(s.done, s.line) \in Seq(Seq(Mute)) /\ Append(s.line, c) \in Seq(Mute) /\ <<>> \in Seq(Mute)
    BY <2>2
  <2> QED
    BY <2>1, <2>2, <2>3, <2>4, LineTurn, Zenon
<1>2. NoLine \in MuteState
  BY MuteStates
<1> DEFINE T == Mute
           S == MuteState
<1> HIDE DEF T, S
<1>3. NoLine \in S /\ \A s \in S, c \in T : AddToLine[s][c] \in S
  BY <1>1, <1>2 DEF S, T
<1>4. ASSUME NEW t \in Seq(T) PROVE Fold(AddToLine, NoLine, t) \in S
  BY <1>3, FoldInvariant
<1> QED
  BY <1>4 DEF S, T

LEMMA SampleTurn ==
  ASSUME NEW acc \in Seq(AnySample), NEW line \in Text
  PROVE  /\ Numbers(line) = <<>> => AddSample[acc][line] = acc
         /\ Numbers(line) # <<>> => AddSample[acc][line] = Append(acc, Sample(10 * Head(Numbers(line))))
BY Zenon DEF AddSample

\* Lines without numbers give no samples.
LEMMA MuteSamples ==
  ASSUME NEW ls \in Seq(Seq(Mute))
  PROVE  Fold(AddSample, <<>>, ls) = <<>>
<1> DEFINE T == Seq(Mute)
           S == {<<>>}
<1>1. <<>> \in S /\ ls \in Seq(T)
  OBVIOUS
<1>2. \A s \in S, c \in T : AddSample[s][c] \in S
  <2> SUFFICES ASSUME NEW c \in T PROVE AddSample[<<>>][c] = <<>>
    BY Zenon
  <2>1. <<>> \in Seq(AnySample)
    OBVIOUS
  <2>2. c \in Text /\ Numbers(c) = <<>>
    BY MuteNumbers, Zenon
  <2> QED
    BY <2>1, <2>2, SampleTurn, Zenon
<1> HIDE DEF T, S
<1>3. Fold(AddSample, <<>>, ls) \in S
  BY <1>1, <1>2, FoldInvariant
<1> QED
  BY <1>3 DEF S

LEMMA ToSampleType ==
  /\ ToSample \in [Int -> AnySample]
  /\ \A n \in Int : ToSample[n] = Sample(10 * n) /\ ToSample[n].v = 10 * n
<1>1. ASSUME NEW n \in Int PROVE Sample(10 * n) \in AnySample /\ Sample(10 * n).v = 10 * n
  BY DEF Sample, AnySample
<1> QED
  BY <1>1, Zenon DEF ToSample

\* Lines with one number each give it.
LEMMA LoudSamples ==
  \A ns \in Seq(Int) :
    /\ Fold(AddSample, <<>>, Map(AmpLine, ns)) = Map(ToSample, ns)
    /\ Map(ToSample, ns) \in Seq(AnySample) /\ Len(Map(ToSample, ns)) = Len(ns)
<1> DEFINE H == {ns \in Seq(Int) : Fold(AddSample, <<>>, Map(AmpLine, ns)) = Map(ToSample, ns)}
<1>0. ASSUME NEW ns \in Seq(Int)
      PROVE  Map(ToSample, ns) \in Seq(AnySample) /\ Len(Map(ToSample, ns)) = Len(ns)
  <2>1. Map(ToSample, ns) \in Seq(AnySample)
    BY ToSampleType, MapType
  <2>2. Len(Map(ToSample, ns)) = Len(ns)
    BY MapLen
  <2> QED
    BY <2>1, <2>2
<1>1. <<>> \in H
  <2>1. <<>> \in Seq(Int)
    OBVIOUS
  <2>2. Map(AmpLine, <<>>) = <<>> /\ Map(ToSample, <<>>) = <<>>
    BY MapEmpty
  <2>3. Fold(AddSample, <<>>, <<>>) = <<>>
    BY FoldEmpty
  <2> QED
    BY <2>1, <2>2, <2>3, Zenon
<1>2. ASSUME NEW ns \in Seq(Int), NEW n \in Int, ns \in H
      PROVE  Append(ns, n) \in H
  <2>1. Append(ns, n) \in Seq(Int)
    OBVIOUS
  <2> DEFINE m == Map(AmpLine, ns)
             l == AmpLine[n]
             a == Map(ToSample, ns)
  <2>2. Map(AmpLine, Append(ns, n)) = Append(m, l)
    <3> DEFINE f == AmpLine
               S == Text
    <3> HIDE DEF f, S
    <3>1. f \in [Int -> S]
      BY AmpTypes, Zenon DEF f, S
    <3>2. Map(f, Append(ns, n)) = Append(Map(f, ns), f[n])
      BY <3>1, MapAppend
    <3> QED
      BY <3>2 DEF f
  <2>3. Map(ToSample, Append(ns, n)) = Append(a, ToSample[n])
    <3> DEFINE f == ToSample
               S == AnySample
    <3> HIDE DEF f, S
    <3>1. f \in [Int -> S]
      BY ToSampleType, Zenon DEF f, S
    <3>2. Map(f, Append(ns, n)) = Append(Map(f, ns), f[n])
      BY <3>1, MapAppend
    <3> QED
      BY <3>2 DEF f
  <2>4. l \in Text /\ Numbers(l) = <<n>>
    BY AmpTypes, Zenon
  <2>5. m \in Seq(Text)
    BY LoudLines, TextSums, Zenon
  <2>6. a \in Seq(AnySample)
    BY <1>0
  <2> HIDE DEF m, l, a
  <2>7. Fold(AddSample, <<>>, Append(m, l)) = AddSample[Fold(AddSample, <<>>, m)][l]
    <3> DEFINE T == Text
    <3> HIDE DEF T
    <3>1. m \in Seq(T) /\ l \in T
      BY <2>4, <2>5 DEF T
    <3> QED
      BY <3>1, FoldAppend
  <2>8. Fold(AddSample, <<>>, m) = a
    BY <1>2, Zenon DEF m, a
  <2>9. AddSample[a][l] = Append(a, Sample(10 * Head(<<n>>)))
    <3>1. <<n>> # <<>>
      OBVIOUS
    <3> QED
      BY <3>1, <2>4, <2>6, SampleTurn, Zenon
  <2>10. Head(<<n>>) = n
    OBVIOUS
  <2>11. ToSample[n] = Sample(10 * n)
    BY ToSampleType, Zenon
  <2> QED
    BY <2>1, <2>2, <2>3, <2>7, <2>8, <2>9, <2>10, <2>11, Zenon
<1>3. Seq(Int) \subseteq H
  <2> HIDE DEF H
  <2> QED BY <1>1, <1>2, SeqInduction
<1> QED
  BY <1>0, <1>3, Zenon

\* Whatever text without numbers comes first, sound after a newline is read.
LEMMA SoundRead ==
  ASSUME NEW v \in Seq(Mute), NEW ns \in Seq(Int), Fold(AddToLine, NoLine, v).line = <<>>
  PROVE  /\ textToAudio(v \o LoudText(ns)) = Map(ToSample, ns)
         /\ Numbers(v \o LoudText(ns)) = ns
         /\ Lines(v \o LoudText(ns)) = Fold(AddToLine, NoLine, v).done \o Map(AmpLine, ns)
<1> DEFINE e == Fold(AddToLine, NoLine, v)
           d == e.done
           m == Map(AmpLine, ns)
           u == LoudText(ns)
<1>1. v \in Text /\ u \in Text /\ Numbers(v) = <<>>
  BY MuteNumbers, LoudGrows, Zenon
<1>2. e \in MuteState
  BY MuteFold, Zenon
<1> HIDE DEF e
<1>3. d \in Seq(Seq(Mute)) /\ e = [done |-> d, line |-> <<>>]
  <2>1. e.line = <<>>
    BY DEF e
  <2> QED
    BY <1>2, <2>1 DEF MuteState
<1> HIDE DEF d
<1>4. d \in Seq(Text)
  BY <1>3, MuteStates, Zenon
<1>5. /\ Fold(AddToLine, [done |-> d, line |-> <<>>], u) = [done |-> d \o m, line |-> <<>>]
      /\ m \in Seq(Text) /\ Numbers(u) = ns
  BY <1>4, LoudLines, Zenon
<1> HIDE DEF m, u
<1>6. Fold(AddToLine, NoLine, v \o u) = [done |-> d \o m, line |-> <<>>]
  <2>1. Fold(AddToLine, NoLine, v \o u) = Fold(AddToLine, Fold(AddToLine, NoLine, v), u)
    BY <1>1, NoFrameType, LineFold, Zenon
  <2> QED
    BY <2>1, <1>3, <1>5, Zenon DEF e
<1>7. Lines(v \o u) = d \o m
  <2>1. \A x : [done |-> x, line |-> <<>>].line = <<>> /\ [done |-> x, line |-> <<>>].done = x
    OBVIOUS
  <2> QED
    BY <2>1, <1>6, Zenon DEF Lines
<1>8. Fold(AddSample, <<>>, d \o m) = Map(ToSample, ns)
  <2>1. Fold(AddSample, <<>>, d \o m) = Fold(AddSample, Fold(AddSample, <<>>, d), m)
    <3> DEFINE T == Text
    <3> HIDE DEF T
    <3>1. d \in Seq(T)
      BY <1>4 DEF T
    <3>2. m \in Seq(T)
      BY <1>5 DEF T
    <3> QED
      BY <3>1, <3>2, FoldConcat
  <2>2. Fold(AddSample, <<>>, d) = <<>>
    BY <1>3, MuteSamples
  <2>3. Fold(AddSample, <<>>, m) = Map(ToSample, ns)
    BY LoudSamples, Zenon DEF m
  <2> QED
    BY <2>1, <2>2, <2>3, Zenon
<1>9. Numbers(v \o u) = ns
  <2>1. Numbers(v \o u) = <<>> \o ns
    BY <1>1, <1>5, NumbersConcat, Zenon
  <2> QED
    BY <2>1
<1>10. textToAudio(v \o u) = Map(ToSample, ns)
  BY <1>7, <1>8, Zenon DEF textToAudio
<1> QED
  BY <1>7, <1>9, <1>10 DEF u, m, d, e

LEMMA NothingRead ==
  \A v \in Seq(Mute) : textToAudio(v) = <<>>
<1> SUFFICES ASSUME NEW v \in Seq(Mute) PROVE textToAudio(v) = <<>>
  OBVIOUS
<1> DEFINE e == Fold(AddToLine, NoLine, v)
<1>1. e \in MuteState
  BY MuteFold, Zenon
<1> HIDE DEF e
<1>2. e.done \in Seq(Seq(Mute)) /\ e.line \in Seq(Mute)
  BY <1>1 DEF MuteState
<1>3. Append(e.done, e.line) \in Seq(Seq(Mute))
  BY <1>2
<1> DEFINE ls == Lines(v)
<1>4. ls \in Seq(Seq(Mute))
  BY <1>2, <1>3, Zenon DEF Lines, e
<1> HIDE DEF ls
<1>5. Fold(AddSample, <<>>, ls) = <<>>
  BY <1>4, MuteSamples
<1> QED
  BY <1>5 DEF textToAudio, ls

-----------------------------------------------------------------------------
(***************************************************************************)
(* The text of a video, and back.                                          *)
(***************************************************************************)
\* The frames, joined.
Reel(F, w, h) == Join(ShotTexts(F, w, h), Blank)

LEMMA PixelsAreMute ==
  PixelToken \subseteq Mute /\ Seq(PixelToken) \subseteq Seq(Mute) /\ Seq(PixelToken) \subseteq Text
<1>1. PixelToken \subseteq Mute
  BY PixelTokens, Zenon DEF Mute
<1>2. Seq(PixelToken) \subseteq Seq(Mute)
  BY <1>1, SeqMono
<1> QED
  BY <1>1, <1>2, MuteStates, Zenon

LEMMA ReelType ==
  ASSUME NEW w \in Nat, NEW h \in Nat, NEW F \in Seq(Shots(w, h))
  PROVE  Reel(F, w, h) \in Seq(PixelToken)
<1> DEFINE n == Len(F)
           S == ShotTexts(F, w, h)
<1>1. n \in Nat /\ \A i \in 1..n : F[i] \in Shots(w, h)
  OBVIOUS
<1>2. \A i \in 1..n : PixText(F[i], w, h) \in Seq(PixelToken)
  <2> SUFFICES ASSUME NEW i \in 1..n PROVE PixText(F[i], w, h) \in Seq(PixelToken)
    OBVIOUS
  <2> DEFINE P == F[i]
  <2>1. P \in Seq(Color) /\ Len(P) = w * h
    BY <1>1, Zenon DEF Shots
  <2> HIDE DEF P
  <2>2. PixText(P, w, h) \in Seq(PixelToken)
    BY <2>1, PixTextOver
  <2> QED
    BY <2>2 DEF P
<1>3. S \in [1..n -> Seq(PixelToken)]
  BY <1>2, Zenon DEF ShotTexts
<1> HIDE DEF S
<1>4. S \in Seq(Seq(PixelToken))
  BY <1>1, <1>3, FunctionIsSeq
<1>5. Blank \in Seq(PixelToken)
  <2>1. NL \in PixelToken
    BY PixelTokens
  <2> QED
    BY <2>1 DEF Blank
<1>6. Join(S, Blank) \in Seq(PixelToken)
  BY <1>4, <1>5, JoinOver
<1> QED
  BY <1>6 DEF Reel, S

\* The frames are found again, with a newline after them or not.
LEMMA ReelSplits ==
  ASSUME NEW w \in Nat \ {0}, NEW h \in Nat \ {0}, NEW F \in Seq(Shots(w, h))
  PROVE  /\ SplitFrames(Reel(F, w, h)) = ShotTexts(F, w, h)
         /\ SplitFrames(Reel(F, w, h) \o Newline) = ShotTexts(F, w, h)
         /\ F # <<>> => FramesRead(LinesOf(w), Reel(F, w, h), ShotRows(F, w, h))
<1> DEFINE R == ShotRows(F, w, h)
           J == Reel(F, w, h)
<1>1. R \in Seq(FrameOf(LinesOf(w))) /\ Len(R) = Len(F) /\ Map(FrameText, R) = ShotTexts(F, w, h)
  BY ShotsAre
<1>2. J = Join(Map(FrameText, R), Blank)
  BY <1>1, Zenon DEF Reel
<1> HIDE DEF R, J
<1>3. CASE F # <<>>
  <2>1. Len(R) # 0
    BY <1>1, <1>3
  <2>2. R # <<>>
    <3>1. Len(<<>>) = 0
      OBVIOUS
    <3> QED
      BY <2>1, <3>1, Zenon
  <2>3. <<>> \in LinesOf(w)
    BY TextSums, Zenon DEF LinesOf
  <2>4. FramesRead(LinesOf(w), Join(Map(FrameText, R), Blank), R)
    BY <1>1, <2>2, <2>3, JoinedFrames
  <2>5. FramesRead(LinesOf(w), J, R)
    BY <2>4, <1>2, Zenon
  <2>6. SplitFrames(J) = Map(FrameText, R) /\ SplitFrames(J \o Newline) = Map(FrameText, R)
    BY <2>5, LinesRead
  <2> QED
    BY <2>5, <2>6, <1>1, <1>3, Zenon DEF J, R
<1>4. CASE F = <<>>
  <2>1. Len(R) = 0
    BY <1>1, <1>4
  <2>2. R = <<>>
    BY <2>1, <1>1
  <2>3. Map(FrameText, R) = <<>>
    BY <2>2, MapEmpty
  <2>4. J = <<>>
    BY <1>2, <2>3, JoinEmpty
  <2>5. <<>> \in Seq({<<>>}) /\ <<<<>>>> \in Seq({<<>>})
    OBVIOUS
  <2>6. Lines(Newline) = <<<<>>>>
    <3>1. Fold(AddToLine, NoLine, Newline) = [done |-> Append(NoLine.done, NoLine.line), line |-> <<>>]
      BY NoFrameType, NewlineEnds
    <3>2. Append(NoLine.done, NoLine.line) = <<<<>>>>
      BY NoFrameType
    <3>3. \A x : [done |-> x, line |-> <<>>].line = <<>> /\ [done |-> x, line |-> <<>>].done = x
      OBVIOUS
    <3> QED
      BY <3>1, <3>2, <3>3, Zenon DEF Lines
  <2>7. Fold(AddToFrame, NoFrame, <<>>) = NoFrame /\ Fold(AddToFrame, NoFrame, <<<<>>>>) = NoFrame
    BY <2>5, EmptyLines
  <2>8. WithFrame(NoFrame) = <<>>
    BY NoFrameType, Zenon DEF WithFrame
  <2>9. SplitFrames(<<>>) = <<>> /\ SplitFrames(Newline) = <<>>
    BY <2>6, <2>7, <2>8, LinesOfNothing, Zenon DEF SplitFrames
  <2>10. <<>> \o Newline = Newline
    BY Separators, TextSums, Zenon
  <2> QED
    BY <1>1, <1>4, <2>3, <2>4, <2>9, <2>10, Zenon DEF J
<1> QED
  BY <1>3, <1>4

\* There is sound in the text if and only if there are amplitudes.
LEMMA LoudEmpty ==
  \A ns \in Seq(Int) : LoudText(ns) = <<>> <=> ns = <<>>
<1> SUFFICES ASSUME NEW ns \in Seq(Int), LoudText(ns) = <<>> PROVE ns = <<>>
  BY LoudGrows, Zenon
<1>1. Numbers(LoudText(ns)) = ns
  BY LoudLines, TextSums, Zenon
<1> QED
  BY <1>1, NumbersGrow, Zenon

\* What joinVideoText puts between frames and sound.
Between == <<NL, Marker, NL>>

LEMMA BetweenIs ==
  /\ Between \in Text /\ Between \in Seq(Mute)
  /\ <<NL, Marker>> \in Text /\ <<NL, Marker>> \in Seq(Mute) /\ <<Marker, NL>> \in Text
  /\ Between = <<NL, Marker>> \o Newline /\ Between = Newline \o <<Marker, NL>>
<1>1. NL \in Token /\ Marker \in Token /\ NL \in Mute /\ Marker \in Mute
  BY TokenFacts, Zenon DEF Mute
<1>2. \A T, a, b : a \in T /\ b \in T => /\ <<a, b, a>> \in Seq(T) /\ <<a, b>> \in Seq(T) /\ <<b, a>> \in Seq(T)
  OBVIOUS
<1>3. \A a, b : <<a, b, a>> = <<a, b>> \o <<a>> /\ <<a, b, a>> = <<a>> \o <<b, a>>
  OBVIOUS
<1>4. <<NL, Marker, NL>> = <<NL, Marker>> \o <<NL>> /\ <<NL, Marker, NL>> = <<NL>> \o <<Marker, NL>>
  BY <1>3, Zenon
<1>5. /\ <<NL, Marker, NL>> \in Seq(Token) /\ <<NL, Marker>> \in Seq(Token) /\ <<Marker, NL>> \in Seq(Token)
      /\ <<NL, Marker, NL>> \in Seq(Mute) /\ <<NL, Marker>> \in Seq(Mute)
  BY <1>1, <1>2, Zenon
<1> QED
  BY <1>4, <1>5, Zenon DEF Between, Newline, Text

\* The text of a video with the amplitudes ns.
Film(F, w, h, ns) == joinVideoText(ShotTexts(F, w, h), LoudText(ns))

LEMMA FilmIs ==
  ASSUME NEW w \in Nat, NEW h \in Nat, NEW F \in Seq(Shots(w, h)), NEW ns \in Seq(Int)
  PROVE  LET J == Reel(F, w, h)
             u == LoudText(ns)
             t == Film(F, w, h, ns)
         IN  /\ J \in Text /\ J \in Seq(PixelToken) /\ u \in Text /\ t \in Text
             /\ ns = <<>> => t = J /\ u = <<>>
             /\ ns # <<>> => /\ t = (J \o Newline) \o (<<Marker, NL>> \o u)
                             /\ t = (J \o Between) \o u
<1> DEFINE J == Reel(F, w, h)
           u == LoudText(ns)
           t == Film(F, w, h, ns)
<1>1. J \in Seq(PixelToken) /\ J \in Text
  BY ReelType, PixelsAreMute, Zenon
<1>2. u \in Text /\ (u = <<>> <=> ns = <<>>)
  BY LoudGrows, LoudEmpty, Zenon
<1>3. t = J \o (IF u = <<>> THEN <<>> ELSE Between \o u)
  BY Zenon DEF Film, joinVideoText, Reel, Blank, Between
<1> HIDE DEF J, u, t
<1>4. ns = <<>> => t = J /\ u = <<>>
  BY <1>1, <1>2, <1>3, TextSums, Zenon
<1>5. ns # <<>> => t = (J \o Between) \o u /\ t \in Text
  <2> SUFFICES ASSUME ns # <<>> PROVE t = (J \o Between) \o u /\ t \in Text
    OBVIOUS
  <2>1. t = J \o (Between \o u)
    BY <1>2, <1>3, Zenon
  <2>2. (J \o Between) \o u = J \o (Between \o u)
    BY <1>1, <1>2, BetweenIs, TextSums, Zenon
  <2>3. J \o Between \in Text
    BY <1>1, BetweenIs, TextSums, Zenon
  <2>4. (J \o Between) \o u \in Text
    BY <2>3, <1>2, TextSums, Zenon
  <2> QED
    BY <2>1, <2>2, <2>4, Zenon
<1>6. (J \o Between) \o u = (J \o Newline) \o (<<Marker, NL>> \o u)
  <2> DEFINE b == <<Marker, NL>>
             a == J \o Newline
  <2>1. b \in Text /\ Newline \in Text /\ Between = Newline \o b
    BY BetweenIs, Separators, Zenon
  <2> HIDE DEF b
  <2>2. (J \o Newline) \o b = J \o (Newline \o b)
    BY <2>1, <1>1, TextSums, Zenon
  <2>3. a \in Text
    BY <2>1, <1>1, TextSums, Zenon
  <2>4. a \o b = J \o Between
    BY <2>1, <2>2, Zenon
  <2> HIDE DEF a
  <2>5. (a \o b) \o u = a \o (b \o u)
    BY <2>1, <2>3, <1>2, TextSums, Zenon
  <2> QED
    BY <2>4, <2>5, Zenon DEF a, b
<1>7. t \in Text
  BY <1>1, <1>4, <1>5, Zenon
<1> QED
  BY <1>1, <1>2, <1>4, <1>5, <1>6, <1>7, Zenon DEF J, u, t

\* decryptVideo finds the frames and the sound.
LEMMA FilmSplits ==
  ASSUME NEW w \in Nat \ {0}, NEW h \in Nat \ {0}, NEW F \in Seq(Shots(w, h)), NEW ns \in Seq(Int)
  PROVE  /\ SplitFrames(SplitAudio(Film(F, w, h, ns)).video) = ShotTexts(F, w, h)
         /\ SplitAudio(Film(F, w, h, ns)).audio = LoudText(ns)
         /\ ~EndsAtMarker(Film(F, w, h, ns))
<1> DEFINE J == Reel(F, w, h)
           u == LoudText(ns)
           t == Film(F, w, h, ns)
<1>1. /\ J \in Text /\ J \in Seq(PixelToken) /\ u \in Text /\ t \in Text
      /\ ns = <<>> => t = J /\ u = <<>>
      /\ ns # <<>> => t = (J \o Newline) \o (<<Marker, NL>> \o u)
  <2>1. w \in Nat /\ h \in Nat
    OBVIOUS
  <2> QED
    BY <2>1, FilmIs
<1>2. SplitFrames(J) = ShotTexts(F, w, h) /\ SplitFrames(J \o Newline) = ShotTexts(F, w, h)
  BY ReelSplits
<1> HIDE DEF J, u, t
<1>3. CASE ns = <<>>
  <2>1. \A i \in 1..Len(J) : J[i] # Marker
    <3>1. \A i \in 1..Len(J) : J[i] \in PixelToken
      BY <1>1
    <3> QED
      BY <3>1, PixelTokens, Zenon
  <2>2. J \in Text
    BY <1>1
  <2>3. SplitAudio(J).video = J /\ SplitAudio(J).audio = <<>> /\ ~EndsAtMarker(J)
    BY <2>1, <2>2, SplitNone
  <2> QED
    BY <2>3, <1>1, <1>2, <1>3, Zenon DEF t, u
<1>4. CASE ns # <<>>
  <2> DEFINE v == J \o Newline
  <2>0. Newline \in Seq(PixelToken) /\ J \in Seq(PixelToken)
    BY <1>1, PixelTokens DEF Newline
  <2>1. v \in Seq(PixelToken)
    <3> HIDE DEF v
    <3> DEFINE T == PixelToken
               nl == Newline
    <3> HIDE DEF T, nl
    <3>1. J \in Seq(T) /\ nl \in Seq(T)
      BY <2>0 DEF T, nl
    <3>2. J \o nl \in Seq(T)
      BY <3>1
    <3> QED
      BY <3>2 DEF T, nl, v
  <2> HIDE DEF v
  <2>2. \A i \in 1..Len(v) : v[i] # Marker
    <3>1. \A i \in 1..Len(v) : v[i] \in PixelToken
      BY <2>1
    <3> QED
      BY <3>1, PixelTokens, Zenon
  <2>3. v \in Text /\ u \in Text
    BY <1>1, <2>1, PixelsAreMute, Zenon
  <2>4. LET x == v \o (<<Marker, NL>> \o u)
        IN  SplitAudio(x).video = v /\ SplitAudio(x).audio = u /\ ~EndsAtMarker(x)
    BY <2>2, <2>3, SplitThere
  <2>5. SplitAudio(t).video = v /\ SplitAudio(t).audio = u /\ ~EndsAtMarker(t)
    BY <2>4, <1>1, <1>4, Zenon DEF v
  <2> QED
    BY <2>5, <1>2, Zenon DEF v, t, u
<1> QED
  BY <1>3, <1>4

\* decryptAudio finds the sound and nothing else.
LEMMA FilmSounds ==
  ASSUME NEW w \in Nat, NEW h \in Nat, NEW F \in Seq(Shots(w, h)), NEW ns \in Seq(Int)
  PROVE  /\ textToAudio(Film(F, w, h, ns)) = Map(ToSample, ns)
         /\ Numbers(Film(F, w, h, ns)) = ns
         /\ ns # <<>> => /\ Lines(Film(F, w, h, ns)) =
                              Fold(AddToLine, NoLine, Reel(F, w, h) \o Between).done \o Map(AmpLine, ns)
                         /\ Fold(AddToLine, NoLine, Reel(F, w, h) \o Between).line = <<>>
<1> DEFINE J == Reel(F, w, h)
           u == LoudText(ns)
           t == Film(F, w, h, ns)
<1>1. /\ J \in Text /\ J \in Seq(PixelToken) /\ u \in Text
      /\ ns = <<>> => t = J
      /\ ns # <<>> => t = (J \o Between) \o u
  BY FilmIs
<1> HIDE DEF J, t
<1>2. J \in Seq(Mute)
  BY <1>1, PixelsAreMute, Zenon
<1>3. CASE ns = <<>>
  <2>1. textToAudio(J) = <<>> /\ Numbers(J) = <<>>
    BY <1>2, NothingRead, MuteNumbers, Zenon
  <2>2. Map(ToSample, <<>>) = <<>>
    BY MapEmpty
  <2> QED
    BY <1>1, <1>3, <2>1, <2>2, Zenon DEF t
<1>4. CASE ns # <<>>
  <2> DEFINE v == J \o Between
             a == J \o <<NL, Marker>>
  <2>1. v \in Seq(Mute)
    <3> DEFINE T == Mute
               b == Between
    <3> HIDE DEF T, b
    <3>1. J \in Seq(T) /\ b \in Seq(T)
      BY <1>2, BetweenIs, Zenon DEF T, b
    <3>2. J \o b \in Seq(T)
      BY <3>1
    <3> QED
      BY <3>2 DEF T, b
  <2>2. a \in Text /\ v = a \o Newline
    <3> DEFINE b == <<NL, Marker>>
    <3>1. b \in Text /\ Between = b \o Newline
      BY BetweenIs, Zenon
    <3> HIDE DEF b
    <3>2. (J \o b) \o Newline = J \o (b \o Newline) /\ J \o b \in Text
      <4>1. J \in Text /\ b \in Text /\ Newline \in Text
        BY <1>1, <3>1, Separators, Zenon
      <4> HIDE DEF J
      <4> QED
        BY ONLY <4>1, TextSums, Zenon
    <3> QED
      BY <3>1, <3>2, Zenon DEF b
  <2> HIDE DEF v, a
  <2>3. Fold(AddToLine, NoLine, v).line = <<>>
    <3> DEFINE e == Fold(AddToLine, NoLine, a)
    <3>1. Fold(AddToLine, NoLine, a \o Newline) = Fold(AddToLine, e, Newline) /\ e \in LineState
      BY <2>2, Separators, NoFrameType, LineFold, Zenon
    <3> HIDE DEF e
    <3>2. Fold(AddToLine, e, Newline) = [done |-> Append(e.done, e.line), line |-> <<>>]
      BY <3>1, NewlineEnds
    <3>3. \A x : [done |-> x, line |-> <<>>].line = <<>>
      OBVIOUS
    <3> QED
      BY <2>2, <3>1, <3>2, <3>3, Zenon
  <2>4. /\ textToAudio(v \o u) = Map(ToSample, ns) /\ Numbers(v \o u) = ns
        /\ Lines(v \o u) = Fold(AddToLine, NoLine, v).done \o Map(AmpLine, ns)
    BY <2>1, <2>3, SoundRead
  <2> HIDE DEF u
  <2> QED
    BY <1>1, <1>4, <2>3, <2>4, Zenon DEF v, t, J
<1> QED
  BY <1>3, <1>4

\* The same for sound alone.
LEMMA SoundAlone ==
  ASSUME NEW ns \in Seq(Int)
  PROVE  /\ textToAudio(LoudText(ns)) = Map(ToSample, ns) /\ Numbers(LoudText(ns)) = ns
         /\ Lines(LoudText(ns)) = Map(AmpLine, ns) /\ LoudText(ns) \in Text
<1>1. <<>> \in Seq(Mute)
  OBVIOUS
<1>2. Fold(AddToLine, NoLine, <<>>) = NoLine
  BY FoldEmpty
<1>3. Fold(AddToLine, NoLine, <<>>).line = <<>> /\ Fold(AddToLine, NoLine, <<>>).done = <<>>
  BY <1>2, NoFrameType, Zenon
<1>4. /\ textToAudio(<<>> \o LoudText(ns)) = Map(ToSample, ns)
      /\ Numbers(<<>> \o LoudText(ns)) = ns
      /\ Lines(<<>> \o LoudText(ns)) = Fold(AddToLine, NoLine, <<>>).done \o Map(AmpLine, ns)
  BY <1>1, <1>3, SoundRead
<1>5. LoudText(ns) \in Text /\ <<>> \o LoudText(ns) = LoudText(ns)
  BY LoudGrows, TextSums, Zenon
<1>6. <<>> \o Map(AmpLine, ns) = Map(AmpLine, ns)
  <2>1. Map(AmpLine, ns) \in Seq(Text)
    BY LoudLines, TextSums, Zenon
  <2> QED
    BY <2>1, LineSums, Zenon
<1> QED
  BY <1>3, <1>4, <1>5, <1>6, Zenon

-----------------------------------------------------------------------------
(***************************************************************************)
(* Images all of whose pixels are there.                                   *)
(***************************************************************************)
Full(im) == im \in ImageData /\ Len(im.pixels) >= im.width * im.height

LEMMA RowsFull ==
  ASSUME NEW w \in Nat \ {0}, NEW ls \in Seq(LinesOf(w))
  PROVE  Full(Fold(AddRowStep, NoImage, ls))
<1> DEFINE T == LinesOf(w)
           S == {im \in ImageData : /\ Len(im.pixels) = im.width * im.height
                                    /\ im.width = w \/ (im.width = 0 /\ im.height = 0)}
<1>1. NoImage \in S
  <2>1. Len(<<>>) = 0 * 0
    OBVIOUS
  <2> QED
    BY <2>1, NoImageType, Zenon
<1>2. ASSUME NEW im \in S, NEW l \in T
      PROVE  AddRowStep[im][l] \in S
  <2>1. im \in ImageData /\ Len(im.pixels) = im.width * im.height /\ (im.width = w \/ (im.width = 0 /\ im.height = 0))
    BY Zenon
  <2>2. l \in Text /\ (l = <<>> \/ Len(Words(l)) = w)
    BY Zenon DEF LinesOf
  <2>3. CASE l = <<>>
    <3>1. AddRowStep[im][l] = im
      BY <2>1, <2>2, <2>3, RowTurn, Zenon
    <3> QED
      BY <3>1, Zenon
  <2>4. CASE l # <<>>
    <3> DEFINE p == PixelsOf(l)
               new == AddRowStep[im][l]
    <3>1. p \in Seq(Color) /\ Len(p) = w
      BY <2>2, <2>4, PixelsOfType, Zenon
    <3>2. /\ new = [pixels |-> im.pixels \o p,
                    width  |-> IF im.width = 0 THEN Len(im.pixels \o p) \div (im.height + 1) ELSE im.width,
                    height |-> im.height + 1]
          /\ new \in ImageData
      BY <2>1, <2>2, <2>4, RowTurn, Zenon
    <3>3. im.pixels \in Seq(Color) /\ im.width \in Nat /\ im.height \in Nat
      BY <2>1 DEF ImageData
    <3> HIDE DEF p, new
    <3> DEFINE q == im.pixels \o p
               old == im.pixels
    <3>4. Len(q) = Len(im.pixels) + w
      <4>1. old \in Seq(Color)
        BY <3>3, Zenon
      <4>2. p \in Seq(Color)
        BY <3>1, Zenon
      <4> HIDE DEF old
      <4>3. Len(old \o p) = Len(old) + Len(p)
        BY <4>1, <4>2
      <4> QED
        BY <4>3, <3>1, Zenon DEF old
    <3> HIDE DEF q
    <3>5. /\ new.pixels = q /\ new.height = im.height + 1
          /\ new.width = IF im.width = 0 THEN Len(q) \div (im.height + 1) ELSE im.width
      BY <3>2 DEF q
    <3>6. new.width = w
      <4>1. CASE im.width = w
        BY <4>1, <3>5
      <4>2. CASE im.width = 0 /\ im.height = 0
        <5>1. Len(q) = w
          BY <4>2, <3>4, <2>1, <3>3
        <5> QED
          BY <5>1, <4>2, <3>5
      <4> QED
        BY <4>1, <4>2, <2>1
    <3>7. Len(im.pixels) = w * im.height
      <4>1. CASE im.width = w
        BY <4>1, <2>1
      <4>2. CASE im.width = 0 /\ im.height = 0
        BY <4>2, <2>1
      <4> QED
        BY <4>1, <4>2, <2>1
    <3>8. Len(q) = w * (im.height + 1)
      BY <3>3, <3>4, <3>7, NextProduct
    <3>9. Len(new.pixels) = new.width * new.height
      BY <3>5, <3>6, <3>8, Zenon
    <3>10. new \in S
      BY <3>2, <3>6, <3>9, Zenon
    <3> QED
      BY <3>10, Zenon DEF new
  <2> QED
    BY <2>3, <2>4
<1> DEFINE im == Fold(AddRowStep, NoImage, ls)
<1>3. im \in S
  <2>1. ls \in Seq(T) /\ \A s \in S, c \in T : AddRowStep[s][c] \in S
    BY <1>2
  <2> HIDE DEF T, S
  <2> QED
    BY <1>1, <2>1, FoldInvariant
<1> HIDE DEF im
<1>4. im \in ImageData /\ Len(im.pixels) = im.width * im.height
  BY <1>3, Zenon
<1>5. im.width * im.height >= im.width * im.height
  <2>1. im.width \in Nat /\ im.height \in Nat
    BY <1>4 DEF ImageData
  <2>2. im.width * im.height \in Nat
    BY <2>1
  <2> QED
    BY <2>2
<1>6. Full(im)
  BY <1>4, <1>5, Zenon DEF Full
<1> QED
  BY <1>6 DEF im

LEMMA NoImageFull == Full(NoImage)
<1>1. Len(<<>>) >= 0 * 0
  OBVIOUS
<1> QED
  BY <1>1, NoImageType, Zenon DEF Full

\* A video of one frame is that frame.
LEMMA VideoOne ==
  ASSUME NEW t, textToPixel(t) \in ImageData
  PROVE  VideoImage(<<t>>) = textToPixel(t)
<1> DEFINE im == textToPixel(t)
           ims == [i \in 1..Len(<<t>>) |-> textToPixel(<<t>>[i])]
<1>1. VideoImage(<<t>>) = IF ims = <<>> THEN NoImage
                          ELSE [ims[1] EXCEPT !.pixels = FlattenSeq([i \in 1..Len(ims) |-> ims[i].pixels])]
  BY DEF VideoImage
<1>2. ims = <<im>>
  <2>1. Len(<<t>>) = 1 /\ \A i \in 1..1 : <<t>>[i] = t
    OBVIOUS
  <2>2. ims = [i \in 1..1 |-> im]
    BY <2>1, Zenon
  <2> HIDE DEF im, ims
  <2> QED
    BY <2>2
<1>3. im \in ImageData
  OBVIOUS
<1> HIDE DEF im, ims
<1>4. ims # <<>> /\ ims[1] = im /\ Len(ims) = 1
  BY <1>2
<1>5. [i \in 1..Len(ims) |-> ims[i].pixels] = <<im.pixels>>
  <2>1. [i \in 1..Len(ims) |-> ims[i].pixels] = [i \in 1..1 |-> im.pixels]
    BY <1>4
  <2> QED
    BY <2>1
<1>6. FlattenSeq(<<im.pixels>>) = im.pixels
  <2> DEFINE p == im.pixels
  <2>1. p \in Seq(Color)
    BY <1>3 DEF ImageData
  <2> HIDE DEF p
  <2>2. FlattenSeq(<<p>>) = p
    BY <2>1, FlattenOne
  <2> QED
    BY <2>2 DEF p
<1>7. [im EXCEPT !.pixels = im.pixels] = im
  BY <1>3 DEF ImageData
<1>8. VideoImage(<<t>>) = im
  BY <1>1, <1>4, <1>5, <1>6, <1>7
<1> QED
  BY <1>8 DEF im

\* A single word on a line.
LEMMA OneWord ==
  \A c \in Word : <<c>> \in LinesOf(1) /\ <<c>> \in Row
<1> SUFFICES ASSUME NEW c \in Word PROVE <<c>> \in LinesOf(1) /\ <<c>> \in Row
  OBVIOUS
<1>1. c \in Token /\ c \in Inner
  BY Zenon DEF Word, Inner
<1>2. Append(<<>>, c) = <<c>> /\ <<c>> \in Seq(Word) /\ <<c>> \in Seq(Inner) /\ <<c>> # <<>> /\ Len(<<c>>) = 1
  BY <1>1
<1>3. RowOf(<<c>>) = <<c>>
  <2>1. RowOf(Append(<<>>, c)) = <<c>>
    BY <1>1, TextSums, RowGrows, Zenon
  <2> QED
    BY <1>2, <2>1, Zenon
<1>4. Words(<<c>>) = <<c>>
  BY <1>2, <1>3, RowWords, Zenon
<1>5. <<c>> \in Text
  BY <1>2, InnerIsText, Zenon
<1> QED
  BY <1>2, <1>4, <1>5, Zenon DEF LinesOf, Row

\* Amplitudes, on a line each.
LEMMA AmpLines ==
  ASSUME NEW ns \in Seq(Int)
  PROVE  /\ Map(AmpLine, ns) \in Seq(LinesOf(1))
         /\ ns # <<>> => Map(AmpLine, ns) \in FrameOf(LinesOf(1))
<1> DEFINE T == Row \cap LinesOf(1)
           m == Map(AmpLine, ns)
<1>1. \A n \in Int : AmpLine[n] \in T
  <2> SUFFICES ASSUME NEW n \in Int PROVE AmpLine[n] \in T
    OBVIOUS
  <2>1. AmpLine[n] = <<Amp(n)>> /\ Amp(n) \in Word
    BY AmpTypes, AmpIs, Zenon
  <2> QED
    BY <2>1, OneWord, Zenon
<1>2. AmpLine \in [Int -> T]
  BY <1>1, AmpTypes
<1>3. Len(m) = Len(ns)
  BY MapLen
<1> HIDE DEF T
<1>4. m \in Seq(T)
  BY <1>2, MapType
<1> HIDE DEF m
<1>5. m \in Seq(LinesOf(1))
  <2>1. T \subseteq LinesOf(1)
    BY Zenon DEF T
  <2> QED
    BY <1>4, <2>1, SeqMono
<1>6. ns # <<>> => m # <<>>
  <2>1. ns # <<>> => Len(ns) # 0
    OBVIOUS
  <2>2. Len(<<>>) = 0
    OBVIOUS
  <2> QED
    BY <2>1, <2>2, <1>3, Zenon
<1>7. ns # <<>> => m \in FrameOf(LinesOf(1))
  BY <1>4, <1>6, Zenon DEF FrameOf, T
<1> QED
  BY <1>5, <1>7 DEF m

\* Sound that is taken for an image, or for a video, is a column of pixels.
LEMMA SoundFull ==
  ASSUME NEW ns \in Seq(Int)
  PROVE  /\ Full(textToPixel(LoudText(ns)))
         /\ Full(VideoImage(SplitFrames(SplitAudio(LoudText(ns)).video)))
         /\ ~EndsAtMarker(LoudText(ns))
<1> DEFINE u == LoudText(ns)
           x == Map(AmpLine, ns)
<1>1. Lines(u) = x /\ u \in Text
  BY SoundAlone
<1>2. x \in Seq(LinesOf(1)) /\ (ns # <<>> => x \in FrameOf(LinesOf(1)))
  BY AmpLines
<1>3. \A i \in 1..Len(u) : u[i] # Marker
  <2> DEFINE T == Token \ {Marker}
  <2>1. NL \in T /\ \A n \in Int : Amp(n) \in T
    BY TokenFacts, AmpIs, Zenon DEF Word
  <2>2. \A n \in Int : <<Amp(n), NL>> \in Seq(T)
    BY <2>1
  <2>3. AmpText \in [Int -> Seq(T)]
    BY <2>2 DEF AmpText
  <2> HIDE DEF T
  <2> DEFINE m == Map(AmpText, ns)
  <2>4. m \in Seq(Seq(T))
    BY <2>3, MapType
  <2> HIDE DEF m
  <2>5. FlattenSeq(m) \in Seq(T)
    BY <2>4, FlattenType
  <2>6. u \in Seq(T)
    BY <2>5 DEF LoudText, m
  <2> HIDE DEF u
  <2>7. \A i \in 1..Len(u) : u[i] \in T
    BY <2>6
  <2> QED
    BY <2>7, Zenon DEF T
<1> HIDE DEF u, x
<1>4. SplitAudio(u).video = u /\ ~EndsAtMarker(u)
  BY <1>1, <1>3, SplitNone
<1>5. Full(Fold(AddRowStep, NoImage, x))
  <2>1. 1 \in Nat \ {0}
    OBVIOUS
  <2> QED
    BY <2>1, <1>2, RowsFull
<1>6. textToPixel(u) = Fold(AddRowStep, NoImage, x)
  <2>1. textToPixel(u) = Fold(AddRowStep, NoImage, Lines(u))
    BY DEF textToPixel, AddRowStep
  <2> QED
    BY <2>1, <1>1
<1>7. Full(VideoImage(SplitFrames(u)))
  <2>1. CASE ns = <<>>
    <3>1. x = <<>>
      BY <2>1, MapEmpty DEF x
    <3>2. Fold(AddToFrame, NoFrame, <<>>) = NoFrame
      BY FoldEmpty
    <3>3. SplitFrames(u) = <<>>
      BY <3>1, <3>2, <1>1, NoFrameType, Zenon DEF SplitFrames, WithFrame
    <3>4. VideoImage(<<>>) = NoImage
      <4>1. [i \in 1..Len(<<>>) |-> textToPixel(<<>>[i])] = <<>>
        OBVIOUS
      <4> QED
        BY <4>1 DEF VideoImage
    <3> QED
      BY <3>3, <3>4, NoImageFull, Zenon
  <2>2. CASE ns # <<>>
    <3>1. x \in Frame
      BY <1>2, <2>2, FrameOfType
    <3> DEFINE t == Join(x, Newline)
    <3>2. /\ Fold(AddToFrame, NoFrame, x) = [frames |-> <<>>, current |-> t]
          /\ t # <<>>
      <4>1. /\ Fold(AddToFrame, NoFrame, x) = [frames |-> NoFrame.frames, current |-> Join(x, Newline)]
            /\ Join(x, Newline) # <<>>
        BY <3>1, NoFrameType, FrameRun
      <4> QED
        BY <4>1, NoFrameType, Zenon
    <3>3. FrameText[x] = t
      BY <3>1, FrameTextType, Zenon
    <3> HIDE DEF t
    <3>4. [frames |-> <<>>, current |-> t].current = t /\ [frames |-> <<>>, current |-> t].frames = <<>> /\ Append(<<>>, t) = <<t>>
      OBVIOUS
    <3>5. SplitFrames(u) = <<t>>
      BY <3>2, <3>4, <1>1, Zenon DEF SplitFrames, WithFrame
    <3>6. textToPixel(t) = Fold(AddRowStep, NoImage, x)
      BY <3>1, <3>3, FrameRead, Zenon
    <3>7. textToPixel(t) \in ImageData
      BY <3>6, <1>5, Zenon DEF Full
    <3>8. VideoImage(<<t>>) = textToPixel(t)
      BY <3>7, VideoOne
    <3> QED
      BY <3>5, <3>6, <3>8, <1>5, Zenon
  <2> QED
    BY <2>1, <2>2
<1> QED
  BY <1>4, <1>5, <1>6, <1>7, Zenon DEF u

\* The lines of a reel have as many words as a row has pixels, or none.
LEMMA ReelLines ==
  ASSUME NEW w \in Nat \ {0}, NEW h \in Nat \ {0}, NEW F \in Seq(Shots(w, h))
  PROVE  /\ AllLines(Reel(F, w, h)) \in Seq(LinesOf(w))
         /\ Lines(Reel(F, w, h)) \in Seq(LinesOf(w))
<1> DEFINE J == Reel(F, w, h)
           L == LinesOf(w)
           fr == ShotRows(F, w, h)
<1>1. <<>> \in L
  BY TextSums, Zenon DEF LinesOf
<1>2. CASE F # <<>>
  <2>1. FramesRead(L, J, fr)
    BY <1>2, ReelSplits
  <2> HIDE DEF J, L, fr
  <2>2. Lines(J) = AllLines(J)
    BY <2>1, LinesRead
  <2>3. AllLines(J) \in Seq(L)
    BY <2>1, Zenon DEF FramesRead
  <2> QED
    BY <2>2, <2>3, Zenon DEF J, L
<1>3. CASE F = <<>>
  <2>1. J = <<>>
    <3>1. ShotTexts(F, w, h) = <<>>
      BY <1>3 DEF ShotTexts
    <3> QED
      BY <3>1, JoinEmpty DEF Reel
  <2> HIDE DEF J, L
  <2>2. Fold(AddToLine, NoLine, <<>>) = NoLine
    BY FoldEmpty
  <2>3. NoLine.done = <<>> /\ NoLine.line = <<>>
    BY NoFrameType
  <2>4. AllLines(<<>>) = Append(<<>>, <<>>) /\ Lines(<<>>) = <<>>
    BY <2>2, <2>3, Zenon DEF AllLines, Lines
  <2>5. Append(<<>>, <<>>) \in Seq(L) /\ <<>> \in Seq(L)
    BY <1>1
  <2> QED
    BY <2>1, <2>4, <2>5, Zenon DEF J, L
<1> QED
  BY <1>2, <1>3

\* A newline and the marker after it end two lines.
LEMMA BetweenReads ==
  ASSUME NEW J \in Text
  PROVE  Fold(AddToLine, NoLine, J \o Between).done = Append(AllLines(J), <<Marker>>)
<1> DEFINE end == Fold(AddToLine, NoLine, J)
           D == AllLines(J)
           s1 == [done |-> D, line |-> <<>>]
           s2 == [done |-> D, line |-> <<Marker>>]
           mk == <<Marker>>
<1>1. end \in LineState
  BY NoFrameType, TextSums, LineFold, Zenon
<1>2. D = Append(end.done, end.line)
  BY DEF AllLines
<1>3. D \in Seq(Text)
  <2>1. end.done \in Seq(Text) /\ end.line \in Text
    BY <1>1 DEF LineState
  <2> QED
    BY <1>2, <2>1, LineSums, Zenon
<1>4. mk \in Text /\ mk \in Seq(Inner)
  <2>1. Marker \in Inner /\ Marker \in Token
    BY TokenFacts, Zenon DEF Word, Inner
  <2> QED
    BY <2>1 DEF Text
<1>5. Fold(AddToLine, end, Newline) = s1
  BY <1>1, <1>2, NewlineEnds
<1> HIDE DEF D, end
<1>6. s1 \in LineState /\ s1.done = D /\ s1.line = <<>>
  BY <1>3, TextSums DEF LineState
<1> HIDE DEF s1, mk
<1>7. Fold(AddToLine, s1, mk) = [done |-> D, line |-> mk]
  <2>1. Fold(AddToLine, s1, mk) = [done |-> s1.done, line |-> s1.line \o mk]
    BY <1>4, <1>6, LineRun
  <2>2. <<>> \o mk = mk
    BY <1>4, TextSums, Zenon
  <2> QED
    BY <2>1, <2>2, <1>6, Zenon
<1>8. s2 \in LineState /\ s2.done = D /\ s2.line = mk
  BY <1>3, <1>4 DEF LineState, mk
<1>9. Fold(AddToLine, s1, mk) = s2
  BY <1>7 DEF mk
<1> HIDE DEF s2
<1>10. Fold(AddToLine, s2, Newline) = [done |-> Append(D, mk), line |-> <<>>]
  <2>1. Fold(AddToLine, s2, Newline) = [done |-> Append(s2.done, s2.line), line |-> <<>>]
    BY <1>8, NewlineEnds
  <2> QED
    BY <2>1, <1>8, Zenon
<1> DEFINE a == J \o Newline
           b == a \o mk
<1>11. a \in Text /\ b \in Text /\ Newline \in Text
  <2>1. Newline \in Text
    BY Separators
  <2>2. a \in Text
    BY <2>1, TextSums, Zenon
  <2> HIDE DEF a
  <2> QED
    BY <1>4, <2>1, <2>2, TextSums, Zenon
<1>12. J \o Between = b \o Newline
  <2>1. Between = Newline \o (mk \o Newline)
    BY DEF Between, Newline, mk
  <2>2. mk \o Newline \in Text
    BY <1>4, <1>11, TextSums, Zenon
  <2> DEFINE z == mk \o Newline
  <2>3. J \o (Newline \o z) = (J \o Newline) \o z
    <3>1. z \in Text
      BY <2>2
    <3> HIDE DEF z
    <3> QED
      BY <3>1, <1>11, TextSums, Zenon
  <2>4. a \o (mk \o Newline) = (a \o mk) \o Newline
    <3>1. a \in Text
      BY <1>11
    <3> HIDE DEF a
    <3> QED
      BY <3>1, <1>4, <1>11, TextSums, Zenon
  <2> QED
    BY <2>1, <2>3, <2>4, Zenon
<1>13. Fold(AddToLine, NoLine, a) = s1
  BY <1>5, <1>11, NoFrameType, LineFold, Zenon DEF end
<1> HIDE DEF a
<1>14. Fold(AddToLine, NoLine, b) = s2
  <2>1. Fold(AddToLine, NoLine, a \o mk) = Fold(AddToLine, Fold(AddToLine, NoLine, a), mk)
    BY <1>4, <1>11, NoFrameType, LineFold, Zenon
  <2> QED
    BY <2>1, <1>9, <1>13, Zenon
<1> HIDE DEF b
<1>15. Fold(AddToLine, NoLine, b \o Newline) = [done |-> Append(D, mk), line |-> <<>>]
  <2>1. Fold(AddToLine, NoLine, b \o Newline) = Fold(AddToLine, Fold(AddToLine, NoLine, b), Newline)
    BY <1>11, NoFrameType, LineFold, Zenon
  <2> QED
    BY <2>1, <1>10, <1>14, Zenon
<1>16. \A x : [done |-> x, line |-> <<>>].done = x
  OBVIOUS
<1> QED
  BY <1>12, <1>15, <1>16, Zenon DEF D, mk

\* decryptImage on the text of a video: rows are full if the rows have one
\* pixel, as the lines of the sound have one word, or if there is no sound.
LEMMA FilmFull ==
  ASSUME NEW w \in Nat \ {0}, NEW h \in Nat \ {0}, NEW F \in Seq(Shots(w, h)), NEW ns \in Seq(Int),
         ns = <<>> \/ w = 1
  PROVE  Full(textToPixel(Film(F, w, h, ns)))
<1> DEFINE J == Reel(F, w, h)
           t == Film(F, w, h, ns)
           L == LinesOf(w)
<1>0. w \in Nat /\ h \in Nat
  OBVIOUS
<1>1. textToPixel(t) = Fold(AddRowStep, NoImage, Lines(t))
  BY DEF textToPixel, AddRowStep
<1>2. J \in Text /\ (ns = <<>> => t = J)
  BY <1>0, FilmIs
<1>3. ns # <<>> => Lines(t) = Fold(AddToLine, NoLine, J \o Between).done \o Map(AmpLine, ns)
  BY <1>0, FilmSounds
<1>4. AllLines(J) \in Seq(L) /\ Lines(J) \in Seq(L)
  BY ReelLines
<1> HIDE DEF J, t
<1>5. Lines(t) \in Seq(L)
  <2>1. CASE ns = <<>>
    BY <2>1, <1>2, <1>4, Zenon
  <2>2. CASE ns # <<>>
    <3>1. w = 1
      BY <2>2
    <3> DEFINE m == Map(AmpLine, ns)
               D == AllLines(J)
               mk == <<Marker>>
               all == Append(D, mk) \o m
    <3>2. m \in Seq(L)
      BY <3>1, AmpLines
    <3>3. mk \in L
      BY <3>1, OneWord, TokenFacts, Zenon
    <3>4. D \in Seq(L)
      BY <1>4
    <3>5. Lines(t) = all
      BY <2>2, <1>2, <1>3, BetweenReads, Zenon
    <3> HIDE DEF m, D, mk, L
    <3>6. Append(D, mk) \in Seq(L)
      BY <3>3, <3>4
    <3> DEFINE x == Append(D, mk)
    <3>7. x \in Seq(L)
      BY <3>6
    <3> HIDE DEF x
    <3>8. x \o m \in Seq(L)
      BY <3>7, <3>2
    <3> QED
      BY <3>5, <3>8 DEF x
  <2> QED
    BY <2>1, <2>2
<1> DEFINE ls == Lines(t)
<1>6. ls \in Seq(LinesOf(w))
  BY <1>5
<1> HIDE DEF ls
<1>7. Full(Fold(AddRowStep, NoImage, ls))
  BY <1>6, RowsFull
<1> QED
  BY <1>1, <1>7 DEF ls, t

\* All frames together have at least the pixels of one.
LEMMA FramesEnough ==
  ASSUME NEW w \in Nat, NEW h \in Nat
  PROVE  \A F \in Seq(Shots(w, h)) : /\ FlattenSeq(F) \in Seq(Color)
                                     /\ F # <<>> => Len(FlattenSeq(F)) >= w * h
<1> DEFINE T == Shots(w, h)
           k == w * h
           H == {F \in Seq(T) : F # <<>> => Len(FlattenSeq(F)) >= k}
<1>0. T \subseteq Seq(Color) /\ k \in Nat
  BY DEF Shots
<1>1. \A F \in Seq(T) : F \in Seq(Seq(Color))
  <2>1. T \subseteq Seq(Color)
    BY <1>0
  <2> HIDE DEF T
  <2> QED
    BY <2>1, SeqMono
<1>2. \A F \in Seq(T) : FlattenSeq(F) \in Seq(Color)
  BY <1>1, FlattenType
<1>3. <<>> \in H
  OBVIOUS
<1>4. ASSUME NEW s \in Seq(T), NEW x \in T, s \in H PROVE Append(s, x) \in H
  <2> DEFINE f == FlattenSeq(s)
  <2>1. f \in Seq(Color)
    BY <1>2
  <2>2. x \in Seq(Color) /\ Len(x) = k
    BY Zenon DEF Shots
  <2>3. FlattenSeq(Append(s, x)) = f \o x
    <3>1. s \in Seq(Seq(Color))
      BY <1>1
    <3>2. x \in Seq(Color)
      BY <2>2
    <3> QED
      BY <3>1, <3>2, FlattenAppend
  <2> HIDE DEF f
  <2>4. Len(f \o x) = Len(f) + Len(x) /\ Len(f) \in Nat
    <3>1. x \in Seq(Color)
      BY <2>2
    <3> QED
      BY <2>1, <3>1
  <2> HIDE DEF k
  <2>5. Len(f \o x) >= k
    BY <2>2, <2>4, <1>0
  <2>6. Append(s, x) \in Seq(T)
    OBVIOUS
  <2> QED
    BY <2>3, <2>5, <2>6, Zenon
<1>5. Seq(T) \subseteq H
  <2> HIDE DEF T, H
  <2> QED
    BY <1>3, <1>4, SeqInduction
<1> QED
  BY <1>2, <1>5

\* decryptVideo on the text of a video has all pixels.
LEMMA FilmVideoFull ==
  ASSUME NEW w \in Nat \ {0}, NEW h \in Nat \ {0}, NEW F \in Seq(Shots(w, h)), NEW ns \in Seq(Int)
  PROVE  Full(VideoImage(SplitFrames(SplitAudio(Film(F, w, h, ns)).video)))
<1>1. SplitFrames(SplitAudio(Film(F, w, h, ns)).video) = ShotTexts(F, w, h)
  BY FilmSplits
<1>2. CASE F = <<>>
  BY <1>1, <1>2, VideoIs, NoImageFull
<1>3. CASE F # <<>>
  <2> DEFINE f == FlattenSeq(F)
             p == Map(Recolour, f)
             im == [width |-> w, height |-> h, pixels |-> p]
  <2>1. VideoImage(ShotTexts(F, w, h)) = im
    BY <1>3, VideoIs
  <2>2. f \in Seq(Color) /\ Len(f) >= w * h
    <3>1. w \in Nat /\ h \in Nat
      OBVIOUS
    <3> QED
      BY <3>1, <1>3, FramesEnough
  <2> HIDE DEF f
  <2>3. p \in Seq(Color) /\ Len(p) = Len(f)
    <3>1. f \in Seq(Color) /\ Recolour \in [Color -> Color]
      BY <2>2, DecodeType
    <3> QED
      BY <3>1, MapType, MapLen
  <2> HIDE DEF p
  <2>4. im \in ImageData /\ im.pixels = p /\ im.width = w /\ im.height = h
    BY <2>3 DEF ImageData
  <2> HIDE DEF im
  <2>5. Len(im.pixels) >= im.width * im.height
    BY <2>2, <2>3, <2>4, Zenon
  <2> QED
    BY <1>1, <2>1, <2>4, <2>5, Zenon DEF Full
<1> QED
  BY <1>2, <1>3

-----------------------------------------------------------------------------
(***************************************************************************)
(* The letters of pixels.                                                  *)
(***************************************************************************)
Hue == Seq(Letter)
Tint == [c \in Color |-> LettersOf(CodeOf(c))]
HuesIn == [c \in Token |-> IF c \in {SP, NL} THEN <<>> ELSE <<LettersOf(c.chars)>>]

LEMMA LettersType ==
  ASSUME NEW T, NEW code \in Seq(T)
  PROVE  LettersOf(code) \in Hue
<1> DEFINE one(i) == IF code[i] \in Letter THEN <<code[i]>> ELSE <<>>
           ones == [i \in 1..Len(code) |-> one(i)]
<1>1. Len(code) \in Nat
  OBVIOUS
<1>2. \A x : (IF x \in Letter THEN <<x>> ELSE <<>>) \in Seq(Letter)
  OBVIOUS
<1>3. ones \in [1..Len(code) -> Seq(Letter)]
  BY <1>2, Zenon
<1>4. LettersOf(code) = FlattenSeq(ones)
  BY Zenon DEF LettersOf
<1> HIDE DEF ones
<1>5. ones \in Seq(Seq(Letter))
  BY <1>1, <1>3, FunctionIsSeq
<1> QED
  BY <1>4, <1>5, FlattenType DEF Hue

LEMMA ShortSeqs ==
  \A x, y, z : /\ Append(<<x>>, y) = <<x, y>> /\ Append(<<x, y>>, z) = <<x, y, z>>
               /\ <<x>> \o <<y>> = <<x, y>> /\ <<x, y>> \o <<z>> = <<x, y, z>>
               /\ <<x, y, z>> \o <<>> = <<x, y, z>>
<1> TAKE x, y, z
<1> DEFINE S == {x, y, z}
           a == <<x, y>>
           b == <<x, y, z>>
<1>1. x \in S /\ y \in S /\ z \in S
  OBVIOUS
<1> HIDE DEF S
<1>2. a = Append(<<x>>, y) /\ b = Append(a, z)
  BY <1>1
<1>3. a = <<x>> \o <<y>>
  <2>1. \A s \in Seq(S), e \in S : Append(s, e) = s \o <<e>>
    BY AppendIsConcat
  <2>2. <<x>> \in Seq(S)
    BY <1>1
  <2> QED
    BY <1>1, <1>2, <2>1, <2>2, Zenon
<1>4. b = a \o <<z>>
  BY <1>1
<1>5. b = b \o <<>>
  BY <1>1
<1> QED
  BY <1>2, <1>3, <1>4, <1>5

LEMMA NothingAdded == <<"R", "G", "B">> \o <<>> = <<"R", "G", "B">>
BY ShortSeqs

\* Of the letters of codes, the modifiers go.
LEMMA LettersThere ==
  /\ \A l \in Letter : LettersOf(<<l, "L">>) = <<l>> /\ LettersOf(<<l>>) = <<l>>
  /\ LettersOf(<<"R", "G", "B", "D">>) = <<"R", "G", "B">>
  /\ LettersOf(<<"R", "G", "B">>) = <<"R", "G", "B">>
<1>0. "L" \notin Letter /\ "D" \notin Letter /\ "R" \in Letter /\ "G" \in Letter /\ "B" \in Letter
  BY DEF Letter
<1>1. \A ss \in Seq(Hue), s \in Hue : FlattenSeq(Append(ss, s)) = FlattenSeq(ss) \o s
  BY FlattenAppend DEF Hue
<1>2. \A s \in Hue : FlattenSeq(<<s>>) = s
  BY FlattenOne DEF Hue
<1>3. ASSUME NEW l \in Letter
      PROVE  LettersOf(<<l, "L">>) = <<l>> /\ LettersOf(<<l>>) = <<l>>
  <2> DEFINE a == <<l>>
             e == <<>>
  <2>1. a \in Hue /\ e \in Hue /\ <<a>> \in Seq(Hue) /\ a \o e = a
    BY DEF Hue
  <2>2. [i \in 1..Len(<<l>>) |-> IF <<l>>[i] \in Letter THEN <<<<l>>[i]>> ELSE <<>>] = <<a>>
    OBVIOUS
  <2>3. [i \in 1..Len(<<l, "L">>) |-> IF <<l, "L">>[i] \in Letter THEN <<<<l, "L">>[i]>> ELSE <<>>] = Append(<<a>>, e)
    BY <1>0
  <2>4. LettersOf(<<l>>) = FlattenSeq(<<a>>) /\ LettersOf(<<l, "L">>) = FlattenSeq(Append(<<a>>, e))
    BY <2>2, <2>3 DEF LettersOf
  <2>5. FlattenSeq(<<a>>) = a /\ FlattenSeq(Append(<<a>>, e)) = FlattenSeq(<<a>>) \o e
    BY <2>1, <1>1, <1>2, Zenon
  <2> QED
    BY <2>1, <2>4, <2>5, Zenon
<1>4. /\ LettersOf(<<"R", "G", "B", "D">>) = <<"R", "G", "B">>
      /\ LettersOf(<<"R", "G", "B">>) = <<"R", "G", "B">>
  <2> DEFINE r == <<"R">>
             g == <<"G">>
             b == <<"B">>
             rg == <<r, g>>
             rgb == <<r, g, b>>
             e == <<>>
  <2>1. /\ r \in Hue /\ g \in Hue /\ b \in Hue /\ e \in Hue
        /\ <<r>> \in Seq(Hue) /\ rg \in Seq(Hue) /\ rgb \in Seq(Hue)
    BY <1>0 DEF Hue
  <2>2. /\ Append(<<r>>, g) = rg /\ Append(rg, b) = rgb
        /\ (r \o g) \o b = <<"R", "G", "B">> /\ ((r \o g) \o b) \o e = <<"R", "G", "B">>
    <3>5. Append(<<r>>, g) = rg /\ Append(rg, b) = rgb
      BY ShortSeqs, Zenon
    <3>6. r \o g = <<"R", "G">> /\ <<"R", "G">> \o b = <<"R", "G", "B">>
      BY ShortSeqs, Zenon
    <3>7. <<"R", "G", "B">> \o e = <<"R", "G", "B">>
      BY NothingAdded, Zenon
    <3> QED
      BY <3>5, <3>6, <3>7, Zenon
  <2>3. [i \in 1..Len(<<"R", "G", "B">>) |-> IF <<"R", "G", "B">>[i] \in Letter THEN <<<<"R", "G", "B">>[i]>> ELSE <<>>] = rgb
    BY <1>0
  <2>4. [i \in 1..Len(<<"R", "G", "B", "D">>) |-> IF <<"R", "G", "B", "D">>[i] \in Letter THEN <<<<"R", "G", "B", "D">>[i]>> ELSE <<>>] = Append(rgb, e)
    BY <1>0
  <2>5. LettersOf(<<"R", "G", "B">>) = FlattenSeq(rgb) /\ LettersOf(<<"R", "G", "B", "D">>) = FlattenSeq(Append(rgb, e))
    BY <2>3, <2>4 DEF LettersOf
  <2>6. FlattenSeq(<<r>>) = r
    BY <2>1, <1>2, Zenon
  <2>7. FlattenSeq(rg) = r \o g
    BY <2>1, <2>2, <2>6, <1>1, Zenon
  <2>8. FlattenSeq(rgb) = (r \o g) \o b
    BY <2>1, <2>2, <2>7, <1>1, Zenon
  <2>9. FlattenSeq(Append(rgb, e)) = ((r \o g) \o b) \o e
    BY <2>1, <2>8, <1>1, Zenon
  <2> QED
    BY <2>2, <2>5, <2>8, <2>9, Zenon
<1> QED
  BY <1>3, <1>4

\* The letters of a pixel survive the colour code.
LEMMA TintStays ==
  /\ Tint \in [Color -> Hue]
  /\ \A c \in Color : Tint[c] = LettersOf(CodeOf(c)) /\ Tint[Recolour[c]] = Tint[c]
<1>1. \A c \in Color : LettersOf(CodeOf(c)) \in Hue
  <2> SUFFICES ASSUME NEW c \in Color PROVE LettersOf(CodeOf(c)) \in Hue
    OBVIOUS
  <2> DEFINE s == CodeOf(c)
  <2>1. s \in Seq(Sign)
    BY CodeSigns
  <2> HIDE DEF s
  <2>2. LettersOf(s) \in Hue
    BY <2>1, LettersType
  <2> QED
    BY <2>2 DEF s
<1>2. Tint \in [Color -> Hue] /\ \A c \in Color : Tint[c] = LettersOf(CodeOf(c))
  BY <1>1, Zenon DEF Tint
<1>3. ASSUME NEW c \in Color, NEW l \in Letter, Near(c, l)
      PROVE  Tint[c] = <<l>>
  <2>1. CodeOf(c) \in {<<l, "L">>, <<l>>}
    BY <1>3, CodeOfLetter
  <2>2. CodeOf(c) = <<l, "L">> \/ CodeOf(c) = <<l>>
    BY <2>1, Zenon
  <2> QED
    BY <1>2, <2>2, LettersThere, Zenon
<1>4. ASSUME NEW c \in Color, \A l \in Letter : ~Near(c, l)
      PROVE  Tint[c] = <<"R", "G", "B">>
  <2>1. CodeOf(c) = IF Dark(c) THEN <<"R", "G", "B", "D">> ELSE <<"R", "G", "B">>
    BY <1>4, Zenon DEF CodeOf
  <2>2. CodeOf(c) = <<"R", "G", "B", "D">> \/ CodeOf(c) = <<"R", "G", "B">>
    BY <2>1, Zenon
  <2> QED
    BY <1>2, <2>2, LettersThere, Zenon
<1>5. ASSUME NEW c \in Color PROVE Tint[Recolour[c]] = Tint[c]
  <2>1. PICK o \in Orders : TRUE
    <3> DEFINE o == [i \in 1..3 |-> IF i = 1 THEN "R" ELSE IF i = 2 THEN "G" ELSE "B"]
    <3>1. o \in Orders
      BY DEF Orders, Letter
    <3> QED
      BY <3>1, Zenon
  <2>2. Recolour[c] = Trip(c, o)
    <3>1. rgbToCode(c, o) = CodeOf(c)
      BY CodeIsCodeOf
    <3>2. Recolour[c] = codeToRGB(CodeOf(c))
      BY DEF Recolour
    <3> QED
      BY <3>1, <3>2 DEF Trip
  <2>3. ASSUME NEW l \in Letter, Near(c, l), Trip(c, o) = BASE_COLORS[l]
        PROVE  Tint[Recolour[c]] = Tint[c]
    <3>1. Recolour[c] \in Color /\ Near(Recolour[c], l)
      BY <2>2, <2>3, BaseIsNear
    <3>2. Tint[c] = <<l>>
      BY <2>3, <1>3
    <3>3. Tint[Recolour[c]] = <<l>>
      BY <3>1, <1>3
    <3> QED
      BY <3>2, <3>3
  <2>4. ASSUME \A l \in Letter : ~Near(c, l), Trip(c, o) = RGB(85, 85, IF Dark(c) THEN 42 ELSE 85)
        PROVE  Tint[Recolour[c]] = Tint[c]
    <3>1. PICK v \in {42, 85} : v = (IF Dark(c) THEN 42 ELSE 85)
      OBVIOUS
    <3>2. Recolour[c] = RGB(85, 85, v)
      BY <2>2, <2>4, <3>1
    <3>3. Recolour[c] \in Color /\ \A l \in Letter : ~Near(Recolour[c], l)
      BY <3>2, GreyIsFar
    <3>4. Tint[c] = <<"R", "G", "B">>
      BY <2>4, <1>4
    <3>5. Tint[Recolour[c]] = <<"R", "G", "B">>
      BY <3>3, <1>4
    <3> QED
      BY <3>4, <3>5
  <2> QED
    BY <2>3, <2>4, TripEnds, Zenon
<1> QED
  BY <1>2, <1>5, Zenon

\* The hues of a text, one token after the other.
LEMMA HuesGrow ==
  /\ Hues(<<>>) = <<>>
  /\ \A t \in Text : Hues(t) \in Seq(Hue)
  /\ \A t \in Text, c \in Token : /\ HuesIn[c] \in Seq(Hue)
                                  /\ Hues(Append(t, c)) = Hues(t) \o HuesIn[c]
<1>0. HuesIn \in [Token -> Seq(Hue)]
  <2>1. \A c \in Token : LettersOf(c.chars) \in Hue
    <3> SUFFICES ASSUME NEW c \in Token PROVE LettersOf(c.chars) \in Hue
      OBVIOUS
    <3> DEFINE s == c.chars
    <3>1. s \in Seq(Char)
      BY DEF Token
    <3> HIDE DEF s
    <3>2. LettersOf(s) \in Hue
      BY <3>1, LettersType
    <3> QED
      BY <3>2 DEF s
  <2>2. \A x \in Hue : <<x>> \in Seq(Hue)
    OBVIOUS
  <2>3. <<>> \in Seq(Hue)
    OBVIOUS
  <2> QED
    BY <2>1, <2>2, <2>3, Zenon DEF HuesIn
<1>1. \A t \in Text : Hues(t) = FlattenSeq(Map(HuesIn, t))
  <2> SUFFICES ASSUME NEW t \in Text PROVE Hues(t) = FlattenSeq(Map(HuesIn, t))
    OBVIOUS
  <2>1. \A i \in 1..Len(t) : t[i] \in Token
    BY DEF Text
  <2>2. \A i \in 1..Len(t) : HuesIn[t[i]] = IF t[i] \in {SP, NL} THEN <<>> ELSE <<LettersOf(t[i].chars)>>
    BY <2>1, Zenon DEF HuesIn
  <2>3. [i \in 1..Len(t) |-> HuesIn[t[i]]] =
        [i \in 1..Len(t) |-> IF t[i] \in {SP, NL} THEN <<>> ELSE <<LettersOf(t[i].chars)>>]
    BY <2>2, Zenon
  <2> QED
    BY <2>3, Zenon DEF Hues, Map
<1>2. Hues(<<>>) = <<>>
  <2>1. Map(HuesIn, <<>>) = <<>>
    BY MapEmpty
  <2> QED
    BY <1>1, <2>1, TextSums, FlattenEmpty, Zenon
<1>3. ASSUME NEW t \in Text, NEW c \in Token
      PROVE  /\ Hues(t) \in Seq(Hue) /\ HuesIn[c] \in Seq(Hue)
             /\ Hues(Append(t, c)) = Hues(t) \o HuesIn[c]
  <2> DEFINE f == HuesIn
             T == Token
             S == Seq(Hue)
             m == Map(f, t)
             x == f[c]
  <2> HIDE DEF f, T, S
  <2>1. f \in [T -> S] /\ t \in Seq(T) /\ c \in T
    BY <1>0, Zenon DEF f, T, S, Text
  <2>2. Map(f, Append(t, c)) = Append(m, x)
    BY <2>1, MapAppend
  <2>3. m \in Seq(S)
    BY <2>1, MapType
  <2>4. x \in S
    BY <2>1
  <2> HIDE DEF m, x
  <2>5. m \in Seq(Seq(Hue)) /\ x \in Seq(Hue)
    BY <2>3, <2>4 DEF S
  <2>6. FlattenSeq(m) \in Seq(Hue)
    BY <2>5, FlattenType
  <2>7. FlattenSeq(Append(m, x)) = FlattenSeq(m) \o x
    BY <2>5, FlattenAppend
  <2>8. Append(t, c) \in Text
    BY TextSums, Zenon
  <2>9. Hues(t) = FlattenSeq(m) /\ Hues(Append(t, c)) = FlattenSeq(Append(m, x))
    BY <1>1, <2>2, <2>8, Zenon DEF m, f
  <2> QED
    BY <2>5, <2>6, <2>7, <2>9, Zenon DEF x, f
<1> QED
  BY <1>2, <1>3, TokenFacts, Zenon

LEMMA HuesConcat ==
  \A t, u \in Text : Hues(t \o u) = Hues(t) \o Hues(u)
<1> SUFFICES ASSUME NEW t \in Text
             PROVE  \A u \in Text : Hues(t \o u) = Hues(t) \o Hues(u)
  OBVIOUS
<1> DEFINE H == {u \in Text : Hues(t \o u) = Hues(t) \o Hues(u)}
<1>0. Hues(t) \in Seq(Hue)
  BY HuesGrow, Zenon
<1>1. <<>> \in H
  <2>1. \A a \in Seq(Hue) : a \o <<>> = a
    OBVIOUS
  <2>2. t \o <<>> = t /\ <<>> \in Text
    BY TextSums, Zenon
  <2> QED
    BY <1>0, <2>1, <2>2, HuesGrow, Zenon
<1>2. ASSUME NEW u \in Text, NEW c \in Token, u \in H
      PROVE  Append(u, c) \in H
  <2>1. t \o Append(u, c) = Append(t \o u, c) /\ t \o u \in Text /\ Append(u, c) \in Text
    BY TextSums, Zenon
  <2>2. Hues(Append(t \o u, c)) = Hues(t \o u) \o HuesIn[c]
    BY <2>1, HuesGrow, Zenon
  <2>3. Hues(Append(u, c)) = Hues(u) \o HuesIn[c]
    BY HuesGrow, Zenon
  <2>4. Hues(t \o u) = Hues(t) \o Hues(u)
    BY <1>2, Zenon
  <2>5. (Hues(t) \o Hues(u)) \o HuesIn[c] = Hues(t) \o (Hues(u) \o HuesIn[c])
    <3>1. Hues(u) \in Seq(Hue) /\ HuesIn[c] \in Seq(Hue)
      BY HuesGrow, Zenon
    <3>2. \A x, y, z \in Seq(Hue) : (x \o y) \o z = x \o (y \o z)
      BY ConcatTwice
    <3> QED
      BY <1>0, <3>1, <3>2, Zenon
  <2> QED
    BY <2>1, <2>2, <2>3, <2>4, <2>5, Zenon
<1>3. Seq(Token) \subseteq H
  <2>1. \A u \in Seq(Token), c \in Token : u \in H => Append(u, c) \in H
    BY <1>2, Zenon DEF Text
  <2> HIDE DEF H
  <2> QED BY <1>1, <2>1, SeqInduction
<1> QED
  BY <1>3, Zenon DEF Text

LEMMA TintConcat ==
  \A p, q \in Seq(Color) : /\ Map(Tint, p \o q) = Map(Tint, p) \o Map(Tint, q)
                           /\ Map(Tint, p) \in Seq(Hue)
<1>1. Tint \in [Color -> Hue]
  BY TintStays
<1> DEFINE f == Tint
           T == Color
           S == Hue
<1> HIDE DEF f, T, S
<1>2. f \in [T -> S]
  BY <1>1 DEF f, T, S
<1>3. ASSUME NEW s \in Seq(T), NEW t \in Seq(T)
      PROVE  Map(f, s \o t) = Map(f, s) \o Map(f, t) /\ Map(f, s) \in Seq(S)
  <2> DEFINE H == {v \in Seq(T) : Map(f, s \o v) = Map(f, s) \o Map(f, v)}
             m == Map(f, s)
  <2>0. m \in Seq(S)
    BY <1>2, MapType
  <2>1. <<>> \in H
    <3>1. <<>> \in Seq(T) /\ s \o <<>> = s /\ \A a \in Seq(S) : a \o <<>> = a
      OBVIOUS
    <3> QED
      BY <2>0, <3>1, MapEmpty
  <2>2. ASSUME NEW v \in Seq(T), NEW x \in T, v \in H
        PROVE  Append(v, x) \in H
    <3>1. s \o Append(v, x) = Append(s \o v, x) /\ s \o v \in Seq(T) /\ Append(v, x) \in Seq(T)
      OBVIOUS
    <3>2. \A w \in Seq(T) : Map(f, Append(w, x)) = Append(Map(f, w), f[x])
      BY <1>2, MapAppend
    <3>3. Map(f, s \o Append(v, x)) = Append(m \o Map(f, v), f[x])
      BY <2>2, <3>1, <3>2
    <3>4. Map(f, v) \in Seq(S) /\ f[x] \in S
      BY <1>2, MapType
    <3> HIDE DEF m
    <3>5. \A a \in Seq(S) : m \o Append(a, f[x]) = Append(m \o a, f[x])
      BY <2>0, <3>4, AppendConcat
    <3>6. Map(f, s \o Append(v, x)) = m \o Map(f, Append(v, x))
      BY <3>2, <3>3, <3>4, <3>5
    <3> QED
      BY <3>1, <3>6 DEF m
  <2>3. Seq(T) \subseteq H
    <3> HIDE DEF H
    <3> QED
      BY <2>1, <2>2, SeqInduction
  <2> QED
    BY <2>0, <2>3
<1> QED
  BY <1>3, Zenon DEF f, T, S

\* The hues of single tokens.
LEMMA HuesOfTokens ==
  /\ Hues(Newline) = <<>> /\ Hues(Space) = <<>>
  /\ \A c \in Color : Hues(<<CodeToken[c]>>) = <<Tint[c]>>
<1>1. \A c \in Token : Hues(<<c>>) = HuesIn[c]
  <2> SUFFICES ASSUME NEW c \in Token PROVE Hues(<<c>>) = HuesIn[c]
    OBVIOUS
  <2>1. Hues(Append(<<>>, c)) = Hues(<<>>) \o HuesIn[c] /\ HuesIn[c] \in Seq(Hue)
    BY TextSums, HuesGrow, Zenon
  <2>2. Append(<<>>, c) = <<c>> /\ \A x \in Seq(Hue) : <<>> \o x = x
    OBVIOUS
  <2> QED
    BY <2>1, <2>2, HuesGrow, Zenon
<1>2. HuesIn[SP] = <<>> /\ HuesIn[NL] = <<>>
  BY TokenFacts, Zenon DEF HuesIn
<1>3. ASSUME NEW c \in Color PROVE Hues(<<CodeToken[c]>>) = <<Tint[c]>>
  <2>1. CodeToken[c] \in Word /\ CodeToken[c].chars = CodeOf(c)
    BY CodeIsWord
  <2>2. CodeToken[c] \in Token /\ CodeToken[c] \notin {SP, NL}
    BY <2>1, Zenon DEF Word
  <2>3. HuesIn[CodeToken[c]] = <<LettersOf(CodeToken[c].chars)>>
    BY <2>2, Zenon DEF HuesIn
  <2> QED
    BY <1>1, <2>1, <2>2, <2>3, TintStays, Zenon
<1> QED
  BY <1>1, <1>2, <1>3, TokenFacts, Zenon DEF Newline, Space

\* The hues of a row of pixels, of rows, of an image.
LEMMA RowHues ==
  \A p \in Seq(Color) : Hues(RowText[p]) = Map(Tint, p) /\ RowText[p] \in Text
<1> DEFINE H == {p \in Seq(Color) : Hues(RowText[p]) = Map(Tint, p)}
<1>0. \A p \in Seq(Color) : RowText[p] \in Text
  BY RowTextType, InnerIsText, Zenon
<1>1. <<>> \in H
  <2>1. <<>> \in Seq(Color)
    OBVIOUS
  <2>2. Map(CodeToken, <<>>) = <<>> /\ Map(Tint, <<>>) = <<>>
    BY MapEmpty
  <2>3. RowText[<<>>] = RowOf(<<>>)
    BY <2>1, <2>2, RowTextType, Zenon
  <2>4. RowOf(<<>>) = <<>>
    BY TextSums, TokenFacts, RowGrows, Zenon
  <2> QED
    BY <2>1, <2>2, <2>3, <2>4, HuesGrow, Zenon
<1>2. ASSUME NEW p \in Seq(Color), NEW c \in Color, p \in H
      PROVE  Append(p, c) \in H
  <2> DEFINE ws == Map(CodeToken, p)
             k == CodeToken[c]
             one == <<k>>
             n == Map(Tint, p)
             d == Tint[c]
  <2>1. Append(p, c) \in Seq(Color)
    OBVIOUS
  <2>2. CodeToken \in [Color -> Word] /\ Tint \in [Color -> Hue]
    BY DecodeType, TintStays
  <2>3. Map(CodeToken, Append(p, c)) = Append(ws, k)
    BY <2>2, MapAppend
  <2>4. Map(Tint, Append(p, c)) = Append(n, d)
    BY <2>2, MapAppend
  <2>5. n \in Seq(Hue) /\ d \in Hue
    BY <2>2, MapType
  <2>6. ws \in Seq(Word) /\ RowText[p] = RowOf(ws)
    BY RowTextType, Zenon
  <2>7. ws \in Text /\ k \in Token
    <3>1. Word \subseteq Token
      BY DEF Word
    <3>2. Seq(Word) \subseteq Seq(Token)
      BY <3>1, SeqMono
    <3>3. k \in Word
      BY <2>2
    <3> QED
      BY <2>6, <3>1, <3>2, <3>3, Zenon DEF Text
  <2>8. RowText[Append(p, c)] = RowOf(Append(ws, k))
    BY <2>1, <2>3, RowTextType, Zenon
  <2>9. Hues(one) = <<d>> /\ one \in Text
    BY <2>7, HuesOfTokens, TextSums, Zenon
  <2>10. Hues(RowOf(ws)) = n
    BY <1>2, <2>6, Zenon
  <2>11. Len(ws) = Len(p) /\ Len(n) = Len(p)
    BY MapLen
  <2> HIDE DEF ws, k, n, d
  <2>12. RowOf(ws) \in Text
    BY <2>7, RowGrows, Zenon
  <2>13. Hues(RowOf(Append(ws, k))) = Append(n, d)
    <3>1. CASE ws = <<>>
      <4>1. RowOf(Append(ws, k)) = one
        BY <2>7, <3>1, RowGrows, Zenon
      <4>2. Len(n) = 0
        BY <2>11, <3>1
      <4>3. n = <<>>
        BY <2>5, <4>2
      <4>4. Append(<<>>, d) = <<d>>
        OBVIOUS
      <4> QED
        BY <4>1, <4>3, <4>4, <2>9, Zenon
    <3>2. CASE ws # <<>>
      <4>1. RowOf(Append(ws, k)) = RowOf(ws) \o (Space \o one)
        BY <2>7, <3>2, RowGrows, Zenon
      <4>2. Space \o one \in Text /\ Hues(Space \o one) = Hues(Space) \o Hues(one)
        BY <2>9, Separators, TextSums, HuesConcat, Zenon
      <4>3. Hues(RowOf(ws) \o (Space \o one)) = Hues(RowOf(ws)) \o Hues(Space \o one)
        BY <2>12, <4>2, HuesConcat, Zenon
      <4>4. n \o (<<>> \o <<d>>) = Append(n, d)
        BY <2>5
      <4> QED
        BY <4>1, <4>2, <4>3, <4>4, <2>9, <2>10, HuesOfTokens, Zenon
    <3> QED
      BY <3>1, <3>2
  <2> QED
    BY <2>1, <2>4, <2>8, <2>13, Zenon
<1>3. Seq(Color) \subseteq H
  <2> HIDE DEF H
  <2> QED BY <1>1, <1>2, SeqInduction
<1> QED
  BY <1>0, <1>3, Zenon

LEMMA RowsHues ==
  \A rows \in Seq(Seq(Color)) :
    Hues(Join(Map(RowText, rows), Newline)) = Map(Tint, FlattenSeq(rows))
<1> DEFINE T == Seq(Color)
           J(s) == Join(Map(RowText, s), Newline)
           H == {s \in Seq(T) : Hues(J(s)) = Map(Tint, FlattenSeq(s))}
<1>0. \A s \in Seq(T) : Map(RowText, s) \in Seq(Text) /\ FlattenSeq(s) \in Seq(Color) /\ Len(Map(RowText, s)) = Len(s)
  <2> SUFFICES ASSUME NEW s \in Seq(T)
               PROVE Map(RowText, s) \in Seq(Text) /\ FlattenSeq(s) \in Seq(Color) /\ Len(Map(RowText, s)) = Len(s)
    OBVIOUS
  <2>1. RowText \in [T -> Text]
    BY RowTextType, InnerIsText, Zenon
  <2>2. s \in Seq(T) /\ s \in Seq(Seq(Color))
    OBVIOUS
  <2>3. FlattenSeq(s) \in Seq(Color)
    BY <2>2, FlattenType
  <2> DEFINE f == RowText
             S == Text
  <2> HIDE DEF T, f, S
  <2>4. f \in [T -> S]
    BY <2>1 DEF f, S
  <2>5. Map(f, s) \in Seq(S)
    BY <2>4, MapType
  <2>6. Len(Map(f, s)) = Len(s)
    BY MapLen
  <2> QED
    BY <2>3, <2>5, <2>6 DEF f, S
<1>1. <<>> \in H
  <2>1. <<>> \in Seq(T)
    OBVIOUS
  <2>2. Map(RowText, <<>>) = <<>> /\ Map(Tint, <<>>) = <<>>
    BY MapEmpty
  <2>3. Join(<<>>, Newline) = <<>>
    BY JoinEmpty
  <2> QED
    BY <2>1, <2>2, <2>3, HuesGrow, FlattenEmpty, Zenon
<1>2. ASSUME NEW s \in Seq(T), NEW q \in T, s \in H
      PROVE  Append(s, q) \in H
  <2> DEFINE m == Map(RowText, s)
             u == RowText[q]
             f == FlattenSeq(s)
  <2>1. Append(s, q) \in Seq(T)
    OBVIOUS
  <2>2. Map(RowText, Append(s, q)) = Append(m, u)
    BY RowTextAppend, Zenon
  <2>3. FlattenSeq(Append(s, q)) = f \o q
    BY FlattenAppend
  <2>4. Map(Tint, f \o q) = Map(Tint, f) \o Map(Tint, q) /\ Map(Tint, q) \in Seq(Hue)
    BY <1>0, TintConcat, Zenon
  <2>5. m \in Seq(Text) /\ f \in Seq(Color) /\ Len(m) = Len(s)
    BY <1>0, Zenon
  <2>6. u \in Text /\ Hues(u) = Map(Tint, q)
    BY RowHues, Zenon
  <2>7. Hues(Join(m, Newline)) = Map(Tint, f)
    BY <1>2, Zenon
  <2>8. m = <<>> => f = <<>>
    <3>1. Len(<<>>) = 0
      OBVIOUS
    <3>2. m = <<>> => Len(s) = 0
      BY <2>5, <3>1, Zenon
    <3>3. Len(s) = 0 => s = <<>>
      OBVIOUS
    <3> QED
      BY <3>2, <3>3, FlattenEmpty, Zenon
  <2> HIDE DEF m, u, f
  <2>9. Hues(Join(Append(m, u), Newline)) = Map(Tint, f) \o Map(Tint, q)
    <3>1. CASE m = <<>>
      <4>1. Append(<<>>, u) = <<u>> /\ \A x \in Seq(Hue) : <<>> \o x = x
        OBVIOUS
      <4>2. Join(<<u>>, Newline) = u
        BY <2>6, Separators, JoinOne
      <4>3. Map(Tint, <<>>) = <<>>
        BY MapEmpty
      <4> QED
        BY <3>1, <4>1, <4>2, <4>3, <2>4, <2>6, <2>8, Zenon
    <3>2. CASE m # <<>>
      <4> DEFINE a == Join(m, Newline)
      <4>1. Join(Append(m, u), Newline) = a \o (Newline \o u)
        BY <2>5, <2>6, <3>2, Separators, JoinAppend
      <4>2. a \in Text
        <5>1. m \in Seq(Seq(Token)) /\ Newline \in Seq(Token)
          BY <2>5, Separators, Zenon DEF Text
        <5> QED
          BY <5>1, JoinOver DEF Text
      <4>3. Newline \o u \in Text /\ Hues(Newline \o u) = Hues(Newline) \o Hues(u)
        BY <2>6, Separators, TextSums, HuesConcat, Zenon
      <4>4. Hues(a \o (Newline \o u)) = Hues(a) \o Hues(Newline \o u)
        <5> HIDE DEF a
        <5> QED
          BY <4>2, <4>3, HuesConcat, Zenon
      <4>5. \A x \in Seq(Hue) : <<>> \o x = x
        OBVIOUS
      <4> QED
        BY <4>1, <4>3, <4>4, <4>5, <2>4, <2>6, <2>7, HuesOfTokens, Zenon
    <3> QED
      BY <3>1, <3>2
  <2>10. J(Append(s, q)) = Join(Append(m, u), Newline)
    BY <2>2, Zenon
  <2> QED
    BY <2>1, <2>3, <2>4, <2>9, <2>10, Zenon
<1>3. Seq(T) \subseteq H
  <2> HIDE DEF H, T
  <2> QED BY <1>1, <1>2, SeqInduction
<1> QED
  BY <1>3, Zenon

LEMMA PictureHues ==
  ASSUME NEW P \in Seq(Color), NEW w \in Nat, NEW h \in Nat, Len(P) = w * h
  PROVE  Hues(PixText(P, w, h)) = Map(Tint, P)
<1> DEFINE pcs == PiecesOf(P, w, h)
<1>1. pcs \in Seq(Seq(Color))
  BY PiecesOfType
<1>2. FlattenSeq(pcs) = P
  BY FlattenPieces
<1> HIDE DEF pcs
<1> QED
  BY <1>1, <1>2, RowsHues, Zenon DEF PixText, pcs

LEMMA HuesStay ==
  \A P \in Seq(Color) : Map(Tint, Map(Recolour, P)) = Map(Tint, P)
<1> SUFFICES ASSUME NEW P \in Seq(Color) PROVE Map(Tint, Map(Recolour, P)) = Map(Tint, P)
  OBVIOUS
<1> DEFINE n == Len(P)
           Q == Map(Recolour, P)
<1>1. Len(Q) = n
  BY MapLen
<1>2. \A i \in 1..n : P[i] \in Color
  OBVIOUS
<1>3. \A i \in 1..n : Q[i] = Recolour[P[i]]
  BY Zenon DEF Map
<1> HIDE DEF Q
<1>4. \A i \in 1..n : Tint[Q[i]] = Tint[P[i]]
  BY <1>2, <1>3, TintStays, Zenon
<1>5. [i \in 1..Len(Q) |-> Tint[Q[i]]] = [i \in 1..n |-> Tint[P[i]]]
  BY <1>1, <1>4, Zenon
<1> QED
  BY <1>5, Zenon DEF Map, Q

-----------------------------------------------------------------------------
(***************************************************************************)
(* Repeated encoding.                                                      *)
(***************************************************************************)
\* An amplitude after one more round.
LEMMA AmplitudeAgain ==
  ASSUME NEW n \in 0..100, NEW na
  PROVE  Amplitude(Sample(10 * n), na) = IF n \in RoundsDown THEN n - 1 ELSE n
<1> DEFINE s == Sample(10 * n)
<1>1. s.nan = FALSE /\ s.v = 10 * n
  BY DEF Sample
<1>2. Abs(10 * n) = 10 * n /\ (10 * n) \div 10 = n /\ ~(10 * n > 1000) /\ 10 * n <= 1000
  BY DEF Abs
<1> HIDE DEF s
<1>3. Amplitude(s, na) = LET m == Abs(s.v) \div 10 IN
                         CASE Abs(s.v) > 1000 -> 100
                           [] Abs(s.v) <= 1000 /\ Abs(s.v) = 10 * m /\ m \in RoundsDown -> m - 1
                           [] OTHER -> m
  BY <1>1 DEF Amplitude
<1>4. Abs(s.v) = 10 * n /\ Abs(s.v) \div 10 = n
  BY <1>1, <1>2
<1>5. Amplitude(s, na) = CASE 10 * n > 1000 -> 100
                           [] 10 * n <= 1000 /\ 10 * n = 10 * n /\ n \in RoundsDown -> n - 1
                           [] OTHER -> n
  BY <1>3, <1>4
<1>6. Amplitude(s, na) = IF n \in RoundsDown THEN n - 1 ELSE n
  BY <1>5, <1>2
<1> QED
  BY <1>6 DEF s

LEMMA AmplitudesFall ==
  ASSUME NEW n \in 0..100, NEW na
  PROVE  LET once(k) == Amplitude(Sample(10 * k), na)
         IN  /\ once(n) \in (n - 1)..n
             /\ once(once(n)) >= n - 2
             /\ once(once(once(n))) = once(once(n))
<1> DEFINE once(k) == Amplitude(Sample(10 * k), na)
<1>1. \A k \in 0..100 : once(k) = IF k \in RoundsDown THEN k - 1 ELSE k
  BY AmplitudeAgain
<1> HIDE DEF once
<1>2. once(n) = IF n \in RoundsDown THEN n - 1 ELSE n
  BY <1>1
<1>3. once(n) \in 0..100 /\ once(n) \in (n - 1)..n /\ (once(n) \in RoundsDown => once(n) = 57)
  BY <1>2 DEF RoundsDown
<1> DEFINE a == once(n)
<1>4. a \in 0..100 /\ a \in (n - 1)..n /\ (a \in RoundsDown => a = 57)
  BY <1>3
<1> HIDE DEF a
<1>5. once(a) = IF a \in RoundsDown THEN a - 1 ELSE a
  BY <1>1, <1>4
<1>6. once(a) \in 0..100 /\ once(a) >= n - 2 /\ once(a) \notin RoundsDown
  BY <1>4, <1>5 DEF RoundsDown
<1> DEFINE b == once(a)
<1>7. b \in 0..100 /\ b >= n - 2 /\ b \notin RoundsDown
  BY <1>6
<1> HIDE DEF b
<1>8. once(b) = b
  BY <1>1, <1>7
<1> QED
  BY <1>3, <1>7, <1>8 DEF once, a, b

\* So many steps of size \div r as there are, the last one started included.
LEMMA StepsBetween ==
  ASSUME NEW size \in Nat, NEW r \in Nat \ {0}, size >= r
  PROVE  LET q == size \div r IN (size + q - 1) \div q \in r..(2 * r - 1)
<1> DEFINE q == size \div r
           x == size + q - 1
           n == x \div q
<1>1. q \in Nat /\ q * r <= size /\ size < q * r + r
  BY Quotient
<1> HIDE DEF q
<1>2. q # 0
  BY <1>1
<1>3. x \in Nat /\ q \in Nat \ {0}
  BY <1>1, <1>2
<1>4. n \in Nat /\ n * q <= x /\ x < n * q + q
  <2> HIDE DEF x
  <2> QED
    BY <1>3, Quotient
<1> HIDE DEF n
<1>5. n >= r
  <2> SUFFICES ASSUME n <= r - 1 PROVE FALSE
    BY <1>4
  <2>1. (r - 1 - n) * q >= 0
    BY <1>4, <1>3
  <2>2. (r - 1 - n) * q = r * q - q - n * q
    BY <1>4, <1>3
  <2> QED
    BY <1>1, <1>3, <1>4, <2>1, <2>2
<1>6. n <= 2 * r - 1
  <2> SUFFICES ASSUME n >= 2 * r PROVE FALSE
    BY <1>4
  <2>1. (n - 2 * r) * q >= 0
    BY <1>4, <1>3
  <2>2. (n - 2 * r) * q = n * q - 2 * (r * q)
    BY <1>4, <1>3
  <2>3. 2 * (r * q) <= size + q - 1
    BY <2>1, <2>2, <1>4, <1>3
  <2>4. r * q <= r + q - 2
    BY <2>3, <1>1, <1>3
  <2>5. (r - 1) * (q - 1) >= 0
    BY <1>3
  <2>6. (r - 1) * (q - 1) = r * q - r - q + 1
    BY <1>3
  <2> QED
    BY <2>4, <2>5, <2>6, <1>3
<1>7. n \in r..(2 * r - 1)
  BY <1>4, <1>5, <1>6
<1> QED
  BY <1>7 DEF n, q

\* The colours that are there after so many rounds.
Once == {Recolour[c] : c \in Color}
Settled == {c \in Color : Recolour[c] = c}
Shade(n) == IF n = 0 THEN Color ELSE IF n = 1 THEN Once ELSE Settled

LEMMA Shades ==
  ASSUME NEW n \in Nat
  PROVE  /\ Shade(n) \subseteq Color
         /\ \A c \in Shade(n) : Recolour[c] \in Shade(n + 1)
<1>1. Once \subseteq Color /\ Settled \subseteq Color
  BY DecodeType DEF Once, Settled
<1>2. \A c \in Color : Recolour[c] \in Once
  BY DEF Once
<1>3. \A c \in Once : Recolour[c] \in Settled
  <2> SUFFICES ASSUME NEW c \in Color PROVE Recolour[Recolour[c]] \in Settled
    BY DEF Once
  <2>1. PICK o \in Orders : TRUE
    <3> DEFINE o == [i \in 1..3 |-> IF i = 1 THEN "R" ELSE IF i = 2 THEN "G" ELSE "B"]
    <3>1. o \in Orders
      BY DEF Orders, Letter
    <3> QED
      BY <3>1, Zenon
  <2>2. \A x \in Color : Recolour[x] = Trip(x, o) /\ Recolour[x] \in Color
    <3> SUFFICES ASSUME NEW x \in Color PROVE Recolour[x] = Trip(x, o) /\ Recolour[x] \in Color
      OBVIOUS
    <3>1. rgbToCode(x, o) = CodeOf(x)
      BY CodeIsCodeOf
    <3>2. Recolour[x] = codeToRGB(CodeOf(x))
      BY DEF Recolour
    <3> QED
      BY <3>1, <3>2, DecodeType DEF Trip
  <2>3. Trip(Trip(Trip(c, o), o), o) = Trip(Trip(c, o), o)
    BY ColorsSettle, Zenon
  <2> QED
    BY <2>2, <2>3, Zenon DEF Settled
<1>4. \A c \in Settled : Recolour[c] \in Settled
  BY Zenon DEF Settled
<1>5. n + 1 # 0 /\ (n = 0 <=> n + 1 = 1)
  OBVIOUS
<1> QED
  BY <1>1, <1>2, <1>3, <1>4, <1>5, Zenon DEF Shade

LEMMA ShadesGrow ==
  ASSUME NEW n \in Nat, NEW P \in Seq(Shade(n))
  PROVE  Map(Recolour, P) \in Seq(Shade(n + 1)) /\ P \in Seq(Color)
<1> DEFINE N == Len(P)
           m == Map(Recolour, P)
           T == Shade(n + 1)
<1>1. N \in Nat /\ \A i \in 1..N : P[i] \in Shade(n)
  OBVIOUS
<1>2. \A i \in 1..N : Recolour[P[i]] \in T
  BY <1>1, Shades, Zenon
<1>3. m \in [1..N -> T]
  BY <1>2, Zenon DEF Map
<1> HIDE DEF m, T
<1>4. m \in Seq(T)
  BY <1>1, <1>3, FunctionIsSeq
<1>5. P \in Seq(Color)
  <2> DEFINE S == Shade(n)
  <2>1. S \subseteq Color
    BY Shades
  <2> HIDE DEF S
  <2>2. Seq(S) \subseteq Seq(Color)
    BY <2>1, SeqMono
  <2> QED
    BY <2>2 DEF S
<1> QED
  BY <1>4, <1>5 DEF m, T

-----------------------------------------------------------------------------
(***************************************************************************)
(* Whatever text is decoded, the writer gets an image.                     *)
(***************************************************************************)
LEMMA LinesType ==
  \A t \in Text : Lines(t) \in Seq(Text)
<1> SUFFICES ASSUME NEW t \in Text PROVE Lines(t) \in Seq(Text)
  OBVIOUS
<1> DEFINE e == Fold(AddToLine, NoLine, t)
<1>1. e \in LineState
  BY NoFrameType, TextSums, LineFold, Zenon
<1>2. Lines(t) = IF e.line = <<>> THEN e.done ELSE Append(e.done, e.line)
  BY Zenon DEF Lines
<1> HIDE DEF e
<1>3. e.done \in Seq(Text) /\ e.line \in Text
  BY <1>1 DEF LineState
<1> QED
  BY <1>2, <1>3, LineSums, Zenon

LEMMA PictureType ==
  \A t \in Text : textToPixel(t) \in ImageData
<1> SUFFICES ASSUME NEW t \in Text PROVE textToPixel(t) \in ImageData
  OBVIOUS
<1> DEFINE ls == Lines(t)
<1>1. textToPixel(t) = Fold(AddRowStep, NoImage, ls)
  BY DEF textToPixel, AddRowStep
<1>2. ls \in Seq(Text)
  BY LinesType, Zenon
<1>3. \A im \in ImageData, l \in Text : AddRowStep[im][l] \in ImageData
  BY RowTurn
<1> DEFINE S == ImageData
           T == Text
<1> HIDE DEF ls, S, T
<1>4. ls \in Seq(T) /\ NoImage \in S /\ \A im \in S, l \in T : AddRowStep[im][l] \in S
  BY <1>2, <1>3, NoImageType DEF S, T
<1>5. Fold(AddRowStep, NoImage, ls) \in S
  BY <1>4, FoldInvariant
<1> QED
  BY <1>1, <1>5 DEF S

LEMMA SplitType ==
  \A t \in Text : SplitAudio(t).video \in Text
<1> SUFFICES ASSUME NEW t \in Text PROVE SplitAudio(t).video \in Text
  OBVIOUS
<1> DEFINE M == MarkersIn(t)
           m == Min(M)
<1>1. CASE M = {}
  <2>1. SplitAudio(t) = [video |-> t, audio |-> <<>>]
    BY <1>1, SplitAt
  <2> QED
    BY <2>1
<1>2. CASE M # {}
  <2>1. M \in SUBSET Nat /\ M \subseteq 1..Len(t)
    BY DEF MarkersIn
  <2>2. \E x \in M : \A k \in M : ~(k < x)
    <3> HIDE DEF M
    <3> QED
      BY <1>2, <2>1, LeastElement
  <2>3. \A x \in M, k \in M : ~(k < x) => x <= k
    BY <2>1
  <2>4. m \in M
    <3>1. \E x \in M : \A k \in M : x <= k
      BY <2>2, <2>3, Zenon
    <3>2. m = CHOOSE x \in M : \A y \in M : x <= y
      BY DEF Min
    <3> HIDE DEF M, m
    <3> QED
      BY <3>1, <3>2, Zenon
  <2> HIDE DEF m
  <2>5. m \in 1..Len(t)
    BY <2>1, <2>4
  <2>6. SplitAudio(t) = [video |-> SubSeq(t, 1, m - 1),
                         audio |-> SubSeq(t, m + 1 + (18 - Len(MarkerChars)), Len(t))]
    <3>1. m # 0
      BY <2>5
    <3> QED
      BY <1>2, <3>1, SplitAt DEF m
  <2>7. SplitAudio(t).video = SubSeq(t, 1, m - 1)
    <3>1. \A a, b : [video |-> a, audio |-> b].video = a
      OBVIOUS
    <3> QED
      BY <2>6, <3>1, Zenon
  <2>8. SubSeq(t, 1, m - 1) \in Seq(Token)
    <3>1. t \in Seq(Token) /\ m - 1 \in Int
      BY <2>5 DEF Text
    <3>2. 1 <= m - 1 => 1 \in 1..Len(t) /\ m - 1 \in 1..Len(t)
      BY <2>5
    <3> QED
      BY <3>1, <3>2
  <2> QED
    BY <2>7, <2>8 DEF Text
<1> QED
  BY <1>1, <1>2

LEMMA FramesType ==
  \A t \in Text : SplitFrames(t) \in Seq(Text)
<1> SUFFICES ASSUME NEW t \in Text PROVE SplitFrames(t) \in Seq(Text)
  OBVIOUS
<1> DEFINE ls == Lines(t)
           S == FrameState
           T == Text
<1>1. ls \in Seq(T)
  BY LinesType, Zenon
<1>2. ASSUME NEW acc \in FrameState, NEW l \in Text PROVE AddToFrame[acc][l] \in FrameState
  <2>1. acc.frames \in Seq(Text) /\ acc.current \in Text /\ WithFrame(acc) \in Seq(Text)
    BY WithFrameType DEF FrameState
  <2>2. \A a \in Seq(Text), b \in Text : [frames |-> a, current |-> b] \in FrameState
    BY DEF FrameState
  <2>3. Newline \o l \in Text
    BY Separators, TextSums, Zenon
  <2>4. acc.current \o (Newline \o l) \in Text
    BY <2>1, <2>3, TextSums, Zenon
  <2>5. [frames |-> WithFrame(acc), current |-> <<>>] \in FrameState
    BY <2>1, <2>2, TextSums, Zenon
  <2>6. /\ [frames |-> acc.frames, current |-> l] \in FrameState
        /\ [frames |-> acc.frames, current |-> acc.current \o (Newline \o l)] \in FrameState
    BY <2>1, <2>2, <2>4, Zenon
  <2>7. CASE l = <<>>
    BY <2>5, <2>7, FrameTurn
  <2>8. CASE l # <<>> /\ acc.current = <<>>
    BY <2>6, <2>8, FrameTurn
  <2>9. CASE l # <<>> /\ acc.current # <<>>
    BY <2>6, <2>9, FrameTurn
  <2> QED
    BY <2>7, <2>8, <2>9, Zenon
<1>3. NoFrame \in S /\ \A acc \in S, l \in T : AddToFrame[acc][l] \in S
  BY <1>2, NoFrameType, Zenon
<1> HIDE DEF ls, S, T
<1>4. Fold(AddToFrame, NoFrame, ls) \in S
  BY <1>1, <1>3, FoldInvariant
<1>5. SplitFrames(t) = WithFrame(Fold(AddToFrame, NoFrame, ls))
  BY Zenon DEF SplitFrames, ls
<1> QED
  BY <1>4, <1>5, WithFrameType, Zenon DEF S

LEMMA VideoType ==
  \A fs \in Seq(Text) : VideoImage(fs) \in ImageData
<1> SUFFICES ASSUME NEW fs \in Seq(Text) PROVE VideoImage(fs) \in ImageData
  OBVIOUS
<1> DEFINE ims == [i \in 1..Len(fs) |-> textToPixel(fs[i])]
           px == [i \in 1..Len(ims) |-> ims[i].pixels]
<1>1. VideoImage(fs) = IF ims = <<>> THEN NoImage ELSE [ims[1] EXCEPT !.pixels = FlattenSeq(px)]
  BY DEF VideoImage
<1>2. Len(fs) \in Nat /\ \A i \in 1..Len(fs) : fs[i] \in Text
  OBVIOUS
<1>3. ims \in [1..Len(fs) -> ImageData]
  BY <1>2, PictureType, Zenon
<1> HIDE DEF ims
<1>4. ims \in Seq(ImageData) /\ Len(ims) = Len(fs)
  BY <1>2, <1>3, FunctionIsSeq
<1>5. \A i \in 1..Len(ims) : ims[i].pixels \in Seq(Color)
  <2>1. \A i \in 1..Len(ims) : ims[i] \in ImageData
    BY <1>3, <1>4
  <2>2. \A im \in ImageData : im.pixels \in Seq(Color)
    BY DEF ImageData
  <2> QED
    BY <2>1, <2>2, Zenon
<1>6. px \in [1..Len(ims) -> Seq(Color)]
  BY <1>5, Zenon
<1> HIDE DEF px
<1>7. px \in Seq(Seq(Color))
  BY <1>2, <1>4, <1>6, FunctionIsSeq
<1>8. FlattenSeq(px) \in Seq(Color)
  BY <1>7, FlattenType
<1> DEFINE f == FlattenSeq(px)
           im == ims[1]
<1>9. CASE ims = <<>>
  BY <1>1, <1>9, NoImageType
<1>10. CASE ims # <<>>
  <2>1. im \in ImageData
    BY <1>4, <1>10
  <2>2. f \in Seq(Color)
    BY <1>8
  <2> HIDE DEF f, im
  <2>3. [im EXCEPT !.pixels = f] \in ImageData
    BY <2>1, <2>2 DEF ImageData
  <2> QED
    BY <1>1, <1>10, <2>3 DEF f, im
<1> QED
  BY <1>9, <1>10

\* Image() is an image with all its pixels.
LEMMA ImageExact ==
  ASSUME NEW P \in Seq(Color), NEW w \in Nat, NEW h \in Nat, Len(P) = w * h
  PROVE  /\ Image(w, P) \in ImageData /\ Image(w, P).pixels = Map(Recolour, P)
         /\ Len(Map(Recolour, P)) = Image(w, P).width * Image(w, P).height
         /\ Map(Recolour, P) \in Seq(Color)
<1> DEFINE m == Map(Recolour, P)
<1>1. m \in Seq(Color) /\ Len(m) = Len(P)
  <2>1. Recolour \in [Color -> Color]
    BY DecodeType
  <2> QED
    BY <2>1, MapType, MapLen
<1>2. CASE P = <<>>
  <2>1. m = <<>>
    BY <1>2, MapEmpty
  <2>2. Image(w, P) = NoImage
    BY <1>2, ImageIs
  <2>3. Len(<<>>) = 0 * 0
    OBVIOUS
  <2> QED
    BY <1>1, <2>1, <2>2, <2>3, NoImageType, Zenon
<1>3. CASE P # <<>>
  <2>1. Len(P) # 0
    BY <1>3
  <2>2. w # 0 /\ h # 0
    BY <2>1
  <2>3. Len(P) \div w = h
    BY <2>2, QuotientExact
  <2>4. Image(w, P) = [width |-> w, height |-> h, pixels |-> m]
    BY <1>3, <2>3, ImageIs
  <2> HIDE DEF m
  <2>5. [width |-> w, height |-> h, pixels |-> m] \in ImageData
    BY <1>1 DEF ImageData
  <2>6. /\ [width |-> w, height |-> h, pixels |-> m].width = w
        /\ [width |-> w, height |-> h, pixels |-> m].height = h
        /\ [width |-> w, height |-> h, pixels |-> m].pixels = m
    OBVIOUS
  <2> QED
    BY <1>1, <2>4, <2>5, <2>6, Zenon DEF m
<1> QED
  BY <1>2, <1>3

-----------------------------------------------------------------------------
(***************************************************************************)
(* The invariant: what the text is, what was decoded from it, and what     *)
(* rounds of encoding have done to an image.                               *)
(***************************************************************************)
Media == ImageFile \cup VideoFile \cup SoundFile \cup {ForeignText}

Typed ==
  /\ media \in Media /\ rate \in Int /\ generation \in Nat
  /\ nanAs \in Int /\ nanAs <= 100

\* The text is what the encryptor makes of the media, whatever the order of
\* BASE_COLORS in this build.
Encodes ==
  /\ encryptor \in {"none", "foreign", "encryptImage", "encryptVideo", "encryptAudio"}
  /\ phase = "media" => encryptor = "none"
  /\ phase \in {"text", "decoded"} => encryptor # "none"
  /\ encryptor = "none" => text = <<>>
  /\ encryptor = "foreign" => media = ForeignText /\ text \in Text
  /\ encryptor = "encryptImage" =>
       media \in ImageFile /\ text = PixText(media.pixels, media.width, media.height)
  /\ encryptor = "encryptVideo" =>
       /\ media \in VideoFile
       /\ text = Film(media.frames, media.width, media.height, Levels(media.samples, rate, nanAs))
  /\ encryptor = "encryptAudio" =>
       media \in SoundFile /\ text = LoudText(Levels(media.samples, rate, nanAs))

Decodes ==
  phase = "decoded" =>
    \/ decryptor = "decryptImage" /\ image = textToPixel(text)
    \/ /\ decryptor = "decryptVideo" /\ frameTexts = SplitFrames(SplitAudio(text).video)
       /\ image = VideoImage(frameTexts)
    \/ encryptor = "foreign" /\ decryptor = "decryptVideo" /\ image = NoImage
    \/ /\ decryptor = "decryptAudio" /\ samples = textToAudio(text)
       /\ image = NoImage /\ outcome = "DhtError"

\* Images that have been through n rounds, and the first text of them.
AfterRounds(n, pixels) ==
  pixels \in Seq(Shade(n)) /\ (generation > 0 => Hues(first) = Map(Tint, pixels))

Rounds ==
  /\ generation = 0 => first = <<>>
  /\ encryptor = "none" /\ media.kind = "image" => AfterRounds(generation, media.pixels)
  /\ encryptor = "encryptImage" => generation > 0 /\ AfterRounds(generation - 1, media.pixels)
  /\ media.kind # "image" => generation = 0

CodecInv == Typed /\ Encodes /\ Decodes /\ Rounds

-----------------------------------------------------------------------------
LEMMA ImageFiles ==
  ASSUME NEW m \in ImageFile
  PROVE  /\ m.kind = "image" /\ m.pixels \in Seq(Color) /\ m.width \in Nat /\ m.height \in Nat
         /\ Len(m.pixels) = m.width * m.height
BY DEF ImageFile

LEMMA VideoFiles ==
  ASSUME NEW m \in VideoFile
  PROVE  /\ m.kind = "video" /\ m.width \in Nat \ {0} /\ m.height \in Nat \ {0}
         /\ m.frames \in Seq(Shots(m.width, m.height)) /\ m.samples \in Seq(AnySample)
<1>1. /\ m.kind = "video" /\ m.width \in Nat \ {0} /\ m.height \in Nat \ {0}
      /\ m.frames \in Seq(Seq(Color)) /\ m.samples \in Seq(AnySample)
  BY DEF VideoFile
<1> DEFINE F == m.frames
           T == Shots(m.width, m.height)
<1>2. \A i \in DOMAIN F : Len(F[i]) = m.width * m.height
  BY Zenon DEF VideoFile
<1>3. F \in Seq(Seq(Color))
  BY <1>1
<1> HIDE DEF F
<1>4. Len(F) \in Nat /\ DOMAIN F = 1..Len(F) /\ F \in [1..Len(F) -> Seq(Color)]
  BY <1>3
<1>5. \A i \in 1..Len(F) : F[i] \in Seq(Color)
  BY <1>4, Zenon
<1>6. \A i \in 1..Len(F) : F[i] \in T
  BY <1>2, <1>4, <1>5, Zenon DEF Shots
<1> HIDE DEF T
<1>7. F \in [1..Len(F) -> T]
  BY <1>4, <1>6, Zenon
<1>8. F \in Seq(T)
  BY <1>4, <1>7, FunctionIsSeq
<1> QED
  BY <1>1, <1>8, Zenon DEF F, T

LEMMA SoundFiles ==
  ASSUME NEW m \in SoundFile
  PROVE  m.kind = "audio" /\ m.samples \in Seq(AnySample)
BY DEF SoundFile

LEMMA Kinds ==
  ASSUME NEW m \in Media
  PROVE  /\ m.kind = "image" => m \in ImageFile
         /\ m.kind = "video" => m \in VideoFile
         /\ m.kind = "audio" => m \in SoundFile
<1>1. ForeignText.kind = "text"
  BY DEF ForeignText
<1>2. /\ \A x \in ImageFile : x.kind = "image"
      /\ \A x \in VideoFile : x.kind = "video"
      /\ \A x \in SoundFile : x.kind = "audio"
  BY ImageFiles, VideoFiles, SoundFiles
<1>3. "image" # "video" /\ "image" # "audio" /\ "image" # "text" /\ "video" # "audio" /\ "video" # "text" /\ "audio" # "text"
  OBVIOUS
<1> QED
  BY <1>1, <1>2, <1>3, Zenon DEF Media

\* What encryptImage writes.
LEMMA ImageText ==
  ASSUME NEW m \in ImageFile, NEW o \in Orders
  PROVE  pixelToText(m.pixels, m.width, m.height, o) = PixText(m.pixels, m.width, m.height)
<1> DEFINE P == m.pixels
           w == m.width
           h == m.height
<1>1. P \in Seq(Color) /\ w \in Nat /\ h \in Nat /\ Len(P) = w * h
  BY ImageFiles
<1> HIDE DEF P, w, h
<1>2. pixelToText(P, w, h, o) = PixText(P, w, h)
  BY <1>1, PixelText DEF PixText
<1> QED
  BY <1>2 DEF P, w, h

\* What encryptVideo writes.
LEMMA VideoText ==
  ASSUME NEW m \in VideoFile, NEW o \in Orders, NEW r \in Int, NEW na \in Int
  PROVE  joinVideoText([i \in 1..Len(m.frames) |-> pixelToText(m.frames[i], m.width, m.height, o)],
                       sampleToText(m.samples, r, na))
           = Film(m.frames, m.width, m.height, Levels(m.samples, r, na))
<1> DEFINE F == m.frames
           w == m.width
           h == m.height
           s == m.samples
<1>1. w \in Nat \ {0} /\ h \in Nat \ {0} /\ F \in Seq(Shots(w, h)) /\ s \in Seq(AnySample)
  BY VideoFiles
<1> HIDE DEF F, w, h, s
<1>2. \A i \in 1..Len(F) : pixelToText(F[i], w, h, o) = PixText(F[i], w, h)
  <2> SUFFICES ASSUME NEW i \in 1..Len(F) PROVE pixelToText(F[i], w, h, o) = PixText(F[i], w, h)
    OBVIOUS
  <2> DEFINE P == F[i]
  <2>1. P \in Shots(w, h)
    BY <1>1
  <2>2. P \in Seq(Color) /\ Len(P) = w * h
    BY <2>1, Zenon DEF Shots
  <2> HIDE DEF P
  <2>3. pixelToText(P, w, h, o) = PixText(P, w, h)
    BY <1>1, <2>2, PixelText DEF PixText
  <2> QED
    BY <2>3 DEF P
<1>3. [i \in 1..Len(F) |-> pixelToText(F[i], w, h, o)] = ShotTexts(F, w, h)
  BY <1>2, Zenon DEF ShotTexts
<1>4. sampleToText(s, r, na) = LoudText(Levels(s, r, na))
  BY <1>1, SampleText
<1>5. joinVideoText([i \in 1..Len(F) |-> pixelToText(F[i], w, h, o)], sampleToText(s, r, na))
        = Film(F, w, h, Levels(s, r, na))
  BY <1>3, <1>4, Zenon DEF Film
<1> QED
  BY <1>5 DEF F, w, h, s

\* Every text there can be is a text.
LEMMA TextsAreTexts ==
  ASSUME Typed, Encodes
  PROVE  text \in Text
<1>1. CASE encryptor = "none"
  BY <1>1, TextSums, Zenon DEF Encodes
<1>2. CASE encryptor = "foreign"
  BY <1>2, Zenon DEF Encodes
<1>3. CASE encryptor = "encryptImage"
  <2> DEFINE P == media.pixels
             w == media.width
             h == media.height
  <2>1. P \in Seq(Color) /\ w \in Nat /\ h \in Nat /\ Len(P) = w * h /\ text = PixText(P, w, h)
    BY <1>3, ImageFiles DEF Encodes
  <2> HIDE DEF P, w, h
  <2>2. PixText(P, w, h) \in Seq(PixelToken)
    BY <2>1, PixTextOver
  <2> QED
    BY <2>1, <2>2, PixelsAreMute, Zenon
<1>4. CASE encryptor = "encryptVideo"
  <2> DEFINE F == media.frames
             w == media.width
             h == media.height
             ns == Levels(media.samples, rate, nanAs)
  <2>1. media \in VideoFile /\ text = Film(F, w, h, ns)
    BY <1>4 DEF Encodes
  <2>2. w \in Nat /\ h \in Nat /\ F \in Seq(Shots(w, h))
    BY <2>1, VideoFiles
  <2>3. ns \in Seq(Int)
    BY <2>1, VideoFiles, LevelsAre DEF Typed
  <2> HIDE DEF F, w, h, ns
  <2>4. Film(F, w, h, ns) \in Text
    BY <2>2, <2>3, FilmIs
  <2> QED
    BY <2>1, <2>4
<1>5. CASE encryptor = "encryptAudio"
  <2> DEFINE ns == Levels(media.samples, rate, nanAs)
  <2>1. media \in SoundFile /\ text = LoudText(ns)
    BY <1>5 DEF Encodes
  <2>2. ns \in Seq(Int)
    BY <2>1, SoundFiles, LevelsAre DEF Typed
  <2> HIDE DEF ns
  <2> QED
    BY <2>1, <2>2, SoundAlone
<1> QED
  BY <1>1, <1>2, <1>3, <1>4, <1>5 DEF Encodes

LEMMA CodecInit == Init => CodecInv
<1> SUFFICES ASSUME Init PROVE CodecInv
  OBVIOUS
<1>1. /\ rate = 0 /\ first = <<>> /\ generation = 0
      /\ nanAs \in {INT_MIN, 0}
      /\ \/ phase = "media" /\ media \in Images \cup Videos \cup Sounds /\ text = <<>> /\ encryptor = "none"
         \/ phase = "text" /\ media = ForeignText /\ text \in Texts /\ encryptor = "foreign"
  BY DEF Init
<1>2. media \in Media
  BY <1>1, MediaAssumption, Zenon DEF Media
<1>3. Typed
  BY <1>1, <1>2, IntMaxAssumption DEF Typed, INT_MIN
<1>4. Encodes
  BY <1>1, MediaAssumption DEF Encodes
<1>5. Decodes
  BY <1>1 DEF Decodes
<1>6. Rounds
  <2>1. encryptor # "encryptImage"
    BY <1>1
  <2>2. media.kind = "image" => media.pixels \in Seq(Shade(0))
    <3>1. media.kind = "image" => media.pixels \in Seq(Color)
      BY <1>2, Kinds, ImageFiles
    <3>2. Shade(0) = Color
      BY DEF Shade
    <3> QED
      BY <3>1, <3>2, Zenon
  <2>3. ~(generation > 0)
    BY <1>1
  <2> QED
    BY <1>1, <2>1, <2>2, <2>3, Zenon DEF Rounds, AfterRounds
<1> QED
  BY <1>3, <1>4, <1>5, <1>6 DEF CodecInv

LEMMA ImageStep == CodecInv /\ EncryptImage => CodecInv'
<1> SUFFICES ASSUME CodecInv, EncryptImage PROVE CodecInv'
  OBVIOUS
<1>0. Typed /\ Encodes /\ Decodes /\ Rounds
  BY DEF CodecInv
<1>1. PICK o \in Orders :
        Encoded("encryptImage", pixelToText(media.pixels, media.width, media.height, o), 0)
  BY DEF EncryptImage
<1>2. phase = "media" /\ media.kind = "image"
  BY DEF EncryptImage
<1>3. media \in ImageFile
  BY <1>0, <1>2, Kinds DEF Typed
<1> DEFINE P == media.pixels
           w == media.width
           h == media.height
           t == PixText(P, w, h)
<1>4. pixelToText(media.pixels, media.width, media.height, o) = t
  BY <1>3, ImageText
<1>5. /\ phase' = "text" /\ text' = t /\ encryptor' = "encryptImage" /\ rate' = 0
      /\ first' = (IF first = <<>> THEN t ELSE first) /\ generation' = generation + 1
      /\ media' = media /\ nanAs' = nanAs
  BY <1>1, <1>4 DEF Encoded
<1>6. P \in Seq(Color) /\ w \in Nat /\ h \in Nat /\ Len(P) = w * h
  BY <1>3, ImageFiles
<1>7. Typed'
  BY <1>0, <1>5 DEF Typed
<1>8. Encodes'
  BY <1>3, <1>5 DEF Encodes
<1>9. Decodes'
  BY <1>5 DEF Decodes
<1>10. Rounds'
  <2>1. encryptor = "none"
    BY <1>0, <1>2, Zenon DEF Encodes
  <2>2. generation \in Nat
    BY <1>0 DEF Typed
  <2>3. P \in Seq(Shade(generation)) /\ (generation > 0 => Hues(first) = Map(Tint, P))
    BY <1>0, <1>2, <2>1, Zenon DEF Rounds, AfterRounds
  <2>4. generation = 0 => first = <<>>
    BY <1>0, Zenon DEF Rounds
  <2>5. Hues(t) = Map(Tint, P)
    <3> HIDE DEF P, w, h
    <3> QED
      BY <1>6, PictureHues
  <2>6. Hues(first') = Map(Tint, P)
    <3>1. CASE first = <<>>
      BY <3>1, <1>5, <2>5, Zenon
    <3>2. CASE first # <<>>
      <4>1. generation > 0
        BY <2>2, <2>4, <3>2
      <4> QED
        BY <3>2, <4>1, <1>5, <2>3, Zenon
    <3> QED
      BY <3>1, <3>2
  <2>7. generation' > 0 /\ generation' # 0 /\ generation' - 1 = generation
    BY <2>2, <1>5
  <2>8. AfterRounds(generation - 1, media.pixels)'
    BY <2>3, <2>6, <2>7, <1>5, Zenon DEF AfterRounds
  <2>9. encryptor' # "none" /\ media'.kind = "image"
    BY <1>2, <1>5
  <2> QED
    BY <2>7, <2>8, <2>9, Zenon DEF Rounds
<1> QED
  BY <1>7, <1>8, <1>9, <1>10 DEF CodecInv

\* The two encryptors of sound.
LEMMA SoundStep ==
  ASSUME CodecInv, NEW op \in {"encryptVideo", "encryptAudio"}, NEW t, NEW r \in Int,
         Encoded(op, t, r), phase = "media", media.kind # "image",
         op = "encryptVideo" =>
           /\ media \in VideoFile
           /\ t = Film(media.frames, media.width, media.height, Levels(media.samples, r, nanAs)),
         op = "encryptAudio" => media \in SoundFile /\ t = LoudText(Levels(media.samples, r, nanAs))
  PROVE  CodecInv'
<1>0. Typed /\ Encodes /\ Decodes /\ Rounds
  BY DEF CodecInv
<1>1. /\ phase' = "text" /\ text' = t /\ encryptor' = op /\ rate' = r
      /\ first' = first /\ generation' = generation
      /\ media' = media /\ nanAs' = nanAs
  BY DEF Encoded
<1>2. Typed'
  BY <1>0, <1>1 DEF Typed
<1>3. Encodes'
  BY <1>1 DEF Encodes
<1>4. Decodes'
  BY <1>1 DEF Decodes
<1>5. Rounds'
  <2>1. encryptor' # "none" /\ encryptor' # "encryptImage" /\ media'.kind # "image"
    BY <1>1
  <2>2. (generation = 0 => first = <<>>) /\ generation = 0
    BY <1>0, Zenon DEF Rounds
  <2> QED
    BY <1>1, <2>1, <2>2, Zenon DEF Rounds
<1> QED
  BY <1>2, <1>3, <1>4, <1>5 DEF CodecInv

LEMMA VideoStep ==
  ASSUME CodecInv, NEW r \in Int, EncryptVideo(r)
  PROVE  CodecInv'
<1> DEFINE t(o) == joinVideoText([i \in 1..Len(media.frames) |->
                                    pixelToText(media.frames[i], media.width, media.height, o)],
                                 sampleToText(media.samples, r, nanAs))
<1>1. PICK o \in Orders : Encoded("encryptVideo", t(o), r)
  BY Zenon DEF EncryptVideo
<1>2. phase = "media" /\ media.kind = "video"
  BY DEF EncryptVideo
<1>3. media \in VideoFile
  BY <1>2, Kinds DEF CodecInv, Typed
<1>4. t(o) = Film(media.frames, media.width, media.height, Levels(media.samples, r, nanAs))
  BY <1>3, VideoText DEF CodecInv, Typed
<1>5. "encryptVideo" \in {"encryptVideo", "encryptAudio"} /\ media.kind # "image" /\ "encryptVideo" # "encryptAudio"
  BY <1>2
<1> HIDE DEF t
<1> QED
  BY <1>1, <1>2, <1>3, <1>4, <1>5, SoundStep

LEMMA AudioStep ==
  ASSUME CodecInv, NEW r \in Int, EncryptAudio(r)
  PROVE  CodecInv'
<1> DEFINE t == sampleToText(media.samples, r, nanAs)
<1>1. Encoded("encryptAudio", t, r) /\ phase = "media" /\ media.kind = "audio"
  BY DEF EncryptAudio
<1>2. media \in SoundFile
  BY <1>1, Kinds DEF CodecInv, Typed
<1>3. t = LoudText(Levels(media.samples, r, nanAs))
  BY <1>2, SoundFiles, SampleText DEF CodecInv, Typed
<1>4. "encryptAudio" \in {"encryptVideo", "encryptAudio"} /\ media.kind # "image" /\ "encryptVideo" # "encryptAudio"
  BY <1>1
<1> HIDE DEF t
<1> QED
  BY <1>1, <1>2, <1>3, <1>4, SoundStep

\* What changes neither the media nor the text, and decodes properly, is fine.
LEMMA QuietStep ==
  ASSUME CodecInv, UNCHANGED <<media, text, encryptor, rate, nanAs, first, generation>>,
         phase' = "media" => phase = "media",
         phase' \in {"text", "decoded"} => phase = "text" \/ phase' = phase,
         Decodes'
  PROVE  CodecInv'
<1>0. Typed /\ Encodes /\ Rounds
  BY DEF CodecInv
<1>1. Typed'
  BY <1>0 DEF Typed
<1>2. Encodes'
  <2>1. phase' \in {"text", "decoded"} => phase \in {"text", "decoded"}
    OBVIOUS
  <2> QED
    BY <1>0, <2>1 DEF Encodes
<1>3. Rounds'
  BY <1>0 DEF Rounds, AfterRounds
<1> QED
  BY <1>1, <1>2, <1>3 DEF CodecInv

\* A text of the codec never ends at the marker.
LEMMA CodecTextsSplit ==
  ASSUME CodecInv, phase = "text", encryptor # "foreign"
  PROVE  ~EndsAtMarker(text)
<1>0. Typed /\ Encodes
  BY DEF CodecInv
<1>1. CASE encryptor = "encryptImage"
  <2> DEFINE P == media.pixels
             w == media.width
             h == media.height
  <2>1. P \in Seq(Color) /\ w \in Nat /\ h \in Nat /\ Len(P) = w * h /\ text = PixText(P, w, h)
    BY <1>0, <1>1, ImageFiles DEF Encodes
  <2> HIDE DEF P, w, h
  <2> QED
    BY <2>1, PictureAsVideo
<1>2. CASE encryptor = "encryptVideo"
  <2> DEFINE F == media.frames
             w == media.width
             h == media.height
             s == media.samples
             ns == Levels(s, rate, nanAs)
  <2>1. media \in VideoFile /\ text = Film(F, w, h, ns)
    BY <1>0, <1>2 DEF Encodes
  <2>2. w \in Nat \ {0} /\ h \in Nat \ {0} /\ F \in Seq(Shots(w, h)) /\ s \in Seq(AnySample)
    BY <2>1, VideoFiles
  <2>3. rate \in Int /\ nanAs \in Int
    BY <1>0 DEF Typed
  <2> HIDE DEF F, w, h, s
  <2>4. ns \in Seq(Int)
    BY <2>2, <2>3, LevelsAre
  <2> HIDE DEF ns
  <2> QED
    BY <2>1, <2>2, <2>4, FilmSplits
<1>3. CASE encryptor = "encryptAudio"
  <2> DEFINE ns == Levels(media.samples, rate, nanAs)
  <2>1. ns \in Seq(Int) /\ text = LoudText(ns)
    BY <1>0, <1>3, SoundFiles, LevelsAre DEF Encodes, Typed
  <2> HIDE DEF ns
  <2> QED
    BY <2>1, SoundFull
<1> QED
  BY <1>0, <1>1, <1>2, <1>3 DEF Encodes

LEMMA DecryptSteps ==
  ASSUME CodecInv, NEW e, DecryptImage(e) \/ DecryptVideo(e) \/ DecryptAudio(e)
  PROVE  CodecInv'
<1>1. ASSUME NEW op, NEW im, NEW ends, Decoded(op, e, im, ends), phase = "text",
             phase' = "decoded" => Decodes'
      PROVE  CodecInv'
  <2>1. /\ phase' = IF ends = "exit" THEN "dead" ELSE "decoded"
        /\ UNCHANGED <<media, text, encryptor, rate, nanAs, first, generation>>
    BY <1>1 DEF Decoded
  <2>2. phase' # "media" /\ (phase' # "decoded" => Decodes')
    BY <2>1 DEF Decodes
  <2> QED
    BY <1>1, <2>1, <2>2, QuietStep
<1>2. CASE DecryptImage(e)
  <2> DEFINE im == textToPixel(text)
             ends == IF e \in {"png", "jpg", "bmp"} THEN WriterEnds(e, im) ELSE "UnsupportedFormatError"
  <2>1. Decoded("decryptImage", e, im, ends) /\ phase = "text"
    BY <1>2 DEF DecryptImage
  <2>2. decryptor' = "decryptImage" /\ image' = im /\ text' = text
    BY <2>1 DEF Decoded
  <2>3. Decodes'
    BY <2>2 DEF Decodes
  <2> HIDE DEF im, ends
  <2> QED
    BY <1>1, <2>1, <2>3
<1>3. CASE DecryptVideo(e) /\ ~EndsAtMarker(text)
  <2> DEFINE im == VideoImage(frameTexts')
             ends == IF e \in {"png", "jpg"} THEN WriterEnds(e, im) ELSE "UnsupportedFormatError"
  <2>1. /\ Decoded("decryptVideo", e, im, ends) /\ phase = "text"
        /\ frameTexts' = SplitFrames(SplitAudio(text).video)
    BY <1>3 DEF DecryptVideo
  <2>2. decryptor' = "decryptVideo" /\ image' = im /\ text' = text
    BY <2>1 DEF Decoded
  <2>3. Decodes'
    BY <2>1, <2>2 DEF Decodes
  <2> HIDE DEF im, ends
  <2> QED
    BY <1>1, <2>1, <2>3
<1>4. CASE DecryptAudio(e)
  <2>1. /\ Decoded("decryptAudio", e, NoImage, "DhtError") /\ phase = "text"
        /\ samples' = textToAudio(text)
    BY <1>4 DEF DecryptAudio
  <2>2. decryptor' = "decryptAudio" /\ image' = NoImage /\ text' = text /\ outcome' = "DhtError"
    BY <2>1 DEF Decoded
  <2>3. Decodes'
    BY <2>1, <2>2 DEF Decodes
  <2> QED
    BY <1>1, <2>1, <2>3
<1>5. CASE DecryptVideo(e) /\ EndsAtMarker(text)
  <2>1. Decoded("decryptVideo", e, NoImage, "out_of_range") /\ phase = "text"
    BY <1>5 DEF DecryptVideo
  <2>2. /\ decryptor' = "decryptVideo" /\ image' = NoImage /\ encryptor' = encryptor
    BY <2>1 DEF Decoded
  <2>3. encryptor = "foreign"
    BY <1>5, <2>1, CodecTextsSplit
  <2>4. Decodes'
    BY <2>2, <2>3 DEF Decodes
  <2> QED
    BY <1>1, <2>1, <2>4
<1> QED
  BY <1>2, <1>3, <1>4, <1>5

\* What the writer gets is an image, and for the text of an image that image.
LEMMA ImagesDecoded ==
  ASSUME CodecInv, phase = "decoded"
  PROVE  /\ image \in ImageData
         /\ encryptor = "encryptImage" /\ decryptor # "decryptAudio" =>
              image = Image(media.width, media.pixels)
<1>0. Typed /\ Encodes /\ Decodes
  BY DEF CodecInv
<1>1. text \in Text
  BY <1>0, TextsAreTexts
<1>2. image \in ImageData
  <2>1. textToPixel(text) \in ImageData
    BY <1>1, PictureType, Zenon
  <2>2. VideoImage(SplitFrames(SplitAudio(text).video)) \in ImageData
    <3>1. SplitAudio(text).video \in Text
      BY <1>1, SplitType, Zenon
    <3>2. SplitFrames(SplitAudio(text).video) \in Seq(Text)
      BY <3>1, FramesType, Zenon
    <3> QED
      BY <3>2, VideoType, Zenon
  <2> QED
    BY <1>0, <2>1, <2>2, NoImageType, Zenon DEF Decodes
<1>3. ASSUME encryptor = "encryptImage", decryptor # "decryptAudio"
      PROVE  image = Image(media.width, media.pixels)
  <2> DEFINE P == media.pixels
             w == media.width
             h == media.height
  <2>1. P \in Seq(Color) /\ w \in Nat /\ h \in Nat /\ Len(P) = w * h /\ text = PixText(P, w, h)
    BY <1>0, <1>3, ImageFiles DEF Encodes
  <2> HIDE DEF P, w, h
  <2>2. textToPixel(PixText(P, w, h)) = Image(w, P)
    BY <2>1, PictureComesBack
  <2>3. VideoImage(SplitFrames(SplitAudio(PixText(P, w, h)).video)) = Image(w, P)
    BY <2>1, PictureAsVideo
  <2>4. image = Image(w, P)
    BY <1>0, <1>3, <2>1, <2>2, <2>3, Zenon DEF Decodes
  <2> QED
    BY <2>4 DEF P, w
<1> QED
  BY <1>2, <1>3

LEMMA WrittenType ==
  ASSUME NEW T, NEW p \in Seq(T), NEW k \in Nat, Len(p) >= k
  PROVE  /\ SubSeq(p, 1, k) \in Seq(T) /\ Len(SubSeq(p, 1, k)) = k
         /\ Len(p) = k => SubSeq(p, 1, k) = p
<1>1. Len(p) \in Nat /\ k <= Len(p)
  OBVIOUS
<1>2. SubSeq(p, 1, k) \in Seq(T) /\ Len(SubSeq(p, 1, k)) = k
  BY <1>1
<1>3. ASSUME Len(p) = k PROVE SubSeq(p, 1, k) = p
  BY <1>3
<1> QED
  BY <1>2, <1>3

LEMMA ReadBackStep == CodecInv /\ ReadBack => CodecInv'
<1> SUFFICES ASSUME CodecInv, ReadBack PROVE CodecInv'
  OBVIOUS
<1>0. Typed /\ Encodes /\ Decodes /\ Rounds
  BY DEF CodecInv
<1> DEFINE p == image.pixels
           k == image.width * image.height
           q == SubSeq(p, 1, k)
           m == [kind |-> "image", width |-> image.width, height |-> image.height, pixels |-> q]
<1>1. /\ phase = "decoded" /\ outcome = "ok" /\ Len(p) >= k
      /\ phase' = "media" /\ media' = m /\ text' = <<>> /\ encryptor' = "none" /\ rate' = 0
      /\ nanAs' = nanAs /\ first' = first /\ generation' = generation
  BY DEF ReadBack, Written
<1>2. image \in ImageData
  BY <1>1, ImagesDecoded
<1>3. p \in Seq(Color) /\ image.width \in Nat /\ image.height \in Nat /\ k \in Nat
  BY <1>2 DEF ImageData
<1>4. q \in Seq(Color) /\ Len(q) = k /\ (Len(p) = k => q = p)
  <2>1. p \in Seq(Color) /\ k \in Nat /\ Len(p) >= k
    BY <1>1, <1>3
  <2> HIDE DEF p, k
  <2> QED
    BY <2>1, WrittenType
<1>5. m \in ImageFile /\ m.kind = "image" /\ m.pixels = q
  <2> HIDE DEF q
  <2>1. m \in [kind : {"image"}, width : Nat, height : Nat, pixels : Seq(Color)]
    BY <1>3, <1>4
  <2>2. m.pixels = q /\ m.width = image.width /\ m.height = image.height /\ m.kind = "image"
    OBVIOUS
  <2>3. Len(m.pixels) = m.width * m.height
    BY <1>4, <2>2, Zenon
  <2> QED
    BY <2>1, <2>2, <2>3, Zenon DEF ImageFile
<1> HIDE DEF m, q
<1>6. Typed'
  BY <1>0, <1>1, <1>5 DEF Typed, Media
<1>7. Encodes'
  BY <1>1 DEF Encodes
<1>8. Decodes'
  BY <1>1 DEF Decodes
<1>9. Rounds'
  <2>1. generation \in Nat /\ (generation = 0 => first = <<>>)
    BY <1>0 DEF Typed, Rounds
  <2>2. AfterRounds(generation, q)
    <3>1. CASE encryptor = "encryptImage"
      <4> DEFINE P == media.pixels
                 w == media.width
                 h == media.height
                 n == generation - 1
      <4>1. P \in Seq(Color) /\ w \in Nat /\ h \in Nat /\ Len(P) = w * h
        BY <1>0, <3>1, ImageFiles DEF Encodes
      <4>2. generation > 0 /\ P \in Seq(Shade(n)) /\ (generation > 0 => Hues(first) = Map(Tint, P))
        BY <1>0, <3>1, Zenon DEF Rounds, AfterRounds
      <4>3. decryptor # "decryptAudio"
        BY <1>0, <1>1 DEF Decodes
      <4>4. image = Image(w, P)
        BY <1>1, <3>1, <4>3, ImagesDecoded
      <4>5. n \in Nat /\ n + 1 = generation
        BY <2>1, <4>2
      <4> HIDE DEF P, w, h, n
      <4>6. Image(w, P).pixels = Map(Recolour, P) /\ Len(Map(Recolour, P)) = Image(w, P).width * Image(w, P).height
        BY <4>1, ImageExact
      <4>7. q = Map(Recolour, P)
        BY <1>4, <4>4, <4>6, Zenon
      <4>8. Map(Recolour, P) \in Seq(Shade(n + 1))
        <5>1. P \in Seq(Shade(n))
          BY <4>2
        <5> QED
          BY <5>1, <4>5, ShadesGrow
      <4>9. Map(Tint, Map(Recolour, P)) = Map(Tint, P)
        BY <4>1, HuesStay, Zenon
      <4> QED
        BY <4>2, <4>5, <4>7, <4>8, <4>9, Zenon DEF AfterRounds
    <3>2. CASE encryptor # "encryptImage"
      <4>1. media.kind # "image"
        <5>1. "image" # "video" /\ "image" # "audio" /\ "image" # "text"
          OBVIOUS
        <5>2. media = ForeignText \/ media \in VideoFile \/ media \in SoundFile
          BY <1>0, <1>1, <3>2 DEF Encodes
        <5>3. ForeignText.kind = "text"
          BY DEF ForeignText
        <5> QED
          BY <5>1, <5>2, <5>3, VideoFiles, SoundFiles, Zenon
      <4>2. generation = 0 /\ ~(0 > 0)
        BY <1>0, <4>1 DEF Rounds
      <4>3. Shade(0) = Color
        BY DEF Shade
      <4> QED
        BY <1>4, <4>2, <4>3, Zenon DEF AfterRounds
    <3> QED
      BY <3>1, <3>2
  <2>3. AfterRounds(generation, media.pixels)'
    BY <1>1, <1>5, <2>2, Zenon DEF AfterRounds
  <2>4. encryptor' # "encryptImage" /\ media'.kind = "image"
    BY <1>1, <1>5
  <2> QED
    BY <1>1, <2>1, <2>3, <2>4, Zenon DEF Rounds
<1> QED
  BY <1>6, <1>7, <1>8, <1>9 DEF CodecInv

\* In every behaviour the text is the one the codec makes of the media, what
\* was decoded is what the decryptor makes of the text, and an image that went
\* through n rounds has the colours n rounds leave (encrypt_image.cpp,
\* encrypt_video.cpp, encrypt_audio.cpp and their counterparts).
THEOREM CodecInvariant == Spec => []CodecInv
<1>1. Init => CodecInv
  BY CodecInit
<1>2. CodecInv /\ [Next]_vars => CodecInv'
  <2> SUFFICES ASSUME CodecInv, [Next]_vars PROVE CodecInv'
    OBVIOUS
  <2>1. CASE EncryptImage
    BY <2>1, ImageStep
  <2>2. ASSUME NEW r \in Rates, EncryptVideo(r) \/ EncryptAudio(r) \/ DivisionTraps(r) PROVE CodecInv'
    <3>0. r \in Int
      BY RatesAssumption
    <3>1. CASE EncryptVideo(r)
      BY <3>0, <3>1, VideoStep
    <3>2. CASE EncryptAudio(r)
      BY <3>0, <3>2, AudioStep
    <3>3. CASE DivisionTraps(r)
      <4>1. phase' = "dead" /\ UNCHANGED <<media, text, encryptor, rate, nanAs, first, generation>>
        BY <3>3 DEF DivisionTraps
      <4>2. Decodes'
        BY <4>1 DEF Decodes
      <4> QED
        BY <4>1, <4>2, QuietStep
    <3> QED
      BY <2>2, <3>1, <3>2, <3>3
  <2>3. ASSUME NEW e \in Exts, DecryptImage(e) \/ DecryptVideo(e) \/ DecryptAudio(e) PROVE CodecInv'
    BY <2>3, DecryptSteps
  <2>4. CASE ReadBack
    BY <2>4, ReadBackStep
  <2>5. CASE UNCHANGED vars
    <3>1. /\ UNCHANGED <<media, text, encryptor, rate, nanAs, first, generation>>
          /\ UNCHANGED <<phase, decryptor, frameTexts, image, samples, outcome>>
      BY <2>5 DEF vars
    <3>2. Decodes'
      BY <3>1 DEF CodecInv, Decodes
    <3> QED
      BY <3>1, <3>2, QuietStep
  <2>6. CASE Stopped
    BY <2>5, <2>6 DEF Stopped
  <2> QED
    BY <2>1, <2>2, <2>3, <2>4, <2>5, <2>6 DEF Next
<1> QED
  BY <1>1, <1>2, PTL DEF Spec

\* Two builds that traverse BASE_COLORS in different orders write the same
\* text for the same image, of any size (rgb_to_code.cpp:10).
THEOREM BuildsAgree == Spec => []OrderIrrelevant
<1>1. CodecInv => OrderIrrelevant
  <2> SUFFICES ASSUME CodecInv, encryptor = "encryptImage", NEW o \in Orders
               PROVE  pixelToText(media.pixels, media.width, media.height, o) = text
    BY Zenon DEF OrderIrrelevant
  <2>1. media \in ImageFile /\ text = PixText(media.pixels, media.width, media.height)
    BY Zenon DEF CodecInv, Encodes
  <2> QED
    BY <2>1, ImageText
<1> QED
  BY <1>1, CodecInvariant, PTL

\* decryptImage and decryptVideo give the writer the image that encryptImage
\* read, whatever its size, changed by nothing but the colour code
\* (pixel_to_text.cpp:11-17, text_to_pixel.cpp:16-26).
THEOREM ImagesComeBack == Spec => []ImageComesBack
<1>1. CodecInv => ImageComesBack
  BY ImagesDecoded DEF ImageComesBack
<1> QED
  BY <1>1, CodecInvariant, PTL

\* decryptVideo finds the frames and the sound that encryptVideo joined,
\* however many and of whatever size (video_text_joiner.cpp:9-20,
\* decrypt_video.cpp:24-62).
THEOREM VideosComeBack == Spec => []VideoComesBack
<1>1. ASSUME CodecInv, encryptor = "encryptVideo"
      PROVE  /\ SplitAudio(text).audio = sampleToText(media.samples, rate, nanAs)
             /\ phase = "decoded" /\ decryptor = "decryptVideo" =>
                  /\ Len(frameTexts) = Len(media.frames)
                  /\ \A i \in DOMAIN frameTexts :
                       textToPixel(frameTexts[i]) = Image(media.width, media.frames[i])
                  /\ media.frames # <<>> =>
                       /\ image.width = media.width /\ image.height = media.height
                       /\ image.pixels = Image(media.width, FlattenSeq(media.frames)).pixels
  <2>0. Typed /\ Encodes /\ Decodes
    BY <1>1 DEF CodecInv
  <2> DEFINE F == media.frames
             w == media.width
             h == media.height
             s == media.samples
             ns == Levels(s, rate, nanAs)
  <2>1. media \in VideoFile /\ text = Film(F, w, h, ns)
    BY <1>1, <2>0 DEF Encodes
  <2>2. w \in Nat \ {0} /\ h \in Nat \ {0} /\ F \in Seq(Shots(w, h)) /\ s \in Seq(AnySample)
    BY <2>1, VideoFiles
  <2>3. rate \in Int /\ nanAs \in Int
    BY <2>0 DEF Typed
  <2> HIDE DEF F, w, h, s
  <2>4. ns \in Seq(Int) /\ sampleToText(s, rate, nanAs) = LoudText(ns)
    BY <2>2, <2>3, LevelsAre, SampleText
  <2> HIDE DEF ns
  <2>5. /\ SplitFrames(SplitAudio(text).video) = ShotTexts(F, w, h)
        /\ SplitAudio(text).audio = LoudText(ns)
    BY <2>1, <2>2, <2>4, FilmSplits
  <2>6. ASSUME phase = "decoded", decryptor = "decryptVideo"
        PROVE  /\ Len(frameTexts) = Len(F)
               /\ \A i \in DOMAIN frameTexts : textToPixel(frameTexts[i]) = Image(w, F[i])
               /\ F # <<>> => /\ image.width = w /\ image.height = h
                              /\ image.pixels = Image(w, FlattenSeq(F)).pixels
    <3>1. frameTexts = ShotTexts(F, w, h) /\ image = VideoImage(frameTexts)
      BY <1>1, <2>0, <2>5, <2>6 DEF Decodes
    <3>2. Len(F) \in Nat /\ \A i \in 1..Len(F) : F[i] \in Shots(w, h)
      BY <2>2
    <3>3. Len(ShotTexts(F, w, h)) = Len(F) /\ DOMAIN ShotTexts(F, w, h) = 1..Len(F)
      BY <3>2 DEF ShotTexts
    <3>4. ASSUME NEW i \in 1..Len(F)
          PROVE  textToPixel(frameTexts[i]) = Image(w, F[i])
      <4> DEFINE P == F[i]
      <4>1. frameTexts[i] = PixText(P, w, h)
        BY <3>1, Zenon DEF ShotTexts
      <4>2. P \in Seq(Color) /\ Len(P) = w * h
        BY <3>2, Zenon DEF Shots
      <4> HIDE DEF P
      <4>3. textToPixel(PixText(P, w, h)) = Image(w, P)
        BY <2>2, <4>2, PictureComesBack
      <4> QED
        BY <4>1, <4>3 DEF P
    <3>5. ASSUME F # <<>>
          PROVE  /\ image.width = w /\ image.height = h
                 /\ image.pixels = Image(w, FlattenSeq(F)).pixels
      <4> DEFINE f == FlattenSeq(F)
                 m == Map(Recolour, f)
      <4>1. VideoImage(ShotTexts(F, w, h)) = [width |-> w, height |-> h, pixels |-> m]
        BY <2>2, <3>5, VideoIs
      <4>2. f \in Seq(Color)
        BY <2>2, FramesEnough
      <4> HIDE DEF f
      <4>3. Image(w, f).pixels = m
        <5>1. CASE f = <<>>
          <6>1. m = <<>>
            BY <5>1, MapEmpty
          <6> QED
            BY <5>1, <6>1, <4>2, ImageIs, NoImageType
        <5>2. CASE f # <<>>
          <6>1. Image(w, f) = [width |-> w, height |-> Len(f) \div w, pixels |-> m]
            BY <5>2, <4>2, ImageIs
          <6>2. \A a, b, c : [width |-> a, height |-> b, pixels |-> c].pixels = c
            OBVIOUS
          <6> QED
            BY <6>1, <6>2, Zenon
        <5> QED
          BY <5>1, <5>2
      <4> HIDE DEF m
      <4>4. /\ [width |-> w, height |-> h, pixels |-> m].width = w
            /\ [width |-> w, height |-> h, pixels |-> m].height = h
            /\ [width |-> w, height |-> h, pixels |-> m].pixels = m
        OBVIOUS
      <4> QED
        BY <3>1, <4>1, <4>3, <4>4, Zenon DEF f
    <3> QED
      BY <3>1, <3>3, <3>4, <3>5, Zenon
  <2> QED
    BY <2>4, <2>5, <2>6 DEF F, w, h, s
<1>2. CodecInv => VideoComesBack
  BY <1>1 DEF VideoComesBack, FramesComeBack, SoundSplitsExactly
<1> QED
  BY <1>2, CodecInvariant, PTL

\* The amplitudes in the text of sound, and what textToAudio makes of it.
LEMMA SoundIs ==
  ASSUME CodecInv, encryptor \in {"encryptVideo", "encryptAudio"}
  PROVE  LET s == media.samples
             ns == Levels(s, rate, nanAs)
         IN  /\ s \in Seq(AnySample) /\ rate \in Int /\ nanAs \in Int /\ nanAs <= 100
             /\ ns \in Seq(Int) /\ Amplitudes = ns
             /\ textToAudio(text) = Map(ToSample, ns)
<1>0. Typed /\ Encodes
  BY DEF CodecInv
<1> DEFINE s == media.samples
           ns == Levels(s, rate, nanAs)
<1>1. rate \in Int /\ nanAs \in Int /\ nanAs <= 100
  BY <1>0 DEF Typed
<1>2. s \in Seq(AnySample)
  BY <1>0, VideoFiles, SoundFiles DEF Encodes
<1>3. ns \in Seq(Int)
  <2> HIDE DEF s
  <2> QED
    BY <1>1, <1>2, LevelsAre
<1>4. CASE encryptor = "encryptVideo"
  <2> DEFINE F == media.frames
             w == media.width
             h == media.height
  <2>1. media \in VideoFile /\ text = Film(F, w, h, ns)
    BY <1>0, <1>4 DEF Encodes
  <2>2. w \in Nat /\ h \in Nat /\ F \in Seq(Shots(w, h))
    BY <2>1, VideoFiles
  <2> HIDE DEF F, w, h, ns
  <2>3. textToAudio(Film(F, w, h, ns)) = Map(ToSample, ns) /\ Numbers(Film(F, w, h, ns)) = ns
    BY <1>3, <2>2, FilmSounds
  <2> QED
    BY <1>1, <1>2, <1>3, <2>1, <2>3, Zenon DEF ns, Amplitudes
<1>5. CASE encryptor = "encryptAudio"
  <2>1. text = LoudText(ns)
    BY <1>0, <1>5 DEF Encodes
  <2> HIDE DEF ns
  <2>2. textToAudio(LoudText(ns)) = Map(ToSample, ns) /\ Numbers(LoudText(ns)) = ns
    BY <1>3, SoundAlone
  <2> QED
    BY <1>1, <1>2, <1>3, <2>1, <2>2, Zenon DEF ns, Amplitudes
<1> QED
  BY <1>4, <1>5

\* textToAudio finds the samples that sampleToText kept, each at most one
\* hundredth lower, and as many as samplesPerSecond asks for or less than
\* twice as many (sample_to_text.cpp:9-23, text_to_audio.cpp:8-25).
THEOREM SoundsComeBack == Spec => []SoundComesBack
<1>1. ASSUME CodecInv, encryptor \in {"encryptVideo", "encryptAudio"},
             phase = "decoded", decryptor = "decryptAudio"
      PROVE  LET step == StepOf(Len(media.samples), rate) IN
             /\ Len(samples) = Len(Amplitudes)
             /\ \A i \in DOMAIN samples :
                  LET s == media.samples[(i - 1) * step + 1]
                      limited == IF Abs(s.v) > 1000 THEN 1000 ELSE Abs(s.v)
                  IN  ~s.nan => limited - samples[i].v \in 0..10
  <2> DEFINE ss == media.samples
             ns == Levels(ss, rate, nanAs)
             step == StepOf(Len(ss), rate)
             m == Map(ToSample, ns)
  <2>1. /\ ss \in Seq(AnySample) /\ rate \in Int /\ nanAs \in Int
        /\ ns \in Seq(Int) /\ Amplitudes = ns /\ textToAudio(text) = m
    BY <1>1, SoundIs
  <2>2. samples = m
    BY <1>1, <2>1 DEF CodecInv, Decodes
  <2> HIDE DEF ss
  <2>3. \A i \in 1..Len(ns) : ss[(i - 1) * step + 1] \in AnySample /\ ns[i] = Amplitude(ss[(i - 1) * step + 1], nanAs)
    BY <2>1, LevelsAre
  <2>4. Len(m) = Len(ns) /\ DOMAIN m = 1..Len(ns)
    <3>1. ns \in Seq(Int)
      BY <2>1
    <3> HIDE DEF ns
    <3> QED
      BY <3>1, MapLen
  <2> HIDE DEF ns, step
  <2>5. ASSUME NEW i \in 1..Len(ns)
        PROVE  LET s == ss[(i - 1) * step + 1]
                   limited == IF Abs(s.v) > 1000 THEN 1000 ELSE Abs(s.v)
               IN  ~s.nan => limited - m[i].v \in 0..10
    <3> DEFINE s == ss[(i - 1) * step + 1]
               limited == IF Abs(s.v) > 1000 THEN 1000 ELSE Abs(s.v)
    <3>1. s \in AnySample /\ ns[i] = Amplitude(s, nanAs)
      BY <2>3
    <3>2. ns[i] \in Int
      BY <2>1
    <3>3. m[i].v = 10 * ns[i]
      <4>1. m[i] = ToSample[ns[i]]
        BY Zenon DEF Map
      <4> QED
        BY <3>2, <4>1, ToSampleType, Zenon
    <3> HIDE DEF s
    <3>4. ~s.nan => limited - 10 * Amplitude(s, nanAs) \in 0..10
      BY <2>1, <3>1, AmplitudeIs
    <3>5. ~s.nan => limited - m[i].v \in 0..10
      <4> HIDE DEF limited
      <4> QED
        BY <3>1, <3>3, <3>4, Zenon
    <3> QED
      BY <3>5 DEF s
  <2> HIDE DEF m
  <2>6. Len(samples) = Len(Amplitudes) /\ DOMAIN samples = 1..Len(ns)
    BY <2>1, <2>2, <2>4, Zenon
  <2>7. \A i \in 1..Len(ns) :
          LET s == ss[(i - 1) * step + 1]
              limited == IF Abs(s.v) > 1000 THEN 1000 ELSE Abs(s.v)
          IN  ~s.nan => limited - samples[i].v \in 0..10
    BY <2>2, <2>5
  <2> HIDE DEF ns
  <2> QED
    BY <2>6, <2>7 DEF ss, step
<1>2. ASSUME CodecInv, encryptor \in {"encryptVideo", "encryptAudio"}, rate > 0,
             Len(media.samples) >= rate, Len(media.samples) \div rate <= INT_MAX
      PROVE  Len(Amplitudes) \in rate..(2 * rate - 1)
  <2> DEFINE ss == media.samples
             N == Len(ss)
             ns == Levels(ss, rate, nanAs)
             step == StepOf(N, rate)
  <2>1. ss \in Seq(AnySample) /\ rate \in Int /\ nanAs \in Int /\ Amplitudes = ns
    BY <1>2, SoundIs
  <2>2. N >= rate /\ N \div rate <= INT_MAX
    BY <1>2
  <2> HIDE DEF ss
  <2>3. Len(ns) = (N + step - 1) \div step
    BY <2>1, LevelsAre
  <2>4. N \in Nat
    BY <2>1
  <2> HIDE DEF N, ns
  <2>5. step = N \div rate
    BY <1>2, <2>1, <2>2, <2>4, StepIs
  <2>6. rate \in Nat \ {0}
    BY <1>2, <2>1
  <2>7. (N + N \div rate - 1) \div (N \div rate) \in rate..(2 * rate - 1)
    BY <2>2, <2>4, <2>6, StepsBetween
  <2> QED
    BY <2>1, <2>3, <2>5, <2>7, Zenon
<1>3. CodecInv => SoundComesBack
  <2>1. CodecInv => SamplesComeBack
    BY <1>1 DEF SamplesComeBack
  <2>2. CodecInv => SampleCountBounded
    BY <1>2 DEF SampleCountBounded
  <2> QED
    BY <2>1, <2>2 DEF SoundComesBack
<1> QED
  BY <1>3, CodecInvariant, PTL

\* Whatever decryptor is called on the text of whatever encryptor, the writer
\* finds every pixel it reads, except where decryptImage takes the sound of a
\* video for rows of one pixel (text_to_pixel.cpp:20-26, decrypt_image.cpp).
THEOREM PixelsAreThere == Spec => []PixelsMissingOnlyBelowSound
<1>1. ASSUME CodecInv, phase = "decoded", encryptor # "foreign"
      PROVE  \/ Full(image)
             \/ /\ decryptor = "decryptImage" /\ encryptor = "encryptVideo"
                /\ media.samples # <<>> /\ media.width > 1
  <2>0. Typed /\ Encodes /\ Decodes
    BY <1>1 DEF CodecInv
  <2>1. CASE decryptor = "decryptAudio"
    BY <2>0, <2>1, <1>1, NoImageFull DEF Decodes
  <2>2. CASE encryptor = "encryptImage" /\ decryptor # "decryptAudio"
    <3> DEFINE P == media.pixels
               w == media.width
               h == media.height
    <3>1. P \in Seq(Color) /\ w \in Nat /\ h \in Nat /\ Len(P) = w * h
      BY <2>0, <2>2, ImageFiles DEF Encodes
    <3>2. image = Image(w, P)
      BY <1>1, <2>2, ImagesDecoded
    <3> HIDE DEF P, w, h
    <3>3. /\ image \in ImageData /\ image.pixels = Map(Recolour, P)
          /\ Len(Map(Recolour, P)) = image.width * image.height
      BY <3>1, <3>2, ImageExact
    <3>4. image.width * image.height >= image.width * image.height
      <4>1. image.width \in Nat /\ image.height \in Nat
        BY <3>3 DEF ImageData
      <4>2. image.width * image.height \in Nat
        BY <4>1
      <4> QED
        BY <4>2
    <3> QED
      BY <3>3, <3>4, Zenon DEF Full
  <2>3. CASE encryptor = "encryptVideo" /\ decryptor # "decryptAudio"
    <3> DEFINE F == media.frames
               w == media.width
               h == media.height
               ss == media.samples
               ns == Levels(ss, rate, nanAs)
    <3>1. media \in VideoFile /\ text = Film(F, w, h, ns)
      BY <2>0, <2>3 DEF Encodes
    <3>2. w \in Nat \ {0} /\ h \in Nat \ {0} /\ F \in Seq(Shots(w, h)) /\ ss \in Seq(AnySample)
      BY <3>1, VideoFiles
    <3>3. rate \in Int /\ nanAs \in Int
      BY <2>0 DEF Typed
    <3> HIDE DEF F, w, h, ss
    <3>4. ns \in Seq(Int)
      BY <3>2, <3>3, LevelsAre
    <3>5. ss = <<>> => ns = <<>>
      <4> DEFINE step == StepOf(Len(ss), rate)
      <4>1. step \in Nat \ {0} /\ Len(ns) = (Len(ss) + step - 1) \div step
        BY <3>2, <3>3, LevelsAre
      <4> HIDE DEF step
      <4>2. (0 + step - 1) \div step = 0
        BY <4>1
      <4>3. Len(<<>>) = 0
        OBVIOUS
      <4>4. ss = <<>> => Len(ns) = 0
        BY <4>1, <4>2, <4>3
      <4> HIDE DEF ns
      <4> QED
        BY <4>4, <3>4
    <3> HIDE DEF ns
    <3>6. CASE decryptor = "decryptVideo"
      <4>1. Full(VideoImage(SplitFrames(SplitAudio(text).video)))
        BY <3>1, <3>2, <3>4, FilmVideoFull
      <4> QED
        BY <4>1, <2>0, <1>1, <3>6 DEF Decodes
    <3>7. CASE decryptor = "decryptImage" /\ (ns = <<>> \/ w = 1)
      <4>1. Full(textToPixel(text))
        BY <3>1, <3>2, <3>4, <3>7, FilmFull
      <4> QED
        BY <4>1, <2>0, <1>1, <3>7 DEF Decodes
    <3>8. CASE decryptor = "decryptImage" /\ ns # <<>> /\ w # 1
      <4>1. w > 1
        BY <3>2, <3>8
      <4> QED
        BY <4>1, <3>5, <3>8, <2>3 DEF w, ss
    <3> QED
      BY <2>0, <2>3, <1>1, <3>6, <3>7, <3>8 DEF Decodes
  <2>4. CASE encryptor = "encryptAudio" /\ decryptor # "decryptAudio"
    <3> DEFINE ns == Levels(media.samples, rate, nanAs)
    <3>1. ns \in Seq(Int) /\ text = LoudText(ns)
      BY <2>0, <2>4, SoundFiles, LevelsAre DEF Encodes, Typed
    <3> HIDE DEF ns
    <3>2. /\ Full(textToPixel(text))
          /\ Full(VideoImage(SplitFrames(SplitAudio(text).video)))
      BY <3>1, SoundFull
    <3> QED
      BY <3>2, <2>0, <1>1, <2>4, Zenon DEF Decodes
  <2> QED
    BY <1>1, <2>0, <2>1, <2>2, <2>3, <2>4 DEF Encodes
<1>2. \A im : Full(im) => ~(Len(im.pixels) < im.width * im.height)
  <2> SUFFICES ASSUME NEW im, Full(im) PROVE ~(Len(im.pixels) < im.width * im.height)
    OBVIOUS
  <2>1. im \in ImageData /\ Len(im.pixels) >= im.width * im.height
    BY DEF Full
  <2>2. im.pixels \in Seq(Color) /\ im.width \in Nat /\ im.height \in Nat
    BY <2>1 DEF ImageData
  <2>3. Len(im.pixels) \in Nat /\ im.width * im.height \in Nat
    BY <2>2
  <2> QED
    BY <2>1, <2>3
<1>3. CodecInv => PixelsMissingOnlyBelowSound
  BY <1>1, <1>2, Zenon DEF PixelsMissingOnlyBelowSound
<1> QED
  BY <1>3, CodecInvariant, PTL

\* However often an image or sound is encoded and decoded, the letters of
\* every pixel stay, its colour is settled after two rounds, and an amplitude
\* falls by two at most (rgb_to_code.cpp, code_to_rgb.cpp, sample_to_text.cpp:14).
THEOREM EncodingSettles == Spec => []RepeatedEncodingSettles
<1>1. ASSUME CodecInv PROVE HueSurvives
  <2> SUFFICES ASSUME encryptor = "encryptImage" PROVE Hues(text) = Hues(first)
    BY DEF HueSurvives
  <2>0. Typed /\ Encodes /\ Rounds
    BY <1>1 DEF CodecInv
  <2> DEFINE P == media.pixels
             w == media.width
             h == media.height
  <2>1. P \in Seq(Color) /\ w \in Nat /\ h \in Nat /\ Len(P) = w * h /\ text = PixText(P, w, h)
    BY <2>0, ImageFiles DEF Encodes
  <2>2. Hues(first) = Map(Tint, P)
    BY <2>0, Zenon DEF Rounds, AfterRounds
  <2> HIDE DEF P, w, h
  <2>3. Hues(PixText(P, w, h)) = Map(Tint, P)
    BY <2>1, PictureHues
  <2> QED
    BY <2>1, <2>2, <2>3
<1>2. ASSUME CodecInv PROVE ColoursSettle
  <2> SUFFICES ASSUME phase = "media", media.kind = "image", generation >= 2,
                      NEW i \in DOMAIN media.pixels
               PROVE  Recoloured(media.pixels[i]) = media.pixels[i]
    BY DEF ColoursSettle
  <2>0. Typed /\ Encodes /\ Rounds
    BY <1>2 DEF CodecInv
  <2> DEFINE P == media.pixels
  <2>1. encryptor = "none" /\ generation \in Nat
    BY <2>0, Zenon DEF Encodes, Typed
  <2>2. generation # 0 /\ generation # 1
    BY <2>1
  <2>3. Shade(generation) = Settled
    BY <2>2, Zenon DEF Shade
  <2>4. P \in Seq(Shade(generation))
    BY <2>0, <2>1, Zenon DEF Rounds, AfterRounds
  <2>5. P \in Seq(Settled)
    BY <2>3, <2>4, Zenon
  <2>6. i \in DOMAIN P
    OBVIOUS
  <2> HIDE DEF P
  <2>7. P[i] \in Settled
    BY <2>5, <2>6
  <2> QED
    BY <2>7, RecolouredIs, Zenon DEF Settled, P
<1>3. ASSUME CodecInv PROVE AmplitudesSettle
  <2>0. Typed /\ Encodes
    BY <1>3 DEF CodecInv
  <2> SUFFICES ASSUME NEW i \in DOMAIN Amplitudes
               PROVE  LET once(n) == Amplitude(Sample(10 * n), nanAs)
                          n == Amplitudes[i]
                      IN  /\ encryptor # "foreign" => n <= 100
                          /\ n \in 0..100 => /\ once(n) \in (n - 1)..n
                                             /\ once(once(n)) >= n - 2
                                             /\ once(once(once(n))) = once(once(n))
    BY Zenon DEF AmplitudesSettle
  <2> DEFINE n == Amplitudes[i]
             once(k) == Amplitude(Sample(10 * k), nanAs)
  <2>1. ASSUME n \in 0..100
        PROVE  /\ once(n) \in (n - 1)..n
               /\ once(once(n)) >= n - 2
               /\ once(once(once(n))) = once(once(n))
    <3>1. n \in 0..100
      BY <2>1
    <3> HIDE DEF n
    <3> QED
      BY <3>1, AmplitudesFall
  <2>2. ASSUME encryptor # "foreign" PROVE n <= 100
    <3>1. CASE encryptor \in {"encryptVideo", "encryptAudio"}
      <4> DEFINE ss == media.samples
                 ns == Levels(ss, rate, nanAs)
                 step == StepOf(Len(ss), rate)
      <4>1. /\ ss \in Seq(AnySample) /\ rate \in Int /\ nanAs \in Int /\ nanAs <= 100
            /\ ns \in Seq(Int) /\ Amplitudes = ns
        BY <1>3, <3>1, SoundIs
      <4> HIDE DEF ss
      <4>2. \A j \in 1..Len(ns) : ss[(j - 1) * step + 1] \in AnySample /\ ns[j] = Amplitude(ss[(j - 1) * step + 1], nanAs)
        BY <4>1, LevelsAre
      <4>3. i \in 1..Len(ns)
        <5>1. DOMAIN ns = 1..Len(ns)
          <6>1. ns \in Seq(Int)
            BY <4>1
          <6> HIDE DEF ns
          <6> QED
            BY <6>1
        <5> QED
          BY <4>1, <5>1, Zenon
      <4> DEFINE s == ss[(i - 1) * step + 1]
      <4>4. s \in AnySample /\ ns[i] = Amplitude(s, nanAs)
        BY <4>2, <4>3, Zenon
      <4> HIDE DEF s, ns
      <4>5. Amplitude(s, nanAs) <= 100
        BY <4>1, <4>4, AmplitudeIs
      <4> QED
        BY <4>1, <4>4, <4>5, Zenon
    <3>2. CASE encryptor \notin {"encryptVideo", "encryptAudio"}
      <4>1. text \in Seq(Mute)
        <5>1. CASE encryptor = "none"
          BY <2>0, <5>1 DEF Encodes
        <5>2. CASE encryptor = "encryptImage"
          <6> DEFINE P == media.pixels
                     w == media.width
                     h == media.height
          <6>1. P \in Seq(Color) /\ w \in Nat /\ h \in Nat /\ Len(P) = w * h /\ text = PixText(P, w, h)
            BY <2>0, <5>2, ImageFiles DEF Encodes
          <6> HIDE DEF P, w, h
          <6>2. PixText(P, w, h) \in Seq(PixelToken)
            BY <6>1, PixTextOver
          <6> QED
            BY <6>1, <6>2, PixelsAreMute, Zenon
        <5> QED
          BY <2>0, <2>2, <3>2, <5>1, <5>2 DEF Encodes
      <4>2. Amplitudes = <<>>
        BY <4>1, MuteNumbers, Zenon DEF Amplitudes
      <4> QED
        BY <4>2
    <3> QED
      BY <3>1, <3>2
  <2> HIDE DEF n, once
  <2> QED
    BY <2>1, <2>2 DEF n, once
<1>4. CodecInv => RepeatedEncodingSettles
  BY <1>1, <1>2, <1>3 DEF RepeatedEncodingSettles
<1> QED
  BY <1>4, CodecInvariant, PTL

(***************************************************************************)
(* The text tools: the words of a whole text, whatever its lines           *)
(***************************************************************************)

White == {SP, NL}

\* A turn of a loop over all of a text: white space of either kind ends a word.
AddAny ==
  [acc \in WordState |-> [c \in Token |->
     IF c \in White THEN [done |-> WithWord(acc), word |-> NoWord]
                    ELSE [done |-> acc.done, word |-> Glue(acc.word, c)]]]

Reading(t) == Fold(AddAny, WordsBegin, t)
AllWords(t) == WithWord(Reading(t))

LEMMA AnyTurn ==
  ASSUME NEW acc \in WordState, NEW c \in Token
  PROVE  /\ c \in White => AddAny[acc][c] = [done |-> WithWord(acc), word |-> NoWord]
         /\ c \notin White => AddAny[acc][c] = [done |-> acc.done, word |-> Glue(acc.word, c)]
         /\ AddAny[acc][c] \in WordState
<1>1. acc.done \in Text /\ acc.word \in Token
  BY DEF WordState
<1>2. AddAny[acc][c] = IF c \in White THEN [done |-> WithWord(acc), word |-> NoWord]
                                      ELSE [done |-> acc.done, word |-> Glue(acc.word, c)]
  BY Zenon DEF AddAny
<1>3. WithWord(acc) \in Text /\ Glue(acc.word, c) \in Token /\ NoWord \in Token
  BY <1>1, WithWordType, GlueType, TokenFacts, Zenon
<1>4. \A a \in Text, b \in Token : [done |-> a, word |-> b] \in WordState
  BY DEF WordState
<1> QED
  BY <1>1, <1>2, <1>3, <1>4, Zenon

LEMMA BeginType ==
  /\ WordsBegin \in WordState /\ WithWord(WordsBegin) = <<>>
  /\ WordsBegin.done = <<>> /\ WordsBegin.word = NoWord
<1>1. <<>> \in Text /\ NoWord \in Token
  BY TextSums, TokenFacts, Zenon
<1>2. WordsBegin.done = <<>> /\ WordsBegin.word = NoWord
  BY DEF WordsBegin
<1> QED
  BY <1>1, <1>2 DEF WordsBegin, WordState, WithWord

LEMMA ReadingGrows ==
  /\ Reading(<<>>) = WordsBegin
  /\ \A t \in Text : Reading(t) \in WordState
  /\ \A t \in Text, c \in Token : Reading(Append(t, c)) = AddAny[Reading(t)][c]
  /\ \A t, u \in Text : Reading(t \o u) = Fold(AddAny, Reading(t), u)
<1>1. Reading(<<>>) = WordsBegin
  BY FoldEmpty DEF Reading
<1>2. /\ \A t \in Text, c \in Token : Reading(Append(t, c)) = AddAny[Reading(t)][c]
      /\ \A t, u \in Text : Reading(t \o u) = Fold(AddAny, Reading(t), u)
  BY TextFold DEF Reading
<1>3. \A a \in WordState, c \in Token : AddAny[a][c] \in WordState
  BY AnyTurn
<1>4. ASSUME NEW t \in Text PROVE Reading(t) \in WordState
  BY <1>3, BeginType, FoldInvariant DEF Reading, Text
<1> QED
  BY <1>1, <1>2, <1>4

\* The words of lines, one line after another.
AddWords == [acc \in Text |-> [line \in Text |-> acc \o Words(line)]]
LineWords(ls) == Fold(AddWords, <<>>, ls)

LEMMA LineWordsGrow ==
  /\ LineWords(<<>>) = <<>>
  /\ \A ls \in Seq(Text) : LineWords(ls) \in Text
  /\ \A ls \in Seq(Text), l \in Text : LineWords(Append(ls, l)) = LineWords(ls) \o Words(l)
<1>1. LineWords(<<>>) = <<>>
  BY FoldEmpty DEF LineWords
<1>2. \A ls \in Seq(Text), l \in Text : LineWords(Append(ls, l)) = AddWords[LineWords(ls)][l]
  BY LinesFold DEF LineWords
<1>3. \A a \in Text, l \in Text : AddWords[a][l] = a \o Words(l)
  BY Zenon DEF AddWords
<1>4. \A a \in Text, l \in Text : AddWords[a][l] \in Text
  <2>1. \A a, b \in Text : a \o b \in Text
    BY TextSums, Zenon
  <2> SUFFICES ASSUME NEW a \in Text, NEW l \in Text PROVE AddWords[a][l] \in Text
    OBVIOUS
  <2>2. a \o Words(l) \in Text
    BY <2>1, WordsType, Zenon
  <2> QED
    BY <2>2, <1>3, Zenon
<1>5. <<>> \in Text
  BY TextSums, Zenon
<1> DEFINE T == Text
<1> HIDE DEF T
<1>6. <<>> \in T /\ \A a \in T, l \in T : AddWords[a][l] \in T
  BY <1>4, <1>5 DEF T
<1>7. ASSUME NEW ls \in Seq(T) PROVE LineWords(ls) \in T
  BY <1>6, FoldInvariant DEF LineWords
<1>8. \A ls \in Seq(Text) : LineWords(ls) \in Text
  BY <1>7 DEF T
<1> QED
  BY <1>1, <1>2, <1>3, <1>8, Zenon

\* A word that ends is the last one.
LEMMA WordEnds ==
  ASSUME NEW d \in Text, NEW acc \in WordState
  PROVE  /\ [done |-> d \o acc.done, word |-> acc.word] \in WordState
         /\ WithWord([done |-> d \o acc.done, word |-> acc.word]) = d \o WithWord(acc)
<1> DEFINE s == [done |-> d \o acc.done, word |-> acc.word]
<1>1. acc.done \in Text /\ acc.word \in Token
  BY DEF WordState
<1>2. d \o acc.done \in Text
  BY <1>1, TextSums, Zenon
<1>3. s \in WordState /\ s.done = d \o acc.done /\ s.word = acc.word
  BY <1>1, <1>2 DEF WordState
<1> HIDE DEF s
<1>4. d \o Append(acc.done, acc.word) = Append(d \o acc.done, acc.word)
  BY <1>1, TextSums, Zenon
<1>5. WithWord(s) = d \o WithWord(acc)
  BY <1>3, <1>4, Zenon DEF WithWord
<1> QED
  BY <1>3, <1>5 DEF s

LEMMA WordsGrow ==
  \A l \in Text, x \in Token :
    Fold(AddToWord, WordsBegin, Append(l, x)) = AddToWord[Fold(AddToWord, WordsBegin, l)][x]
BY TextFold

\* Reading a text and reading its lines one by one comes to the same.
Follows(t) ==
  LET end == Fold(AddToLine, NoLine, t)
      last == Fold(AddToWord, WordsBegin, end.line)
  IN  Reading(t) = [done |-> LineWords(end.done) \o last.done, word |-> last.word]

LEMMA ReadingFollows ==
  \A t \in Text : Follows(t)
<1> DEFINE H == {t \in Text : Follows(t)}
<1>1. <<>> \in H
  <2>1. Fold(AddToLine, NoLine, <<>>) = NoLine /\ NoLine.line = <<>> /\ NoLine.done = <<>>
    BY FoldEmpty, NoFrameType
  <2>2. Fold(AddToWord, WordsBegin, <<>>) = WordsBegin
    BY FoldEmpty
  <2>3. LineWords(<<>>) \o <<>> = <<>> /\ <<>> \in Text
    BY LineWordsGrow, TextSums, Zenon
  <2>4. WordsBegin = [done |-> <<>>, word |-> NoWord]
    BY DEF WordsBegin
  <2> QED
    BY <2>1, <2>2, <2>3, <2>4, BeginType, ReadingGrows, Zenon DEF Follows
<1>2. ASSUME NEW t \in Text, NEW c \in Token, t \in H
      PROVE  Append(t, c) \in H
  <2> DEFINE e == Fold(AddToLine, NoLine, t)
             f == Fold(AddToLine, NoLine, Append(t, c))
             a == Fold(AddToWord, WordsBegin, e.line)
             d == LineWords(e.done)
             r == Reading(t)
  <2>1. e \in LineState /\ f = AddToLine[e][c]
    <3>1. e \in LineState
      BY NoFrameType, TextSums, LineFold, Zenon
    <3>2. f = AddToLine[e][c]
      BY TextFold
    <3> QED
      BY <3>1, <3>2
  <2>2. e.done \in Seq(Text) /\ e.line \in Text
    BY <2>1 DEF LineState
  <2>3. a \in WordState /\ d \in Text
    BY <2>2, BeginType, WordFold, TextSums, LineWordsGrow, Zenon
  <2>4. r = [done |-> d \o a.done, word |-> a.word]
    BY <1>2, Zenon DEF Follows
  <2>5. /\ r \in WordState /\ WithWord(r) = d \o WithWord(a)
        /\ r.done = d \o a.done /\ r.word = a.word
    <3> HIDE DEF r, d, a
    <3>1. r \in WordState /\ WithWord(r) = d \o WithWord(a)
      BY <2>3, <2>4, WordEnds, Zenon
    <3> QED
      BY <3>1, <2>4
  <2>6. Append(t, c) \in Text /\ Reading(Append(t, c)) = AddAny[r][c]
    BY ReadingGrows, TextSums, Zenon
  <2>7. Words(e.line) = WithWord(a)
    BY Zenon DEF Words, WordsBegin
  <2>8. \A x \in Text, y \in Seq(Text) : [done |-> y, line |-> x].done = y /\ [done |-> y, line |-> x].line = x
    OBVIOUS
  <2>9. \A x \in Text, y \in Token : [done |-> x, word |-> y].done = x /\ [done |-> x, word |-> y].word = y
    OBVIOUS
  <2>10. WithWord(a) \in Text /\ a.done \in Text /\ a.word \in Token
    <3>1. a.done \in Text /\ a.word \in Token
      BY <2>3 DEF WordState
    <3> QED
      BY <3>1, <2>3, WithWordType, Zenon
  <2> HIDE DEF e, f, a, d, r
  <2>11. CASE c = NL
    <3>1. f = [done |-> Append(e.done, e.line), line |-> <<>>]
      BY <2>1, <2>11, LineTurn, Zenon
    <3>2. f.done = Append(e.done, e.line) /\ f.line = <<>>
      BY <3>1
    <3>3. LineWords(f.done) = d \o WithWord(a)
      BY <3>2, <2>2, <2>7, LineWordsGrow, Zenon DEF d
    <3>4. Fold(AddToWord, WordsBegin, f.line) = WordsBegin
      BY <3>2, FoldEmpty
    <3>5. d \o WithWord(a) \in Text /\ (d \o WithWord(a)) \o <<>> = d \o WithWord(a)
      BY <2>3, <2>10, TextSums, Zenon
    <3>6. AddAny[r][c] = [done |-> d \o WithWord(a), word |-> NoWord]
      BY <2>5, <2>11, AnyTurn, Zenon DEF White
    <3>7. Reading(Append(t, c)) = [done |-> LineWords(f.done) \o WordsBegin.done, word |-> WordsBegin.word]
      BY <3>3, <3>5, <3>6, <2>6, BeginType, Zenon
    <3>8. Follows(Append(t, c))
      BY <3>7, <3>4, Zenon DEF Follows, f
    <3> QED
      BY <3>8, <2>6, Zenon
  <2>12. CASE c # NL
    <3> DEFINE b == AddToWord[a][c]
    <3>1. f = [done |-> e.done, line |-> Append(e.line, c)]
      BY <2>1, <2>12, LineTurn, Zenon
    <3>2. f.done = e.done /\ f.line = Append(e.line, c)
      BY <3>1
    <3>3. Fold(AddToWord, WordsBegin, f.line) = b
      <4>1. Fold(AddToWord, WordsBegin, Append(e.line, c)) = AddToWord[Fold(AddToWord, WordsBegin, e.line)][c]
        BY <2>2, WordsGrow, Zenon
      <4> QED
        BY <4>1, <3>2, Zenon DEF a
    <3>4. Reading(Append(t, c)) = [done |-> d \o b.done, word |-> b.word]
      <4>1. CASE c = SP
        <5>1. b = [done |-> WithWord(a), word |-> NoWord]
          BY <2>3, <4>1, WordTurn, Zenon
        <5>2. b.done = WithWord(a) /\ b.word = NoWord
          BY <5>1
        <5>3. AddAny[r][c] = [done |-> d \o WithWord(a), word |-> NoWord]
          BY <2>5, <4>1, AnyTurn, Zenon DEF White
        <5> QED
          BY <5>2, <5>3, <2>6, Zenon
      <4>2. CASE c # SP
        <5>1. b = [done |-> a.done, word |-> Glue(a.word, c)]
          BY <2>3, <4>2, WordTurn, Zenon
        <5>2. b.done = a.done /\ b.word = Glue(a.word, c)
          BY <5>1
        <5>3. c \notin White
          BY <2>12, <4>2, Zenon DEF White
        <5>4. AddAny[r][c] = [done |-> d \o a.done, word |-> Glue(a.word, c)]
          BY <2>5, <5>3, AnyTurn, Zenon
        <5> QED
          BY <5>2, <5>4, <2>6, Zenon
      <4> QED
        BY <4>1, <4>2
    <3> HIDE DEF b
    <3>5. Follows(Append(t, c))
      BY <3>4, <3>2, <3>3, Zenon DEF Follows, f, d
    <3> QED
      BY <3>5, <2>6, Zenon
  <2> QED
    BY <2>11, <2>12
<1> DEFINE T == Token
<1> HIDE DEF H, T
<1>3. \A s \in Seq(T), x \in T : s \in H => Append(s, x) \in H
  BY <1>2 DEF T, Text
<1>4. Seq(T) \subseteq H
  BY <1>1, <1>3, SeqInduction
<1> QED
  BY <1>4 DEF H, T, Text

\* The words of a text are those of its lines.
LEMMA AllWordsAre ==
  \A t \in Text : AllWords(t) \in Text /\ AllWords(t) = LineWords(Lines(t))
<1> SUFFICES ASSUME NEW t \in Text
             PROVE  AllWords(t) \in Text /\ AllWords(t) = LineWords(Lines(t))
  OBVIOUS
<1> DEFINE e == Fold(AddToLine, NoLine, t)
           a == Fold(AddToWord, WordsBegin, e.line)
           d == LineWords(e.done)
<1>1. e \in LineState
  BY NoFrameType, TextSums, LineFold, Zenon
<1>2. Lines(t) = IF e.line = <<>> THEN e.done ELSE Append(e.done, e.line)
  BY Zenon DEF Lines
<1>3. Reading(t) = [done |-> d \o a.done, word |-> a.word]
  BY ReadingFollows, Zenon DEF Follows
<1>4. e.done \in Seq(Text) /\ e.line \in Text
  BY <1>1 DEF LineState
<1>5. a \in WordState /\ d \in Text
  BY <1>4, BeginType, WordFold, TextSums, LineWordsGrow, Zenon
<1>6. Words(e.line) = WithWord(a)
  BY Zenon DEF Words, WordsBegin
<1> HIDE DEF e, a
<1>7. AllWords(t) = d \o WithWord(a)
  BY <1>3, <1>5, WordEnds, Zenon DEF AllWords
<1>8. WithWord(a) \in Text
  BY <1>5, WithWordType, Zenon
<1>9. d \o WithWord(a) \in Text
  BY <1>5, <1>8, TextSums, Zenon
<1>10. CASE e.line = <<>>
  <2>1. WithWord(a) = <<>>
    BY <1>6, <1>10, WordsEmpty, Zenon
  <2>2. d \o <<>> = d
    BY <1>5, TextSums, Zenon
  <2> QED
    BY <2>1, <2>2, <1>2, <1>7, <1>9, <1>10, Zenon
<1>11. CASE e.line # <<>>
  <2>1. LineWords(Append(e.done, e.line)) = d \o WithWord(a)
    BY <1>4, <1>6, LineWordsGrow, Zenon
  <2> QED
    BY <2>1, <1>2, <1>7, <1>9, <1>11, Zenon
<1> QED
  BY <1>10, <1>11

LEMMA DecodeConcat ==
  \A p, q \in Text : Map(Decode, p \o q) = Map(Decode, p) \o Map(Decode, q)
<1> DEFINE H(p) == {q \in Text : Map(Decode, p \o q) = Map(Decode, p) \o Map(Decode, q)}
<1>0. \A s \in Text, x \in Token : Map(Decode, Append(s, x)) = Append(Map(Decode, s), Decode[x])
  BY DecodeType, MapAppend DEF Text
<1>1. \A s \in Text : Map(Decode, s) \in Seq(Color)
  BY DecodeType, MapType DEF Text
<1>2. ASSUME NEW p \in Text PROVE \A q \in Text : q \in H(p)
  <2> DEFINE P == Map(Decode, p)
  <2>1. <<>> \in H(p)
    <3>1. p \o <<>> = p /\ <<>> \in Text
      BY TextSums, Zenon
    <3>2. P \in Seq(Color) /\ Map(Decode, <<>>) = <<>>
      BY <1>1, MapEmpty
    <3>3. P \o <<>> = P
      BY <3>2
    <3> QED
      BY <3>1, <3>2, <3>3, Zenon
  <2>2. ASSUME NEW q \in Text, NEW x \in Token, q \in H(p) PROVE Append(q, x) \in H(p)
    <3> DEFINE Q == Map(Decode, q)
    <3>1. /\ Append(q, x) \in Text /\ p \o q \in Text
          /\ p \o Append(q, x) = Append(p \o q, x)
      BY TextSums, Zenon
    <3>2. Map(Decode, p \o q) = P \o Q
      BY <2>2, Zenon
    <3>3. /\ Map(Decode, Append(p \o q, x)) = Append(Map(Decode, p \o q), Decode[x])
          /\ Map(Decode, Append(q, x)) = Append(Q, Decode[x])
      BY <1>0, <3>1, Zenon
    <3>4. P \in Seq(Color) /\ Q \in Seq(Color) /\ Decode[x] \in Color
      BY <1>1, DecodeType
    <3> HIDE DEF P, Q
    <3>5. P \o Append(Q, Decode[x]) = Append(P \o Q, Decode[x])
      BY <3>4, AppendConcat
    <3>6. Map(Decode, p \o Append(q, x)) = P \o Map(Decode, Append(q, x))
      BY <3>1, <3>2, <3>3, <3>5, Zenon
    <3> QED
      BY <3>1, <3>6, Zenon DEF P
  <2> DEFINE T == Token
             G == H(p)
  <2> HIDE DEF T, G
  <2>3. <<>> \in G /\ \A s \in Seq(T), x \in T : s \in G => Append(s, x) \in G
    BY <2>1, <2>2 DEF T, G, Text
  <2>4. Seq(T) \subseteq G
    BY <2>3, SeqInduction
  <2> QED
    BY <2>4 DEF T, G, Text
<1> QED
  BY <1>2, Zenon

\* textToPixel decodes the words of a text, one after another.
LEMMA PixelsAreWords ==
  \A t \in Text : textToPixel(t).pixels = Map(Decode, AllWords(t))
<1> DEFINE H == {ls \in Seq(Text) :
                   /\ Fold(AddRowStep, NoImage, ls) \in ImageData
                   /\ Fold(AddRowStep, NoImage, ls).pixels = Map(Decode, LineWords(ls))}
<1>1. <<>> \in H
  <2>1. Fold(AddRowStep, NoImage, <<>>) = NoImage /\ Map(Decode, <<>>) = <<>>
    BY FoldEmpty, MapEmpty
  <2> QED
    BY <2>1, NoImageType, LineWordsGrow, TextSums, Zenon
<1>2. ASSUME NEW ls \in Seq(Text), NEW l \in Text, ls \in H
      PROVE  Append(ls, l) \in H
  <2> DEFINE im == Fold(AddRowStep, NoImage, ls)
             new == Fold(AddRowStep, NoImage, Append(ls, l))
             ws == LineWords(ls)
  <2>1. new = AddRow(im, l) /\ new \in ImageData
    <3>1. new = AddRowStep[im][l]
      BY NoImageType, RowFold, Zenon
    <3>2. im \in ImageData
      BY <1>2, Zenon
    <3> HIDE DEF im, new
    <3> QED
      BY <3>1, <3>2, RowTurn, Zenon
  <2>2. im \in ImageData /\ im.pixels = Map(Decode, ws)
    BY <1>2, Zenon
  <2>3. /\ Append(ls, l) \in Seq(Text) /\ ws \in Text /\ Words(l) \in Text
        /\ LineWords(Append(ls, l)) = ws \o Words(l)
    BY LineWordsGrow, LineSums, WordsType, Zenon
  <2> HIDE DEF im, new, ws
  <2>4. Map(Decode, ws \o Words(l)) = im.pixels \o PixelsOf(l)
    BY <2>2, <2>3, DecodeConcat, Zenon DEF PixelsOf
  <2>5. CASE l = <<>>
    <3>1. new = im
      BY <2>1, <2>2, <2>5, RowTurn, Zenon
    <3>2. ws \o Words(l) = ws
      BY <2>5, <2>3, WordsEmpty, TextSums, Zenon
    <3>3. new.pixels = Map(Decode, LineWords(Append(ls, l)))
      BY <3>1, <3>2, <2>2, <2>3, Zenon
    <3> QED
      BY <3>3, <2>1, <2>3, Zenon DEF new
  <2>6. CASE l # <<>>
    <3>1. new.pixels = im.pixels \o PixelsOf(l)
      <4>1. AddRow(im, l) =
                [pixels |-> im.pixels \o PixelsOf(l),
                 width  |-> IF im.width = 0 THEN Len(im.pixels \o PixelsOf(l)) \div (im.height + 1)
                                             ELSE im.width,
                 height |-> im.height + 1]
        BY <2>2, <2>6, RowTurn, Zenon
      <4> QED
        BY <4>1, <2>1
    <3>2. new.pixels = Map(Decode, LineWords(Append(ls, l)))
      BY <3>1, <2>3, <2>4, Zenon
    <3> QED
      BY <3>2, <2>1, <2>3, Zenon DEF new
  <2> QED
    BY <2>5, <2>6
<1> DEFINE T == Text
<1> HIDE DEF H, T
<1>3. \A s \in Seq(T), x \in T : s \in H => Append(s, x) \in H
  BY <1>2 DEF T
<1>4. Seq(T) \subseteq H
  BY <1>1, <1>3, SeqInduction
<1>5. \A ls \in Seq(Text) : Fold(AddRowStep, NoImage, ls).pixels = Map(Decode, LineWords(ls))
  BY <1>4, Zenon DEF H, T
<1>6. ASSUME NEW t \in Text PROVE textToPixel(t).pixels = Map(Decode, AllWords(t))
  <2>1. textToPixel(t) = Fold(AddRowStep, NoImage, Lines(t))
    BY DEF textToPixel, AddRowStep
  <2>2. Lines(t) \in Seq(Text) /\ AllWords(t) = LineWords(Lines(t))
    BY LinesType, AllWordsAre, Zenon
  <2> QED
    BY <1>5, <2>1, <2>2, Zenon
<1> QED
  BY <1>6

\* Texts with the same words have the same pixels.
LEMMA SamePixels ==
  ASSUME NEW t \in Text, NEW u \in Text, AllWords(t) = AllWords(u)
  PROVE  textToPixel(t).pixels = textToPixel(u).pixels
BY PixelsAreWords, Zenon

\* After a word has ended, more white space changes nothing.
LEMMA WhiteSpace ==
  \A s \in WordState, c \in White :
    /\ AddAny[s][c] \in WordState
    /\ AddAny[s][c].word = NoWord
    /\ WithWord(AddAny[s][c]) = WithWord(s)
    /\ s.word = NoWord => AddAny[s][c] = s
<1> SUFFICES ASSUME NEW s \in WordState, NEW c \in White
             PROVE  /\ AddAny[s][c] \in WordState
                    /\ AddAny[s][c].word = NoWord
                    /\ WithWord(AddAny[s][c]) = WithWord(s)
                    /\ s.word = NoWord => AddAny[s][c] = s
  BY Zenon
<1> DEFINE n == AddAny[s][c]
<1>1. c \in Token
  BY TokenFacts, Zenon DEF White
<1>2. n = [done |-> WithWord(s), word |-> NoWord] /\ n \in WordState
  BY <1>1, AnyTurn, Zenon
<1> HIDE DEF n
<1>3. n.done = WithWord(s) /\ n.word = NoWord
  BY <1>2
<1>4. WithWord(n) = WithWord(s)
  BY <1>3, Zenon DEF WithWord
<1>5. ASSUME s.word = NoWord PROVE n = s
  <2>1. s = [done |-> s.done, word |-> s.word]
    BY DEF WordState
  <2>2. WithWord(s) = s.done
    BY <1>5, Zenon DEF WithWord
  <2> QED
    BY <2>1, <2>2, <1>2, <1>5, Zenon
<1> QED
  BY <1>2, <1>3, <1>4, <1>5, Zenon DEF n

-----------------------------------------------------------------------------
(***************************************************************************)
(* removeExtraSpaces                                                       *)
(***************************************************************************)

Squeeze ==
  [acc \in Text |-> [c \in Token |->
     IF c = SP /\ acc # <<>> /\ Last(acc) = SP THEN acc ELSE Append(acc, c)]]

LEMMA SpacesRemoved ==
  \A t \in Text : /\ removeExtraSpaces(t) \in Text
                  /\ AllWords(removeExtraSpaces(t)) = AllWords(t)
<1> DEFINE R(t) == Fold(Squeeze, <<>>, t)
           H == {t \in Text : /\ R(t) \in Text /\ Reading(R(t)) = Reading(t)
                              /\ R(t) # <<>> /\ Last(R(t)) = SP => Reading(t).word = NoWord}
<1>0. \A t \in Text, c \in Token : R(Append(t, c)) = Squeeze[R(t)][c]
  BY TextFold
<1>1. <<>> \in H
  <2>1. R(<<>>) = <<>>
    BY FoldEmpty
  <2> QED
    BY <2>1, TextSums, Zenon
<1>2. ASSUME NEW t \in Text, NEW c \in Token, t \in H PROVE Append(t, c) \in H
  <2> DEFINE r == R(t)
             n == R(Append(t, c))
  <2>1. /\ r \in Text /\ Reading(r) = Reading(t)
        /\ r # <<>> /\ Last(r) = SP => Reading(t).word = NoWord
    BY <1>2, Zenon
  <2>2. n = Squeeze[r][c] /\ Append(t, c) \in Text
    BY <1>0, TextSums, Zenon
  <2>3. n = IF c = SP /\ r # <<>> /\ Last(r) = SP THEN r ELSE Append(r, c)
    BY <2>1, <2>2, Zenon DEF Squeeze
  <2>4. /\ Reading(Append(t, c)) = AddAny[Reading(t)][c] /\ Reading(t) \in WordState
        /\ Reading(Append(r, c)) = AddAny[Reading(r)][c] /\ Append(r, c) \in Text
    BY <2>1, ReadingGrows, TextSums, Zenon
  <2> HIDE DEF r, n
  <2>5. CASE c = SP /\ r # <<>> /\ Last(r) = SP
    <3>1. Reading(Append(t, c)) = Reading(t)
      BY <2>1, <2>4, <2>5, WhiteSpace, Zenon DEF White
    <3>2. n = r
      BY <2>3, <2>5, Zenon
    <3> QED
      BY <3>1, <3>2, <2>1, <2>2, Zenon DEF n
  <2>6. CASE ~(c = SP /\ r # <<>> /\ Last(r) = SP)
    <3>1. n = Append(r, c)
      BY <2>3, <2>6, Zenon
    <3>2. Last(n) = c
      BY <3>1, <2>1 DEF Last, Text
    <3>3. c = SP => Reading(Append(t, c)).word = NoWord
      <4>1. SP \in White
        BY Zenon DEF White
      <4>2. AddAny[Reading(t)][SP].word = NoWord
        BY <4>1, <2>4, WhiteSpace, Zenon
      <4> QED
        BY <4>2, <2>4, Zenon
    <3>4. n \in Text /\ Reading(n) = Reading(Append(t, c))
      BY <3>1, <2>1, <2>4, Zenon
    <3> QED
      BY <3>2, <3>3, <3>4, <2>2, Zenon DEF n
  <2> QED
    BY <2>5, <2>6
<1> DEFINE T == Token
<1>6. ASSUME NEW t \in Text, t \in H
      PROVE  /\ removeExtraSpaces(t) \in Text
             /\ AllWords(removeExtraSpaces(t)) = AllWords(t)
  <2>1. removeExtraSpaces(t) = R(t)
    BY DEF removeExtraSpaces, Squeeze
  <2> QED
    BY <2>1, <1>6, Zenon DEF AllWords
<1> HIDE DEF H, T
<1>3. \A s \in Seq(T), x \in T : s \in H => Append(s, x) \in H
  BY <1>2 DEF T, Text
<1>4. Seq(T) \subseteq H
  BY <1>1, <1>3, SeqInduction
<1>5. \A t \in Text : t \in H
  BY <1>4 DEF T, Text
<1> QED
  BY <1>5, <1>6, Zenon

-----------------------------------------------------------------------------
(***************************************************************************)
(* trim                                                                    *)
(***************************************************************************)

\* White space in front of a text, and behind it, adds no word.
LEMMA WhiteAround ==
  ASSUME NEW a \in Seq(White), NEW m \in Text, NEW b \in Seq(White)
  PROVE  /\ a \in Text /\ b \in Text /\ a \o (m \o b) \in Text
         /\ AllWords(a \o (m \o b)) = AllWords(m)
         /\ AllWords(a) = <<>>
<1>1. White \subseteq Token
  BY TokenFacts, Zenon DEF White
<1>2. a \in Text /\ b \in Text
  BY <1>1, SeqMono DEF Text
<1>3. m \o b \in Text /\ a \o (m \o b) \in Text
  BY <1>2, TextSums, Zenon
<1> DEFINE T == White
           B == {WordsBegin}
           x == Reading(m)
           S == {s \in WordState : WithWord(s) = WithWord(x)}
<1>4. WordsBegin \in B /\ \A s \in B, c \in T : AddAny[s][c] \in B
  BY WhiteSpace, BeginType, Zenon
<1>5. x \in S /\ \A s \in S, c \in T : AddAny[s][c] \in S
  BY WhiteSpace, ReadingGrows, Zenon
<1> HIDE DEF T, B, S
<1>6. a \in Seq(T) /\ b \in Seq(T)
  BY DEF T
<1>7. Fold(AddAny, WordsBegin, a) \in B
  BY <1>4, <1>6, FoldInvariant
<1>8. Fold(AddAny, x, b) \in S
  BY <1>5, <1>6, FoldInvariant
<1>9. Reading(a) = WordsBegin
  BY <1>7, Zenon DEF B, Reading
<1>10. Reading(a \o (m \o b)) = Fold(AddAny, Reading(a), m \o b)
  BY <1>2, <1>3, ReadingGrows, Zenon
<1>11. Reading(a \o (m \o b)) = Reading(m \o b)
  BY <1>9, <1>10, Zenon DEF Reading
<1>12. Reading(m \o b) = Fold(AddAny, x, b)
  BY <1>2, ReadingGrows, Zenon
<1>13. AllWords(a \o (m \o b)) = AllWords(m)
  BY <1>8, <1>11, <1>12, Zenon DEF AllWords, S
<1>14. AllWords(a) = <<>>
  BY <1>9, BeginType, Zenon DEF AllWords
<1> QED
  BY <1>2, <1>3, <1>13, <1>14

LEMMA LeastOf ==
  ASSUME NEW n \in Nat, NEW S, S \subseteq 1..n, S # {}
  PROVE  Min(S) \in S /\ \A y \in S : Min(S) <= y
<1>1. S \in SUBSET Nat
  OBVIOUS
<1>2. PICK m \in S : \A k \in S : ~(k < m)
  BY <1>1, LeastElement
<1>3. \A y \in S : m <= y
  BY <1>1, <1>2
<1>4. \E x \in S : \A y \in S : x <= y
  BY <1>3
<1> QED
  BY <1>4 DEF Min

LEMMA GreatestOf ==
  ASSUME NEW n \in Nat, NEW S, S \subseteq 1..n, S # {}
  PROVE  Max(S) \in S /\ \A y \in S : y <= Max(S)
<1> DEFINE T == {n - i : i \in S}
<1>1. T \in SUBSET Nat /\ T # {}
  <2>1. PICK z \in S : TRUE
    OBVIOUS
  <2>2. n - z \in T
    OBVIOUS
  <2>3. \A k \in S : n - k \in Nat
    OBVIOUS
  <2> QED
    BY <2>2, <2>3
<1> HIDE DEF T
<1>2. PICK m \in T : \A k \in T : ~(k < m)
  BY <1>1, LeastElement
<1>3. PICK x \in S : m = n - x
  BY <1>2 DEF T
<1>4. ASSUME NEW y \in S PROVE y <= x
  <2>1. n - y \in T
    BY DEF T
  <2>2. ~(n - y < m)
    BY <2>1, <1>2
  <2>3. x \in 1..n /\ y \in 1..n
    OBVIOUS
  <2> QED
    BY <2>2, <2>3, <1>3
<1>5. \E z \in S : \A y \in S : z >= y
  <2>1. \A y \in S : x >= y
    BY <1>4
  <2> QED
    BY <2>1
<1>6. Max(S) \in S /\ \A y \in S : Max(S) >= y
  BY <1>5 DEF Max
<1> QED
  BY <1>6

\* A sequence is what is before place i, from i to j, and behind j.
Around(t, i, j, a, b) ==
  /\ t = a \o (SubSeq(t, i, j) \o b)
  /\ Len(a) = i - 1 /\ \A k \in 1..(i - 1) : a[k] = t[k]
  /\ Len(b) = Len(t) - j /\ \A k \in 1..(Len(t) - j) : b[k] = t[j + k]

LEMMA ThreeParts ==
  ASSUME NEW T, NEW t \in Seq(T), NEW i \in 1..Len(t), NEW j \in i..Len(t)
  PROVE  /\ SubSeq(t, i, j) \in Seq(T)
         /\ \E a, b \in Seq(T) : Around(t, i, j, a, b)
<1> DEFINE a == SubSeq(t, 1, i - 1)
           m == SubSeq(t, i, j)
           b == SubSeq(t, j + 1, Len(t))
<1>1. a \in Seq(T) /\ Len(a) = i - 1 /\ \A k \in 1..(i - 1) : a[k] = t[k]
  OBVIOUS
<1>2. m \in Seq(T) /\ Len(m) = (j - i) + 1 /\ \A k \in 1..((j - i) + 1) : m[k] = t[(i + k) - 1]
  OBVIOUS
<1>3. b \in Seq(T) /\ Len(b) = Len(t) - j /\ \A k \in 1..(Len(t) - j) : b[k] = t[j + k]
  OBVIOUS
<1> HIDE DEF a, m, b
<1>5. m \o b \in Seq(T) /\ Len(m \o b) = (Len(t) - i) + 1
  <2>1. m \o b \in Seq(T) /\ Len(m \o b) = Len(m) + Len(b)
    <3>1. m \in Seq(T) /\ b \in Seq(T)
      BY <1>2, <1>3
    <3> QED
      BY ONLY <3>1
  <2> QED
    BY <2>1, <1>2, <1>3
<1>6. a \o (m \o b) \in Seq(T) /\ Len(a \o (m \o b)) = Len(t)
  BY <1>1, <1>5
<1>7. ASSUME NEW k \in 1..Len(t) PROVE (a \o (m \o b))[k] = t[k]
  <2>1. CASE k <= i - 1
    BY <2>1, <1>1, <1>5
  <2>2. CASE i <= k /\ k <= j
    <3>1. (a \o (m \o b))[k] = (m \o b)[k - (i - 1)]
      BY <2>2, <1>1, <1>5
    <3>2. (m \o b)[k - (i - 1)] = m[k - (i - 1)]
      BY <2>2, <1>2, <1>3
    <3>3. m[k - (i - 1)] = t[k]
      BY <2>2, <1>2
    <3> QED
      BY <3>1, <3>2, <3>3
  <2>3. CASE j < k
    <3>1. (a \o (m \o b))[k] = (m \o b)[k - (i - 1)]
      BY <2>3, <1>1, <1>5
    <3>2. (m \o b)[k - (i - 1)] = b[k - j]
      BY <2>3, <1>2, <1>3
    <3>3. b[k - j] = t[k]
      BY <2>3, <1>3
    <3> QED
      BY <3>1, <3>2, <3>3
  <2>4. k \in Int /\ i \in Int /\ j \in Int
    OBVIOUS
  <2>5. k <= i - 1 \/ (i <= k /\ k <= j) \/ j < k
    BY <2>4
  <2> QED
    BY <2>1, <2>2, <2>3, <2>5, Zenon
<1>8. a \o (m \o b) = t
  <2> DEFINE u == a \o (m \o b)
  <2>1. u = [k \in 1..Len(u) |-> u[k]] /\ t = [k \in 1..Len(t) |-> t[k]]
    BY <1>6, SeqIsFunction, Zenon
  <2>2. Len(u) = Len(t) /\ \A k \in 1..Len(t) : u[k] = t[k]
    BY <1>6, <1>7
  <2> HIDE DEF u
  <2>3. u = t
    BY <2>1, <2>2, Zenon
  <2> QED
    BY <2>3 DEF u
<1> QED
  BY <1>1, <1>2, <1>3, <1>8, Zenon DEF m, Around

\* A sequence with nothing but elements of W before place i and behind j.
OnlyWhite(t, i, j) == \A k \in 1..Len(t) : k < i \/ k > j => t[k] \in White

LEMMA CutInThree ==
  ASSUME NEW t \in Text, NEW i \in 1..Len(t), NEW j \in i..Len(t), OnlyWhite(t, i, j)
  PROVE  /\ SubSeq(t, i, j) \in Text
         /\ \E a, b \in Seq(White) : t = a \o (SubSeq(t, i, j) \o b)
<1> DEFINE T == Token
           W == White
<1> HIDE DEF T, W
<1>t. t \in Seq(T)
  BY DEF T, Text
<1> DEFINE m == SubSeq(t, i, j)
<1> HIDE DEF m
<1>1. m \in Seq(T)
  BY <1>t, ThreeParts, Zenon DEF m
<1>0. PICK a \in Seq(T), b \in Seq(T) : Around(t, i, j, a, b)
  BY <1>t, ThreeParts, Zenon
<1>2. /\ t = a \o (m \o b)
      /\ Len(a) = i - 1 /\ \A k \in 1..(i - 1) : a[k] = t[k]
      /\ Len(b) = Len(t) - j /\ \A k \in 1..(Len(t) - j) : b[k] = t[j + k]
  BY <1>0, Zenon DEF m, Around
<1>3. \A k \in 1..Len(a) : a[k] \in W
  <2> SUFFICES ASSUME NEW k \in 1..(i - 1) PROVE a[k] \in W
    BY <1>2
  <2>1. a[k] = t[k] /\ k \in 1..Len(t) /\ k < i
    BY <1>2
  <2> QED
    BY <2>1, Zenon DEF OnlyWhite, W
<1>4. \A k \in 1..Len(b) : b[k] \in W
  <2> SUFFICES ASSUME NEW k \in 1..(Len(t) - j) PROVE b[k] \in W
    BY <1>2
  <2>1. b[k] = t[j + k] /\ j + k \in 1..Len(t) /\ j + k > j
    BY <1>2
  <2> QED
    BY <2>1, Zenon DEF OnlyWhite, W
<1>5. a \in Seq(W)
  BY ONLY <1>3, a \in Seq(T)
<1>6. b \in Seq(W)
  BY ONLY <1>4, b \in Seq(T)
<1> QED
  BY <1>1, <1>2, <1>5, <1>6, Zenon DEF m, T, W, Text

LEMMA Trimmed ==
  \A t \in Text : trim(t) \in Text /\ AllWords(trim(t)) = AllWords(t)
<1> SUFFICES ASSUME NEW t \in Text PROVE trim(t) \in Text /\ AllWords(trim(t)) = AllWords(t)
  OBVIOUS
<1> DEFINE solid == {k \in DOMAIN t : t[k] \notin White}
           i == Min(solid)
           j == Max(solid)
<1>1. trim(t) = IF solid = {} THEN <<>> ELSE SubSeq(t, i, j)
  BY DEF trim, White
<1>2. t \in Seq(Token) /\ Len(t) \in Nat /\ DOMAIN t = 1..Len(t) /\ solid \subseteq 1..Len(t)
  BY DEF Text
<1>3. \A k \in 1..Len(t) : k \notin solid => t[k] \in White
  BY <1>2
<1> HIDE DEF solid
<1>4. CASE solid = {}
  <2>1. \A k \in 1..Len(t) : t[k] \in White
    BY <1>3, <1>4
  <2>2. t \in Seq(White)
    BY <2>1, <1>2
  <2>3. AllWords(t) = <<>>
    BY <2>2, WhiteAround, Zenon
  <2>4. <<>> \in Seq(White)
    OBVIOUS
  <2>5. AllWords(<<>>) = <<>> /\ <<>> \in Text
    BY <2>4, WhiteAround, TextSums, Zenon
  <2> QED
    BY <2>3, <2>5, <1>1, <1>4, Zenon
<1>5. CASE solid # {}
  <2>1. i \in 1..Len(t) /\ \A y \in solid : i <= y
    BY <1>2, <1>5, LeastOf
  <2>2. j \in 1..Len(t) /\ j \in solid /\ \A y \in solid : y <= j
    BY <1>2, <1>5, GreatestOf
  <2> HIDE DEF i, j
  <2>3. j \in i..Len(t)
    BY <2>1, <2>2
  <2> DEFINE m == SubSeq(t, i, j)
  <2>4. \A k \in 1..Len(t) : k < i \/ k > j => t[k] \in White
    BY <1>2, <1>3, <2>1, <2>2
  <2>5. OnlyWhite(t, i, j)
    BY <2>4, Zenon DEF OnlyWhite
  <2>6. m \in Text /\ \E a, b \in Seq(White) : t = a \o (m \o b)
    BY <2>1, <2>3, <2>5, CutInThree, Zenon
  <2> HIDE DEF m
  <2>7. PICK a \in Seq(White), b \in Seq(White) : t = a \o (m \o b)
    BY <2>6, Zenon
  <2>9. trim(t) = m
    BY <1>1, <1>5, Zenon DEF m
  <2>8. AllWords(a \o (m \o b)) = AllWords(m)
    BY <2>6, <2>7, WhiteAround, Zenon
  <2> QED
    BY <2>6, <2>7, <2>8, <2>9, Zenon
<1> QED
  BY <1>4, <1>5

-----------------------------------------------------------------------------
(***************************************************************************)
(* parseText                                                               *)
(***************************************************************************)

InnerState == [done : Seq(Seq(Inner)), line : Seq(Inner)]

\* No newline is left in a line.
LEMMA LinesInner ==
  \A t \in Text : Lines(t) \in Seq(Seq(Inner))
<1>1. ASSUME NEW s \in InnerState, NEW c \in Token
      PROVE  AddToLine[s][c] \in InnerState
  <2>1. s.done \in Seq(Seq(Inner)) /\ s.line \in Seq(Inner)
    BY DEF InnerState
  <2>2. s.done \in Seq(Text) /\ s.line \in Text
    BY <2>1, InnerIsText, Zenon
  <2>3. s = [done |-> s.done, line |-> s.line]
    BY DEF InnerState
  <2>4. s \in LineState
    BY <2>2, <2>3 DEF LineState
  <2>5. \A a \in Seq(Seq(Inner)), b \in Seq(Inner) : [done |-> a, line |-> b] \in InnerState
    BY DEF InnerState
  <2>6. Append(s.done, s.line) \in Seq(Seq(Inner)) /\ <<>> \in Seq(Inner)
    BY <2>1
  <2>7. CASE c = NL
    BY <2>4, <2>5, <2>6, <2>7, LineTurn, Zenon
  <2>8. CASE c # NL
    <3>1. c \in Inner
      BY <2>8, Zenon DEF Inner
    <3>2. Append(s.line, c) \in Seq(Inner)
      BY <3>1, <2>1
    <3> QED
      BY <3>2, <2>1, <2>4, <2>5, <2>8, LineTurn, Zenon
  <2> QED
    BY <2>7, <2>8
<1>2. NoLine \in InnerState
  BY DEF NoLine, InnerState
<1> DEFINE T == Token
           S == InnerState
<1> HIDE DEF T, S
<1>3. NoLine \in S /\ \A s \in S, c \in T : AddToLine[s][c] \in S
  BY <1>1, <1>2 DEF S, T
<1>4. ASSUME NEW t \in Seq(T) PROVE Fold(AddToLine, NoLine, t) \in S
  BY <1>3, FoldInvariant
<1>5. ASSUME NEW t \in Text PROVE Lines(t) \in Seq(Seq(Inner))
  <2> DEFINE e == Fold(AddToLine, NoLine, t)
  <2>1. e \in InnerState
    BY <1>4 DEF S, T, Text
  <2>2. Lines(t) = IF e.line = <<>> THEN e.done ELSE Append(e.done, e.line)
    BY Zenon DEF Lines
  <2> HIDE DEF e
  <2>3. e.done \in Seq(Seq(Inner)) /\ e.line \in Seq(Inner)
    BY <2>1 DEF InnerState
  <2>4. Append(e.done, e.line) \in Seq(Seq(Inner))
    BY <2>3
  <2> QED
    BY <2>2, <2>3, <2>4, Zenon
<1> QED
  BY <1>5

KeepLine == [acc \in Seq(Text) |-> [line \in Text |-> IF line = <<>> THEN acc ELSE Append(acc, line)]]

\* What is left out are lines that textToPixel passes over.
LEMMA LinesKept ==
  \A ls \in Seq(Seq(Inner)) :
    /\ Fold(KeepLine, <<>>, ls) \in Seq(Row)
    /\ Fold(AddRowStep, NoImage, Fold(KeepLine, <<>>, ls)) = Fold(AddRowStep, NoImage, ls)
<1> DEFINE K(ls) == Fold(KeepLine, <<>>, ls)
           H == {ls \in Seq(Seq(Inner)) :
                   /\ K(ls) \in Seq(Row)
                   /\ Fold(AddRowStep, NoImage, ls) \in ImageData
                   /\ Fold(AddRowStep, NoImage, K(ls)) = Fold(AddRowStep, NoImage, ls)}
<1>0. \A ls \in Seq(Text), l \in Text : K(Append(ls, l)) = KeepLine[K(ls)][l]
  BY LinesFold
<1>1. <<>> \in H
  <2>1. K(<<>>) = <<>> /\ Fold(AddRowStep, NoImage, <<>>) = NoImage
    BY FoldEmpty
  <2>2. <<>> \in Seq(Row) /\ <<>> \in Seq(Seq(Inner))
    OBVIOUS
  <2> QED
    BY <2>1, <2>2, NoImageType, Zenon
<1>2. ASSUME NEW ls \in Seq(Seq(Inner)), NEW l \in Seq(Inner), ls \in H
      PROVE  Append(ls, l) \in H
  <2> DEFINE k == K(ls)
             im == Fold(AddRowStep, NoImage, ls)
             new == Fold(AddRowStep, NoImage, Append(ls, l))
  <2>1. k \in Seq(Row) /\ im \in ImageData /\ Fold(AddRowStep, NoImage, k) = im
    BY <1>2, Zenon
  <2>2. ls \in Seq(Text) /\ l \in Text /\ k \in Seq(Text)
    BY <2>1, InnerIsText, RowIsText, Zenon
  <2>3. Append(ls, l) \in Seq(Seq(Inner))
    OBVIOUS
  <2>4. new = AddRowStep[im][l]
    BY <2>2, NoImageType, RowFold, Zenon
  <2>5. Fold(AddRowStep, NoImage, Append(k, l)) = AddRowStep[Fold(AddRowStep, NoImage, k)][l]
    BY <2>2, NoImageType, RowFold, Zenon
  <2>6. K(Append(ls, l)) = IF l = <<>> THEN k ELSE Append(k, l)
    <3>1. K(Append(ls, l)) = KeepLine[k][l]
      BY <1>0, <2>2, Zenon
    <3> HIDE DEF k
    <3> QED
      BY <3>1, <2>2, Zenon DEF KeepLine
  <2> HIDE DEF k, im, new
  <2>7. new \in ImageData
    BY <2>1, <2>2, <2>4, RowTurn, Zenon
  <2>8. CASE l = <<>>
    <3>1. new = im
      BY <2>1, <2>2, <2>4, <2>8, RowTurn, Zenon
    <3>2. K(Append(ls, l)) = k
      BY <2>6, <2>8, Zenon
    <3>3. Fold(AddRowStep, NoImage, K(Append(ls, l))) = new
      BY <3>1, <3>2, <2>1, Zenon
    <3> QED
      BY <3>2, <3>3, <2>1, <2>3, <2>7, Zenon DEF new
  <2>9. CASE l # <<>>
    <3>1. l \in Row
      BY <2>9, Zenon DEF Row
    <3>2. Append(k, l) \in Seq(Row)
      BY <3>1, <2>1
    <3>3. K(Append(ls, l)) = Append(k, l)
      BY <2>6, <2>9, Zenon
    <3>4. Fold(AddRowStep, NoImage, K(Append(ls, l))) = new
      BY <3>3, <2>1, <2>4, <2>5, Zenon
    <3> QED
      BY <3>2, <3>3, <3>4, <2>3, <2>7, Zenon DEF new
  <2> QED
    BY <2>8, <2>9
<1>5. ASSUME NEW ls \in Seq(Seq(Inner)), ls \in H
      PROVE  /\ Fold(KeepLine, <<>>, ls) \in Seq(Row)
             /\ Fold(AddRowStep, NoImage, Fold(KeepLine, <<>>, ls)) = Fold(AddRowStep, NoImage, ls)
  BY <1>5, Zenon
<1> DEFINE T == Seq(Inner)
<1> HIDE DEF H, T
<1>3. \A s \in Seq(T), x \in T : s \in H => Append(s, x) \in H
  BY <1>2 DEF T
<1>4. Seq(T) \subseteq H
  BY <1>1, <1>3, SeqInduction
<1>6. \A ls \in Seq(Seq(Inner)) : ls \in H
  BY <1>4, Zenon DEF T
<1> QED
  BY <1>5, <1>6, Zenon

LEMMA Parsed ==
  \A t \in Text : textToPixel(Join(parseText(t), <<NL>>)) = textToPixel(t)
<1> SUFFICES ASSUME NEW t \in Text PROVE textToPixel(Join(parseText(t), <<NL>>)) = textToPixel(t)
  OBVIOUS
<1> DEFINE k == Fold(KeepLine, <<>>, Lines(t))
<1>1. parseText(t) = k
  BY DEF parseText, KeepLine
<1>2. k \in Seq(Row) /\ Fold(AddRowStep, NoImage, k) = Fold(AddRowStep, NoImage, Lines(t))
  BY LinesInner, LinesKept, Zenon
<1>3. textToPixel(t) = Fold(AddRowStep, NoImage, Lines(t))
  BY DEF textToPixel, AddRowStep
<1>4. Join(parseText(t), <<NL>>) = Join(k, Newline)
  BY <1>1 DEF Newline
<1> HIDE DEF k
<1>5. CASE k = <<>>
  <2>1. Join(k, Newline) = <<>>
    BY <1>5, JoinEmpty
  <2>2. textToPixel(<<>>) = Fold(AddRowStep, NoImage, Lines(<<>>))
    BY DEF textToPixel, AddRowStep
  <2> QED
    BY <2>1, <2>2, <1>2, <1>3, <1>4, <1>5, LinesOfNothing, Zenon
<1>6. CASE k # <<>>
  <2>1. k \in Frame
    BY <1>2, <1>6, Zenon DEF Frame
  <2>2. FrameText[k] = Join(k, Newline) /\ textToPixel(FrameText[k]) = Fold(AddRowStep, NoImage, k)
    BY <2>1, FrameTextType, FrameRead, Zenon
  <2> QED
    BY <2>2, <1>2, <1>3, <1>4, Zenon
<1> QED
  BY <1>5, <1>6

-----------------------------------------------------------------------------
(***************************************************************************)
(* formatText                                                              *)
(***************************************************************************)

FormState == [text : Text, count : Nat]
FormBegin == [text |-> <<>>, count |-> 0]
Formatting(t, w) == Fold(AddFormatted(w), FormBegin, t)

LEMMA FormTurn ==
  ASSUME NEW w \in Nat, NEW acc \in FormState, NEW c \in Token
  PROVE  /\ c = SP /\ acc.count + 1 >= w =>
              AddFormatted(w)[acc][c] = [text |-> acc.text \o <<c, NL>>, count |-> 0]
         /\ ~(c = SP /\ acc.count + 1 >= w) =>
              AddFormatted(w)[acc][c] = [text |-> Append(acc.text, c),
                                         count |-> IF c = SP THEN acc.count + 1 ELSE acc.count]
         /\ acc.text \o <<c, NL>> = Append(Append(acc.text, c), NL)
         /\ AddFormatted(w)[acc][c] \in FormState
<1>1. acc.text \in Text /\ acc.count \in Nat
  BY DEF FormState
<1>2. AddFormatted(w)[acc][c] =
        IF c = SP /\ acc.count + 1 >= w
        THEN [text |-> acc.text \o <<c, NL>>, count |-> 0]
        ELSE [text |-> Append(acc.text, c), count |-> IF c = SP THEN acc.count + 1 ELSE acc.count]
  BY Zenon DEF AddFormatted, FormState
<1>3. NL \in Token
  BY TokenFacts, Zenon
<1>4. acc.text \o <<c, NL>> = Append(Append(acc.text, c), NL)
  BY <1>1, <1>3 DEF Text
<1>5. Append(acc.text, c) \in Text /\ Append(Append(acc.text, c), NL) \in Text
  BY <1>1, <1>3, TextSums, Zenon
<1>6. \A a \in Text, n \in Nat : [text |-> a, count |-> n] \in FormState
  BY DEF FormState
<1>7. 0 \in Nat /\ acc.count + 1 \in Nat
  BY <1>1
<1>8. AddFormatted(w)[acc][c] \in FormState
  BY <1>1, <1>2, <1>4, <1>5, <1>6, <1>7, Zenon
<1> QED
  BY <1>2, <1>4, <1>8, Zenon

LEMMA FormGrows ==
  ASSUME NEW w \in Nat
  PROVE  /\ Formatting(<<>>, w) = FormBegin /\ FormBegin \in FormState
         /\ \A t \in Text, c \in Token : Formatting(Append(t, c), w) = AddFormatted(w)[Formatting(t, w)][c]
         /\ \A t \in Text : Formatting(t, w) \in FormState /\ formatText(t, w) = Formatting(t, w).text
<1>1. Formatting(<<>>, w) = FormBegin
  BY FoldEmpty DEF Formatting
<1>2. FormBegin \in FormState
  BY DEF FormBegin, FormState, Text
<1> DEFINE step == AddFormatted(w)
<1>3. \A s \in FormState, c \in Token : step[s][c] \in FormState
  BY FormTurn
<1> HIDE DEF step
<1>4. \A t \in Text, c \in Token : Fold(step, FormBegin, Append(t, c)) = step[Fold(step, FormBegin, t)][c]
  BY TextFold
<1>5. ASSUME NEW t \in Text PROVE Fold(step, FormBegin, t) \in FormState
  BY <1>2, <1>3, FoldInvariant DEF Text
<1>6. \A t \in Text : formatText(t, w) = Formatting(t, w).text
  BY DEF formatText, Formatting, FormBegin
<1> QED
  BY <1>1, <1>2, <1>4, <1>5, <1>6, Zenon DEF step, Formatting

\* A newline is only put where a word has ended.
LEMMA Formatted ==
  ASSUME NEW w \in Nat
  PROVE  \A t \in Text : formatText(t, w) \in Text /\ AllWords(formatText(t, w)) = AllWords(t)
<1> DEFINE F(t) == Formatting(t, w)
           H == {t \in Text : Reading(F(t).text) = Reading(t)}
<1>t. \A t \in Text : F(t) \in FormState /\ F(t).text \in Text
  BY FormGrows DEF FormState
<1>1. <<>> \in H
  <2>1. F(<<>>) = FormBegin /\ FormBegin.text = <<>>
    BY FormGrows DEF FormBegin
  <2> QED
    BY <2>1, TextSums, Zenon
<1>2. ASSUME NEW t \in Text, NEW c \in Token, t \in H PROVE Append(t, c) \in H
  <2> DEFINE a == F(t)
             n == F(Append(t, c))
  <2>1. a \in FormState /\ a.text \in Text /\ n = AddFormatted(w)[a][c] /\ Append(t, c) \in Text
    BY <1>t, FormGrows, TextSums, Zenon
  <2>2. Reading(a.text) = Reading(t)
    BY <1>2, Zenon
  <2> HIDE DEF a, n
  <2>3. /\ Reading(Append(t, c)) = AddAny[Reading(t)][c] /\ Reading(t) \in WordState
        /\ Reading(Append(a.text, c)) = AddAny[Reading(a.text)][c] /\ Append(a.text, c) \in Text
    BY <2>1, ReadingGrows, TextSums, Zenon
  <2>4. CASE c = SP /\ a.count + 1 >= w
    <3>1. n.text = Append(Append(a.text, c), NL)
      <4>1. n = [text |-> a.text \o <<c, NL>>, count |-> 0] /\ a.text \o <<c, NL>> = Append(Append(a.text, c), NL)
        BY <2>1, <2>4, FormTurn, Zenon
      <4> QED
        BY <4>1
    <3>2. SP \in White /\ NL \in White /\ NL \in Token
      BY TokenFacts, Zenon DEF White
    <3>3. Reading(n.text) = AddAny[Reading(Append(a.text, c))][NL]
      BY <3>1, <3>2, <2>3, ReadingGrows, Zenon
    <3> DEFINE s == Reading(Append(t, c))
    <3>4. s \in WordState /\ s.word = NoWord
      <4>1. AddAny[Reading(t)][SP] \in WordState /\ AddAny[Reading(t)][SP].word = NoWord
        BY <2>3, <3>2, WhiteSpace, Zenon
      <4> QED
        BY <4>1, <2>3, <2>4, Zenon
    <3>5. AddAny[s][NL] = s
      BY <3>2, <3>4, WhiteSpace, Zenon
    <3>6. Reading(n.text) = Reading(Append(t, c))
      BY <3>3, <3>5, <2>2, <2>3, Zenon
    <3> QED
      BY <3>6, <2>1, Zenon DEF n
  <2>5. CASE ~(c = SP /\ a.count + 1 >= w)
    <3>1. n.text = Append(a.text, c)
      <4>1. n = [text |-> Append(a.text, c), count |-> IF c = SP THEN a.count + 1 ELSE a.count]
        BY <2>1, <2>5, FormTurn, Zenon
      <4> QED
        BY <4>1
    <3>2. Reading(n.text) = Reading(Append(t, c))
      BY <3>1, <2>2, <2>3, Zenon
    <3> QED
      BY <3>2, <2>1, Zenon DEF n
  <2> QED
    BY <2>4, <2>5
<1>5. ASSUME NEW t \in Text, t \in H
      PROVE  formatText(t, w) \in Text /\ AllWords(formatText(t, w)) = AllWords(t)
  <2>1. formatText(t, w) = F(t).text
    BY FormGrows, Zenon
  <2> QED
    BY <2>1, <1>t, <1>5, Zenon DEF AllWords
<1> DEFINE T == Token
<1> HIDE DEF H, T
<1>3. \A s \in Seq(T), x \in T : s \in H => Append(s, x) \in H
  BY <1>2 DEF T, Text
<1>4. Seq(T) \subseteq H
  BY <1>1, <1>3, SeqInduction
<1>6. \A t \in Text : t \in H
  BY <1>4 DEF T, Text
<1> QED
  BY <1>5, <1>6, Zenon

-----------------------------------------------------------------------------
(***************************************************************************)
(* The width that formatText gives a single row                            *)
(***************************************************************************)

\* The first line has w words.
FirstLine(w) == {s \in LineState : s.done # <<>> /\ s.done[1] # <<>> /\ Len(Words(s.done[1])) = w}

LEMMA FirstLineStays ==
  ASSUME NEW w, NEW s \in FirstLine(w), NEW c \in Token
  PROVE  AddToLine[s][c] \in FirstLine(w)
<1> DEFINE n == AddToLine[s][c]
<1>1. s \in LineState /\ s.done # <<>> /\ s.done[1] # <<>> /\ Len(Words(s.done[1])) = w
  BY Zenon DEF FirstLine
<1>2. s.done \in Seq(Text) /\ s.line \in Text
  BY <1>1 DEF LineState
<1>3. n \in LineState
  BY <1>1, LineTurn, Zenon
<1>4. n.done # <<>> /\ n.done[1] = s.done[1]
  <2>1. CASE c = NL
    <3>1. n = [done |-> Append(s.done, s.line), line |-> <<>>]
      BY <2>1, <1>1, LineTurn, Zenon
    <3>2. n.done = Append(s.done, s.line)
      BY <3>1
    <3> DEFINE T == Text
    <3> HIDE DEF n, T
    <3>3. s.done \in Seq(T) /\ s.line \in T
      BY <1>2 DEF T
    <3>4. Append(s.done, s.line) # <<>> /\ Append(s.done, s.line)[1] = s.done[1]
      BY <1>1, <3>3
    <3> QED
      BY <3>2, <3>4, Zenon
  <2>2. CASE c # NL
    <3>1. n = [done |-> s.done, line |-> Append(s.line, c)]
      BY <2>2, <1>1, LineTurn, Zenon
    <3>2. n.done = s.done
      BY <3>1
    <3> QED
      BY <3>2, <1>1, Zenon
  <2> QED
    BY <2>1, <2>2
<1> QED
  BY <1>1, <1>3, <1>4, Zenon DEF FirstLine

Begins(w) == {t \in Text : Fold(AddToLine, NoLine, t) \in FirstLine(w)}

LEMMA BeginsGrows ==
  ASSUME NEW w
  PROVE  \A t \in Begins(w), c \in Token : Append(t, c) \in Begins(w)
<1>0. \A t \in Text, c \in Token :
        Fold(AddToLine, NoLine, Append(t, c)) = AddToLine[Fold(AddToLine, NoLine, t)][c]
  BY TextFold
<1> SUFFICES ASSUME NEW t \in Begins(w), NEW c \in Token PROVE Append(t, c) \in Begins(w)
  BY Zenon
<1>1. t \in Text /\ Fold(AddToLine, NoLine, t) \in FirstLine(w)
  BY Zenon DEF Begins
<1>2. Append(t, c) \in Text
  BY <1>1, TextSums, Zenon
<1>3. AddToLine[Fold(AddToLine, NoLine, t)][c] \in FirstLine(w)
  BY <1>1, FirstLineStays, Zenon
<1>4. Fold(AddToLine, NoLine, Append(t, c)) \in FirstLine(w)
  BY <1>0, <1>1, <1>3, Zenon
<1> QED
  BY <1>2, <1>4, Zenon DEF Begins

\* The width of an image is the number of words in its first line.
LEMMA WidthIs ==
  ASSUME NEW w \in Nat \ {0}
  PROVE  \A ls \in Seq(Text) : ls # <<>> /\ ls[1] # <<>> /\ Len(Words(ls[1])) = w =>
           Fold(AddRowStep, NoImage, ls).width = w
<1> DEFINE P(ls) == ls # <<>> /\ ls[1] # <<>> /\ Len(Words(ls[1])) = w
           H == {ls \in Seq(Text) :
                   P(ls) => /\ Fold(AddRowStep, NoImage, ls) \in ImageData
                            /\ Fold(AddRowStep, NoImage, ls).width = w}
<1>1. <<>> \in H
  BY TextSums, Zenon
<1>2. ASSUME NEW ls \in Seq(Text), NEW l \in Text, ls \in H
      PROVE  Append(ls, l) \in H
  <2> DEFINE im == Fold(AddRowStep, NoImage, ls)
             new == Fold(AddRowStep, NoImage, Append(ls, l))
  <2>1. new = AddRowStep[im][l] /\ Append(ls, l) \in Seq(Text)
    BY NoImageType, RowFold, LineSums, Zenon
  <2> SUFFICES ASSUME P(Append(ls, l)) PROVE new \in ImageData /\ new.width = w
    BY <2>1, Zenon
  <2>2. CASE ls = <<>>
    <3>1. im = NoImage
      BY <2>2, FoldEmpty
    <3>2. Append(ls, l)[1] = l
      BY <2>2
    <3>3. l # <<>> /\ Len(Words(l)) = w
      BY <3>2, Zenon
    <3> DEFINE p == PixelsOf(l)
    <3>4. p \in Seq(Color) /\ Len(p) = w
      BY <3>3, PixelsOfType, Zenon
    <3>5. /\ AddRow(NoImage, l) =
                [pixels |-> NoImage.pixels \o p,
                 width  |-> IF NoImage.width = 0 THEN Len(NoImage.pixels \o p) \div (NoImage.height + 1)
                                             ELSE NoImage.width,
                 height |-> NoImage.height + 1]
          /\ AddRowStep[NoImage][l] = AddRow(NoImage, l)
          /\ AddRow(NoImage, l) \in ImageData
      BY <3>3, NoImageType, RowTurn, Zenon
    <3> HIDE DEF p
    <3>6. <<>> \o p = p
      BY <3>4
    <3>7. w \div (0 + 1) = w
      OBVIOUS
    <3>8. AddRow(NoImage, l).width = Len(NoImage.pixels \o p) \div (NoImage.height + 1)
      BY <3>5, NoImageType
    <3>9. Len(NoImage.pixels \o p) \div (NoImage.height + 1) = w
      BY <3>4, <3>6, <3>7, NoImageType, Zenon
    <3> QED
      BY <3>1, <3>5, <3>8, <3>9, <2>1, Zenon
  <2>3. CASE ls # <<>>
    <3>1. Append(ls, l)[1] = ls[1]
      <4> DEFINE T == Text
      <4> HIDE DEF T
      <4>1. ls \in Seq(T) /\ l \in T
        BY DEF T
      <4> QED
        BY <2>3, <4>1
    <3>2. im \in ImageData /\ im.width = w
      BY <3>1, <2>3, <1>2, Zenon
    <3>3. w # 0
      OBVIOUS
    <3> HIDE DEF im, new, P
    <3>4. AddRow(im, l) \in ImageData /\ AddRow(im, l).width = im.width
      <4>1. AddRow(im, l) \in ImageData
        BY <3>2, RowTurn, Zenon
      <4>2. CASE l = <<>>
        BY <4>1, <4>2, <3>2, RowTurn, Zenon
      <4>3. CASE l # <<>>
        <5>1. AddRow(im, l) =
                [pixels |-> im.pixels \o PixelsOf(l),
                 width  |-> IF im.width = 0 THEN Len(im.pixels \o PixelsOf(l)) \div (im.height + 1)
                                             ELSE im.width,
                 height |-> im.height + 1]
          BY <4>3, <3>2, RowTurn, Zenon
        <5> QED
          BY <5>1, <4>1, <3>2, <3>3
      <4> QED
        BY <4>2, <4>3
    <3> QED
      BY <3>2, <3>4, <2>1, RowTurn, Zenon
  <2> QED
    BY <2>2, <2>3
<1>5. ASSUME NEW ls \in Seq(Text), ls \in H, P(ls)
      PROVE  Fold(AddRowStep, NoImage, ls).width = w
  BY <1>5, Zenon
<1> DEFINE T == Text
<1> HIDE DEF H, T
<1>3. \A s \in Seq(T), x \in T : s \in H => Append(s, x) \in H
  BY <1>2 DEF T
<1>4. Seq(T) \subseteq H
  BY <1>1, <1>3, SeqInduction
<1>6. \A ls \in Seq(Text) : ls \in H
  BY <1>4, Zenon DEF T
<1> QED
  BY <1>5, <1>6, Zenon

LEMMA BeginsWidth ==
  ASSUME NEW w \in Nat \ {0}, NEW t \in Begins(w)
  PROVE  textToPixel(t).width = w
<1> DEFINE e == Fold(AddToLine, NoLine, t)
<1>1. t \in Text /\ e \in FirstLine(w)
  BY Zenon DEF Begins
<1>2. e \in LineState /\ e.done # <<>> /\ e.done[1] # <<>> /\ Len(Words(e.done[1])) = w
  BY <1>1, Zenon DEF FirstLine
<1>3. Lines(t) = IF e.line = <<>> THEN e.done ELSE Append(e.done, e.line)
  BY Zenon DEF Lines
<1>4. e.done \in Seq(Text) /\ e.line \in Text
  BY <1>2 DEF LineState
<1> HIDE DEF e
<1>5. Append(e.done, e.line) # <<>> /\ Append(e.done, e.line)[1] = e.done[1]
  <2> DEFINE T == Text
  <2> HIDE DEF T
  <2>1. e.done \in Seq(T) /\ e.line \in T
    BY <1>4 DEF T
  <2> QED
    BY <1>2, <2>1
<1>6. Lines(t) # <<>> /\ Lines(t)[1] = e.done[1] /\ Lines(t) \in Seq(Text)
  BY <1>1, <1>2, <1>3, <1>5, LinesType, Zenon
<1>7. textToPixel(t) = Fold(AddRowStep, NoImage, Lines(t))
  BY DEF textToPixel, AddRowStep
<1> QED
  BY <1>2, <1>6, <1>7, WidthIs, Zenon

\* A row of w words, a space and a newline are a first line of w words.
LEMMA RowBegins ==
  ASSUME NEW ws \in Seq(Word), ws # <<>>
  PROVE  Append(Append(RowOf(ws), SP), NL) \in Begins(Len(ws))
<1> DEFINE q == RowOf(ws)
           r == Append(q, SP)
           x == Fold(AddToWord, WordsBegin, q)
<1>1. q \in Seq(Inner) /\ Words(q) = ws
  BY RowWords, Zenon
<1>2. q \in Text /\ SP \in Inner /\ SP \in Token /\ NL \in Token
  BY <1>1, InnerIsText, TokenFacts, Zenon
<1> HIDE DEF q
<1>3. r \in Seq(Inner) /\ r # <<>>
  BY <1>1, <1>2
<1>4. r \in Text /\ Append(r, NL) \in Text
  BY <1>2, TextSums, Zenon
<1>5. Words(r) = ws
  <2>1. Words(q) = WithWord(x) /\ Words(r) = WithWord(Fold(AddToWord, WordsBegin, r))
    BY Zenon DEF Words, WordsBegin
  <2>2. x \in WordState
    BY <1>2, BeginType, WordFold, TextSums, Zenon
  <2>3. Fold(AddToWord, WordsBegin, Append(q, SP)) = AddToWord[Fold(AddToWord, WordsBegin, q)][SP]
    BY <1>2, WordsGrow, Zenon
  <2> DEFINE z == [done |-> WithWord(x), word |-> NoWord]
  <2>4. AddToWord[x][SP] = z
    BY <1>2, <2>2, WordTurn, Zenon
  <2>5. WithWord(z) = WithWord(x)
    <3>1. z.done = WithWord(x) /\ z.word = NoWord
      OBVIOUS
    <3> HIDE DEF z
    <3> QED
      BY <3>1, Zenon DEF WithWord
  <2> HIDE DEF x, z
  <2> QED
    BY <1>1, <2>1, <2>3, <2>4, <2>5, Zenon DEF x
<1> HIDE DEF r
<1>6. Fold(AddToLine, NoLine, r) = [done |-> <<>>, line |-> r]
  <2>1. Fold(AddToLine, NoLine, r) = [done |-> NoLine.done, line |-> NoLine.line \o r]
    BY <1>3, NoFrameType, LineRun, Zenon
  <2>2. <<>> \o r = r
    BY <1>4, TextSums, Zenon
  <2> QED
    BY <2>1, <2>2, NoFrameType, Zenon
<1> DEFINE s == [done |-> <<>>, line |-> r]
           n == [done |-> Append(s.done, s.line), line |-> <<>>]
<1>7. s \in LineState /\ s.done = <<>> /\ s.line = r
  BY <1>4, TextSums DEF LineState
<1>8. Fold(AddToLine, NoLine, Append(r, NL)) = AddToLine[Fold(AddToLine, NoLine, r)][NL]
  BY <1>4, <1>2, TextFold
<1>9. AddToLine[s][NL] = n /\ n \in LineState
  BY <1>7, <1>2, LineTurn, Zenon
<1>10. n.done = <<r>>
  BY <1>7
<1>11. n.done # <<>> /\ n.done[1] = r
  BY <1>10
<1> HIDE DEF n
<1>12. n \in FirstLine(Len(ws))
  BY <1>3, <1>5, <1>9, <1>11, Zenon DEF FirstLine
<1>13. Fold(AddToLine, NoLine, Append(r, NL)) \in FirstLine(Len(ws))
  BY <1>6, <1>8, <1>9, <1>12, Zenon
<1> QED
  BY <1>4, <1>13, Zenon DEF Begins, r, q

\* What formatText has made of a row so far: up to w words it has only counted
\* the spaces, and then the first line is complete.
RowFormed(ws, w) ==
  /\ Len(ws) <= w => Formatting(RowOf(ws), w) = [text |-> RowOf(ws), count |-> Len(ws) - 1]
  /\ Len(ws) > w => Formatting(RowOf(ws), w).text \in Begins(w)

\* The turn for a space at the end of text q, and one for the word after it.
LEMMA TwoTurns ==
  ASSUME NEW w \in Nat, NEW q \in Text, NEW c \in Word
  PROVE  LET a == Formatting(q, w)
             d == Formatting(q \o (Space \o <<c>>), w)
         IN  /\ a.count + 1 >= w =>
                  d = [text |-> Append(Append(Append(a.text, SP), NL), c), count |-> 0]
             /\ ~(a.count + 1 >= w) =>
                  d = [text |-> Append(Append(a.text, SP), c), count |-> a.count + 1]
<1> DEFINE a == Formatting(q, w)
           b == AddFormatted(w)[a][SP]
           d == AddFormatted(w)[b][c]
<1>1. SP \in Token /\ NL \in Token /\ c \in Token /\ c # SP
  BY TokenFacts, Zenon DEF Word
<1>2. q \o (Space \o <<c>>) = Append(Append(q, SP), c) /\ Append(q, SP) \in Text
  BY <1>1 DEF Text, Space
<1>3. Formatting(Append(q, SP), w) = b /\ Formatting(Append(Append(q, SP), c), w) = d
  BY <1>1, <1>2, FormGrows, Zenon
<1>4. a \in FormState
  BY FormGrows, Zenon
<1> HIDE DEF a
<1>5. b \in FormState
  BY <1>1, <1>4, FormTurn, Zenon
<1>6. /\ a.count + 1 >= w => b = [text |-> a.text \o <<SP, NL>>, count |-> 0]
      /\ ~(a.count + 1 >= w) => b = [text |-> Append(a.text, SP),
                                     count |-> IF SP = SP THEN a.count + 1 ELSE a.count]
      /\ a.text \o <<SP, NL>> = Append(Append(a.text, SP), NL)
  BY <1>1, <1>4, FormTurn, Zenon
<1> HIDE DEF b
<1>7. d = [text |-> Append(b.text, c), count |-> IF c = SP THEN b.count + 1 ELSE b.count]
  BY <1>1, <1>5, FormTurn, Zenon
<1>8. d = [text |-> Append(b.text, c), count |-> b.count]
  BY <1>1, <1>7, Zenon
<1> HIDE DEF d
<1>9. a.count + 1 >= w => b.text = Append(Append(a.text, SP), NL) /\ b.count = 0
  BY <1>6
<1>10. ~(a.count + 1 >= w) => b.text = Append(a.text, SP) /\ b.count = a.count + 1
  BY <1>6
<1>11. Formatting(q \o (Space \o <<c>>), w) = d
  BY <1>2, <1>3, Zenon
<1> QED
  BY <1>8, <1>9, <1>10, <1>11, Zenon DEF a

LEMMA RowForms ==
  ASSUME NEW w \in Nat \ {0}
  PROVE  \A ws \in Seq(Word) : ws # <<>> => RowFormed(ws, w)
<1> DEFINE H == {ws \in Seq(Word) : ws # <<>> => RowFormed(ws, w)}
<1>1. <<>> \in H
  OBVIOUS
<1>2. ASSUME NEW ws \in Seq(Word), NEW c \in Word, ws \in H
      PROVE  Append(ws, c) \in H
  <2> DEFINE v == Append(ws, c)
             q == RowOf(ws)
  <2>0. Word \subseteq Token /\ SP \in Token /\ NL \in Token /\ c \in Token /\ c # SP
    BY TokenFacts, Zenon DEF Word
  <2>1. v \in Seq(Word) /\ v # <<>> /\ Len(v) = Len(ws) + 1 /\ Len(ws) \in Nat
    OBVIOUS
  <2>2. ws \in Text
    BY <2>0, SeqMono DEF Text
  <2>3. /\ q \in Text
        /\ ws = <<>> => RowOf(v) = <<c>>
        /\ ws # <<>> => RowOf(v) = q \o (Space \o <<c>>)
    BY <2>0, <2>2, RowGrows, Zenon
  <2>4. CASE ws = <<>>
    <3>1. Formatting(<<c>>, w) = AddFormatted(w)[FormBegin][c]
      <4>1. Append(<<>>, c) = <<c>> /\ <<>> \in Text
        BY TextSums
      <4> QED
        BY <4>1, <2>0, FormGrows, Zenon
    <3>2. FormBegin \in FormState /\ FormBegin.text = <<>> /\ FormBegin.count = 0
      BY FormGrows DEF FormBegin
    <3>3. AddFormatted(w)[FormBegin][c] = [text |-> Append(FormBegin.text, c),
                                           count |-> IF c = SP THEN FormBegin.count + 1 ELSE FormBegin.count]
      BY <2>0, <3>2, FormTurn, Zenon
    <3>4. Append(FormBegin.text, c) = <<c>>
      BY <3>2
    <3>5. AddFormatted(w)[FormBegin][c] = [text |-> <<c>>, count |-> 0]
      BY <2>0, <3>2, <3>3, <3>4, Zenon
    <3>6. Len(v) - 1 = 0 /\ ~(Len(v) > w)
      BY <2>1, <2>4
    <3>7. RowFormed(v, w)
      BY <2>3, <2>4, <3>1, <3>5, <3>6, Zenon DEF RowFormed
    <3> QED
      BY <3>7, <2>1, Zenon
  <2>5. CASE ws # <<>>
    <3> DEFINE a == Formatting(q, w)
               d == Formatting(RowOf(v), w)
    <3>1. RowFormed(ws, w)
      BY <1>2, <2>5, Zenon
    <3>2. /\ a.count + 1 >= w =>
               d = [text |-> Append(Append(Append(a.text, SP), NL), c), count |-> 0]
          /\ ~(a.count + 1 >= w) =>
               d = [text |-> Append(Append(a.text, SP), c), count |-> a.count + 1]
      BY <2>3, <2>5, TwoTurns, Zenon
    <3>3. /\ Len(ws) <= w => a = [text |-> q, count |-> Len(ws) - 1]
          /\ Len(ws) > w => a.text \in Begins(w)
      BY <3>1, Zenon DEF RowFormed
    <3>4. RowOf(v) = q \o (Space \o <<c>>) /\ q \o (Space \o <<c>>) = Append(Append(q, SP), c)
      BY <2>0, <2>3, <2>5 DEF Text, Space
    <3> HIDE DEF a, d, q, v
    <3>5. \A t \in Begins(w), x \in Token : Append(t, x) \in Begins(w)
      BY BeginsGrows, Zenon
    <3>6. d.text \in {Append(Append(Append(a.text, SP), NL), c), Append(Append(a.text, SP), c)}
      BY <3>2
    <3>7. CASE Len(ws) > w
      <4>1. Append(a.text, SP) \in Begins(w)
        BY <3>3, <3>5, <3>7, <2>0, Zenon
      <4>2. Append(Append(a.text, SP), NL) \in Begins(w)
        BY <4>1, <3>5, <2>0, Zenon
      <4>3. d.text \in Begins(w)
        BY <4>1, <4>2, <3>5, <3>6, <2>0, Zenon
      <4>4. Len(v) > w /\ ~(Len(v) <= w)
        BY <2>1, <3>7
      <4> QED
        BY <4>3, <4>4, <2>1, Zenon DEF RowFormed, v, d
    <3>8. CASE Len(ws) = w
      <4>1. a.text = q /\ a.count = Len(ws) - 1
        BY <3>3, <3>8
      <4>2. a.count + 1 >= w
        BY <4>1, <3>8
      <4>3. d.text = Append(Append(Append(q, SP), NL), c)
        BY <4>1, <4>2, <3>2
      <4>4. Append(Append(q, SP), NL) \in Begins(w)
        BY <3>8, <2>5, RowBegins, Zenon DEF q
      <4>5. d.text \in Begins(w)
        BY <4>3, <4>4, <3>5, <2>0, Zenon
      <4>6. Len(v) > w /\ ~(Len(v) <= w)
        BY <2>1, <3>8
      <4> QED
        BY <4>5, <4>6, <2>1, Zenon DEF RowFormed, v, d
    <3>9. CASE Len(ws) < w
      <4>1. a.text = q /\ a.count = Len(ws) - 1
        BY <3>3, <3>9, <2>1
      <4>2. ~(a.count + 1 >= w) /\ a.count + 1 = Len(v) - 1
        BY <4>1, <3>9, <2>1
      <4>3. d = [text |-> RowOf(v), count |-> Len(v) - 1]
        BY <4>1, <4>2, <3>2, <3>4, Zenon
      <4>4. ~(Len(v) > w)
        BY <2>1, <3>9
      <4> QED
        BY <4>3, <4>4, <2>1, Zenon DEF RowFormed, v, d
    <3> QED
      BY <3>7, <3>8, <3>9, <2>1
  <2> QED
    BY <2>4, <2>5
<1>5. ASSUME NEW ws \in Seq(Word), ws \in H, ws # <<>> PROVE RowFormed(ws, w)
  BY <1>5, Zenon
<1> DEFINE T == Word
<1> HIDE DEF H, T
<1>3. \A s \in Seq(T), x \in T : s \in H => Append(s, x) \in H
  BY <1>2 DEF T
<1>4. Seq(T) \subseteq H
  BY <1>1, <1>3, SeqInduction
<1>6. \A ws \in Seq(Word) : ws \in H
  BY <1>4, Zenon DEF T
<1> QED
  BY <1>5, <1>6, Zenon

\* The text of an image of one row is that row.
LEMMA OneRow ==
  ASSUME NEW P \in Seq(Color), P # <<>>
  PROVE  PixText(P, Len(P), 1) = RowOf(Map(CodeToken, P))
<1> DEFINE n == Len(P)
           s == PiecesOf(P, n, 1)
<1>1. n \in Nat /\ n * 1 = n /\ 1 \in Nat
  OBVIOUS
<1>2. s \in Seq(Seq(Color)) /\ Len(s) = 1
  BY <1>1, PiecesOfType
<1>3. FlattenSeq(s) = P
  BY <1>1, FlattenPieces
<1> HIDE DEF s
<1>4. s = <<s[1]>> /\ s[1] \in Seq(Color)
  <2> DEFINE T == Seq(Color)
  <2> HIDE DEF T
  <2>1. s \in Seq(T) /\ Len(s) = 1
    BY <1>2 DEF T
  <2>2. s = <<s[1]>> /\ s[1] \in T
    BY <2>1
  <2> QED
    BY <2>2 DEF T
<1>5. FlattenSeq(<<s[1]>>) = s[1]
  BY <1>4, FlattenOne
<1>6. s = <<P>>
  BY <1>3, <1>4, <1>5, Zenon
<1>7. Map(RowText, <<P>>) = <<RowText[P]>>
  BY DEF Map
<1>8. RowText[P] = RowOf(Map(CodeToken, P)) /\ RowText[P] \in Text
  BY RowTextType, InnerIsText
<1>9. Join(<<RowText[P]>>, Newline) = RowText[P]
  BY <1>8, JoinOne, Separators
<1> QED
  BY <1>6, <1>7, <1>8, <1>9, Zenon DEF PixText, s

LEMMA WidthFormed ==
  ASSUME NEW P \in Seq(Color), NEW w \in 1..Len(P)
  PROVE  textToPixel(formatText(PixText(P, Len(P), 1), w)).width = w
<1> DEFINE ws == Map(CodeToken, P)
           n == Len(P)
           t == PixText(P, n, 1)
<1>1. w \in Nat \ {0} /\ w \in Nat /\ n \in Nat /\ P # <<>> /\ w <= n
  OBVIOUS
<1>2. t = RowOf(ws)
  BY <1>1, OneRow, Zenon
<1>3. ws \in Seq(Word) /\ Len(ws) = n
  BY RowTextType, MapLen
<1>4. ws # <<>>
  BY <1>1, <1>3
<1> HIDE DEF ws
<1>5. RowOf(ws) \in Text
  BY <1>3, RowWords, InnerIsText, Zenon
<1>6. RowFormed(ws, w)
  BY <1>1, <1>3, <1>4, RowForms, Zenon
<1>7. formatText(t, w) = Formatting(RowOf(ws), w).text
  BY <1>1, <1>2, <1>5, FormGrows, Zenon
<1>8. CASE n > w
  <2>1. formatText(t, w) \in Begins(w)
    BY <1>3, <1>6, <1>7, <1>8, Zenon DEF RowFormed
  <2> QED
    BY <2>1, <1>1, BeginsWidth, Zenon
<1>9. CASE n = w
  <2>1. n <= w
    BY <1>9, <1>1
  <2>2. Formatting(RowOf(ws), w) = [text |-> RowOf(ws), count |-> Len(ws) - 1]
    BY <2>1, <1>3, <1>6, Zenon DEF RowFormed
  <2>3. formatText(t, w) = t
    BY <2>2, <1>2, <1>7
  <2>4. Len(P) = n * 1 /\ 1 \in Nat
    BY <1>1
  <2>5. textToPixel(t) = Image(n, P)
    BY <2>4, <1>1, PictureComesBack, Zenon
  <2>6. Image(n, P) = [width |-> n, height |-> Len(P) \div n, pixels |-> Map(Recolour, P)]
    BY <1>1, ImageIs, Zenon
  <2>7. Image(n, P).width = n
    BY <2>6
  <2> HIDE DEF n, t
  <2> QED
    BY <2>3, <2>5, <2>7, <1>9, Zenon DEF n, t
<1> QED
  BY <1>1, <1>8, <1>9

-----------------------------------------------------------------------------
(***************************************************************************)
(* isValidCode, and the tools together                                     *)
(***************************************************************************)

\* What can be in a text the codec wrote.
CodecToken == PixelToken \cup {Marker} \cup {Amp(n) : n \in Int}

LEMMA CodecTokens ==
  /\ PixelToken \subseteq CodecToken /\ Marker \in CodecToken /\ \A n \in Int : Amp(n) \in CodecToken
  /\ SP \in CodecToken /\ NL \in CodecToken
  /\ \A c \in CodecToken : c \notin {SP, NL} =>
       (isValidCode(c.chars) <=> c # Marker /\ c.num = <<>>)
<1>1. /\ PixelToken \subseteq CodecToken /\ Marker \in CodecToken
      /\ \A n \in Int : Amp(n) \in CodecToken
  BY Zenon DEF CodecToken
<1>2. SP \in CodecToken /\ NL \in CodecToken
  BY <1>1, PixelTokens, Zenon
<1>3. ASSUME NEW c \in PixelToken, c \notin {SP, NL}
      PROVE  isValidCode(c.chars) /\ c # Marker /\ c.num = <<>>
  BY <1>3, PixelTokens, Zenon
<1>4. ~isValidCode(Marker.chars)
  <2>1. Marker.chars = MarkerChars /\ 1 \in DOMAIN MarkerChars /\ MarkerChars[1] = "-"
    <3>1. Marker.chars = MarkerChars
      BY DEF Marker, Plain
    <3>2. 1 \in DOMAIN MarkerChars /\ MarkerChars[1] = "-"
      BY DEF MarkerChars
    <3> QED
      BY <3>1, <3>2
  <2>2. "-" \notin Letter \cup {"L", "D"}
    BY DEF Letter
  <2> QED
    BY <2>1, <2>2, Zenon DEF isValidCode
<1>5. ASSUME NEW n \in Int PROVE ~isValidCode(Amp(n).chars) /\ Amp(n).num # <<>>
  <2> DEFINE w == <<"A", "(", ")">>
  <2>1. Amp(n).chars = w /\ Amp(n).num = <<n>>
    BY AmpIs
  <2>2. 1 \in DOMAIN w /\ w[1] = "A"
    OBVIOUS
  <2>3. "A" \notin Letter \cup {"L", "D"}
    BY DEF Letter
  <2>4. <<n>> # <<>>
    OBVIOUS
  <2> HIDE DEF w
  <2> QED
    BY <2>1, <2>2, <2>3, <2>4, Zenon DEF isValidCode
<1>6. ASSUME NEW c \in CodecToken, c \notin {SP, NL}
      PROVE  isValidCode(c.chars) <=> c # Marker /\ c.num = <<>>
  <2>1. CASE c \in PixelToken
    BY <2>1, <1>3, <1>6, Zenon
  <2>2. CASE c = Marker
    BY <2>2, <1>4, Zenon
  <2>3. CASE c \in {Amp(n) : n \in Int}
    <3>1. PICK n \in Int : c = Amp(n)
      BY <2>3, Zenon
    <3> QED
      BY <3>1, <1>5, Zenon
  <2> QED
    BY <2>1, <2>2, <2>3, Zenon DEF CodecToken
<1> QED
  BY <1>1, <1>2, <1>6, Zenon

LEMMA LoudTokens ==
  \A ns \in Seq(Int) : LoudText(ns) \in Seq(CodecToken)
<1> DEFINE T == CodecToken
<1>1. ASSUME NEW n \in Int PROVE AmpText[n] \in Seq(CodecToken)
  <2>1. AmpText[n] = <<Amp(n), NL>>
    BY Zenon DEF AmpText
  <2>2. Amp(n) \in CodecToken /\ NL \in CodecToken
    BY CodecTokens, Zenon
  <2> DEFINE x == Amp(n)
             y == NL
  <2> HIDE DEF x, y
  <2>3. x \in CodecToken /\ y \in CodecToken
    BY <2>2 DEF x, y
  <2>4. <<x, y>> \in Seq(CodecToken)
    BY <2>3
  <2> QED
    BY <2>1, <2>4, Zenon DEF x, y
<1>2. AmpText = [n \in Int |-> AmpText[n]]
  BY AmpTypes, Zenon
<1> DEFINE f == AmpText
<1> HIDE DEF T, f
<1>3. f \in [Int -> Seq(T)]
  <2>1. f = [n \in Int |-> f[n]] /\ \A n \in Int : f[n] \in Seq(T)
    BY <1>1, <1>2, Zenon DEF f, T
  <2> QED
    BY <2>1, Zenon
<1>4. ASSUME NEW ns \in Seq(Int) PROVE FlattenSeq(Map(f, ns)) \in Seq(T)
  <2>1. Map(f, ns) \in Seq(Seq(T))
    BY <1>3, MapType
  <2> HIDE DEF f
  <2> QED
    BY <2>1, FlattenType
<1> QED
  BY <1>4, Zenon DEF LoudText, f, T

LEMMA CodecTexts ==
  ASSUME CodecInv, encryptor \in {"encryptImage", "encryptVideo", "encryptAudio"}
  PROVE  text \in Seq(CodecToken)
<1>0. Typed /\ Encodes /\ rate \in Int /\ nanAs \in Int
  BY DEF CodecInv, Typed
<1>1. Seq(PixelToken) \subseteq Seq(CodecToken)
  BY CodecTokens, SeqMono
<1>2. CASE encryptor = "encryptImage"
  <2>1. media \in ImageFile /\ text = PixText(media.pixels, media.width, media.height)
    BY <1>0, <1>2, Zenon DEF Encodes
  <2>2. /\ media.pixels \in Seq(Color) /\ media.width \in Nat /\ media.height \in Nat
        /\ Len(media.pixels) = media.width * media.height
    BY <2>1, ImageFiles, Zenon
  <2>3. PixText(media.pixels, media.width, media.height) \in Seq(PixelToken)
    BY <2>2, PixTextOver, Zenon
  <2> QED
    BY <2>1, <2>3, <1>1, Zenon
<1>3. CASE encryptor = "encryptVideo"
  <2> DEFINE F == media.frames
             w == media.width
             h == media.height
             ns == Levels(media.samples, rate, nanAs)
             J == Reel(F, w, h)
             u == LoudText(ns)
  <2>1. media \in VideoFile /\ text = Film(F, w, h, ns)
    BY <1>0, <1>3, Zenon DEF Encodes
  <2>2. w \in Nat /\ h \in Nat /\ F \in Seq(Shots(w, h)) /\ media.samples \in Seq(AnySample)
    BY <2>1, VideoFiles
  <2>3. ns \in Seq(Int)
    BY <1>0, <2>2, LevelsAre, Zenon
  <2> HIDE DEF F, w, h, ns
  <2>4. /\ J \in Seq(PixelToken)
        /\ ns = <<>> => text = J
        /\ ns # <<>> => text = (J \o Between) \o u
    BY <2>1, <2>2, <2>3, FilmIs, Zenon
  <2>5. u \in Seq(CodecToken)
    BY <2>3, LoudTokens, Zenon
  <2>6. Between \in Seq(CodecToken)
    <3> DEFINE x == NL
               y == Marker
    <3>1. x \in CodecToken /\ y \in CodecToken
      BY CodecTokens, Zenon
    <3>2. Between = <<x, y, x>>
      BY DEF Between
    <3> HIDE DEF x, y
    <3>3. <<x, y, x>> \in Seq(CodecToken)
      BY <3>1
    <3> QED
      BY <3>2, <3>3, Zenon
  <2>7. J \in Seq(CodecToken)
    BY <2>4, <1>1, Zenon
  <2> DEFINE T == CodecToken
  <2> HIDE DEF J, u, T
  <2>8. \A a, b \in Seq(T) : a \o b \in Seq(T)
    OBVIOUS
  <2>9. (J \o Between) \o u \in Seq(CodecToken)
    BY <2>5, <2>6, <2>7, <2>8, Zenon DEF T
  <2> QED
    BY <2>4, <2>7, <2>9, Zenon
<1>4. CASE encryptor = "encryptAudio"
  <2>1. media \in SoundFile /\ text = LoudText(Levels(media.samples, rate, nanAs))
    BY <1>0, <1>4, Zenon DEF Encodes
  <2>2. media.samples \in Seq(AnySample)
    BY <2>1, SoundFiles
  <2>3. Levels(media.samples, rate, nanAs) \in Seq(Int)
    BY <1>0, <2>2, LevelsAre, Zenon
  <2> QED
    BY <2>1, <2>3, LoudTokens, Zenon
<1> QED
  BY <1>2, <1>3, <1>4

LEMMA ToolsKeep ==
  ASSUME CodecInv
  PROVE  ToolsKeepPixels
<1>1. text \in Text
  BY TextsAreTexts DEF CodecInv
<1> DEFINE pixels(t) == textToPixel(t).pixels
<1>2. pixels(removeExtraSpaces(text)) = pixels(text)
  BY <1>1, SpacesRemoved, SamePixels, Zenon
<1>3. pixels(trim(text)) = pixels(text)
  BY <1>1, Trimmed, SamePixels, Zenon
<1>4. textToPixel(Join(parseText(text), <<NL>>)) = textToPixel(text)
  BY <1>1, Parsed, Zenon
<1>5. ASSUME NEW w \in 1..3 PROVE pixels(formatText(text, w)) = pixels(text)
  <2>1. w \in Nat
    OBVIOUS
  <2> QED
    BY <2>1, <1>1, Formatted, SamePixels, Zenon
<1>6. ASSUME encryptor = "encryptImage", media.height = 1, NEW w \in 1..media.width
      PROVE  textToPixel(formatText(text, w)).width = w
  <2>1. media \in ImageFile /\ text = PixText(media.pixels, media.width, media.height)
    BY <1>6, Zenon DEF CodecInv, Encodes
  <2>2. /\ media.pixels \in Seq(Color) /\ media.width \in Nat
        /\ Len(media.pixels) = media.width * media.height
    BY <2>1, ImageFiles, Zenon
  <2>3. Len(media.pixels) = media.width
    BY <2>2, <1>6
  <2>4. text = PixText(media.pixels, Len(media.pixels), 1) /\ w \in 1..Len(media.pixels)
    BY <2>1, <2>3, <1>6, Zenon
  <2>5. textToPixel(formatText(PixText(media.pixels, Len(media.pixels), 1), w)).width = w
    BY <2>2, <2>4, WidthFormed, Zenon
  <2> QED
    BY <2>4, <2>5, Zenon
<1> QED
  BY <1>2, <1>3, <1>4, <1>5, <1>6, Zenon DEF ToolsKeepPixels

LEMMA ValidatorTells ==
  ASSUME CodecInv
  PROVE  ValidatorTellsPixels
<1> SUFFICES ASSUME encryptor \in {"encryptImage", "encryptVideo", "encryptAudio"},
                    NEW i \in DOMAIN text, text[i] \notin {SP, NL}
             PROVE  isValidCode(text[i].chars) <=> text[i] # Marker /\ text[i].num = <<>>
  BY Zenon DEF ValidatorTellsPixels
<1>1. text \in Seq(CodecToken)
  BY CodecTexts, Zenon
<1> DEFINE T == CodecToken
<1> HIDE DEF T
<1>2. text \in Seq(T)
  BY <1>1 DEF T
<1>3. text[i] \in T
  BY <1>2
<1> QED
  BY <1>3, CodecTokens, Zenon DEF T

\* removeExtraSpaces, trim, parseText and formatText keep the pixels of every
\* text, in order, formatText gives a single row every width up to its own, and
\* isValidCode accepts the codes of pixels and nothing else, for media of every
\* size (string_cleaner.cpp:6-30, text_parser.cpp:7-19, text_formatter.cpp:5-21,
\* code_validator.cpp:6-16).
THEOREM ToolsAreFit == Spec => []ToolsFitCodec
<1>1. CodecInv => ToolsFitCodec
  BY ToolsKeep, ValidatorTells, Zenon DEF ToolsFitCodec
<1> QED
  BY <1>1, CodecInvariant, PTL

=============================================================================
