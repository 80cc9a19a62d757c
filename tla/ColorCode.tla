------------------------------- MODULE ColorCode -------------------------------
(***************************************************************************)
(* The colour code of src/core/color: rgbToCode() turns a pixel into one   *)
(* of a few codes, codeToRGB() a code back into a pixel, isValidCode()     *)
(* tells codes from other words.  A code is the sequence of its letters.   *)
(*                                                                         *)
(* BASE_COLORS is an unordered_map: rgbToCode visits its letters in an     *)
(* order the C++ library chooses, which is an argument here.               *)
(***************************************************************************)
EXTENDS Integers, Sequences

Channel == 0..255
Color == [r : Channel, g : Channel, b : Channel]

RGB(r, g, b) == [r |-> r, g |-> g, b |-> b]

Letter == {"R", "G", "B"}
BASE_COLORS == [l \in Letter |-> CASE l = "R" -> RGB(255, 0, 0)
                                   [] l = "G" -> RGB(0, 255, 0)
                                   [] l = "B" -> RGB(0, 0, 255)]

\* The orders in which the map may be traversed.
Orders == {o \in [1..3 -> Letter] : \A i, j \in 1..3 : i # j => o[i] # o[j]}

-----------------------------------------------------------------------------
Square(x) == x * x

\* A faulty variant: the distance is compared with 200.
NearWide(c, l) ==
  LET base == BASE_COLORS[l] IN
  Square(c.r - base.r) + Square(c.g - base.g) + Square(c.b - base.b) < 200 * 200

\* dist < 100.0, without the square root.
Near(c, l) ==
  LET base == BASE_COLORS[l] IN
  Square(c.r - base.r) + Square(c.g - base.g) + Square(c.b - base.b) < 100 * 100

ChannelOf(c, l) == CASE l = "R" -> c.r [] l = "G" -> c.g [] l = "B" -> c.b

\* What one turn of the loop adds to the code.
LetterCode(c, l) ==
  IF ~Near(c, l) THEN <<>>
  ELSE CASE ChannelOf(c, l) > 200 -> <<l, "L">>
         [] ChannelOf(c, l) < 55  -> <<l, "D">>
         [] OTHER                 -> <<l>>

Dark(c) == c.r < 30 /\ c.g < 30 /\ c.b < 30

rgbToCode(c, order) ==
  LET code == LetterCode(c, order[1]) \o LetterCode(c, order[2]) \o LetterCode(c, order[3])
  IN  CASE code # <<>> -> code
        [] code = <<>> /\ Dark(c) -> <<"R", "G", "B", "D">>
        [] OTHER -> <<"R", "G", "B">>

-----------------------------------------------------------------------------
\* A faulty variant: L and D are exchanged.
Factor2Swapped(code, i) ==
  CASE i < Len(code) /\ code[i + 1] = "L" -> 1
    [] i < Len(code) /\ code[i + 1] = "D" -> 3
    [] OTHER -> 2

\* factor of the letter at position i, doubled: 1.5 for L, 0.5 for D, else 1.
Factor2(code, i) ==
  CASE i < Len(code) /\ code[i + 1] = "L" -> 3
    [] i < Len(code) /\ code[i + 1] = "D" -> 1
    [] OTHER -> 2

Min255(x) == IF x < 255 THEN x ELSE 255

Count(code) ==
  LET n[i \in 0..Len(code)] ==
        IF i = 0 THEN 0 ELSE n[i - 1] + (IF code[i] \in Letter THEN 1 ELSE 0)
  IN  n[Len(code)]

\* std::min(255, (int)(result + base * factor)) over the letters of code; a
\* modifier after a letter is skipped, and no modifier is itself a letter.
Mixed(code, channel) ==
  LET sum[i \in 0..Len(code)] ==
        IF i = 0 THEN 0
        ELSE IF code[i] \notin Letter THEN sum[i - 1]
        ELSE Min255((2 * sum[i - 1] + BASE_COLORS[code[i]][channel] * Factor2(code, i)) \div 2)
  IN  sum[Len(code)]

codeToRGB(code) ==
  LET n == Count(code) IN
  IF n = 0 THEN RGB(0, 0, 0)
  ELSE RGB(Mixed(code, "r") \div n, Mixed(code, "g") \div n, Mixed(code, "b") \div n)

-----------------------------------------------------------------------------
isValidCode(code) ==
  code # <<>> /\ \A i \in DOMAIN code : code[i] \in Letter \cup {"L", "D"}

=============================================================================
