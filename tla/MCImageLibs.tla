------------------------------ MODULE MCImageLibs ------------------------------
(* Files and images of up to 3 x 2 pixels in every colour type, each pixel of  *)
(* its own colour.  An int has 6 bits: of larger images the bytes, or even the *)
(* pixels, overflow to a negative or to a small size, and one image is larger  *)
(* than the libraries take.                                                    *)
EXTENDS ImageLibs

WidthsHeights == {<<w, h>> : w \in 1..3, h \in 1..2}
                 \cup {<<4, 3>>, <<4, 7>>, <<7, 5>>, <<8, 1>>}
Grey(i) == [r |-> i, g |-> i, b |-> i]
Colour(i) == [r |-> 3 * i, g |-> 3 * i + 1, b |-> 3 * i + 2]

FileOf(s, c, t) ==
  [width |-> s[1], height |-> s[2], colorType |-> c, tRNS |-> t,
   pixels |-> [i \in 1..(s[1] * s[2]) |->
                 IF c \in {"gray", "gray_alpha"} THEN Grey(i) ELSE Colour(i)]]

MCPngs ==
  {FileOf(s, c, FALSE) : s \in WidthsHeights, c \in PngColor}
  \cup {FileOf(s, c, TRUE) : s \in WidthsHeights, c \in {"gray", "palette", "rgb"}}
MCJpegs == {FileOf(s, c, FALSE) : s \in WidthsHeights, c \in JpegColor}

MCImages ==
  {[width |-> s[1], height |-> s[2], pixels |-> [i \in 1..(s[1] * s[2]) |-> Colour(i)]] :
     s \in WidthsHeights \cup {<<0, 0>>}}
=============================================================================
