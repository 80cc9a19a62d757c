------------------------------- MODULE MCBmpFile -------------------------------
(* Images of 0 x 0 to 5 x 3 pixels, so that rows have 0 to 3 bytes of padding, *)
(* each byte of which is different; and headers of every depth and sign.  An   *)
(* int has 9 bits: the row size of images 10 pixels wide is negative, and that *)
(* of images 22 pixels wide too small; the larger headers overflow each of the *)
(* sizes the reader calculates.                                                *)
EXTENDS BmpFile

Picture(w, h) ==
  [width |-> w, height |-> h,
   pixels |-> [i \in 1..(w * h) |-> [r |-> 3 * i, g |-> 3 * i + 1, b |-> 3 * i + 2]]]

MCPictures ==
  ({Picture(w, h) : w \in 0..5, h \in 0..3} \ {NoPicture})
  \cup {Picture(10, 1), Picture(22, 1)}

MCHeaders ==
  [width : {-3, -1, 0, 1, 2, 5, 16}, height : {-2, -1, 0, 1, 2, 22}, bitsPerPixel : {-8, 0, 1, 4, 8, 16, 24, 32},
   dataOffset : {-1, 54, 57}]

MCForeign ==
  {[header |-> h, bytes |-> [i \in 1..n |-> 10 * i]] : h \in MCHeaders, n \in {0, 7, 16}}
=============================================================================
