------------------------------ MODULE MCTextCodec ------------------------------
(* Images up to 2 x 2, 3 x 1 and 1 x 3 and without pixels, videos of no to     *)
(* three frames with and without sound, sounds of up to ten samples, and every *)
(* text of up to five codes and white spaces, and of up to four tokens with    *)
(* markers and amplitudes.                                                     *)
EXTENDS TextCodec

MCChar == {" ", "\n", "-", "_", "(", ")", "A", "B", "D", "G", "I", "L", "O", "R", "S", "T", "U"}

Black == RGB(0, 0, 0)
Red == RGB(250, 10, 10)
Teal == RGB(10, 130, 120)

Size(w, h) == [w |-> w, h |-> h]
Sizes == {Size(w, h) : w, h \in 0..2} \cup {Size(3, 1), Size(1, 3)}

\* One pixel, on a grid that has the values around every threshold of the code.
Grid == {0, 29, 30, 54, 55, 99, 100, 127, 155, 156, 200, 201, 254, 255}
Dots == {[kind |-> "image", width |-> 1, height |-> 1, pixels |-> <<c>>] :
           c \in [r : Grid, g : Grid, b : Grid]}

MCImages ==
  Dots \cup UNION {{[kind |-> "image", width |-> s.w, height |-> s.h, pixels |-> p] :
            p \in [1..(s.w * s.h) -> {Black, Red, Teal}]} : s \in Sizes}

\* Loud, quiet, negative, and the values whose product with 100.0 is rounded.
Values == <<-999, 290, 1500, 0, 580, 570, 5, 1000, -430, 9>>
Some(n) == [i \in 1..n |-> Sample(Values[i])]

MCSounds == {[kind |-> "audio", samples |-> s] : s \in {Some(n) : n \in 0..10} \cup {<<NaN, Sample(9)>>}}

Solid(s, c) == [i \in 1..(s.w * s.h) |-> c]
MCVideos ==
  UNION {{[kind |-> "video", width |-> s.w, height |-> s.h, frames |-> f, samples |-> a] :
            f \in BoundedSeq({Solid(s, Red), [Solid(s, Black) EXCEPT ![1] = Teal]}, 3),
            a \in {<<>>, Some(1), Some(3), <<NaN>>}} :
         s \in {Size(1, 1), Size(2, 1), Size(1, 2), Size(2, 2)}}

MCTexts ==
  BoundedSeq({Plain(<<"R">>), SP, NL}, 5) \cup BoundedSeq({Plain(<<"R">>), NL, Marker, Amp(150)}, 4)

MCRates == {-1, 0, 1, 2, 3, 4}
MCExts == {"png", "jpg", "bmp", "mp4", "wav"}
=============================================================================
