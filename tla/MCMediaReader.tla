---------------------------- MODULE MCMediaReader ----------------------------
(* The three readers on small files: no packets, packets without frames, one  *)
(* and two frames, of both streams, and a decoder one frame behind.           *)
EXTENDS MediaReader

MCFrame == 1..6
P(s, fs) == [stream |-> s, frames |-> fs]
F(ss, ps) == [streams |-> ss, packets |-> ps]
Both == {"video", "audio"}

MCFiles ==
  {F({}, <<>>), F({"video"}, <<>>), F({"audio"}, <<P("audio", <<1>>)>>),
   F(Both, <<P("video", <<1>>), P("audio", <<5>>), P("video", <<2>>)>>),
   F(Both, <<P("video", <<>>), P("video", <<1, 2>>), P("audio", <<5, 6>>),
             P("video", <<3>>), P("audio", <<>>), P("video", <<4>>)>>),
   F({"video"}, <<P("video", <<1, 2, 3>>), P("video", <<4>>), P("video", <<5, 6>>)>>)}

\* 3 frames a second, 3 in two seconds, none, and an unknown rate.
MCRates == {[num |-> 3, den |-> 1], [num |-> 3, den |-> 2], [num |-> 0, den |-> 1],
            [num |-> 0, den |-> 0]}
MCTargets == {-1, 0, 1, 2}
=============================================================================
