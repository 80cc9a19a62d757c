---------------------------- MODULE MCXzCompressor ----------------------------
(* compressXZ on every text of at most five bytes, with an outBuffer that    *)
(* fills several times within a Stream.                                      *)
EXTENDS XzCompressor

MCChar == {"x"}
MCPayload == {"a", "b"}
MCRun == [s \in MCPayload |-> <<"x">>]

MaxText == 5
MCTexts == UNION {[1..n -> MCPayload] : n \in 0..MaxText}
=============================================================================
