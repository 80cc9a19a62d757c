--------------------------- MODULE MCXzDecompressor ---------------------------
(* decompressXZ on small inputs: what compressXZ writes, its truncations,   *)
(* concatenations, paddings and single-field corruptions.                   *)
EXTENDS XzDecompressor, SequencesExt

MCChar == {"x", "y"}
MCPayload == {"a", "b"}
\* "a" is a literal, "b" a match that fills outBuffer more than twice.
MCRun == [s \in MCPayload |-> IF s = "a" THEN <<"x">> ELSE <<"y", "x", "y", "x", "x">>]

Bodies == {<<>>, <<"a">>, <<"b">>, <<"a", "b">>, <<"b", "b">>}
Streams == {<<"H", "B">> \o p \o <<"E", "I", "F">> : p \in Bodies}
Paddings == {<<>>, <<"Z">>, <<"Z", "Z", "Z", "Z">>}

Whole == Streams
         \cup {<<"H", "I", "F">>}
         \cup {s \o z : s \in Streams, z \in Paddings}
         \cup {<<"H", "B", "a", "E", "I", "F">> \o z \o s : z \in Paddings, s \in Streams}

Truncated == UNION {{SubSeq(s, 1, n) : n \in 0..Len(s)} : s \in Whole}

Corrupted == UNION {{[s EXCEPT ![i] = c] : i \in DOMAIN s, c \in {"X", "Z", "E"}} : s \in Streams}

MCInputs == Whole \cup Truncated \cup Corrupted
=============================================================================
