------------------------------- MODULE MCAesGcm -------------------------------
(* encryptData and decryptData with lengths scaled down: 2-byte keys, 1-byte  *)
(* ivs, 2-byte tags and an int of -4..3, so that sizes 4..7 narrow to a       *)
(* negative number and sizes from 8 on wrap.                                  *)
EXTENDS AesGcm, SequencesExt, FiniteSets

MCByte == {"p", "q", "r"}
\* Too short; two passwords with one key; one with another key.
MCPasswords == {<<"p">>, <<"p", "q">>, <<"p", "q", "r">>, <<"q", "p">>}
Repeat(b, n) == [i \in 1..n |-> b]
MCPlaintexts == {<<>>, <<"p">>, <<"q", "p">>, Repeat("p", 4), Repeat("p", 9)}
MCIvs == {<<RawCell("p")>>, <<RawCell("q")>>}

Containers(ms) == {m.container : m \in ms}

\* Unharmed containers, their truncations, the head of one with the
\* ciphertext of another, one byte replaced, and trailing bytes added (eight
\* of them vanish in the narrowed size).
MCStored(ms) ==
  LET C == Containers(ms) IN
  {<<>>, <<RawCell("p"), RawCell("p"), RawCell("q"), RawCell("r")>>}
  \cup C
  \cup UNION {{SubSeq(c, 1, n) : n \in {2, 3, Len(c) - 1}} : c \in C}
  \cup UNION {{SubSeq(c, 1, n) \o SubSeq(d, n + 1, Len(d)) : n \in {1, 3}} : c \in C, d \in C}
  \cup {[c EXCEPT ![i] = RawCell("r")] : c \in C, i \in {1, 2}}
  \cup {c \o Repeat(RawCell("p"), n) : c \in C, n \in {1, 8}}
=============================================================================
