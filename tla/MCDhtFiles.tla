------------------------------ MODULE MCDhtFiles ------------------------------
(* Calls over a handful of files: encryptors that share an output, decryptors *)
(* that read while it is written, and media overwritten while they are read.  *)
EXTENDS DhtFiles, TLC

MCChar == {"x"}
MCPayload == {"a", "b"}
MCRun == [s \in MCPayload |-> <<"x">>]
MCByte == Symbol

MCPath == {"one", "none", "empty", "c", "bmp", "png", "jpg"}
MCExt == [f \in MCPath |-> CASE f \in {"one", "none", "png"} -> "png"
                             [] f \in {"empty", "bmp"} -> "bmp"
                             [] f = "jpg" -> "jpg"
                             [] OTHER -> ""]
MCMedia == [f \in MCPath |-> CASE f = "one" -> [frames |-> <<"a">>, sound |-> <<>>]
                               [] f = "empty" -> [frames |-> <<>>, sound |-> <<>>]
                               [] f = "jpg" -> [frames |-> <<"a", "b">>, sound |-> <<"b">>]
                               [] OTHER -> NoText]
MCJunk == {<<>>, <<"a">>}

K1 == <<"X", "F">>
K2 == <<"F", "X">>
Weakling == <<"X">>
C(op, in, out, password) == [op |-> op, in |-> in, out |-> out, password |-> password]

MCCalls ==
  {C("encryptImage", "one", "c", K1), C("encryptImage", "jpg", "c", K2),
   C("encryptAudio", "empty", "c", K1), C("encryptImage", "none", "c", K1),
   C("encryptVideo", "one", "bmp", Weakling), C("encryptImage", "c", "png", K1),
   C("encryptImage", "bmp", "c", K1), C("encryptVideo", "one", "jpg", K1),
   C("encryptVideo", "jpg", "c", K1), C("decryptVideo", "jpg", "c", K1),
   C("decryptImage", "c", "bmp", K1), C("decryptImage", "c", "png", K1),
   C("decryptImage", "c", "jpg", K1), C("decryptVideo", "c", "bmp", K2),
   C("decryptAudio", "c", "png", K1), C("decryptImage", "none", "one", Weakling)}

\* The calls that meet in one container file.
SharedCalls ==
  {C("encryptImage", "one", "c", K1), C("encryptImage", "jpg", "c", K2),
   C("encryptAudio", "empty", "c", K1), C("decryptImage", "c", "bmp", K1)}

Symmetry == Permutations(Proc)

MCIvs == {<<RawCell("X")>>, <<RawCell("F")>>}
=============================================================================
