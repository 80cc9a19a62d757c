---------------------------- MODULE MCMemoryStream ----------------------------
(* A size_t of 4 bits and up to 5 bytes: sums that wrap, and reads that end at, *)
(* before and behind the end.                                                   *)
EXTENDS MemoryStream

MCOctet == {"x", "y"}
MCBuffers == {<<"x">>, <<"y", "x">>}
=============================================================================
