------------------------------- MODULE LzmaCode -------------------------------
(***************************************************************************)
(* The liblzma entry point both XZ loops of Dht go through: lzma_code() of *)
(* libs/liblzma/src/liblzma/common/common.c.  lzma_code() wraps a coder    *)
(* (the .xz Stream encoder or decoder).  It checks the caller's use of     *)
(* `action', runs the coder, and turns two calls in a row without progress *)
(* into LZMA_BUF_ERROR.                                                    *)
(*                                                                         *)
(* Symbols stand for the fields of an .xz Stream, each field whole:        *)
(*   "H" Stream Header   "B" Block Header  "E" end of Block (its Check)    *)
(*   "I" Index           "F" Stream Footer "Z" one zero byte of padding    *)
(*   "X" a byte that starts none of these fields                           *)
(* and the members of Payload stand for compressed data inside a Block;    *)
(* Run[s] is the text one of them decompresses to.                         *)
(***************************************************************************)
EXTENDS Naturals, Sequences

CONSTANTS Char,      \* the bytes of a text
          Payload,   \* compressed-data symbols
          Run,       \* Run[s]: the text a symbol of Payload stands for
          OutSize    \* outBuffer.size(): 8192 in both loops

Field == {"H", "B", "E", "I", "F", "Z", "X"}

ASSUME PayloadAssumption == Payload \cap Field = {}
ASSUME RunAssumption == Run \in [Payload -> Seq(Char)]
ASSUME OutSizeAssumption == OutSize \in Nat \ {0}

Symbol == Field \cup Payload

(***************************************************************************)
(* lzma_ret values.  DATA_ERROR stands for every fatal verdict on the      *)
(* input (FORMAT, OPTIONS, DATA), MEM_ERROR for a failed allocation.       *)
(***************************************************************************)
Ret == {"OK", "STREAM_END", "BUF_ERROR", "PROG_ERROR", "DATA_ERROR", "MEM_ERROR"}

LzmaAction == {"RUN", "FINISH"}

\* struct lzma_internal: what lzma_code() remembers between two calls.
Internal == [sequence        : {"ISEQ_RUN", "ISEQ_FINISH", "ISEQ_END", "ISEQ_ERROR"},
             avail_in        : Nat,
             allow_buf_error : BOOLEAN]

\* lzma_strm_init(): the state a fresh coder starts from.
FreshInternal ==
  [sequence |-> "ISEQ_RUN", avail_in |-> 0, allow_buf_error |-> FALSE]

-----------------------------------------------------------------------------
(***************************************************************************)
(* The switch at the top of lzma_code(): the sequence number after the     *)
(* call is admitted, or ISEQ_ERROR when it is refused with PROG_ERROR (an  *)
(* action other than FINISH after FINISH, or input added after it).        *)
(***************************************************************************)
Misused(in, action, avail_in) ==
  \/ in.sequence = "ISEQ_ERROR"
  \/ /\ in.sequence = "ISEQ_FINISH"
     /\ action # "FINISH" \/ in.avail_in # avail_in

Admit(in, action) ==
  IF in.sequence = "ISEQ_RUN" /\ action = "FINISH"
  THEN [in EXCEPT !.sequence = "ISEQ_FINISH"]
  ELSE in

\* The value lzma_code() returns when its coder returned r: OK without
\* progress is forgiven once and is BUF_ERROR the second time in a row.
CodeResult(in, r, progress) ==
  IF r = "OK" /\ ~progress /\ in.allow_buf_error THEN "BUF_ERROR" ELSE r

\* lzma_internal when lzma_code() returns.
Settle(in, r, progress, avail_in) ==
  [sequence        |-> CASE r = "STREAM_END" -> "ISEQ_END"
                         [] r = "OK"         -> in.sequence
                         [] OTHER            -> "ISEQ_ERROR",
   avail_in        |-> avail_in,
   allow_buf_error |-> CASE r = "STREAM_END" -> FALSE
                         [] r = "OK"         -> ~progress
                         [] OTHER            -> in.allow_buf_error]

-----------------------------------------------------------------------------
\* What stream_decode() returns when it runs out of input in the padding
\* after a Stream: only FINISH can end the decoding of concatenated Streams.
PaddingEnd(action, pos) ==
  CASE action # "FINISH" -> "OK"
    [] action = "FINISH" /\ pos = 0 -> "STREAM_END"
    [] OTHER -> "DATA_ERROR"

-----------------------------------------------------------------------------
(***************************************************************************)
(* What the two functions deliver, as their callers see it: the set of     *)
(* values a normal return may have.  XzCompressor and XzDecompressor are   *)
(* shown to keep to these two sets.                                        *)
(***************************************************************************)

\* The .xz Stream of a text: one Block holding all of it.
XzStream(d) == <<"H", "B">> \o d \o <<"E", "I", "F">>

CompressXZ(d) == IF d = <<>> THEN {<<>>} ELSE {XzStream(d)}

\* The empty text for empty data, and nothing for any other data: the loop of
\* decompressXZ ends normally only after LZMA_STREAM_END, which LZMA_RUN
\* never yields with LZMA_CONCATENATED.
DecompressXZ(d) == IF d = <<>> THEN {<<>>} ELSE {}

=============================================================================
