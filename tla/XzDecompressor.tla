---------------------------- MODULE XzDecompressor ----------------------------
(***************************************************************************)
(* decompressXZ() of src/core/compression/xz_decompressor.cpp, driving the *)
(* .xz Stream decoder of liblzma (stream_decode() of stream_decoder.c)     *)
(* through lzma_code().  One behaviour is one call of decompressXZ.        *)
(*                                                                         *)
(* pc:  "entry"    decompressXZ(data) was called                           *)
(*      "loop"     at the top of the while loop                            *)
(*      "coder"    inside lzma_code(), in the loop of stream_decode()      *)
(*      "check"    lzma_code() has returned ret                            *)
(*      "returned" / "threw" / "bad_alloc"  the call is over: a result, a  *)
(*                 DhtError or std::bad_alloc                              *)
(***************************************************************************)
EXTENDS LzmaCode

CONSTANT Inputs   \* the byte strings decompressXZ is called with

ASSUME InputsAssumption == Inputs \subseteq Seq(Symbol)

VARIABLES
  data,       \* the argument
  pc,
  next_in,    \* bytes of data consumed: avail_in = Len(data) - next_in
  out,        \* the part of outBuffer written by the current call
  output,     \* the vector the text is gathered in
  ret,
  internal,   \* lzma_internal of the stream
  live,       \* the stream owns liblzma memory: lzma_end() is still to come
  sequence,   \* lzma_coder.sequence of the Stream decoder
  pos,        \* lzma_coder.pos: position in the Stream Padding
  pending,    \* text decoded in the dictionary, not yet copied to outBuffer
  progress,   \* in_pos # 0 or out_pos # 0 in the current lzma_code() call
  plain       \* history: the text of all compressed data consumed so far

vars == <<data, pc, next_in, out, output, ret, internal, live, sequence, pos,
          pending, progress, plain>>
coderVars == <<sequence, pos, pending, plain>>

DecoderSequence == {"SEQ_STREAM_HEADER", "SEQ_BLOCK_HEADER", "SEQ_BLOCK",
                    "SEQ_INDEX", "SEQ_STREAM_FOOTER", "SEQ_STREAM_PADDING"}

TypeOK ==
  /\ data \in Inputs
  /\ pc \in {"entry", "loop", "coder", "check", "returned", "threw", "bad_alloc"}
  /\ next_in \in 0..Len(data)
  /\ out \in Seq(Char) /\ Len(out) <= OutSize
  /\ output \in Seq(Char)
  /\ ret \in Ret
  /\ internal \in Internal /\ live \in BOOLEAN
  /\ sequence \in DecoderSequence
  /\ pos \in 0..3
  /\ pending \in Seq(Char)
  /\ progress \in BOOLEAN
  /\ plain \in Seq(Char)

Init ==
  /\ data \in Inputs
  /\ pc = "entry"
  /\ next_in = 0
  /\ out = <<>> /\ output = <<>>
  /\ ret = "OK"
  /\ internal = FreshInternal /\ live = FALSE
  /\ sequence = "SEQ_STREAM_HEADER" /\ pos = 0 /\ pending = <<>>
  /\ progress = FALSE
  /\ plain = <<>>

-----------------------------------------------------------------------------
\* The action the loop passes to every lzma_code() call.
CodeAction == "RUN"

Exhausted == next_in = Len(data)
Peek == data[next_in + 1]
\* A faulty variant: outBuffer is taken to be full one byte late.
OutFullLate == Len(out) > OutSize

OutFull == Len(out) = OutSize

\* data.empty(): an empty string, without liblzma.
ReturnEmpty ==
  /\ pc = "entry" /\ data = <<>>
  /\ pc' = "returned"
  /\ UNCHANGED <<data, live, next_in, out, output, ret, internal, coderVars, progress>>

\* lzma_stream_decoder(&stream, UINT64_MAX, LZMA_CONCATENATED).
InitDecoder ==
  /\ pc = "entry" /\ data # <<>>
  /\ \/ ret' = "OK" /\ pc' = "loop" /\ live' = TRUE
     \/ ret' = "MEM_ERROR" /\ pc' = "threw" /\ UNCHANGED live
  /\ UNCHANGED <<data, next_in, out, output, internal, coderVars, progress>>

\* One turn of the loop up to the lzma_code() call: a fresh outBuffer.
CallCode ==
  /\ pc = "loop" /\ ret # "STREAM_END"
  /\ out' = <<>>
  /\ progress' = FALSE
  /\ IF Misused(internal, CodeAction, Len(data) - next_in)
     THEN /\ ret' = "PROG_ERROR" /\ pc' = "check"
          /\ UNCHANGED internal
     ELSE /\ internal' = Admit(internal, CodeAction) /\ pc' = "coder"
          /\ UNCHANGED ret
  /\ UNCHANGED <<data, live, next_in, output, coderVars>>

-----------------------------------------------------------------------------
(***************************************************************************)
(* stream_decode(): each turn of its loop consumes a field, copies one     *)
(* byte of text to outBuffer, moves to the next sequence, or returns.      *)
(***************************************************************************)

\* stream_decode() returns r, n more input bytes having been consumed, and
\* lzma_code() settles it.
Leave(r, n) ==
  LET moved == progress \/ n > 0 IN
  /\ next_in' = next_in + n
  /\ progress' = moved
  /\ ret' = CodeResult(internal, r, moved)
  /\ internal' = Settle(internal, r, moved, Len(data) - next_in - n)
  /\ pc' = "check"
  /\ UNCHANGED <<data, live, out, output, coderVars>>

\* Consume the field at Peek and continue in sequence s.
Consume(s) ==
  /\ next_in' = next_in + 1
  /\ progress' = TRUE
  /\ sequence' = s
  /\ UNCHANGED <<data, live, pc, out, output, ret, internal>>

Goto(s) ==
  /\ sequence' = s
  /\ UNCHANGED <<data, live, pc, next_in, out, output, ret, internal, pos, pending,
                 progress, plain>>

\* No input left in a field: LZMA_OK, "we didn't get the whole field yet".
WaitForInput ==
  /\ pc = "coder" /\ Exhausted
  /\ sequence \in {"SEQ_STREAM_HEADER", "SEQ_BLOCK_HEADER", "SEQ_INDEX",
                   "SEQ_STREAM_FOOTER"}
  /\ Leave("OK", 0)

StreamHeader ==
  /\ pc = "coder" /\ sequence = "SEQ_STREAM_HEADER" /\ ~Exhausted
  /\ \/ Peek = "H" /\ Consume("SEQ_BLOCK_HEADER") /\ UNCHANGED <<pos, pending, plain>>
     \/ Peek # "H" /\ Leave("DATA_ERROR", 1)

\* A zero byte starts the Index (and is not consumed here).  Setting up the
\* Block decoder allocates its dictionary, which may fail.
BlockHeader ==
  /\ pc = "coder" /\ sequence = "SEQ_BLOCK_HEADER" /\ ~Exhausted
  /\ \/ Peek \in {"I", "Z"} /\ Goto("SEQ_INDEX")
     \/ Peek = "B" /\ Consume("SEQ_BLOCK") /\ UNCHANGED <<pos, pending, plain>>
     \/ Peek = "B" /\ Leave("MEM_ERROR", 1)
     \/ Peek \notin {"I", "Z", "B"} /\ Leave("DATA_ERROR", 1)

\* A faulty variant: copying text does not count as progress.
CopyOutUncounted ==
  /\ pc = "coder" /\ sequence = "SEQ_BLOCK"
  /\ pending # <<>> /\ ~OutFull
  /\ out' = Append(out, Head(pending))
  /\ pending' = Tail(pending)
  /\ UNCHANGED <<data, live, pc, next_in, output, ret, internal, sequence, pos, plain,
                 progress>>

\* Text moves from the dictionary to outBuffer.
CopyOut ==
  /\ pc = "coder" /\ sequence = "SEQ_BLOCK"
  /\ pending # <<>> /\ ~OutFull
  /\ out' = Append(out, Head(pending))
  /\ pending' = Tail(pending)
  /\ progress' = TRUE
  /\ UNCHANGED <<data, live, pc, next_in, output, ret, internal, sequence, pos, plain>>

\* The Block decoder returns LZMA_OK when outBuffer is full, or when it has
\* neither input nor pending text.
BlockPause ==
  /\ pc = "coder" /\ sequence = "SEQ_BLOCK"
  /\ OutFull \/ (Exhausted /\ pending = <<>>)
  /\ Leave("OK", 0)

BlockInput ==
  /\ pc = "coder" /\ sequence = "SEQ_BLOCK" /\ pending = <<>> /\ ~Exhausted
  /\ \/ /\ Peek \in Payload
        /\ Consume("SEQ_BLOCK")
        /\ pending' = Run[Peek]
        /\ plain' = plain \o Run[Peek]
        /\ UNCHANGED pos
     \/ /\ Peek = "E"
        /\ Consume("SEQ_BLOCK_HEADER")
        /\ UNCHANGED <<pos, pending, plain>>
     \/ Peek \notin Payload \cup {"E"} /\ Leave("DATA_ERROR", 1)

IndexField ==
  /\ pc = "coder" /\ sequence = "SEQ_INDEX" /\ ~Exhausted
  /\ \/ Peek = "I" /\ Consume("SEQ_STREAM_FOOTER") /\ UNCHANGED <<pos, pending, plain>>
     \/ Peek # "I" /\ Leave("DATA_ERROR", 1)

StreamFooter ==
  /\ pc = "coder" /\ sequence = "SEQ_STREAM_FOOTER" /\ ~Exhausted
  /\ \/ Peek = "F" /\ Consume("SEQ_STREAM_PADDING") /\ UNCHANGED <<pos, pending, plain>>
     \/ Peek # "F" /\ Leave("DATA_ERROR", 1)

\* LZMA_CONCATENATED: zero bytes are skipped, four at a time, and anything
\* else starts another Stream.
StreamPadding ==
  /\ pc = "coder" /\ sequence = "SEQ_STREAM_PADDING"
  /\ \/ Exhausted /\ Leave(PaddingEnd(CodeAction, pos), 0)
     \/ /\ ~Exhausted /\ Peek = "Z"
        /\ Consume("SEQ_STREAM_PADDING")
        /\ pos' = (pos + 1) % 4
        /\ UNCHANGED <<pending, plain>>
     \/ ~Exhausted /\ Peek # "Z" /\ pos # 0 /\ Leave("DATA_ERROR", 1)
     \/ ~Exhausted /\ Peek # "Z" /\ pos = 0 /\ Goto("SEQ_STREAM_HEADER")

-----------------------------------------------------------------------------
\* A faulty variant: only a full outBuffer is appended.
CheckRetDropsPartBuffer ==
  /\ pc = "check"
  /\ IF ret \notin {"OK", "STREAM_END"}
     THEN pc' = "threw" /\ live' = FALSE /\ UNCHANGED output
     ELSE /\ output' = IF Len(out) = OutSize THEN output \o out ELSE output
          /\ pc' = IF ret = "STREAM_END" THEN "returned" ELSE "loop"
          /\ live' = (ret # "STREAM_END")
  /\ UNCHANGED <<data, next_in, out, ret, internal, coderVars, progress>>

\* A faulty variant: LZMA_BUF_ERROR is not taken for an error.
CheckRetIgnoresBufError ==
  /\ pc = "check"
  /\ IF ret \notin {"OK", "STREAM_END", "BUF_ERROR"}
     THEN pc' = "threw" /\ live' = FALSE /\ UNCHANGED output
     ELSE /\ output' = output \o out
          /\ pc' = IF ret = "STREAM_END" THEN "returned" ELSE "loop"
          /\ live' = (ret # "STREAM_END")
  /\ UNCHANGED <<data, next_in, out, ret, internal, coderVars, progress>>

\* A faulty variant: lzma_end() is not called before the throw.
CheckRetNoEnd ==
  /\ pc = "check"
  /\ IF ret \notin {"OK", "STREAM_END"}
     THEN pc' = "threw" /\ UNCHANGED <<live, output>>
     ELSE /\ output' = output \o out
          /\ pc' = IF ret = "STREAM_END" THEN "returned" ELSE "loop"
          /\ live' = (ret # "STREAM_END")
  /\ UNCHANGED <<data, next_in, out, ret, internal, coderVars, progress>>

\* After lzma_code(): an error ends the stream and throws; otherwise the
\* written part of outBuffer is appended and the loop condition is tested.
CheckRet ==
  /\ pc = "check"
  /\ IF ret \notin {"OK", "STREAM_END"}
     THEN pc' = "threw" /\ live' = FALSE /\ UNCHANGED output
     ELSE /\ output' = output \o out
          /\ pc' = IF ret = "STREAM_END" THEN "returned" ELSE "loop"
          /\ live' = (ret # "STREAM_END")
  /\ UNCHANGED <<data, next_in, out, ret, internal, coderVars, progress>>

\* input, output or outBuffer cannot be allocated, or output cannot grow: no
\* one calls lzma_end().
BadAlloc ==
  /\ pc = "loop" \/ (pc = "check" /\ ret \in {"OK", "STREAM_END"})
  /\ pc' = "bad_alloc"
  /\ UNCHANGED <<data, next_in, out, output, ret, internal, live, coderVars, progress>>

StreamDecode ==
  \/ WaitForInput \/ StreamHeader \/ BlockHeader \/ CopyOut \/ BlockPause
  \/ BlockInput \/ IndexField \/ StreamFooter \/ StreamPadding

Over == pc \in {"returned", "threw", "bad_alloc"}

\* The caller has its result; nothing of the call is left to do.
Finished == Over /\ UNCHANGED vars

Next ==
  \/ ReturnEmpty \/ InitDecoder \/ CallCode \/ StreamDecode \/ CheckRet \/ BadAlloc
  \/ Finished

Spec == Init /\ [][Next]_vars

\* A call runs on its caller's thread and takes its next step as long as it
\* has one.
FairSpec == Spec /\ WF_vars(Next)

-----------------------------------------------------------------------------
(***************************************************************************)
(* Properties                                                              *)
(***************************************************************************)

\* The text gathered so far, the part still in outBuffer included.
Gathered == IF pc \in {"coder", "check"} THEN output \o out ELSE output

\* Refilling outBuffer loses, repeats and reorders nothing: at any moment
\* before a throw, gathered and pending text together are the text of the
\* compressed data consumed so far (xz_decompressor.cpp:28-41).
NothingLost == pc \notin {"threw", "bad_alloc"} => Gathered \o pending = plain

\* LZMA_BUF_ERROR, which decompressXZ reports as "XZ decompression failed",
\* is raised only when all of data was consumed and all of its text had
\* already been delivered: the exception is never about data still unread.
BufErrorAfterAllDelivered ==
  ret = "BUF_ERROR" => Exhausted /\ pending = <<>> /\ output = plain

\* The lzma_stream has been ended on every path on which the function
\* returns or throws a DhtError; only std::bad_alloc leaves its memory behind.
StreamEnded == pc \in {"returned", "threw"} => ~live

Call == INSTANCE CodecCall WITH
          Args    <- Inputs,
          Results <- [d \in Inputs |-> DecompressXZ(d)],
          arg     <- data,
          status  <- IF ~Over THEN "running"
                     ELSE IF pc = "returned" THEN "returned" ELSE "threw",
          result  <- IF pc = "returned" THEN output ELSE <<>>

\* Seen by its caller, decompressXZ is a call that always ends (the loop
\* cannot spin on LZMA_OK), returns only for empty data, and otherwise
\* throws, whatever the data and however outBuffer boundaries fall.
ImplementsCall == Call!CallSpec

\* The form of everything compressXZ writes: one Stream with one Block.
CompressorForm(d) ==
  LET n == Len(d) IN
  /\ n >= 6
  /\ d[1] = "H" /\ d[2] = "B" /\ d[n-2] = "E" /\ d[n-1] = "I" /\ d[n] = "F"
  /\ \A i \in 3..(n - 3) : d[i] \in Payload

\* What the README promises of decryption: data that compressXZ wrote is not
\* rejected by decompressXZ (short of a failed allocation).
CompressorOutputAccepted ==
  CompressorForm(data) /\ pc = "threw" => ret = "MEM_ERROR"

=============================================================================
