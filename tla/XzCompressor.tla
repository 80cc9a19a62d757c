----------------------------- MODULE XzCompressor -----------------------------
(***************************************************************************)
(* compressXZ() of src/core/compression/xz_compressor.cpp, driving the .xz *)
(* Stream encoder of liblzma (stream_encode() of stream_encoder.c) through *)
(* lzma_code().  One behaviour is one call of compressXZ.  Each byte of    *)
(* text becomes one compressed-data symbol, but the encoder decides when   *)
(* it comes out: input is consumed into a window and written out later.    *)
(*                                                                         *)
(* pc has the values of XzDecompressor.                                    *)
(***************************************************************************)
EXTENDS LzmaCode

CONSTANT Texts   \* the texts compressXZ is called with

ASSUME TextsAssumption == Texts \subseteq Seq(Payload)

VARIABLES
  data,       \* the argument
  pc,
  next_in,    \* bytes of data consumed: avail_in = Len(data) - next_in
  out,        \* the part of outBuffer written by the current call
  output,     \* the vector the .xz Stream is gathered in
  ret,
  internal,   \* lzma_internal of the stream
  live,       \* the stream owns liblzma memory: lzma_end() is still to come
  action,     \* the action of the current lzma_code() call
  sequence,   \* lzma_coder.sequence of the Stream encoder
  written,    \* bytes of data whose compressed form has been written out
  progress    \* in_pos # 0 or out_pos # 0 in the current lzma_code() call

vars == <<data, pc, next_in, out, output, ret, internal, live, action, sequence,
          written, progress>>

EncoderSequence == {"SEQ_STREAM_HEADER", "SEQ_BLOCK_INIT", "SEQ_BLOCK_HEADER",
                    "SEQ_BLOCK_ENCODE", "SEQ_INDEX_ENCODE", "SEQ_STREAM_FOOTER"}

TypeOK ==
  /\ data \in Texts
  /\ pc \in {"entry", "loop", "coder", "check", "returned", "threw", "bad_alloc"}
  /\ next_in \in 0..Len(data)
  /\ written \in 0..next_in
  /\ out \in Seq(Symbol) /\ Len(out) <= OutSize
  /\ output \in Seq(Symbol)
  /\ ret \in Ret
  /\ internal \in Internal /\ live \in BOOLEAN
  /\ action \in LzmaAction
  /\ sequence \in EncoderSequence
  /\ progress \in BOOLEAN

Init ==
  /\ data \in Texts
  /\ pc = "entry"
  /\ next_in = 0 /\ written = 0
  /\ out = <<>> /\ output = <<>>
  /\ ret = "OK"
  /\ internal = FreshInternal /\ live = FALSE
  /\ action = "RUN"
  /\ sequence = "SEQ_STREAM_HEADER"
  /\ progress = FALSE

-----------------------------------------------------------------------------
Exhausted == next_in = Len(data)
OutFull == Len(out) = OutSize

\* A faulty variant: LZMA_FINISH is never passed.
CodeActionRun == "RUN"

\* The action the loop passes to lzma_code(): RUN until avail_in is zero.
CodeAction == IF Exhausted THEN "FINISH" ELSE "RUN"

\* data.empty(): an empty vector, without liblzma.
ReturnEmpty ==
  /\ pc = "entry" /\ data = <<>>
  /\ pc' = "returned"
  /\ UNCHANGED <<data, live, next_in, out, output, ret, internal, action, sequence,
                 written, progress>>

\* lzma_easy_encoder(&stream, 9, LZMA_CHECK_CRC64).
InitEncoder ==
  /\ pc = "entry" /\ data # <<>>
  /\ \/ ret' = "OK" /\ pc' = "loop" /\ live' = TRUE
     \/ ret' = "MEM_ERROR" /\ pc' = "threw" /\ UNCHANGED live
  /\ UNCHANGED <<data, next_in, out, output, internal, action, sequence,
                 written, progress>>

\* One turn of the loop up to the lzma_code() call: a fresh outBuffer.
CallCode ==
  /\ pc = "loop"
  /\ out' = <<>>
  /\ progress' = FALSE
  /\ action' = CodeAction
  /\ IF Misused(internal, CodeAction, Len(data) - next_in)
     THEN /\ ret' = "PROG_ERROR" /\ pc' = "check"
          /\ UNCHANGED internal
     ELSE /\ internal' = Admit(internal, CodeAction) /\ pc' = "coder"
          /\ UNCHANGED ret
  /\ UNCHANGED <<data, live, next_in, output, sequence, written>>

-----------------------------------------------------------------------------
(***************************************************************************)
(* stream_encode(): its loop runs while outBuffer has room.                *)
(***************************************************************************)

Leave(r) ==
  /\ ret' = CodeResult(internal, r, progress)
  /\ internal' = Settle(internal, r, progress, Len(data) - next_in)
  /\ pc' = "check"
  /\ UNCHANGED <<data, live, next_in, out, output, action, sequence, written, progress>>

\* Write symbol s to outBuffer and continue in sequence q.
Emit(s, q) ==
  /\ pc = "coder" /\ ~OutFull
  /\ out' = Append(out, s)
  /\ progress' = TRUE
  /\ sequence' = q
  /\ UNCHANGED <<data, live, pc, next_in, output, ret, internal, action>>

\* "while (*out_pos < out_size)" ends: LZMA_OK.
BufferFull == pc = "coder" /\ OutFull /\ Leave("OK")

StreamHeader ==
  /\ sequence = "SEQ_STREAM_HEADER"
  /\ Emit("H", "SEQ_BLOCK_INIT")
  /\ UNCHANGED written

\* With input left a Block is begun; with none left FINISH goes on to the
\* Index.  Both allocate, and may fail.
BlockInit ==
  /\ pc = "coder" /\ sequence = "SEQ_BLOCK_INIT" /\ ~OutFull
  /\ ~Exhausted \/ action = "FINISH"
  /\ \/ /\ sequence' = IF Exhausted THEN "SEQ_INDEX_ENCODE" ELSE "SEQ_BLOCK_HEADER"
        /\ UNCHANGED <<data, live, pc, next_in, out, output, ret, internal, action,
                       written, progress>>
     \/ Leave("MEM_ERROR")

BlockHeader ==
  /\ sequence = "SEQ_BLOCK_HEADER"
  /\ Emit("B", "SEQ_BLOCK_ENCODE")
  /\ UNCHANGED written

\* fill_window(): input is taken into the encoder's window.
FillWindow ==
  /\ pc = "coder" /\ sequence = "SEQ_BLOCK_ENCODE" /\ ~OutFull /\ ~Exhausted
  /\ next_in' = next_in + 1
  /\ progress' = TRUE
  /\ UNCHANGED <<data, live, pc, out, output, ret, internal, action, sequence, written>>

\* Compressed data for the next byte of the window is written out.
WriteOut ==
  /\ sequence = "SEQ_BLOCK_ENCODE" /\ written < next_in
  /\ Emit(data[written + 1], "SEQ_BLOCK_ENCODE")
  /\ written' = written + 1

\* RUN with no input left: the window may keep text back.
AwaitInput ==
  /\ pc = "coder" /\ sequence \in {"SEQ_BLOCK_INIT", "SEQ_BLOCK_ENCODE"}
  /\ ~OutFull /\ Exhausted /\ action = "RUN"
  /\ Leave("OK")

\* FINISH with the window empty: the Block's Check is written.
BlockEnd ==
  /\ sequence = "SEQ_BLOCK_ENCODE"
  /\ Exhausted /\ action = "FINISH" /\ written = next_in
  /\ Emit("E", "SEQ_BLOCK_INIT")
  /\ UNCHANGED written

IndexEncode ==
  /\ sequence = "SEQ_INDEX_ENCODE"
  /\ Emit("I", "SEQ_STREAM_FOOTER")
  /\ UNCHANGED written

\* The Stream Footer is the last field: LZMA_STREAM_END.
StreamFooter ==
  /\ pc = "coder" /\ sequence = "SEQ_STREAM_FOOTER" /\ ~OutFull
  /\ out' = Append(out, "F")
  /\ progress' = TRUE
  /\ ret' = "STREAM_END"
  /\ internal' = Settle(internal, "STREAM_END", TRUE, Len(data) - next_in)
  /\ pc' = "check"
  /\ UNCHANGED <<data, live, next_in, output, action, sequence, written>>

-----------------------------------------------------------------------------
\* A faulty variant: only a full outBuffer is appended.
CheckRetDropsPartBuffer ==
  /\ pc = "check"
  /\ IF ret \notin {"OK", "STREAM_END"}
     THEN pc' = "threw" /\ live' = FALSE /\ UNCHANGED output
     ELSE /\ output' = IF Len(out) = OutSize THEN output \o out ELSE output
          /\ pc' = IF ret = "STREAM_END" THEN "returned" ELSE "loop"
          /\ live' = (ret # "STREAM_END")
  /\ UNCHANGED <<data, next_in, out, ret, internal, action, sequence, written, progress>>

\* A faulty variant: the loop ends when the input is used up.
CheckRetStopsEarly ==
  /\ pc = "check"
  /\ IF ret \notin {"OK", "STREAM_END"}
     THEN pc' = "threw" /\ live' = FALSE /\ UNCHANGED output
     ELSE /\ output' = output \o out
          /\ pc' = IF Exhausted THEN "returned" ELSE "loop"
          /\ live' = ~Exhausted
  /\ UNCHANGED <<data, next_in, out, ret, internal, action, sequence, written,
                 progress>>

\* A faulty variant: lzma_end() is not called before the throw.
CheckRetNoEnd ==
  /\ pc = "check"
  /\ IF ret \notin {"OK", "STREAM_END"}
     THEN pc' = "threw" /\ UNCHANGED <<live, output>>
     ELSE /\ output' = output \o out
          /\ pc' = IF ret = "STREAM_END" THEN "returned" ELSE "loop"
          /\ live' = (ret # "STREAM_END")
  /\ UNCHANGED <<data, next_in, out, ret, internal, action, sequence, written,
                 progress>>

\* After lzma_code(): an error ends the stream and throws; otherwise the
\* written part of outBuffer is appended and the loop condition is tested.
CheckRet ==
  /\ pc = "check"
  /\ IF ret \notin {"OK", "STREAM_END"}
     THEN pc' = "threw" /\ live' = FALSE /\ UNCHANGED output
     ELSE /\ output' = output \o out
          /\ pc' = IF ret = "STREAM_END" THEN "returned" ELSE "loop"
          /\ live' = (ret # "STREAM_END")
  /\ UNCHANGED <<data, next_in, out, ret, internal, action, sequence, written,
                 progress>>

\* input, output or outBuffer cannot be allocated, or output cannot grow: no
\* one calls lzma_end().
BadAlloc ==
  /\ pc = "loop" \/ (pc = "check" /\ ret \in {"OK", "STREAM_END"})
  /\ pc' = "bad_alloc"
  /\ UNCHANGED <<data, next_in, out, output, ret, internal, live, action, sequence, written,
                 progress>>

StreamEncode ==
  \/ BufferFull \/ StreamHeader \/ BlockInit \/ BlockHeader \/ FillWindow
  \/ WriteOut \/ AwaitInput \/ BlockEnd \/ IndexEncode \/ StreamFooter

Over == pc \in {"returned", "threw", "bad_alloc"}

\* The caller has its result; nothing of the call is left to do.
Finished == Over /\ UNCHANGED vars

Next ==
  \/ ReturnEmpty \/ InitEncoder \/ CallCode \/ StreamEncode \/ CheckRet \/ BadAlloc
  \/ Finished

Spec == Init /\ [][Next]_vars

\* A call runs on its caller's thread and takes its next step as long as it
\* has one.
FairSpec == Spec /\ WF_vars(Next)

-----------------------------------------------------------------------------
(***************************************************************************)
(* Properties                                                              *)
(***************************************************************************)

\* The bytes gathered so far, the part still in outBuffer included.
Gathered == IF pc \in {"coder", "check"} THEN output \o out ELSE output

\* The part of XzStream(data) the encoder has written, by its own position.
Encoded ==
  LET block == <<"H", "B">> \o SubSeq(data, 1, written) IN
  CASE sequence = "SEQ_STREAM_HEADER" -> <<>>
    [] sequence = "SEQ_BLOCK_INIT"    -> IF next_in = 0 THEN <<"H">> ELSE Append(block, "E")
    [] sequence = "SEQ_BLOCK_HEADER"  -> <<"H">>
    [] sequence = "SEQ_BLOCK_ENCODE"  -> block
    [] sequence = "SEQ_INDEX_ENCODE"  -> Append(block, "E")
    [] sequence = "SEQ_STREAM_FOOTER" ->
         IF ret = "STREAM_END" THEN XzStream(data) ELSE block \o <<"E", "I">>

\* Emptying outBuffer between lzma_code() calls neither loses nor repeats a
\* byte: before a throw, what compressXZ has gathered is what the encoder has
\* written (xz_compressor.cpp:28-41).
NothingLost == pc \notin {"threw", "bad_alloc"} => Gathered = Encoded

\* The loop keeps to lzma_code()'s protocol, and every call moves: FINISH is
\* passed exactly when avail_in is 0 and is never taken back, so compressXZ
\* cannot fail for any text except by a failed allocation.
OnlyAllocationFails == ret \in {"OK", "STREAM_END", "MEM_ERROR"}

\* The lzma_stream has been ended on every path on which the function
\* returns or throws a DhtError; only std::bad_alloc leaves its memory behind.
StreamEnded == pc \in {"returned", "threw"} => ~live

Call == INSTANCE CodecCall WITH
          Args    <- Texts,
          Results <- [d \in Texts |-> CompressXZ(d)],
          arg     <- data,
          status  <- IF ~Over THEN "running"
                     ELSE IF pc = "returned" THEN "returned" ELSE "threw",
          result  <- IF pc = "returned" THEN output ELSE <<>>

\* Seen by its caller, compressXZ always ends, and a normal return delivers
\* the complete Stream of its argument however outBuffer boundaries fall and
\* however much text the encoder keeps back.
ImplementsCall == Call!CallSpec

=============================================================================
