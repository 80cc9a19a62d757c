------------------------- MODULE XzDecompressorProofs -------------------------
(***************************************************************************)
(* Proofs about decompressXZ for every set of inputs, every outBuffer size *)
(* and every expansion of compressed data.                                 *)
(***************************************************************************)
EXTENDS XzDecompressor, SequenceTheorems, TLAPS

USE PayloadAssumption, RunAssumption, OutSizeAssumption, InputsAssumption

-----------------------------------------------------------------------------
\* Moving the first element of w to the end of v keeps u, v and w in order.
LEMMA MoveHead ==
  ASSUME NEW u \in Seq(Char), NEW v \in Seq(Char), NEW w \in Seq(Char), w # <<>>
  PROVE  (u \o Append(v, Head(w))) \o Tail(w) = (u \o v) \o w
<1> DEFINE h == <<Head(w)>>
           t == Tail(w)
<1>1. Head(w) \in Char /\ t \in Seq(Char) /\ Head(w) = w[1] /\ Len(w) \in Nat \ {0}
  BY HeadTailProperties, EmptySeq
<1>2. h \in Seq(Char)
  BY <1>1
<1>3. w = h \o t
  <2>1. SubSeq(w, 1, Len(w)) = <<w[1]>> \o SubSeq(w, 1 + 1, Len(w))
    BY <1>1, SubSeqRecursiveFirst
  <2>2. SubSeq(w, 1, Len(w)) = w /\ Tail(w) = SubSeq(w, 2, Len(w))
    BY SubSeqFull, TailIsSubSeq
  <2> QED
    BY <1>1, <2>1, <2>2
<1>4. Append(v, Head(w)) = v \o h
  BY <1>1, AppendIsConcat
<1>5. u \o (v \o h) = (u \o v) \o h
  BY <1>2, ConcatAssociative
<1>6. ((u \o v) \o h) \o t = (u \o v) \o (h \o t)
  BY <1>1, <1>2, ConcatProperties, ConcatAssociative
<1> QED
  BY <1>3, <1>4, <1>5, <1>6

\* The byte at the read position is a symbol.
LEMMA PeekIsSymbol ==
  ASSUME TypeOK, ~Exhausted
  PROVE  /\ Peek \in Symbol
         /\ next_in + 1 \in 0..Len(data)
  BY LenProperties, ElementOfSeq DEF TypeOK, Exhausted, Peek

\* lzma_code() leaves a well-formed lzma_internal and return value.
LEMMA SettleType ==
  ASSUME NEW in \in Internal, NEW r \in Ret, NEW progressed \in BOOLEAN, NEW n \in Nat
  PROVE  /\ Settle(in, r, progressed, n) \in Internal
         /\ CodeResult(in, r, progressed) \in Ret
  BY DEF Settle, CodeResult, Internal, Ret

-----------------------------------------------------------------------------
\* The values stream_decode() can return with.
LEMMA LeaveType ==
  ASSUME TypeOK, NEW r \in Ret, NEW n \in 0..1, n = 1 => ~Exhausted, Leave(r, n)
  PROVE  TypeOK'
<1>1. Len(data) \in Nat /\ next_in \in Nat /\ Len(data) - next_in - n \in Nat
      /\ next_in + n \in 0..Len(data)
  BY LenProperties DEF TypeOK, Exhausted
<1>2. (progress \/ n > 0) \in BOOLEAN
  BY DEF TypeOK
<1>3. internal' \in Internal /\ ret' \in Ret
  BY <1>1, <1>2, SettleType DEF Leave, TypeOK
<1> QED
  BY <1>1, <1>2, <1>3 DEF Leave, TypeOK, coderVars

\* Consuming a field keeps the types, whatever it does to pending text.
LEMMA ConsumeType ==
  ASSUME TypeOK, ~Exhausted, NEW s \in DecoderSequence, Consume(s),
         pos' \in 0..3, pending' \in Seq(Char), plain' \in Seq(Char)
  PROVE  TypeOK'
  BY PeekIsSymbol DEF Consume, TypeOK

\* So does moving to another sequence.
LEMMA GotoType ==
  ASSUME TypeOK, NEW s \in DecoderSequence, Goto(s)
  PROVE  TypeOK'
  BY DEF Goto, TypeOK

\* decompressXZ keeps its variables within their types; outBuffer never
\* overflows and the decoder never reads past the input.
THEOREM TypeCorrect == Spec => []TypeOK
<1>1. Init => TypeOK
  <2> SUFFICES ASSUME Init PROVE TypeOK
    OBVIOUS
  <2>1. Len(data) \in Nat /\ next_in \in 0..Len(data)
    BY LenProperties DEF Init
  <2>2. <<>> \in Seq(Char) /\ Len(<<>>) <= OutSize
    BY EmptySeq
  <2>3. internal \in Internal
    BY DEF Init, FreshInternal, Internal
  <2>4. pos \in 0..3
    BY DEF Init
  <2> QED
    BY <2>1, <2>2, <2>3, <2>4, Zenon DEF Init, TypeOK, Ret, DecoderSequence
<1>2. TypeOK /\ [Next]_vars => TypeOK'
  <2> SUFFICES ASSUME TypeOK, [Next]_vars PROVE TypeOK'
    OBVIOUS
  <2> USE DEF DecoderSequence, Ret
  <2>1. CASE ReturnEmpty
    BY <2>1 DEF ReturnEmpty, TypeOK, coderVars
  <2>2. CASE InitDecoder
    BY <2>2 DEF InitDecoder, TypeOK, coderVars
  <2>3. CASE CallCode
    <3>1. Admit(internal, CodeAction) = internal
      BY DEF Admit, CodeAction
    <3>2. <<>> \in Seq(Char) /\ Len(<<>>) <= OutSize
      BY EmptySeq
    <3>3. internal' \in Internal /\ ret' \in Ret
      BY <2>3, <3>1 DEF CallCode, TypeOK
    <3> QED
      BY <2>3, <3>2, <3>3 DEF CallCode, TypeOK, coderVars
  <2>4. CASE WaitForInput
    BY <2>4, LeaveType DEF WaitForInput
  <2>5. CASE StreamHeader
    <3>1. CASE Peek = "H" /\ Consume("SEQ_BLOCK_HEADER") /\ UNCHANGED <<pos, pending, plain>>
      BY <2>5, <3>1, ConsumeType DEF StreamHeader, TypeOK
    <3>2. CASE Leave("DATA_ERROR", 1)
      BY <2>5, <3>2, LeaveType DEF StreamHeader
    <3> QED
      BY <2>5, <3>1, <3>2 DEF StreamHeader
  <2>6. CASE BlockHeader
    <3>1. CASE Goto("SEQ_INDEX")
      BY <3>1, GotoType
    <3>2. CASE Consume("SEQ_BLOCK") /\ UNCHANGED <<pos, pending, plain>>
      BY <2>6, <3>2, ConsumeType DEF BlockHeader, TypeOK
    <3>3. CASE Leave("MEM_ERROR", 1) \/ Leave("DATA_ERROR", 1)
      BY <2>6, <3>3, LeaveType DEF BlockHeader
    <3> QED
      BY <2>6, <3>1, <3>2, <3>3 DEF BlockHeader
  <2>7. CASE CopyOut
    <3>1. Head(pending) \in Char /\ Tail(pending) \in Seq(Char)
      BY <2>7, HeadTailProperties DEF CopyOut, TypeOK
    <3>2. out' \in Seq(Char) /\ Len(out') = Len(out) + 1
      BY <2>7, <3>1, AppendProperties DEF CopyOut, TypeOK
    <3>3. Len(out') <= OutSize
      BY <2>7, <3>2, LenProperties DEF CopyOut, TypeOK, OutFull
    <3> QED
      BY <2>7, <3>1, <3>2, <3>3 DEF CopyOut, TypeOK
  <2>8. CASE BlockPause
    BY <2>8, LeaveType DEF BlockPause
  <2>9. CASE BlockInput
    <3>1. CASE /\ Peek \in Payload
               /\ Consume("SEQ_BLOCK")
               /\ pending' = Run[Peek]
               /\ plain' = plain \o Run[Peek]
               /\ UNCHANGED pos
      <4>1. Run[Peek] \in Seq(Char)
        BY <3>1
      <4>2. plain \o Run[Peek] \in Seq(Char)
        BY <4>1, ConcatProperties DEF TypeOK
      <4> QED
        BY <2>9, <3>1, <4>1, <4>2, ConsumeType DEF BlockInput, TypeOK
    <3>2. CASE Consume("SEQ_BLOCK_HEADER") /\ UNCHANGED <<pos, pending, plain>>
      BY <2>9, <3>2, ConsumeType DEF BlockInput, TypeOK
    <3>3. CASE Leave("DATA_ERROR", 1)
      BY <2>9, <3>3, LeaveType DEF BlockInput
    <3> QED
      BY <2>9, <3>1, <3>2, <3>3 DEF BlockInput
  <2>10. CASE IndexField
    <3>1. CASE Consume("SEQ_STREAM_FOOTER") /\ UNCHANGED <<pos, pending, plain>>
      BY <2>10, <3>1, ConsumeType DEF IndexField, TypeOK
    <3>2. CASE Leave("DATA_ERROR", 1)
      BY <2>10, <3>2, LeaveType DEF IndexField
    <3> QED
      BY <2>10, <3>1, <3>2 DEF IndexField
  <2>11. CASE StreamFooter
    <3>1. CASE Consume("SEQ_STREAM_PADDING") /\ UNCHANGED <<pos, pending, plain>>
      BY <2>11, <3>1, ConsumeType DEF StreamFooter, TypeOK
    <3>2. CASE Leave("DATA_ERROR", 1)
      BY <2>11, <3>2, LeaveType DEF StreamFooter
    <3> QED
      BY <2>11, <3>1, <3>2 DEF StreamFooter
  <2>12. CASE StreamPadding
    <3>1. CASE Leave(PaddingEnd(CodeAction, pos), 0)
      BY <3>1, LeaveType DEF PaddingEnd, CodeAction
    <3>2. CASE /\ ~Exhausted /\ Consume("SEQ_STREAM_PADDING")
               /\ pos' = (pos + 1) % 4
               /\ UNCHANGED <<pending, plain>>
      <4>1. pos' \in 0..3
        BY <3>2 DEF TypeOK
      <4> QED
        BY <3>2, <4>1, ConsumeType DEF TypeOK
    <3>3. CASE ~Exhausted /\ Leave("DATA_ERROR", 1)
      BY <3>3, LeaveType
    <3>4. CASE Goto("SEQ_STREAM_HEADER")
      BY <3>4, GotoType
    <3> QED
      BY <2>12, <3>1, <3>2, <3>3, <3>4 DEF StreamPadding
  <2>13. CASE CheckRet
    <3>1. output \o out \in Seq(Char)
      BY ConcatProperties DEF TypeOK
    <3> QED
      BY <2>13, <3>1 DEF CheckRet, TypeOK, coderVars
  <2>14. CASE BadAlloc
    BY <2>14 DEF BadAlloc, TypeOK, coderVars
  <2>15. CASE UNCHANGED vars
    BY <2>15 DEF TypeOK, vars
  <2> QED
    BY <2>1, <2>2, <2>3, <2>4, <2>5, <2>6, <2>7, <2>8, <2>9, <2>10, <2>11,
       <2>12, <2>13, <2>14, <2>15
    DEF Next, StreamDecode, Finished
<1> QED
  BY <1>1, <1>2, PTL DEF Spec

-----------------------------------------------------------------------------
(***************************************************************************)
(* The inductive invariant.  NothingLost alone is not inductive: that      *)
(* BUF_ERROR comes late needs to know that a call without progress has an  *)
(* empty outBuffer and that text is pending only inside a Block; that only *)
(* empty data returns needs that STREAM_END is never seen.                 *)
(***************************************************************************)
EntryState == pc = "entry" => output = <<>> /\ ret = "OK" /\ ~live
RetInLoop == pc \in {"loop", "coder"} => ret = "OK"
NoStreamEnd == ret # "STREAM_END"
NoProgressNoText == pc = "coder" /\ ~progress => out = <<>>
PendingOnlyInBlock == sequence # "SEQ_BLOCK" => pending = <<>>
ReturnsOnlyForEmpty == pc = "returned" => data = <<>> /\ output = <<>>

IInv ==
  /\ EntryState /\ RetInLoop /\ NoStreamEnd /\ NoProgressNoText
  /\ PendingOnlyInBlock /\ ReturnsOnlyForEmpty
  /\ NothingLost /\ BufErrorAfterAllDelivered /\ StreamEnded

\* stream_decode() returns: when it returns LZMA_OK without progress, input
\* and pending text are used up.
LEMMA LeaveKeeps ==
  ASSUME TypeOK, IInv, pc = "coder",
         NEW r \in {"OK", "DATA_ERROR", "MEM_ERROR"}, NEW n \in 0..1,
         r = "OK" => n = 0 /\ (progress \/ (Exhausted /\ pending = <<>>)),
         Leave(r, n)
  PROVE  IInv'
<1>1. /\ pc' = "check"
      /\ UNCHANGED <<data, out, output, sequence, pos, pending, plain>>
      /\ ret' = CodeResult(internal, r, progress \/ n > 0)
      /\ next_in' = next_in + n
  BY DEF Leave, coderVars
<1>2. NothingLost'
  BY <1>1 DEF IInv, NothingLost, Gathered
<1>3. ret' # "STREAM_END" /\ (ret' = "BUF_ERROR" => r = "OK" /\ ~(progress \/ n > 0))
  BY <1>1 DEF CodeResult
<1>4. BufErrorAfterAllDelivered'
  <2> SUFFICES ASSUME ret' = "BUF_ERROR"
               PROVE  Exhausted' /\ pending' = <<>> /\ output' = plain'
    BY DEF BufErrorAfterAllDelivered
  <2>1. n = 0 /\ ~progress /\ Exhausted /\ pending = <<>>
    BY <1>3
  <2>2. out = <<>>
    BY <2>1 DEF IInv, NoProgressNoText
  <2>3. (output \o out) \o pending = plain
    BY DEF IInv, NothingLost, Gathered
  <2>4. (output \o <<>>) \o <<>> = output
    BY ConcatEmptySeq DEF TypeOK
  <2>5. next_in' = next_in
    BY <1>1, <2>1 DEF TypeOK
  <2> QED
    BY <1>1, <2>1, <2>2, <2>3, <2>4, <2>5 DEF Exhausted
<1> QED
  BY <1>1, <1>2, <1>3, <1>4
  DEF IInv, EntryState, RetInLoop, NoStreamEnd, NoProgressNoText,
      PendingOnlyInBlock, ReturnsOnlyForEmpty, StreamEnded

\* A field is consumed, or the sequence changes, with no text involved.
LEMMA MoveKeeps ==
  ASSUME IInv, pc = "coder", ret = "OK",
         UNCHANGED <<data, pc, out, output, ret, live, pending, plain>>,
         progress' = progress \/ progress' = TRUE,
         sequence' # "SEQ_BLOCK" => pending = <<>>
  PROVE  IInv'
  BY DEF IInv, EntryState, RetInLoop, NoStreamEnd, NoProgressNoText,
         PendingOnlyInBlock, ReturnsOnlyForEmpty, NothingLost, Gathered,
         BufErrorAfterAllDelivered, StreamEnded

\* Every step of decompressXZ and stream_decode() keeps the invariant.
LEMMA InvariantStep ==
  TypeOK /\ IInv /\ [Next]_vars => IInv'
<1> SUFFICES ASSUME TypeOK, IInv, [Next]_vars PROVE IInv'
  OBVIOUS
<1>0. pc = "coder" => ret = "OK" /\ (output \o out) \o pending = plain
  BY DEF IInv, RetInLoop, NothingLost, Gathered
<1>1. CASE ReturnEmpty
  BY <1>1 DEF ReturnEmpty, coderVars, IInv, EntryState, RetInLoop, NoStreamEnd,
     NoProgressNoText, PendingOnlyInBlock, ReturnsOnlyForEmpty, NothingLost,
     Gathered, BufErrorAfterAllDelivered, StreamEnded
<1>2. CASE InitDecoder
  BY <1>2 DEF InitDecoder, coderVars, IInv, EntryState, RetInLoop, NoStreamEnd,
     NoProgressNoText, PendingOnlyInBlock, ReturnsOnlyForEmpty, NothingLost,
     Gathered, BufErrorAfterAllDelivered, StreamEnded
<1>3. CASE CallCode
  <2>1. output \o out' = output
    BY <1>3, ConcatEmptySeq DEF CallCode, TypeOK
  <2>2. pc = "loop" /\ pc' \in {"coder", "check"} /\ ret' \in {ret, "PROG_ERROR"}
        /\ (pc' = "coder" => ret' = ret)
    BY <1>3 DEF CallCode
  <2>3. UNCHANGED <<data, output, sequence, pending, plain>> /\ out' = <<>>
    BY <1>3 DEF CallCode, coderVars
  <2> QED
    BY <2>1, <2>2, <2>3 DEF IInv, EntryState, RetInLoop, NoStreamEnd,
       NoProgressNoText, PendingOnlyInBlock, ReturnsOnlyForEmpty, NothingLost,
       Gathered, BufErrorAfterAllDelivered, StreamEnded
<1>4. CASE WaitForInput
  <2>1. pending = <<>>
    BY <1>4 DEF WaitForInput, IInv, PendingOnlyInBlock
  <2> QED
    BY <1>4, <2>1, LeaveKeeps DEF WaitForInput
<1>5. CASE StreamHeader
  <2>1. pc = "coder" /\ pending = <<>>
    BY <1>5 DEF StreamHeader, IInv, PendingOnlyInBlock
  <2>2. CASE Consume("SEQ_BLOCK_HEADER") /\ UNCHANGED <<pos, pending, plain>>
    BY <1>0, <2>1, <2>2, MoveKeeps DEF Consume
  <2>3. CASE Leave("DATA_ERROR", 1)
    BY <2>1, <2>3, LeaveKeeps
  <2> QED
    BY <1>5, <2>2, <2>3 DEF StreamHeader
<1>6. CASE BlockHeader
  <2>1. pc = "coder" /\ pending = <<>>
    BY <1>6 DEF BlockHeader, IInv, PendingOnlyInBlock
  <2>2. CASE Goto("SEQ_INDEX")
    BY <1>0, <2>1, <2>2, MoveKeeps DEF Goto
  <2>3. CASE Consume("SEQ_BLOCK") /\ UNCHANGED <<pos, pending, plain>>
    BY <1>0, <2>1, <2>3, MoveKeeps DEF Consume
  <2>4. CASE Leave("MEM_ERROR", 1) \/ Leave("DATA_ERROR", 1)
    BY <2>1, <2>4, LeaveKeeps
  <2> QED
    BY <1>6, <2>2, <2>3, <2>4 DEF BlockHeader
<1>7. CASE CopyOut
  <2>1. (output \o out') \o pending' = (output \o out) \o pending
    <3>1. /\ output \in Seq(Char) /\ out \in Seq(Char) /\ pending \in Seq(Char)
          /\ pending # <<>>
          /\ out' = Append(out, Head(pending)) /\ pending' = Tail(pending)
      BY <1>7 DEF CopyOut, TypeOK
    <3>3. (output \o Append(out, Head(pending))) \o Tail(pending) = (output \o out) \o pending
      BY <3>1, MoveHead
    <3> QED
      BY <3>1, <3>3
  <2>2. pc = "coder" /\ pc' = "coder" /\ progress' = TRUE
        /\ sequence' = "SEQ_BLOCK"
        /\ UNCHANGED <<data, output, ret, plain>>
    BY <1>7 DEF CopyOut
  <2> QED
    BY <1>0, <2>1, <2>2 DEF IInv, EntryState, RetInLoop, NoStreamEnd,
       NoProgressNoText, PendingOnlyInBlock, ReturnsOnlyForEmpty, NothingLost,
       Gathered, BufErrorAfterAllDelivered, StreamEnded
<1>8. CASE BlockPause
  <2>1. OutFull => progress
    <3> SUFFICES ASSUME OutFull, ~progress PROVE FALSE
      BY DEF TypeOK
    <3>1. out = <<>>
      BY <1>8 DEF BlockPause, IInv, NoProgressNoText
    <3> QED
      BY <3>1, EmptySeq DEF OutFull
  <2> QED
    BY <1>8, <2>1, LeaveKeeps DEF BlockPause
<1>9. CASE BlockInput
  <2>1. pc = "coder" /\ pending = <<>>
    BY <1>9 DEF BlockInput
  <2>2. CASE /\ Peek \in Payload
             /\ Consume("SEQ_BLOCK")
             /\ pending' = Run[Peek]
             /\ plain' = plain \o Run[Peek]
             /\ UNCHANGED pos
    <3>1. output \o out \in Seq(Char)
      BY ConcatProperties DEF TypeOK
    <3>2. (output \o out) \o pending' = plain'
      BY <1>0, <2>1, <2>2, <3>1, ConcatEmptySeq
    <3>3. pc' = "coder" /\ progress' = TRUE /\ sequence' = "SEQ_BLOCK"
          /\ UNCHANGED <<data, out, output, ret>>
      BY <2>1, <2>2 DEF Consume
    <3> QED
      BY <1>0, <2>1, <3>2, <3>3 DEF IInv, EntryState, RetInLoop, NoStreamEnd,
         NoProgressNoText, PendingOnlyInBlock, ReturnsOnlyForEmpty, NothingLost,
         Gathered, BufErrorAfterAllDelivered, StreamEnded
  <2>3. CASE Consume("SEQ_BLOCK_HEADER") /\ UNCHANGED <<pos, pending, plain>>
    BY <1>0, <2>1, <2>3, MoveKeeps DEF Consume
  <2>4. CASE Leave("DATA_ERROR", 1)
    BY <2>1, <2>4, LeaveKeeps
  <2> QED
    BY <1>9, <2>2, <2>3, <2>4 DEF BlockInput
<1>10. CASE IndexField
  <2>1. pc = "coder" /\ pending = <<>>
    BY <1>10 DEF IndexField, IInv, PendingOnlyInBlock
  <2>2. CASE Consume("SEQ_STREAM_FOOTER") /\ UNCHANGED <<pos, pending, plain>>
    BY <1>0, <2>1, <2>2, MoveKeeps DEF Consume
  <2>3. CASE Leave("DATA_ERROR", 1)
    BY <2>1, <2>3, LeaveKeeps
  <2> QED
    BY <1>10, <2>2, <2>3 DEF IndexField
<1>11. CASE StreamFooter
  <2>1. pc = "coder" /\ pending = <<>>
    BY <1>11 DEF StreamFooter, IInv, PendingOnlyInBlock
  <2>2. CASE Consume("SEQ_STREAM_PADDING") /\ UNCHANGED <<pos, pending, plain>>
    BY <1>0, <2>1, <2>2, MoveKeeps DEF Consume
  <2>3. CASE Leave("DATA_ERROR", 1)
    BY <2>1, <2>3, LeaveKeeps
  <2> QED
    BY <1>11, <2>2, <2>3 DEF StreamFooter
<1>12. CASE StreamPadding
  <2>1. pc = "coder" /\ pending = <<>>
    BY <1>12 DEF StreamPadding, IInv, PendingOnlyInBlock
  <2>2. PaddingEnd(CodeAction, pos) = "OK"
    BY DEF PaddingEnd, CodeAction
  <2>3. CASE Exhausted /\ Leave(PaddingEnd(CodeAction, pos), 0)
    BY <2>1, <2>2, <2>3, LeaveKeeps
  <2>4. CASE Consume("SEQ_STREAM_PADDING") /\ UNCHANGED <<pending, plain>>
    BY <1>0, <2>1, <2>4, MoveKeeps DEF Consume
  <2>5. CASE Leave("DATA_ERROR", 1)
    BY <2>1, <2>5, LeaveKeeps
  <2>6. CASE Goto("SEQ_STREAM_HEADER")
    BY <1>0, <2>1, <2>6, MoveKeeps DEF Goto
  <2> QED
    BY <1>12, <2>3, <2>4, <2>5, <2>6 DEF StreamPadding
<1>13. CASE CheckRet
  BY <1>13 DEF CheckRet, coderVars, IInv, EntryState, RetInLoop, NoStreamEnd,
     NoProgressNoText, PendingOnlyInBlock, ReturnsOnlyForEmpty, NothingLost,
     Gathered, BufErrorAfterAllDelivered, StreamEnded, TypeOK, Ret, Exhausted
<1>14. CASE BadAlloc
  BY <1>14 DEF BadAlloc, coderVars, IInv, EntryState, RetInLoop, NoStreamEnd,
     NoProgressNoText, PendingOnlyInBlock, ReturnsOnlyForEmpty, NothingLost,
     Gathered, BufErrorAfterAllDelivered, StreamEnded, Exhausted
<1>15. CASE UNCHANGED vars
  BY <1>15 DEF vars, IInv, EntryState, RetInLoop, NoStreamEnd,
     NoProgressNoText, PendingOnlyInBlock, ReturnsOnlyForEmpty, NothingLost,
     Gathered, BufErrorAfterAllDelivered, StreamEnded, Exhausted
<1> QED
  BY <1>1, <1>2, <1>3, <1>4, <1>5, <1>6, <1>7, <1>8, <1>9, <1>10, <1>11,
     <1>12, <1>13, <1>14, <1>15
  DEF Next, StreamDecode, Finished

\* The types and the invariant hold throughout a call.
LEMMA InvariantHolds == Spec => [](TypeOK /\ IInv)
<1>1. Init => IInv
  BY ConcatEmptySeq, EmptySeq
  DEF Init, IInv, EntryState, RetInLoop, NoStreamEnd, NoProgressNoText,
      PendingOnlyInBlock, ReturnsOnlyForEmpty, NothingLost, Gathered,
      BufErrorAfterAllDelivered, StreamEnded
<1> QED
  BY <1>1, TypeCorrect, InvariantStep, PTL DEF Spec

\* For any data and any outBuffer size, refilling outBuffer loses, repeats
\* and reorders no text (the loop of decompressXZ).
THEOREM NoTextLost == Spec => []NothingLost
<1>1. IInv => NothingLost
  BY DEF IInv
<1> QED
  BY <1>1, InvariantHolds, PTL

\* For any data, LZMA_BUF_ERROR ends decompressXZ only after all data was
\* consumed and all of its text had been gathered.
THEOREM BufErrorComesLast == Spec => []BufErrorAfterAllDelivered
<1>1. IInv => BufErrorAfterAllDelivered
  BY DEF IInv
<1> QED
  BY <1>1, InvariantHolds, PTL

\* Whatever the data and wherever the call fails, the lzma_stream is ended
\* before decompressXZ returns or throws a DhtError.
THEOREM StreamIsEnded == Spec => []StreamEnded
<1>1. IInv => StreamEnded
  BY DEF IInv
<1> QED
  BY <1>1, InvariantHolds, PTL

-----------------------------------------------------------------------------
\* How one step moves the call: it goes on, or ends, and then stands still.
LEMMA StepOfCall ==
  ASSUME TypeOK, IInv, [Next]_vars
  PROVE  /\ UNCHANGED data
         /\ \/ ~Over /\ ~Over'
            \/ ~Over /\ pc' \in {"threw", "bad_alloc"}
            \/ ~Over /\ pc' = "returned"
            \/ Over /\ UNCHANGED <<pc, output>>
<1> USE DEF Over
<1>1. CASE ReturnEmpty
  BY <1>1 DEF ReturnEmpty
<1>2. CASE InitDecoder
  BY <1>2 DEF InitDecoder
<1>3. CASE CallCode
  BY <1>3 DEF CallCode
<1>4. CASE StreamDecode
  BY <1>4 DEF StreamDecode, WaitForInput, StreamHeader, BlockHeader, CopyOut,
     BlockPause, BlockInput, IndexField, StreamFooter, StreamPadding, Leave,
     Consume, Goto
<1>5. CASE CheckRet
  BY <1>5 DEF CheckRet
<1>6. CASE BadAlloc
  BY <1>6 DEF BadAlloc
<1>7. CASE UNCHANGED vars
  BY <1>7 DEF vars, TypeOK
<1> QED
  BY <1>1, <1>2, <1>3, <1>4, <1>5, <1>6, <1>7 DEF Next, Finished

\* decompressXZ is, for every input, a call that throws or, for empty data
\* only, returns the empty text; it delivers nothing else and changes nothing
\* once it is over.
THEOREM CallImplemented == Spec => Call!CallSafety
<1>1. Init => Call!CallInit
  BY DEF Init, Call!CallInit, Over
<1>2. TypeOK /\ IInv /\ IInv' /\ [Next]_vars => [Call!CallNext]_(Call!callVars)
  <2> SUFFICES ASSUME TypeOK, IInv, IInv', [Next]_vars
               PROVE  Call!CallNext \/ UNCHANGED Call!callVars
    OBVIOUS
  <2>1. UNCHANGED data
    BY StepOfCall
  <2>2. CASE ~Over /\ ~Over'
    BY <2>1, <2>2 DEF Call!callVars, Over
  <2>3. CASE ~Over /\ pc' \in {"threw", "bad_alloc"}
    BY <2>1, <2>3 DEF Call!CallNext, Call!Throw, Over
  <2>4. CASE ~Over /\ pc' = "returned"
    <3>1. data = <<>> /\ output' = <<>>
      BY <2>1, <2>4 DEF IInv, ReturnsOnlyForEmpty
    <3>2. data \in Inputs /\ [d \in Inputs |-> DecompressXZ(d)][data] = {<<>>}
      BY <3>1 DEF TypeOK, DecompressXZ
    <3> QED
      BY <2>1, <2>4, <3>1, <3>2 DEF Call!CallNext, Call!Return, Over
  <2>5. CASE Over /\ UNCHANGED <<pc, output>>
    BY <2>1, <2>5 DEF Call!callVars, Over
  <2> QED
    BY <2>2, <2>3, <2>4, <2>5, StepOfCall
<1> QED
  BY <1>1, <1>2, InvariantHolds, PTL DEF Spec, Call!CallSafety

=============================================================================
