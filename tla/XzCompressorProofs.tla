-------------------------- MODULE XzCompressorProofs --------------------------
(***************************************************************************)
(* Proofs about compressXZ for every text, every outBuffer size and every  *)
(* way the encoder may hold text back.                                     *)
(***************************************************************************)
EXTENDS XzCompressor, SequenceTheorems, TLAPS

USE PayloadAssumption, RunAssumption, OutSizeAssumption, TextsAssumption

-----------------------------------------------------------------------------
\* Texts are made of symbols, and so is every part of one.
LEMMA TextIsSymbols ==
  ASSUME NEW d \in Texts
  PROVE  d \in Seq(Symbol) /\ Len(d) \in Nat
<1>1. Payload \subseteq Symbol
  BY DEF Symbol
<1>2. d \in Seq(Payload)
  OBVIOUS
<1> QED
  BY <1>1, <1>2, SeqMonotonic, LenProperties

\* The byte that WriteOut compresses next is a byte of the text.
LEMMA NextByte ==
  ASSUME TypeOK, written < next_in
  PROVE  data[written + 1] \in Symbol /\ written + 1 \in 0..next_in
<1>1. data \in Seq(Symbol) /\ Len(data) \in Nat
  BY TextIsSymbols DEF TypeOK
<1>2. written + 1 \in 1..Len(data) /\ written + 1 \in 0..next_in
  BY <1>1 DEF TypeOK
<1> QED
  BY <1>1, <1>2, ElementOfSeq

\* lzma_code() leaves a well-formed lzma_internal and return value.
LEMMA SettleType ==
  ASSUME NEW in \in Internal, NEW r \in Ret, NEW progressed \in BOOLEAN, NEW n \in Nat
  PROVE  /\ Settle(in, r, progressed, n) \in Internal
         /\ CodeResult(in, r, progressed) \in Ret
  BY DEF Settle, CodeResult, Internal, Ret

\* stream_encode() returns with the types intact.
LEMMA LeaveType ==
  ASSUME TypeOK, NEW r \in Ret, Leave(r)
  PROVE  TypeOK'
<1>1. Len(data) - next_in \in Nat
  BY TextIsSymbols DEF TypeOK
<1>2. internal' \in Internal /\ ret' \in Ret
  BY <1>1, SettleType DEF Leave, TypeOK
<1> QED
  BY <1>2 DEF Leave, TypeOK

\* Writing a symbol never overflows outBuffer.
LEMMA AppendType ==
  ASSUME TypeOK, ~OutFull, NEW s \in Symbol
  PROVE  Append(out, s) \in Seq(Symbol) /\ Len(Append(out, s)) <= OutSize
  BY AppendProperties, LenProperties DEF TypeOK, OutFull

\* So the steps of stream_encode() that write a symbol keep the types.
LEMMA EmitType ==
  ASSUME TypeOK, NEW s \in Symbol, NEW q \in EncoderSequence, Emit(s, q),
         written' \in 0..next_in
  PROVE  TypeOK'
<1>1. out' \in Seq(Symbol) /\ Len(out') <= OutSize
  BY AppendType DEF Emit
<1> QED
  BY <1>1 DEF Emit, TypeOK

\* compressXZ and the Stream encoder keep their variables within their types:
\* outBuffer never overflows, the encoder reads no byte behind the input and
\* writes out none that it has not consumed.
THEOREM TypeCorrect == Spec => []TypeOK
<1>1. Init => TypeOK
  <2> SUFFICES ASSUME Init PROVE TypeOK
    OBVIOUS
  <2>1. data \in Texts /\ next_in \in 0..Len(data) /\ written \in 0..next_in
    BY TextIsSymbols DEF Init
  <2>2. <<>> \in Seq(Symbol) /\ Len(<<>>) <= OutSize
    BY EmptySeq
  <2>3. internal \in Internal
    BY DEF Init, FreshInternal, Internal
  <2> QED
    BY <2>1, <2>2, <2>3, Zenon DEF Init, TypeOK, Ret, EncoderSequence, LzmaAction
<1>2. TypeOK /\ [Next]_vars => TypeOK'
  <2> SUFFICES ASSUME TypeOK, [Next]_vars PROVE TypeOK'
    OBVIOUS
  <2> USE DEF EncoderSequence, Ret
  <2>0. /\ {"H", "B", "E", "I", "F"} \subseteq Symbol
        /\ written \in 0..next_in
    BY DEF Symbol, Field, TypeOK
  <2>1. CASE ReturnEmpty
    BY <2>1 DEF ReturnEmpty, TypeOK
  <2>2. CASE InitEncoder
    BY <2>2 DEF InitEncoder, TypeOK
  <2>3. CASE CallCode
    <3>1. Admit(internal, CodeAction) \in Internal
      BY DEF Admit, TypeOK, Internal
    <3>2. <<>> \in Seq(Symbol) /\ Len(<<>>) <= OutSize
      BY EmptySeq
    <3>3. internal' \in Internal /\ ret' \in Ret /\ pc' \in {"check", "coder"}
      BY <2>3, <3>1 DEF CallCode, TypeOK
    <3>4. action' \in LzmaAction
      BY <2>3 DEF CallCode, CodeAction, LzmaAction
    <3> QED
      BY <2>3, <3>2, <3>3, <3>4 DEF CallCode, TypeOK
  <2>4. CASE BufferFull
    BY <2>4, LeaveType DEF BufferFull
  <2>5. CASE StreamHeader
    BY <2>0, <2>5, EmitType DEF StreamHeader
  <2>6. CASE BlockInit
    <3>1. CASE Leave("MEM_ERROR")
      BY <3>1, LeaveType
    <3>2. CASE ~Leave("MEM_ERROR")
      BY <2>6, <3>2 DEF BlockInit, TypeOK
    <3> QED
      BY <3>1, <3>2
  <2>7. CASE BlockHeader
    BY <2>0, <2>7, EmitType DEF BlockHeader
  <2>8. CASE FillWindow
    <3>1. next_in + 1 \in 0..Len(data) /\ written \in 0..(next_in + 1)
      BY <2>8, TextIsSymbols DEF FillWindow, Exhausted, TypeOK
    <3> QED
      BY <2>8, <3>1 DEF FillWindow, TypeOK
  <2>9. CASE WriteOut
    BY <2>9, NextByte, EmitType DEF WriteOut
  <2>10. CASE AwaitInput
    BY <2>10, LeaveType DEF AwaitInput
  <2>11. CASE BlockEnd
    BY <2>0, <2>11, EmitType DEF BlockEnd
  <2>12. CASE IndexEncode
    BY <2>0, <2>12, EmitType DEF IndexEncode
  <2>13. CASE StreamFooter
    <3>1. out' \in Seq(Symbol) /\ Len(out') <= OutSize
      BY <2>0, <2>13, AppendType DEF StreamFooter
    <3>2. Len(data) - next_in \in Nat
      BY TextIsSymbols DEF TypeOK
    <3>3. internal' \in Internal
      BY <2>13, <3>2, SettleType DEF StreamFooter, TypeOK
    <3> QED
      BY <2>13, <3>1, <3>3 DEF StreamFooter, TypeOK
  <2>14. CASE CheckRet
    <3>1. output \o out \in Seq(Symbol)
      BY ConcatProperties DEF TypeOK
    <3> QED
      BY <2>14, <3>1 DEF CheckRet, TypeOK
  <2>15. CASE BadAlloc
    BY <2>15 DEF BadAlloc, TypeOK
  <2>16. CASE UNCHANGED vars
    BY <2>16 DEF vars, TypeOK
  <2> QED
    BY <2>1, <2>2, <2>3, <2>4, <2>5, <2>6, <2>7, <2>8, <2>9, <2>10, <2>11,
       <2>12, <2>13, <2>14, <2>15, <2>16
    DEF Next, StreamEncode, Finished
<1> QED
  BY <1>1, <1>2, PTL DEF Spec

-----------------------------------------------------------------------------
(***************************************************************************)
(* Lemmas about the byte sequences.                                        *)
(***************************************************************************)
\* A symbol added to outBuffer is added to what compressXZ has gathered.
LEMMA AppendToConcat ==
  ASSUME NEW u \in Seq(Symbol), NEW v \in Seq(Symbol), NEW s \in Symbol
  PROVE  u \o Append(v, s) = Append(u \o v, s)
<1>1. <<s>> \in Seq(Symbol)
  OBVIOUS
<1>2. u \o (v \o <<s>>) = (u \o v) \o <<s>>
  BY <1>1, ConcatAssociative
<1>3. u \o v \in Seq(Symbol)
  BY ConcatProperties
<1> QED
  BY <1>2, <1>3, AppendIsConcat

\* Short sequences written out in full.
LEMMA LiteralAppended ==
  ASSUME NEW x \in Symbol, NEW y \in Symbol, NEW z \in Symbol
  PROVE  /\ Append(<<>>, x) = <<x>>
         /\ Append(<<x>>, y) = <<x, y>>
         /\ Append(<<x, y>>, z) = <<x, y, z>>
<1>1. /\ <<>> \in Seq(Symbol) /\ <<x>> \in Seq(Symbol) /\ <<x, y>> \in Seq(Symbol)
      /\ <<x, y, z>> \in Seq(Symbol)
      /\ Len(<<>>) = 0 /\ Len(<<x>>) = 1 /\ Len(<<x, y>>) = 2 /\ Len(<<x, y, z>>) = 3
  BY EmptySeq
<1>2. Append(<<>>, x) = <<x>>
  BY <1>1, AppendProperties, SeqEqual
<1>3. Append(<<x>>, y) = <<x, y>>
  <2>1. /\ Append(<<x>>, y) \in Seq(Symbol) /\ Len(Append(<<x>>, y)) = 2
        /\ Append(<<x>>, y)[1] = x /\ Append(<<x>>, y)[2] = y
    BY <1>1, AppendProperties
  <2>2. \A i \in 1..Len(Append(<<x>>, y)) : Append(<<x>>, y)[i] = <<x, y>>[i]
    BY <2>1
  <2>3. Len(Append(<<x>>, y)) = Len(<<x, y>>)
    BY <1>1, <2>1
  <2> QED
    BY <1>1, <2>1, <2>2, <2>3, SeqEqual, Zenon
<1>4. Append(<<x, y>>, z) = <<x, y, z>>
  <2>1. /\ Append(<<x, y>>, z) \in Seq(Symbol) /\ Len(Append(<<x, y>>, z)) = 3
        /\ Append(<<x, y>>, z)[1] = x /\ Append(<<x, y>>, z)[2] = y
        /\ Append(<<x, y>>, z)[3] = z
    BY <1>1, AppendProperties
  <2>2. \A i \in 1..Len(Append(<<x, y>>, z)) : Append(<<x, y>>, z)[i] = <<x, y, z>>[i]
    BY <2>1
  <2>3. Len(Append(<<x, y>>, z)) = Len(<<x, y, z>>)
    BY <1>1, <2>1
  <2> QED
    BY <1>1, <2>1, <2>2, <2>3, SeqEqual, Zenon
<1> QED
  BY <1>2, <1>3, <1>4

\* One more byte written out: the prefix of the text grows by that byte.
LEMMA PrefixGrows ==
  ASSUME NEW d \in Seq(Symbol), NEW n \in 0..(Len(d) - 1)
  PROVE  /\ SubSeq(d, 1, n) \in Seq(Symbol)
         /\ SubSeq(d, 1, n + 1) = Append(SubSeq(d, 1, n), d[n + 1])
<1>1. Len(d) \in Nat /\ n \in Nat /\ n < Len(d)
  BY LenProperties
<1>2. \A i \in 1..(n + 1) : d[i] \in Symbol
  BY <1>1, ElementOfSeq
<1>3. SubSeq(d, 1, n) \in Seq(Symbol)
  BY <1>1, <1>2, SubSeqProperties
<1>4. SubSeq(d, 1, n + 1) = SubSeq(d, 1, (n + 1) - 1) \o <<d[n + 1]>>
  BY <1>1, SubSeqRecursiveSecond
<1>5. SubSeq(d, 1, n) \o <<d[n + 1]>> = Append(SubSeq(d, 1, n), d[n + 1])
  BY <1>1, <1>2, <1>3, AppendIsConcat
<1> QED
  BY <1>1, <1>3, <1>4, <1>5

\* The text that has been written out, as a sequence of symbols.
LEMMA WrittenPrefix ==
  ASSUME TypeOK
  PROVE  /\ SubSeq(data, 1, written) \in Seq(Symbol)
         /\ <<"H", "B">> \o SubSeq(data, 1, written) \in Seq(Symbol)
<1>1. data \in Seq(Symbol) /\ Len(data) \in Nat /\ written \in Nat /\ written <= Len(data)
  BY TextIsSymbols DEF TypeOK
<1>2. \A i \in 1..written : data[i] \in Symbol
  BY <1>1, ElementOfSeq
<1>3. SubSeq(data, 1, written) \in Seq(Symbol)
  BY <1>1, <1>2, SubSeqProperties
<1>4. <<"H", "B">> \in Seq(Symbol)
  BY DEF Symbol, Field
<1> QED
  BY <1>3, <1>4, ConcatProperties

\* The fields after the Block, one at a time, complete the Stream of d.
LEMMA TrailerAppended ==
  ASSUME NEW b \in Seq(Symbol)
  PROVE  /\ Append(Append(b, "E"), "I") = b \o <<"E", "I">>
         /\ Append(b \o <<"E", "I">>, "F") = b \o <<"E", "I", "F">>
<1>1. "E" \in Symbol /\ "I" \in Symbol /\ "F" \in Symbol
  BY DEF Symbol, Field
<1>2. <<"E">> \in Seq(Symbol) /\ <<"E", "I">> \in Seq(Symbol)
  BY <1>1
<1>3. b \o <<"E">> = Append(b, "E")
  BY <1>1, AppendIsConcat
<1>4. Append(<<"E">>, "I") = <<"E", "I">> /\ Append(<<"E", "I">>, "F") = <<"E", "I", "F">>
  BY <1>1, LiteralAppended
<1>5. b \o Append(<<"E">>, "I") = Append(b \o <<"E">>, "I")
  BY <1>1, <1>2, AppendToConcat
<1>6. b \o Append(<<"E", "I">>, "F") = Append(b \o <<"E", "I">>, "F")
  BY <1>1, <1>2, AppendToConcat
<1> QED
  BY <1>3, <1>4, <1>5, <1>6

-----------------------------------------------------------------------------
(***************************************************************************)
(* The inductive invariant.  That nothing is lost depends on where input   *)
(* and output stand in each sequence of the encoder (Positions); that no   *)
(* call fails but for an allocation depends on every call making progress  *)
(* (InputSeen, NeverForgiven) and on FINISH coming only when the input is  *)
(* used up and staying from then on (Protocol).                            *)
(***************************************************************************)
EntryState ==
  pc = "entry" => /\ output = <<>> /\ ret = "OK" /\ ~live /\ next_in = 0
                  /\ sequence = "SEQ_STREAM_HEADER" /\ internal = FreshInternal
TextInLoop == pc \in {"loop", "coder", "check"} => data # <<>>
RetInLoop == pc \in {"loop", "coder"} => ret = "OK"
NeverForgiven == ~internal.allow_buf_error
NoProgressNoOutput == pc = "coder" /\ ~progress => out = <<>>
InputSeen == pc = "coder" /\ Exhausted => progress \/ action = "FINISH"
FinishWhenExhausted == pc = "coder" /\ action = "FINISH" => Exhausted
Protocol ==
  pc \in {"loop", "coder", "check"} /\ ret = "OK" =>
    \/ internal.sequence = "ISEQ_RUN"
    \/ /\ internal.sequence = "ISEQ_FINISH" /\ Exhausted
       /\ pc # "coder" => internal.avail_in = 0
Positions ==
  /\ sequence \in {"SEQ_STREAM_HEADER", "SEQ_BLOCK_HEADER"} => next_in = 0
  /\ sequence = "SEQ_BLOCK_INIT" => next_in = 0 \/ (Exhausted /\ written = next_in)
  /\ sequence \in {"SEQ_INDEX_ENCODE", "SEQ_STREAM_FOOTER"} =>
       Exhausted /\ written = next_in /\ next_in # 0
EndAtFooter == ret = "STREAM_END" => sequence = "SEQ_STREAM_FOOTER"
ReturnsComplete ==
  pc = "returned" => IF data = <<>> THEN output = <<>> ELSE ret = "STREAM_END"

\* What compressXZ's progress depends on, without the bytes.
CallInv ==
  /\ EntryState /\ TextInLoop /\ RetInLoop /\ NeverForgiven /\ NoProgressNoOutput
  /\ InputSeen /\ FinishWhenExhausted /\ Protocol /\ Positions /\ EndAtFooter
  /\ ReturnsComplete /\ OnlyAllocationFails /\ StreamEnded

IInv == CallInv /\ NothingLost

\* Encoded, one sequence of the encoder at a time.
LEMMA EncodedIs ==
  LET block == <<"H", "B">> \o SubSeq(data, 1, written) IN
  /\ sequence = "SEQ_STREAM_HEADER" => Encoded = <<>>
  /\ sequence = "SEQ_BLOCK_INIT" =>
       Encoded = IF next_in = 0 THEN <<"H">> ELSE Append(block, "E")
  /\ sequence = "SEQ_BLOCK_HEADER" => Encoded = <<"H">>
  /\ sequence = "SEQ_BLOCK_ENCODE" => Encoded = block
  /\ sequence = "SEQ_INDEX_ENCODE" => Encoded = Append(block, "E")
  /\ sequence = "SEQ_STREAM_FOOTER" =>
       Encoded = IF ret = "STREAM_END" THEN XzStream(data) ELSE block \o <<"E", "I">>
  BY DEF Encoded

\* stream_encode() returns LZMA_OK only from a call that consumed or wrote
\* something, so lzma_code() never turns it into LZMA_BUF_ERROR.
LEMMA LeaveKeeps ==
  ASSUME TypeOK, IInv, pc = "coder", NEW r \in {"OK", "MEM_ERROR"},
         r = "OK" => progress, Leave(r)
  PROVE  IInv'
<1> USE DEF IInv, CallInv
<1>1. ret = "OK" /\ data # <<>> /\ ~internal.allow_buf_error
  BY DEF RetInLoop, TextInLoop, NeverForgiven
<1>2. /\ pc' = "check" /\ ret' = r
      /\ UNCHANGED <<data, live, next_in, out, output, action, sequence, written, progress>>
  BY <1>1 DEF Leave, CodeResult
<1>3. /\ internal' = Settle(internal, r, progress, Len(data) - next_in)
      /\ internal'.avail_in = Len(data) - next_in
      /\ r = "OK" => internal'.sequence = internal.sequence
  BY DEF Leave, Settle
<1>4. ~internal'.allow_buf_error
  <2>1. CASE r = "OK"
    BY <1>3, <2>1 DEF Settle
  <2>2. CASE r = "MEM_ERROR"
    BY <1>1, <1>3, <2>2 DEF Settle
  <2> QED
    BY <2>1, <2>2
<1>5. Protocol'
  <2>1. Len(data) \in Nat
    BY TextIsSymbols DEF TypeOK
  <2>2. Exhausted => internal'.avail_in = 0
    BY <1>3, <2>1 DEF Exhausted
  <2> QED
    BY <1>1, <1>2, <1>3, <2>2 DEF Protocol, Exhausted
<1>6. Encoded' = Encoded
  BY <1>1, <1>2 DEF Encoded
<1>7. NothingLost'
  BY <1>2, <1>6 DEF NothingLost, Gathered
<1> QED
  BY <1>1, <1>2, <1>4, <1>5, <1>7
  DEF EntryState, TextInLoop, RetInLoop, NeverForgiven, NoProgressNoOutput, InputSeen,
      FinishWhenExhausted, Positions, EndAtFooter, ReturnsComplete, OnlyAllocationFails,
      StreamEnded, Exhausted

\* A symbol that extends the encoder's Stream extends what is gathered.
LEMMA EmitKeeps ==
  ASSUME TypeOK, IInv, NEW s \in Symbol, NEW q, Emit(s, q),
         Positions', Encoded' = Append(Encoded, s)
  PROVE  IInv'
<1> USE DEF IInv, CallInv
<1>1. /\ pc = "coder" /\ ret = "OK" /\ progress' = TRUE /\ out' = Append(out, s)
      /\ UNCHANGED <<data, live, pc, next_in, output, ret, internal, action>>
  BY DEF Emit, RetInLoop
<1>2. output \o out' = Append(output \o out, s)
  BY <1>1, AppendToConcat DEF TypeOK
<1>3. NothingLost'
  BY <1>1, <1>2 DEF NothingLost, Gathered
<1> QED
  BY <1>1, <1>3
  DEF EntryState, TextInLoop, RetInLoop, NeverForgiven, NoProgressNoOutput, InputSeen,
      FinishWhenExhausted, Protocol, EndAtFooter, ReturnsComplete, OnlyAllocationFails,
      StreamEnded, Exhausted


\* Every step of compressXZ and stream_encode() keeps the invariant.
LEMMA InvariantStep ==
  TypeOK /\ IInv /\ [Next]_vars => IInv'
<1> SUFFICES ASSUME TypeOK, IInv, [Next]_vars PROVE IInv'
  OBVIOUS
<1> USE DEF IInv, CallInv
<1> DEFINE block == <<"H", "B">> \o SubSeq(data, 1, written)
<1> HIDE DEF block
<1>0. /\ {"H", "B", "E", "I", "F"} \subseteq Symbol
      /\ <<>> \in Seq(Symbol) /\ Len(<<>>) = 0
      /\ Len(data) \in Nat /\ next_in \in Nat /\ next_in <= Len(data)
      /\ written \in Nat /\ written <= next_in
      /\ (data = <<>>) = (Len(data) = 0)
  BY TextIsSymbols, EmptySeq, LenProperties DEF Symbol, Field, TypeOK
<1>a. pc = "coder" => ret = "OK" /\ data # <<>> /\ Len(data) # 0
  BY <1>0 DEF RetInLoop, TextInLoop
<1>1. CASE ReturnEmpty
  <2>1. Encoded' = Encoded
    BY <1>1 DEF ReturnEmpty, Encoded
  <2> QED
    BY <1>1, <2>1
    DEF ReturnEmpty, EntryState, TextInLoop, RetInLoop, NeverForgiven, NoProgressNoOutput,
        InputSeen, FinishWhenExhausted, Protocol, Positions, EndAtFooter, ReturnsComplete,
        OnlyAllocationFails, StreamEnded, Exhausted, NothingLost, Gathered
<1>2. CASE InitEncoder
  <2>1. ret' \in {"OK", "MEM_ERROR"} /\ Encoded' = Encoded
    BY <1>2 DEF InitEncoder, Encoded, EntryState
  <2> QED
    BY <1>2, <2>1
    DEF InitEncoder, EntryState, TextInLoop, RetInLoop, NeverForgiven, NoProgressNoOutput,
        InputSeen, FinishWhenExhausted, Protocol, Positions, EndAtFooter, ReturnsComplete,
        OnlyAllocationFails, StreamEnded, Exhausted, NothingLost, Gathered, FreshInternal
<1>3. CASE CallCode
  <2>1. pc = "loop" /\ ret = "OK" /\ data # <<>>
    BY <1>3 DEF CallCode, RetInLoop, TextInLoop
  <2>2. ~Misused(internal, CodeAction, Len(data) - next_in)
    <3>1. CASE internal.sequence = "ISEQ_RUN"
      BY <3>1 DEF Misused
    <3>2. CASE internal.sequence = "ISEQ_FINISH" /\ Exhausted /\ internal.avail_in = 0
      BY <1>0, <3>2 DEF Misused, CodeAction, Exhausted
    <3> QED
      BY <2>1, <3>1, <3>2 DEF Protocol
  <2>3. /\ pc' = "coder" /\ out' = <<>> /\ progress' = FALSE /\ action' = CodeAction
        /\ internal' = Admit(internal, CodeAction)
        /\ UNCHANGED <<data, live, next_in, output, sequence, written, ret>>
    BY <1>3, <2>2 DEF CallCode
  <2>4. /\ internal'.allow_buf_error = internal.allow_buf_error
        /\ internal'.sequence \in {internal.sequence, "ISEQ_FINISH"}
        /\ internal'.sequence # internal.sequence => Exhausted
    BY <2>3 DEF Admit, CodeAction, TypeOK, Internal
  <2>5. output \o out' = output
    BY <2>3, ConcatEmptySeq DEF TypeOK
  <2>6. Encoded' = Encoded
    BY <2>3 DEF Encoded
  <2>7. NothingLost'
    BY <2>1, <2>3, <2>5, <2>6 DEF NothingLost, Gathered
  <2>8. Protocol'
    BY <2>1, <2>3, <2>4 DEF Protocol, Exhausted
  <2> QED
    BY <2>1, <2>3, <2>4, <2>7, <2>8
    DEF EntryState, TextInLoop, RetInLoop, NeverForgiven, NoProgressNoOutput,
        InputSeen, FinishWhenExhausted, Positions, EndAtFooter, ReturnsComplete,
        OnlyAllocationFails, StreamEnded, Exhausted, CodeAction
<1>4. CASE BufferFull
  <2>1. progress
    <3> SUFFICES ASSUME ~progress PROVE FALSE
      OBVIOUS
    <3>1. out = <<>>
      BY <1>4 DEF BufferFull, NoProgressNoOutput
    <3> QED
      BY <1>0, <1>4, <3>1 DEF BufferFull, OutFull
  <2> QED
    BY <1>4, <2>1, LeaveKeeps DEF BufferFull
<1>5. CASE StreamHeader
  <2>1. /\ sequence = "SEQ_STREAM_HEADER" /\ sequence' = "SEQ_BLOCK_INIT"
        /\ next_in = 0 /\ next_in' = 0
    BY <1>5 DEF StreamHeader, Emit, Positions
  <2>2. Encoded = <<>> /\ Encoded' = <<"H">>
    BY <2>1, Zenon DEF Encoded
  <2>3. Append(<<>>, "H") = <<"H">>
    BY <1>0, LiteralAppended
  <2>4. Positions'
    BY <2>1 DEF Positions
  <2> QED
    BY <1>0, <1>5, <2>2, <2>3, <2>4, EmitKeeps DEF StreamHeader
<1>6. CASE BlockInit
  <2>1. CASE Leave("MEM_ERROR")
    BY <1>6, <2>1, LeaveKeeps DEF BlockInit
  <2>2. CASE ~Leave("MEM_ERROR")
    <3>1. /\ pc = "coder" /\ sequence = "SEQ_BLOCK_INIT"
          /\ sequence' = IF Exhausted THEN "SEQ_INDEX_ENCODE" ELSE "SEQ_BLOCK_HEADER"
          /\ UNCHANGED <<data, live, pc, next_in, out, output, ret, internal, action,
                         written, progress>>
      BY <1>6, <2>2 DEF BlockInit
    <3>2. Positions' /\ (Exhausted <=> next_in # 0)
      BY <1>0, <1>a, <3>1 DEF Positions, Exhausted
    <3>3. Encoded' = Encoded
      <4>1. CASE Exhausted
        <5>1. sequence' = "SEQ_INDEX_ENCODE" /\ next_in # 0
          BY <3>1, <3>2, <4>1
        <5>2. Encoded = Append(block, "E")
          BY <3>1, <5>1, EncodedIs DEF block
        <5>3. Encoded' = Append(block, "E")
          BY <3>1, <5>1, Zenon DEF block, Encoded
        <5> QED
          BY <5>2, <5>3
      <4>2. CASE ~Exhausted
        <5>1. sequence' = "SEQ_BLOCK_HEADER" /\ next_in = 0
          BY <3>1, <3>2, <4>2
        <5>2. Encoded = <<"H">>
          BY <3>1, <5>1, EncodedIs
        <5>3. Encoded' = <<"H">>
          BY <5>1, Zenon DEF Encoded
        <5> QED
          BY <5>2, <5>3
      <4> QED
        BY <4>1, <4>2
    <3>4. NothingLost'
      BY <3>1, <3>3 DEF NothingLost, Gathered
    <3> QED
      BY <1>a, <3>1, <3>2, <3>4
      DEF EntryState, TextInLoop, RetInLoop, NeverForgiven, NoProgressNoOutput,
          InputSeen, FinishWhenExhausted, Protocol, EndAtFooter, ReturnsComplete,
          OnlyAllocationFails, StreamEnded, Exhausted
  <2> QED
    BY <2>1, <2>2
<1>7. CASE BlockHeader
  <2>1. /\ sequence = "SEQ_BLOCK_HEADER" /\ sequence' = "SEQ_BLOCK_ENCODE"
        /\ written = 0 /\ UNCHANGED <<data, written, next_in>>
    BY <1>0, <1>7 DEF BlockHeader, Emit, Positions
  <2>2. Encoded = <<"H">> /\ Encoded' = <<"H", "B">> \o SubSeq(data, 1, written)
    BY <2>1, Zenon DEF Encoded
  <2>3. SubSeq(data, 1, written) = <<>>
    BY <2>1, SubSeqProperties, TextIsSymbols DEF TypeOK
  <2>4. <<"H", "B">> \o <<>> = <<"H", "B">>
    BY <1>0, ConcatEmptySeq
  <2>5. Append(<<"H">>, "B") = <<"H", "B">>
    BY <1>0, LiteralAppended
  <2>6. Positions'
    BY <2>1 DEF Positions
  <2>7. Encoded' = Append(Encoded, "B")
    BY <2>2, <2>3, <2>4, <2>5
  <2> QED
    BY <1>0, <1>7, <2>6, <2>7, EmitKeeps DEF BlockHeader
<1>8. CASE FillWindow
  <2>1. /\ pc = "coder" /\ sequence = "SEQ_BLOCK_ENCODE" /\ ~Exhausted
        /\ next_in' = next_in + 1 /\ progress' = TRUE
        /\ UNCHANGED <<data, live, pc, out, output, ret, internal, action, sequence, written>>
    BY <1>8 DEF FillWindow
  <2>2. Encoded = block /\ Encoded' = block
    BY <2>1, Zenon DEF Encoded, block
  <2>3. NothingLost'
    BY <2>1, <2>2 DEF NothingLost, Gathered
  <2>4. action # "FINISH" /\ internal.sequence = "ISEQ_RUN"
    BY <1>a, <2>1 DEF FinishWhenExhausted, Protocol
  <2> QED
    BY <1>a, <2>1, <2>3, <2>4
    DEF EntryState, TextInLoop, RetInLoop, NeverForgiven, NoProgressNoOutput,
        InputSeen, FinishWhenExhausted, Protocol, Positions, EndAtFooter, ReturnsComplete,
        OnlyAllocationFails, StreamEnded
<1>9. CASE WriteOut
  <2>1. /\ sequence = "SEQ_BLOCK_ENCODE" /\ sequence' = "SEQ_BLOCK_ENCODE"
        /\ written' = written + 1 /\ written < next_in /\ UNCHANGED data
        /\ Emit(data[written + 1], "SEQ_BLOCK_ENCODE")
    BY <1>9 DEF WriteOut, Emit
  <2>2. data[written + 1] \in Symbol
    BY <2>1, NextByte
  <2>3. /\ SubSeq(data, 1, written) \in Seq(Symbol)
        /\ SubSeq(data, 1, written + 1) = Append(SubSeq(data, 1, written), data[written + 1])
    <3>1. data \in Seq(Symbol) /\ written \in 0..(Len(data) - 1)
      BY <1>0, <2>1, TextIsSymbols DEF TypeOK
    <3> QED
      BY <3>1, PrefixGrows
  <2>4. <<"H", "B">> \in Seq(Symbol)
    BY <1>0
  <2>5. <<"H", "B">> \o Append(SubSeq(data, 1, written), data[written + 1])
          = Append(<<"H", "B">> \o SubSeq(data, 1, written), data[written + 1])
    BY <2>2, <2>3, <2>4, AppendToConcat
  <2>6. /\ Encoded = <<"H", "B">> \o SubSeq(data, 1, written)
        /\ Encoded' = <<"H", "B">> \o SubSeq(data, 1, written + 1)
    BY <2>1, Zenon DEF Encoded
  <2>7. Encoded' = Append(Encoded, data[written + 1])
    BY <2>3, <2>5, <2>6
  <2>8. Positions'
    BY <2>1 DEF Positions
  <2> QED
    BY <2>1, <2>2, <2>7, <2>8, EmitKeeps
<1>10. CASE AwaitInput
  <2>1. progress
    BY <1>10 DEF AwaitInput, InputSeen
  <2> QED
    BY <1>10, <2>1, LeaveKeeps DEF AwaitInput
<1>11. CASE BlockEnd
  <2>1. /\ pc = "coder" /\ sequence = "SEQ_BLOCK_ENCODE" /\ sequence' = "SEQ_BLOCK_INIT"
        /\ Exhausted /\ written = next_in /\ UNCHANGED <<data, next_in, written>>
    BY <1>11 DEF BlockEnd, Emit
  <2>2. next_in # 0
    BY <1>a, <2>1 DEF Exhausted
  <2>3. Encoded = block
    BY <2>1, EncodedIs DEF block
  <2>4. Encoded' = Append(block, "E")
    BY <2>1, <2>2, Zenon DEF Encoded, block
  <2>5. Positions'
    BY <2>1, <2>2 DEF Positions, Exhausted
  <2> QED
    BY <1>0, <1>11, <2>3, <2>4, <2>5, EmitKeeps DEF BlockEnd
<1>12. CASE IndexEncode
  <2>1. /\ pc = "coder" /\ sequence = "SEQ_INDEX_ENCODE" /\ sequence' = "SEQ_STREAM_FOOTER"
        /\ UNCHANGED <<data, next_in, written, ret>>
    BY <1>12 DEF IndexEncode, Emit
  <2>2. ret' # "STREAM_END"
    BY <1>a, <2>1
  <2>3. Encoded = Append(block, "E")
    BY <2>1, EncodedIs DEF block
  <2>4. Encoded' = block \o <<"E", "I">>
    BY <2>1, <2>2, Zenon DEF Encoded, block
  <2>5. Append(Append(block, "E"), "I") = block \o <<"E", "I">>
    BY WrittenPrefix, TrailerAppended DEF block
  <2>6. Positions'
    BY <2>1 DEF Positions, Exhausted
  <2> QED
    BY <1>0, <1>12, <2>3, <2>4, <2>5, <2>6, EmitKeeps DEF IndexEncode
<1>13. CASE StreamFooter
  <2>1. /\ pc = "coder" /\ pc' = "check" /\ sequence = "SEQ_STREAM_FOOTER"
        /\ out' = Append(out, "F") /\ ret' = "STREAM_END"
        /\ internal' = Settle(internal, "STREAM_END", TRUE, Len(data) - next_in)
        /\ UNCHANGED <<data, live, next_in, output, action, sequence, written>>
    BY <1>13 DEF StreamFooter
  <2>2. ~internal'.allow_buf_error
    BY <2>1 DEF Settle
  <2>3. Encoded = block \o <<"E", "I">>
    BY <1>a, <2>1, EncodedIs DEF block
  <2>4. Encoded' = XzStream(data)
    BY <2>1, Zenon DEF Encoded
  <2>5. block = <<"H", "B">> \o data
    <3>1. written = Len(data) /\ data \in Seq(Symbol)
      BY <2>1, TextIsSymbols DEF Positions, Exhausted, TypeOK
    <3>2. SubSeq(data, 1, Len(data)) = data
      BY <3>1, SubSeqFull
    <3> QED
      BY <3>1, <3>2 DEF block
  <2>6. Append(block \o <<"E", "I">>, "F") = block \o <<"E", "I", "F">>
    BY WrittenPrefix, TrailerAppended DEF block
  <2>7. output \o out' = Append(output \o out, "F")
    BY <1>0, <2>1, AppendToConcat DEF TypeOK
  <2>8. output \o out = Encoded
    BY <2>1 DEF NothingLost, Gathered
  <2>9. output' \o out' = Encoded'
    BY <2>1, <2>3, <2>4, <2>5, <2>6, <2>7, <2>8 DEF XzStream
  <2>10. NothingLost'
    BY <2>1, <2>9 DEF NothingLost, Gathered
  <2> QED
    BY <1>a, <2>1, <2>2, <2>10
    DEF EntryState, TextInLoop, RetInLoop, NeverForgiven, NoProgressNoOutput,
        InputSeen, FinishWhenExhausted, Protocol, Positions, EndAtFooter, ReturnsComplete,
        OnlyAllocationFails, StreamEnded, Exhausted
<1>14. CASE CheckRet
  <2>1. Encoded' = Encoded
    BY <1>14 DEF CheckRet, Encoded
  <2>2. NothingLost'
    BY <1>14, <2>1 DEF CheckRet, NothingLost, Gathered
  <2> QED
    BY <1>14, <2>2
    DEF CheckRet, EntryState, TextInLoop, RetInLoop, NeverForgiven, NoProgressNoOutput,
        InputSeen, FinishWhenExhausted, Protocol, Positions, EndAtFooter, ReturnsComplete,
        OnlyAllocationFails, StreamEnded, Exhausted
<1>15. CASE BadAlloc
  BY <1>15
  DEF BadAlloc, EntryState, TextInLoop, RetInLoop, NeverForgiven, NoProgressNoOutput,
      InputSeen, FinishWhenExhausted, Protocol, Positions, EndAtFooter, ReturnsComplete,
      OnlyAllocationFails, StreamEnded, Exhausted, NothingLost
<1>16. CASE UNCHANGED vars
  <2>1. Encoded' = Encoded
    BY <1>16 DEF vars, Encoded
  <2> QED
    BY <1>16, <2>1
    DEF vars, EntryState, TextInLoop, RetInLoop, NeverForgiven, NoProgressNoOutput,
        InputSeen, FinishWhenExhausted, Protocol, Positions, EndAtFooter, ReturnsComplete,
        OnlyAllocationFails, StreamEnded, Exhausted, NothingLost, Gathered
<1> QED
  BY <1>1, <1>2, <1>3, <1>4, <1>5, <1>6, <1>7, <1>8, <1>9, <1>10, <1>11,
     <1>12, <1>13, <1>14, <1>15, <1>16
  DEF Next, StreamEncode, Finished

\* The types and the invariant hold throughout a call.
LEMMA InvariantHolds == Spec => [](TypeOK /\ IInv)
<1>1. Init => IInv
  <2> SUFFICES ASSUME Init PROVE IInv
    OBVIOUS
  <2>1. Encoded = <<>>
    BY EncodedIs DEF Init
  <2> QED
    BY <2>1
    DEF Init, IInv, CallInv, EntryState, TextInLoop, RetInLoop, NeverForgiven,
        NoProgressNoOutput, InputSeen, FinishWhenExhausted, Protocol, Positions,
        EndAtFooter, ReturnsComplete, OnlyAllocationFails, StreamEnded, NothingLost,
        Gathered, FreshInternal
<1> QED
  BY <1>1, TypeCorrect, InvariantStep, PTL DEF Spec

\* For any text, any outBuffer size and however the encoder holds text back,
\* refilling outBuffer loses and repeats no byte of the .xz Stream.
THEOREM NoByteLost == Spec => []NothingLost
<1>1. IInv => NothingLost
  BY DEF IInv
<1> QED
  BY <1>1, InvariantHolds, PTL

\* For any text, compressXZ fails only where an allocation fails: it never
\* breaks lzma_code()'s protocol and never calls it without progress.
THEOREM FailsOnlyByAllocation == Spec => []OnlyAllocationFails
<1>1. IInv => OnlyAllocationFails
  BY DEF IInv, CallInv
<1> QED
  BY <1>1, InvariantHolds, PTL

\* Wherever the call fails, the lzma_stream is ended before compressXZ returns
\* or throws a DhtError.
THEOREM StreamIsEnded == Spec => []StreamEnded
<1>1. IInv => StreamEnded
  BY DEF IInv, CallInv
<1> QED
  BY <1>1, InvariantHolds, PTL

-----------------------------------------------------------------------------
\* How one step moves the call: it goes on, or ends, and then stands still.
LEMMA StepOfCall ==
  ASSUME TypeOK, [Next]_vars
  PROVE  /\ UNCHANGED data
         /\ \/ ~Over /\ ~Over'
            \/ ~Over /\ pc' \in {"threw", "bad_alloc"}
            \/ ~Over /\ pc' = "returned"
            \/ Over /\ UNCHANGED <<pc, output>>
<1> USE DEF Over
<1>1. CASE ReturnEmpty
  BY <1>1 DEF ReturnEmpty
<1>2. CASE InitEncoder
  BY <1>2 DEF InitEncoder
<1>3. CASE CallCode
  BY <1>3 DEF CallCode
<1>4. CASE StreamEncode
  BY <1>4 DEF StreamEncode, BufferFull, StreamHeader, BlockInit, BlockHeader, FillWindow,
     WriteOut, AwaitInput, BlockEnd, IndexEncode, StreamFooter, Leave, Emit
<1>5. CASE CheckRet
  BY <1>5 DEF CheckRet
<1>6. CASE BadAlloc
  BY <1>6 DEF BadAlloc
<1>7. CASE UNCHANGED vars
  BY <1>7 DEF vars, TypeOK
<1> QED
  BY <1>1, <1>2, <1>3, <1>4, <1>5, <1>6, <1>7 DEF Next, Finished

\* A call that has returned delivers the Stream of its argument.
LEMMA ReturnDelivers ==
  ASSUME TypeOK, IInv, pc = "returned"
  PROVE  output \in [d \in Texts |-> CompressXZ(d)][data]
<1>1. data \in Texts
  BY DEF TypeOK
<1>2. CASE data = <<>>
  BY <1>1, <1>2 DEF IInv, CallInv, ReturnsComplete, CompressXZ
<1>3. CASE data # <<>>
  <2>1. ret = "STREAM_END" /\ sequence = "SEQ_STREAM_FOOTER"
    BY <1>3 DEF IInv, CallInv, ReturnsComplete, EndAtFooter
  <2>2. output = XzStream(data)
    BY <2>1, EncodedIs DEF IInv, NothingLost, Gathered
  <2> QED
    BY <1>1, <1>3, <2>2 DEF CompressXZ
<1> QED
  BY <1>2, <1>3

\* compressXZ is, for every text, a call that throws or returns the complete
\* .xz Stream of its argument (nothing for an empty text), and changes nothing
\* once it is over: the safety part of ImplementsCall.
THEOREM CallImplemented == Spec => Call!CallSafety
<1>1. Init => Call!CallInit
  BY DEF Init, Call!CallInit, Over
<1>2. TypeOK /\ TypeOK' /\ IInv' /\ [Next]_vars => [Call!CallNext]_(Call!callVars)
  <2> SUFFICES ASSUME TypeOK, TypeOK', IInv', [Next]_vars
               PROVE  Call!CallNext \/ UNCHANGED Call!callVars
    OBVIOUS
  <2>1. UNCHANGED data
    BY StepOfCall
  <2>2. CASE ~Over /\ ~Over'
    BY <2>1, <2>2 DEF Call!callVars, Over
  <2>3. CASE ~Over /\ pc' \in {"threw", "bad_alloc"}
    BY <2>1, <2>3 DEF Call!CallNext, Call!Throw, Over
  <2>4. CASE ~Over /\ pc' = "returned"
    <3>1. output' \in [d \in Texts |-> CompressXZ(d)][data']
      <4>1. TypeOK' /\ IInv' /\ pc' = "returned"
        BY <2>4
      <4>2. (TypeOK /\ IInv /\ pc = "returned" =>
               output \in [d \in Texts |-> CompressXZ(d)][data])'
        BY ReturnDelivers, PTL
      <4> QED
        BY <4>1, <4>2
    <3> QED
      BY <2>1, <2>4, <3>1 DEF Call!CallNext, Call!Return, Over
  <2>5. CASE Over /\ UNCHANGED <<pc, output>>
    BY <2>1, <2>5 DEF Call!callVars, Over
  <2> QED
    BY <2>2, <2>3, <2>4, <2>5, StepOfCall
<1> QED
  BY <1>1, <1>2, InvariantHolds, PTL DEF Spec, Call!CallSafety

=============================================================================
