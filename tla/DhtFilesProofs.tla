---------------------------- MODULE DhtFilesProofs ----------------------------
(***************************************************************************)
(* Proofs about the file functions for any number of processes and files,  *)
(* any calls and any interleaving, crash or failed write; and about        *)
(* MemoryStream, the stream of bytes beside them.                          *)
(***************************************************************************)
EXTENDS DhtFiles, MemoryStream, ContainerProofs

-----------------------------------------------------------------------------
(***************************************************************************)
(* The inductive invariant.                                                *)
(***************************************************************************)
Labels == {"idle", "media", "reading", "sound", "samples", "seal", "size", "read", "open",
           "create", "write", "done", "dead"}

\* The variables are functions on the files and on the processes.
Shape ==
  /\ files = [f \in Path |-> files[f]]
  /\ pc \in [Proc -> Labels]
  /\ call = [p \in Proc |-> call[p]]
  /\ text = [p \in Proc |-> text[p]]
  /\ size = [p \in Proc |-> size[p]]
  /\ buf = [p \in Proc |-> buf[p]]
  /\ offset = [p \in Proc |-> offset[p]]
  /\ decrypted = [p \in Proc |-> decrypted[p]]
  /\ outcome = [p \in Proc |-> outcome[p]]
  /\ before = [p \in Proc |-> before[p]]

\* Where a call stands: what it runs, and what it has done to its output.
Control(p) ==
  /\ pc[p] # "idle" => call[p] \in Calls
  /\ pc[p] \in {"media", "reading", "sound", "samples", "seal"} => call[p].op \in EncryptOps
  /\ pc[p] \in {"sound", "samples"} => call[p].op = "encryptVideo"
  /\ pc[p] \in {"size", "read", "open"} => call[p].op \in DecryptOps
  /\ outcome[p] # "none" <=> pc[p] = "done"
  /\ pc[p] \notin {"write", "done", "dead"} => p \notin opened
  /\ pc[p] = "write" => p \in opened
  /\ outcome[p] \in Rejections => p \notin opened
  /\ p \in short => p \in opened
  /\ before[p] \subseteq {q \in Proc : pc[q] = "done"}

\* The bytes calls write, and those a file may consist of.
OutBytes == RawCells \cup Range(BmpHeader) \cup UNION {Range(m.container) : m \in sealed}
MediaBytes == {MediaFile(Media[f])[1] : f \in Path}
FileBytes == OutBytes \cup MediaBytes

\* A file is as it was at the start, or consists of bytes that calls wrote.
AtStart(f) == IF Media[f] = NoText THEN NoFile ELSE MediaFile(Media[f])
FileHeld(f) == files[f] = AtStart(f) \/ files[f] \in Seq(OutBytes)

\* What a call holds in memory, and what it may rely on in the files.
Memory(p) ==
  /\ text[p] \in SomeText
  /\ buf[p] \in Seq(FileBytes) /\ offset[p] \in 0..Len(buf[p]) /\ size[p] \in Nat
  /\ pc[p] \in {"idle", "media", "reading", "sound", "samples", "seal", "size"} => buf[p] = <<>>
  /\ pc[p] \notin {"write", "done", "dead"} => offset[p] = 0
  /\ pc[p] = "read" => /\ Len(buf[p]) <= size[p]
                       /\ files[call[p].in] \in Seq(FileBytes)
  /\ pc[p] = "write" => buf[p] \in Seq(OutBytes) /\ files[call[p].out] \in Seq(OutBytes)
  /\ pc[p] \in {"create", "write"} /\ call[p].op \in EncryptOps =>
       \E m \in sealed : m.by = p /\ buf[p] = m.container
  /\ pc[p] \in {"sound", "samples"} => text[p] \in Part

\* A container is the Seal of what compressXZ made of some text.
IsContainer(m) ==
  /\ Narrow(Len(m.data)) >= 0
  /\ \E t \in SomeText : m.data \in CompressXZ(t)
  /\ \E iv \in Ivs : m.container = Seal(m.key, iv, m.data)

\* It is sealed with the password of its call.
IsSealed(m) ==
  /\ IsContainer(m)
  /\ m.by \in Proc /\ pc[m.by] # "idle"
  /\ m.key = KeyOf(call[m.by].password) /\ ~Weak(call[m.by].password)

\* What decryptData returned is what some call sealed.
Authentic(p) ==
  decrypted[p] # NoText =>
    /\ pc[p] # "idle" /\ call[p].op \in DecryptOps
    /\ \E m \in sealed : SameKey(m, call[p].password) /\ decrypted[p] = Processed(m.data)

\* The container of a sole writer grows in its file, and stays there.
Storing(p) ==
  call[p].op \in EncryptOps /\ SoleWriter(p) =>
    /\ pc[p] = "write" => files[call[p].out] = SubSeq(buf[p], 1, offset[p])
    /\ pc[p] = "done" /\ outcome[p] = "ok" /\ p \notin short =>
         \E m \in sealed : m.by = p /\ files[call[p].out] = m.container

\* p's container is what q decrypts.
Supplies(p, q) ==
  /\ Stored(p) /\ p \in before[q]
  /\ call[q].op \in DecryptOps /\ call[q].in = call[p].out

\* What q has read of it is its beginning, and it reads all of it.
Reading(p, q) ==
  Supplies(p, q) =>
    LET content == files[call[p].out] IN
    /\ pc[q] = "read" => size[q] = Len(content) /\ buf[q] = SubSeq(content, 1, Len(buf[q]))
    /\ pc[q] = "open" => buf[q] = content
    /\ ~Weak(call[q].password) /\ KeyOf(call[q].password) = KeyOf(call[p].password) =>
         outcome[q] \notin {"FileNotFoundError", "CorruptedFileError", "InvalidPasswordError"}

ControlInv == Shape /\ opened \cup short \subseteq Proc /\ \A p \in Proc : Control(p)
DataInv ==
  /\ \A f \in Path : FileHeld(f)
  /\ \A p \in Proc : Memory(p)
  /\ \A m \in sealed : IsSealed(m)
  /\ \A p \in Proc : Authentic(p)
StoreInv ==
  /\ \A p \in Proc : Storing(p)
  /\ \A p, q \in Proc : Reading(p, q)

-----------------------------------------------------------------------------
\* A step of p leaves what belongs to the other processes alone.
Others(p) ==
  \A q \in Proc \ {p} :
    /\ pc'[q] = pc[q] /\ call'[q] = call[q] /\ text'[q] = text[q] /\ size'[q] = size[q]
    /\ buf'[q] = buf[q] /\ offset'[q] = offset[q] /\ decrypted'[q] = decrypted[q]
    /\ outcome'[q] = outcome[q] /\ before'[q] = before[q]
    /\ q \in opened' <=> q \in opened
    /\ q \in short' <=> q \in short

\* The steps of one process: a call begins, goes on or is cut off.
Move(p) == (\E c \in Calls : Begin(p, c)) \/ Step(p) \/ Crash(p)

\* No step of one process touches what belongs to another.
LEMMA OthersKept ==
  ASSUME Shape, opened \cup short \subseteq Proc, NEW p \in Proc, Move(p)
  PROVE  Shape' /\ Others(p) /\ opened' \cup short' \subseteq Proc
<1> USE DEF Shape, Others, Goto, End, Die, history, Labels
<1>1. ASSUME NEW c \in Calls, Begin(p,
c) PROVE Shape' /\ Others(p) /\ opened' \cup short' \subseteq Proc
  BY <1>1 DEF Begin
<1>2. CASE ReadMedia(p)
  BY <1>2 DEF ReadMedia
<1>3. CASE ReadSound(p)
  BY <1>3 DEF ReadSound
<1>4. CASE JpegReaderExits(p)
  BY <1>4 DEF JpegReaderExits
<1>5. CASE SealText(p)
  BY <1>5 DEF SealText
<1>6. CASE OpenInput(p)
  BY <1>6 DEF OpenInput
<1>7. CASE ReadSome(p)
  BY <1>7 DEF ReadSome
<1>8. CASE DecryptDataThrows(p)
  BY <1>8 DEF DecryptDataThrows
<1>9. CASE OpenContainer(p)
  BY <1>9 DEF OpenContainer
<1>10. CASE CreateOutput(p)
  BY <1>10 DEF CreateOutput
<1>11. CASE WriteSome(p)
  BY <1>11 DEF WriteSome
<1>12. CASE WriteFails(p)
  BY <1>12 DEF WriteFails
<1>13. CASE PngWriterThrows(p)
  BY <1>13 DEF PngWriterThrows
<1>14. CASE JpegWriterExits(p)
  BY <1>14 DEF JpegWriterExits
<1>15. CASE Crash(p)
  BY <1>15 DEF Crash
<1>16. CASE BadAlloc(p)
  BY <1>16 DEF BadAlloc
<1>17. CASE OpenMedia(p)
  BY <1>17 DEF OpenMedia
<1>18. CASE OpenSound(p)
  BY <1>18 DEF OpenSound
<1> QED
  BY <1>1, <1>2, <1>3, <1>4, <1>5, <1>6, <1>7, <1>8, <1>9, <1>10, <1>11, <1>12,
     <1>13, <1>14, <1>15, <1>16, <1>17, <1>18
  DEF Move, Step


\* A call that is over takes no step.
LEMMA OverIsOver ==
  ASSUME NEW p, Move(p)
  PROVE  ~Over(p)
BY DEF Move, Begin, Step, BadAlloc, OpenMedia, ReadMedia, OpenSound, ReadSound, JpegReaderExits,
       SealText, OpenInput,
       ReadSome, DecryptDataThrows, OpenContainer, CreateOutput, WriteSome, WriteFails,
       PngWriterThrows, JpegWriterExits, Crash, Over

\* The exceptions of the readers.
LEMMA ReaderErrorNames ==
  ASSUME NEW c, NEW content, NEW e \in ReaderErrors(c, content)
  PROVE  e \in {"UnsupportedFormatError", "FileNotFoundError", "DhtError"}
<1> DEFINE image == c.op = "encryptImage"
           known == Ext[c.in] \in {"png", "jpg", "bmp"}
<1>1. CASE image /\ ~known
  BY <1>1 DEF ReaderErrors, Image
<1>2. CASE image /\ known /\ content = NoFile
  BY <1>2 DEF ReaderErrors, Image
<1>3. CASE image /\ known /\ content # NoFile
  BY <1>3 DEF ReaderErrors, Image
<1>4. CASE ~image
  BY <1>4 DEF ReaderErrors, Image
<1> QED
  BY <1>1, <1>2, <1>3, <1>4

\* A call, once made, is not exchanged for another.
LEMMA CallKept ==
  ASSUME Shape, NEW p \in Proc, Move(p), pc[p] # "idle"
  PROVE  call'[p] = call[p] /\ pc'[p] # "idle" /\ before'[p] = before[p]
BY DEF Shape, Move, Begin, Step, BadAlloc, OpenMedia, ReadMedia, OpenSound, ReadSound,
       JpegReaderExits, SealText,
       OpenInput, ReadSome, DecryptDataThrows, OpenContainer, CreateOutput, WriteSome,
       WriteFails, PngWriterThrows, JpegWriterExits, Crash, Goto, End, Die, history

-----------------------------------------------------------------------------
\* Every step of a process keeps its own control state in order.
LEMMA OwnControl ==
  ASSUME ControlInv, NEW p \in Proc, Move(p)
  PROVE  Control(p)'
<1> DEFINE Done(r) == {q \in Proc : r[q] = "done"}
<1>0. Shape /\ opened \cup short \subseteq Proc /\ Control(p)
  BY DEF ControlInv
<1>a. Shape' /\ Others(p) /\ ~Over(p)
  BY <1>0, OthersKept, OverIsOver
<1>b. Done(pc) \subseteq Done(pc')
  BY <1>0, <1>a DEF Others, Over
<1>c. ASSUME before'[p] = before[p] PROVE (before[p] \subseteq {q \in Proc : pc[q] = "done"})'
  BY <1>0, <1>b, <1>c DEF Control
<1> HIDE DEF Done
<1> USE DEF Shape, Control, Goto, End, Die, history, Labels, Rejections
<1>1. ASSUME NEW c \in Calls, Begin(p, c) PROVE Control(p)'
  <2>1. c.op \in EncryptOps \cup DecryptOps
    BY CallsAssumption
  <2>2. (before[p] \subseteq {q \in Proc : pc[q] = "done"})'
    BY <1>0, <1>1, <1>b DEF Begin, Done
  <2> QED
    BY <1>0, <1>1, <2>1, <2>2 DEF Begin
<1>2. CASE ReadMedia(p)
  BY <1>0, <1>c, <1>2 DEF ReadMedia
<1>3. CASE ReadSound(p)
  BY <1>0, <1>c, <1>3 DEF ReadSound
<1>4. CASE JpegReaderExits(p)
  BY <1>0, <1>c, <1>4 DEF JpegReaderExits
<1>5. CASE SealText(p)
  BY <1>0, <1>c, <1>5 DEF SealText
<1>6. CASE OpenInput(p)
  BY <1>0, <1>c, <1>6 DEF OpenInput
<1>7. CASE ReadSome(p)
  BY <1>0, <1>c, <1>7 DEF ReadSome
<1>8. CASE DecryptDataThrows(p)
  BY <1>0, <1>c, <1>8 DEF DecryptDataThrows
<1>9. CASE OpenContainer(p)
  BY <1>0, <1>c, <1>9 DEF OpenContainer
<1>10. CASE CreateOutput(p)
  BY <1>0, <1>c, <1>10 DEF CreateOutput
<1>11. CASE WriteSome(p)
  BY <1>0, <1>c, <1>11 DEF WriteSome
<1>12. CASE WriteFails(p)
  BY <1>0, <1>c, <1>12 DEF WriteFails
<1>13. CASE PngWriterThrows(p)
  BY <1>0, <1>c, <1>13 DEF PngWriterThrows
<1>14. CASE JpegWriterExits(p)
  BY <1>0, <1>c, <1>14 DEF JpegWriterExits
<1>15. CASE Crash(p)
  BY <1>0, <1>c, <1>15 DEF Crash, Over
<1>16. CASE BadAlloc(p)
  BY <1>0, <1>c, <1>16 DEF BadAlloc
<1>17. CASE OpenMedia(p)
  BY <1>0, <1>c, <1>17, ReaderErrorNames DEF OpenMedia
<1>18. CASE OpenSound(p)
  BY <1>0, <1>c, <1>18 DEF OpenSound
<1> QED
  BY <1>1, <1>2, <1>3, <1>4, <1>5, <1>6, <1>7, <1>8, <1>9, <1>10, <1>11, <1>12,
     <1>13, <1>14, <1>15, <1>16, <1>17, <1>18
  DEF Move, Step

\* The steps of a process keep the control state of every process in order.
LEMMA ControlKept ==
  ASSUME ControlInv, NEW p \in Proc, Move(p)
  PROVE  ControlInv'
<1>1. Shape' /\ Others(p) /\ (opened \cup short \subseteq Proc)' /\ ~Over(p)
  BY OthersKept, OverIsOver DEF ControlInv
<1>2. Control(p)'
  BY OwnControl
<1>3. ASSUME NEW q \in Proc \ {p} PROVE Control(q)'
  <2>1. Control(q)
    BY DEF ControlInv
  <2>2. /\ pc'[q] = pc[q] /\ call'[q] = call[q] /\ outcome'[q] = outcome[q]
        /\ before'[q] = before[q]
        /\ q \in opened' <=> q \in opened
        /\ q \in short' <=> q \in short
    BY <1>1 DEF Others
  <2>3. (before[q] \subseteq {r \in Proc : pc[r] = "done"})'
    <3>1. ASSUME NEW r \in before[q] PROVE r \in Proc /\ pc'[r] = "done"
      <4>1. r \in Proc /\ pc[r] = "done" /\ r # p
        BY <1>1, <2>1 DEF Control, Over
      <4> QED
        BY <1>1, <4>1 DEF Others
    <3> QED
      BY <2>2, <3>1
  <2> QED
    BY <2>1, <2>2, <2>3 DEF Control
<1> QED
  BY <1>1, <1>2, <1>3 DEF ControlInv

\* A step is a step of one process, or changes nothing.
LEMMA StepOfOne ==
  ASSUME [Next]_vars
  PROVE  (\E p \in Proc : Move(p)) \/ UNCHANGED vars
BY DEF Next, Move, Stopped

\* At the start every process is idle.
LEMMA InitControl ==
  ASSUME Init
  PROVE  ControlInv
<1>1. Shape /\ opened \cup short \subseteq Proc
  BY DEF Init, Shape, Labels
<1>2. ASSUME NEW p \in Proc PROVE Control(p)
  BY DEF Init, Control, Rejections
<1> QED
  BY <1>1, <1>2 DEF ControlInv

\* The control state of every process stays in order in every behaviour.
LEMMA ControlInvariant == Spec => []ControlInv
<1>1. ASSUME ControlInv, [Next]_vars PROVE ControlInv'
  <2>1. CASE UNCHANGED vars
    BY <1>1, <2>1 DEF vars, ControlInv, Shape, Control
  <2> QED
    BY <1>1, <2>1, StepOfOne, ControlKept
<1> QED
  BY InitControl, <1>1, PTL DEF Spec

\* A call rejected for its input, its password, its format or a failed
\* allocation has never opened its output, whatever other calls did meanwhile:
\* decryptImage and its kin reach writeFile and the image writers only after
\* every check.
THEOREM RejectedCallsKeepOutput == Spec => []RejectedCallKeepsOutput
<1>1. ControlInv => RejectedCallKeepsOutput
  BY DEF ControlInv, Control, RejectedCallKeepsOutput
<1> QED
  BY ControlInvariant, <1>1, PTL

\* A file changes only while a call that has it as its output is opening or
\* writing it (file_utils.cpp, bmp_writer.cpp, png_writer.cpp, jpeg_writer.cpp):
\* no reader, and no codec, ever writes.
THEOREM OnlyOutputsEverChange == Spec => OnlyOutputsChange
<1> DEFINE Kept == \A f \in Path : files'[f] # files[f] =>
                     \E p \in Proc : pc[p] \in {"create", "write"} /\ call[p].out = f
<1>1. ASSUME ControlInv, [Next]_vars PROVE [Kept]_vars
  <2>1. CASE UNCHANGED vars
    BY <2>1
  <2>2. ASSUME NEW p \in Proc, Move(p) PROVE Kept
    <3>1. Shape
      BY <1>1 DEF ControlInv
    <3>2. CASE CreateOutput(p)
      BY <3>1, <3>2 DEF CreateOutput, Shape
    <3>3. CASE WriteSome(p)
      BY <3>1, <3>3 DEF WriteSome, Shape
    <3>4. CASE ~CreateOutput(p) /\ ~WriteSome(p)
      <4>1. files' = files
        BY <2>2, <3>4
        DEF Move, Begin, Step, BadAlloc, OpenMedia, ReadMedia, OpenSound, ReadSound,
            JpegReaderExits, SealText,
            OpenInput, ReadSome, DecryptDataThrows, OpenContainer, WriteFails,
            PngWriterThrows, JpegWriterExits, Crash
      <4> QED
        BY <4>1
    <3> QED
      BY <3>2, <3>3, <3>4
  <2> QED
    BY <1>1, <2>1, <2>2, StepOfOne
<1> QED
  BY ControlInvariant, <1>1, PTL DEF Spec, OnlyOutputsChange

-----------------------------------------------------------------------------
(***************************************************************************)
(* The bytes that go through the files.                                    *)
(***************************************************************************)

\* A sequence of members of one set is a sequence of members of a larger one.
LEMMA SeqMonotone ==
  ASSUME NEW S, NEW T, S \subseteq T, NEW s \in Seq(S)
  PROVE  s \in Seq(T)
<1>1. Len(s) \in Nat /\ DOMAIN s = 1..Len(s) /\ s = [i \in 1..Len(s) |-> s[i]]
  BY LenProperties, SeqDef
<1>2. \A i \in 1..Len(s) : s[i] \in T
  BY ElementOfSeq
<1>3. s \in [1..Len(s) -> T]
  BY <1>1, <1>2
<1> QED
  BY <1>1, <1>3, SeqDef

\* The texts are sequences of payload.
LEMMA TextsAreTexts ==
  /\ \A t \in Part : t \in Seq(Payload)
  /\ \A t \in SomeText : t \in Seq(Payload)
  /\ \A u, v \in Part : u \o v \in SomeText
  /\ <<>> \in Part /\ Part \subseteq SomeText
<1>1. ASSUME NEW t \in Part PROVE t \in Seq(Payload)
  <2>1. ASSUME NEW f \in HasMedia
        PROVE  Media[f].frames \in Seq(Payload) /\ Media[f].sound \in Seq(Payload)
    BY <2>1, MediaAssumption DEF HasMedia
  <2> QED
    BY <1>1, <2>1, JunkAssumption DEF Part
<1>2. ASSUME NEW u \in Part, NEW v \in Part PROVE u \o v \in Seq(Payload)
  <2>1. u \in Seq(Payload) /\ v \in Seq(Payload)
    BY <1>1
  <2> QED
    BY <2>1, ConcatProperties
<1>3. ASSUME NEW t \in SomeText PROVE t \in Seq(Payload)
  <2>1. t \in Part \/ \E u, v \in Part : t = u \o v
    BY <1>3 DEF SomeText
  <2> QED
    BY <1>1, <1>2, <2>1
<1>4. \A u, v \in Part : u \o v \in SomeText
  BY DEF SomeText
<1>5. <<>> \in Part /\ Part \subseteq SomeText
  BY JunkAssumption DEF Part, SomeText
<1> QED
  BY <1>1, <1>3, <1>4, <1>5

\* What compressXZ makes of a text is a string of bytes.
LEMMA CompressedBytes ==
  ASSUME NEW t \in SomeText, NEW d \in CompressXZ(t)
  PROVE  d \in Seq(Byte)
<1>1. t \in Seq(Symbol)
  <2>1. t \in Seq(Payload)
    BY TextsAreTexts
  <2> QED
    BY <2>1, SeqMonotone DEF Symbol
<1>2. d \in Seq(Symbol)
  <2>1. CASE t = <<>>
    BY <2>1 DEF CompressXZ
  <2>2. CASE t # <<>>
    <3>1. d = <<"H", "B">> \o t \o <<"E", "I", "F">>
      BY <2>2 DEF CompressXZ, XzStream
    <3>2. <<"H", "B">> \in Seq(Symbol) /\ <<"E", "I", "F">> \in Seq(Symbol)
      BY DEF Symbol, Field
    <3>3. <<"H", "B">> \o t \in Seq(Symbol)
      BY <1>1, <3>2, ConcatProperties
    <3> QED
      BY <3>1, <3>2, <3>3, ConcatProperties
  <2> QED
    BY <2>1, <2>2
<1> QED
  BY <1>2, BytesAssumption, SeqMonotone

\* A container is made of iv, ciphertext and tag bytes, all of them its own.
LEMMA SealedContainer ==
  ASSUME NEW m, IsContainer(m)
  PROVE  /\ m.data \in Seq(Byte)
         /\ m.container \in Seq(Range(m.container))
         /\ \A b \in Range(m.container) : b.kind \in {"raw", "ct", "tag"}
<1>1. m.data \in Seq(Byte)
  BY CompressedBytes DEF IsContainer
<1>2. PICK iv \in Ivs : m.container = Seal(m.key, iv, m.data)
  BY DEF IsContainer
<1>3. iv \in Seq(RawCells) /\ Len(iv) = AES_IV_LENGTH
  BY IvsAssumption DEF RawCells
<1> DEFINE ct == EncryptBytes(m.key, iv, Processed(m.data))
           S == RawCells \cup TagCells(m.key, iv, ct) \cup CtCells(m.key, iv)
<1>4. m.container \in Seq(S)
  <2>1. Narrow(Len(m.data)) >= 0
    BY DEF IsContainer
  <2>2. Seal(m.key, iv, m.data) \in Seq(S)
    BY <1>1, <1>3, <2>1, SealParts
  <2> QED
    BY <1>2, <2>2
<1>5. ASSUME NEW b \in S PROVE b.kind \in {"raw", "ct", "tag"}
  <2>1. CASE b \in RawCells
    BY <2>1 DEF RawCells, RawCell
  <2>2. CASE b \in TagCells(m.key, iv, ct)
    BY <2>2 DEF TagCells, TagCell
  <2>3. CASE b \in CtCells(m.key, iv)
    BY <2>3 DEF CtCells, CtCell
  <2> QED
    BY <2>1, <2>2, <2>3
<1> HIDE DEF S
<1>6. /\ Len(m.container) \in Nat /\ DOMAIN m.container = 1..Len(m.container)
      /\ m.container = [i \in 1..Len(m.container) |-> m.container[i]]
      /\ \A i \in 1..Len(m.container) : m.container[i] \in S
  BY <1>4, LenProperties, ElementOfSeq, SeqDef
<1>7. Range(m.container) \subseteq S
  BY <1>6 DEF Range
<1>8. m.container \in [1..Len(m.container) -> Range(m.container)]
  BY <1>6 DEF Range
<1> QED
  BY <1>1, <1>5, <1>6, <1>7, <1>8, SeqDef

\* What calls write is never taken for media.
LEMMA OutBytesAreNoMedia ==
  ASSUME \A m \in sealed : IsSealed(m), NEW b \in OutBytes
  PROVE  b.kind \in {"raw", "ct", "tag", "bmp"}
<1>1. CASE b \in RawCells
  BY <1>1 DEF RawCells, RawCell
<1>2. CASE b \in Range(BmpHeader)
  BY <1>2 DEF Range, BmpHeader
<1>3. ASSUME NEW m \in sealed, b \in Range(m.container) PROVE b.kind \in {"raw", "ct", "tag"}
  BY <1>3, SealedContainer DEF IsSealed
<1> QED
  BY <1>1, <1>2, <1>3 DEF OutBytes

\* Zero is among the bytes calls write.
LEMMA ZeroByte == Zero \in OutBytes /\ Zero \in FileBytes
BY BytesAssumption DEF OutBytes, FileBytes, RawCells, Zero, Symbol, Field

\* A file written over with bytes of calls consists of such bytes: the piece,
\* what was there, and zeros in a gap.
LEMMA OverwriteBytes ==
  ASSUME NEW S, Zero \in S, NEW content \in Seq(S), NEW off \in Nat, NEW piece \in Seq(S)
  PROVE  Overwrite(content, off, piece) \in Seq(S)
<1> DEFINE end == off + Len(piece)
           n == IF end < Len(content) THEN Len(content) ELSE end
<1>1. Len(content) \in Nat /\ Len(piece) \in Nat /\ n \in Nat
  BY LenProperties
<1>2. ASSUME NEW i \in 1..n
      PROVE  (CASE i \in (off + 1)..end -> piece[i - off]
                [] i \notin (off + 1)..end /\ i <= Len(content) -> content[i]
                [] OTHER -> Zero) \in S
  <2>1. CASE i \in (off + 1)..end
    <3>1. piece[i - off] \in S
      BY <1>1, <2>1, ElementOfSeq
    <3> HIDE DEF end
    <3> QED
      BY <2>1, <3>1, Zenon
  <2>2. CASE i \notin (off + 1)..end /\ i <= Len(content)
    <3>1. content[i] \in S
      BY <1>1, <2>2, ElementOfSeq
    <3> HIDE DEF end
    <3> QED
      BY <2>2, <3>1, Zenon
  <2>3. CASE i \notin (off + 1)..end /\ ~(i <= Len(content))
    <3> HIDE DEF end
    <3> QED
      BY <2>3, Zenon
  <2> QED
    BY <2>1, <2>2, <2>3
<1> DEFINE v(i) == CASE i \in (off + 1)..end -> piece[i - off]
                     [] i \notin (off + 1)..end /\ i <= Len(content) -> content[i]
                     [] OTHER -> Zero
<1>3. \A i \in 1..n : v(i) \in S
  BY <1>2
<1>4. Overwrite(content, off, piece) = [i \in 1..n |-> v(i)]
  BY DEF Overwrite
<1> HIDE DEF v, n
<1>5. [i \in 1..n |-> v(i)] \in [1..n -> S]
  BY <1>3
<1> QED
  BY <1>1, <1>4, <1>5, FunctionIsSeq

\* What a step does to the files: one is emptied, or a piece of a call's buffer
\* is written into it, or it stays as it is.
FilesEffect(p) ==
  \/ files' = files
  \/ /\ pc[p] = "create" /\ pc'[p] = "write" /\ files' = [files EXCEPT ![call[p].out] = <<>>]
  \/ /\ pc[p] = "write"
     /\ files' = [files EXCEPT ![call[p].out] =
                    Overwrite(@, offset[p], SubSeq(buf[p], offset[p] + 1, offset'[p]))]
     /\ offset'[p] = IF offset[p] + Chunk < Len(buf[p]) THEN offset[p] + Chunk ELSE Len(buf[p])

\* Only CreateOutput and WriteSome touch a file, and only SealText adds to the
\* containers made.
LEMMA EffectOfMove ==
  ASSUME ControlInv, NEW p \in Proc, Move(p)
  PROVE  FilesEffect(p) /\ sealed \subseteq sealed'
<1>1. Shape /\ Control(p)
  BY DEF ControlInv
<1>2. CASE CreateOutput(p)
  BY <1>1, <1>2 DEF CreateOutput, FilesEffect, Shape, Goto
<1>3. CASE WriteSome(p)
  BY <1>1, <1>3 DEF WriteSome, FilesEffect, Shape, history
<1>4. CASE SealText(p)
  BY <1>4 DEF SealText, FilesEffect
<1>5. CASE ~CreateOutput(p) /\ ~WriteSome(p) /\ ~SealText(p)
  BY <1>5
  DEF Move, Begin, Step, BadAlloc, OpenMedia, ReadMedia, OpenSound, ReadSound, JpegReaderExits,
      OpenInput, ReadSome,
      DecryptDataThrows, OpenContainer, WriteFails, PngWriterThrows, JpegWriterExits, Crash,
      FilesEffect, history
<1> QED
  BY <1>2, <1>3, <1>4, <1>5

\* Bytes that may be in a file may be there for ever after.
LEMMA BytesGrow ==
  ASSUME sealed \subseteq sealed'
  PROVE  /\ OutBytes \subseteq OutBytes' /\ FileBytes \subseteq FileBytes'
         /\ OutBytes \subseteq FileBytes /\ (OutBytes \subseteq FileBytes)'
BY DEF OutBytes, FileBytes, MediaBytes

\* A file keeps its content through a step, or has only bytes of calls after it.
LEMMA FileAfterMove ==
  ASSUME ControlInv, DataInv, NEW p \in Proc, Move(p), NEW f \in Path
  PROVE  files'[f] = files[f] \/ files'[f] \in Seq(OutBytes')
<1>1. Shape /\ Control(p) /\ Memory(p)
  BY DEF ControlInv, DataInv
<1>2. FilesEffect(p) /\ OutBytes \subseteq OutBytes'
  BY EffectOfMove, BytesGrow
<1>3. CASE files' = files
  BY <1>3
<1>4. CASE files' = [files EXCEPT ![call[p].out] = <<>>]
  BY <1>1, <1>4 DEF Shape
<1>5. CASE /\ pc[p] = "write"
           /\ files' = [files EXCEPT ![call[p].out] =
                          Overwrite(@, offset[p], SubSeq(buf[p], offset[p] + 1, offset'[p]))]
           /\ offset'[p] = IF offset[p] + Chunk < Len(buf[p])
                           THEN offset[p] + Chunk ELSE Len(buf[p])
  <2> DEFINE piece == SubSeq(buf[p], offset[p] + 1, offset'[p])
             out == call[p].out
  <2>1. /\ buf[p] \in Seq(OutBytes) /\ files[out] \in Seq(OutBytes)
        /\ offset[p] \in 0..Len(buf[p]) /\ Len(buf[p]) \in Nat
    BY <1>1, <1>5, LenProperties DEF Memory
  <2>2. offset[p] \in Nat /\ offset'[p] \in Nat /\ offset'[p] <= Len(buf[p])
    BY <1>5, <2>1, ChunkAssumption
  <2>3. piece \in Seq(OutBytes)
    <3>1. \A i \in (offset[p] + 1)..offset'[p] : buf[p][i] \in OutBytes
      BY <2>1, <2>2, ElementOfSeq
    <3> QED
      BY <2>1, <2>2, <3>1, SubSeqProperties
  <2>4. Zero \in OutBytes
    BY ZeroByte
  <2>5. Overwrite(files[out], offset[p], piece) \in Seq(OutBytes)
    BY <2>1, <2>2, <2>3, <2>4, OverwriteBytes
  <2>6. Overwrite(files[out], offset[p], piece) \in Seq(OutBytes')
    BY <1>2, <2>5, SeqMonotone
  <2>7. files'[f] = files[f] \/ files'[f] = Overwrite(files[out], offset[p], piece)
    BY <1>1, <1>5 DEF Shape
  <2> QED
    BY <2>6, <2>7
<1> QED
  BY <1>2, <1>3, <1>4, <1>5 DEF FilesEffect

\* A file that is media still is what it was at the start: no call writes media.
LEMMA MediaIsOriginal ==
  ASSUME DataInv, NEW f \in Path, IsMedia(files[f])
  PROVE  f \in HasMedia /\ files[f] = MediaFile(Media[f])
<1>1. \A b \in OutBytes : b.kind # "media"
  BY OutBytesAreNoMedia DEF DataInv
<1>2. FileHeld(f)
  BY DEF DataInv
<1>3. ~(files[f] \in Seq(OutBytes))
  <2>1. SUFFICES ASSUME files[f] \in Seq(OutBytes) PROVE FALSE
    OBVIOUS
  <2>2. Len(files[f]) = 1 /\ files[f][1].kind = "media"
    BY DEF IsMedia
  <2>3. files[f][1] \in OutBytes
    BY <2>1, <2>2, ElementOfSeq
  <2> QED
    BY <1>1, <2>2, <2>3
<1>4. files[f] # NoFile
  BY DEF IsMedia
<1> QED
  BY <1>2, <1>3, <1>4 DEF FileHeld, AtStart, HasMedia

\* A media file has its frames and its sound.
LEMMA MediaParts ==
  ASSUME NEW f \in HasMedia
  PROVE  /\ IsMedia(MediaFile(Media[f]))
         /\ MediaFile(Media[f])[1].frames = Media[f].frames
         /\ MediaFile(Media[f])[1].sound = Media[f].sound
         /\ Media[f].frames \in Part /\ Media[f].sound \in Part
BY NoFileAssumption DEF MediaFile, IsMedia, Part

\* What a reader delivers is a part of one of the media files, or something that
\* it makes of other bytes.
LEMMA PartsRead ==
  ASSUME DataInv, NEW c \in Calls
  PROVE  /\ \A t \in TextsRead(c, files[c.in]) : t \in Part
         /\ IsMedia(files[c.in]) => files[c.in][1].sound \in Part
         /\ Junk \subseteq Part
<1> DEFINE content == files[c.in]
<1>1. c.in \in Path
  BY CallsAssumption
<1>2. Junk \subseteq Part
  BY DEF Part
<1>3. CASE IsMedia(content)
  <2>1. c.in \in HasMedia /\ content = MediaFile(Media[c.in])
    BY <1>1, <1>3, MediaIsOriginal
  <2>2. content[1].frames \in Part /\ content[1].sound \in Part
    BY <2>1, MediaParts
  <2> QED
    BY <1>2, <1>3, <2>2 DEF TextsRead
<1>4. CASE ~IsMedia(content)
  BY <1>2, <1>4 DEF TextsRead
<1> QED
  BY <1>3, <1>4

\* What another process holds in memory, and relies on in the files, survives
\* a step of p.
LEMMA OthersData ==
  ASSUME ControlInv, DataInv, NEW p \in Proc, Move(p), NEW q \in Proc \ {p}
  PROVE  Memory(q)' /\ Authentic(q)'
<1>1. Memory(q) /\ Authentic(q) /\ Control(q)
  BY DEF ControlInv, DataInv
<1>2. /\ pc'[q] = pc[q] /\ call'[q] = call[q] /\ text'[q] = text[q] /\ size'[q] = size[q]
      /\ buf'[q] = buf[q] /\ offset'[q] = offset[q] /\ decrypted'[q] = decrypted[q]
  BY OthersKept DEF Others, ControlInv
<1>3. /\ sealed \subseteq sealed' /\ OutBytes \subseteq OutBytes' /\ FileBytes \subseteq FileBytes'
      /\ OutBytes' \subseteq FileBytes'
  BY EffectOfMove, BytesGrow
<1>4. buf[q] \in Seq(FileBytes')
  BY <1>1, <1>3, SeqMonotone DEF Memory
<1>5. pc[q] # "idle" => call[q].in \in Path /\ call[q].out \in Path
  BY <1>1, CallsAssumption DEF Control
<1>6. ASSUME pc[q] = "read" PROVE files'[call[q].in] \in Seq(FileBytes')
  <2>1. files'[call[q].in] = files[call[q].in] \/ files'[call[q].in] \in Seq(OutBytes')
    BY <1>5, <1>6, FileAfterMove
  <2>2. files[call[q].in] \in Seq(FileBytes)
    BY <1>1, <1>6 DEF Memory
  <2> QED
    BY <1>3, <2>1, <2>2, SeqMonotone
<1>7. ASSUME pc[q] = "write"
      PROVE  buf[q] \in Seq(OutBytes') /\ files'[call[q].out] \in Seq(OutBytes')
  <2>1. files'[call[q].out] = files[call[q].out] \/ files'[call[q].out] \in Seq(OutBytes')
    BY <1>5, <1>7, FileAfterMove
  <2>2. buf[q] \in Seq(OutBytes) /\ files[call[q].out] \in Seq(OutBytes)
    BY <1>1, <1>7 DEF Memory
  <2> QED
    BY <1>3, <2>1, <2>2, SeqMonotone
<1>8. Memory(q)'
  BY <1>1, <1>2, <1>3, <1>4, <1>6, <1>7 DEF Memory
<1>9. Authentic(q)'
  BY <1>1, <1>2, <1>3 DEF Authentic, SameKey
<1> QED
  BY <1>8, <1>9

\* A container stays the Seal of what its call read: a call never changes.
LEMMA SealedKept ==
  ASSUME ControlInv, DataInv, NEW p \in Proc, Move(p), NEW m \in sealed
  PROVE  IsSealed(m)'
<1>1. IsSealed(m)
  BY DEF DataInv
<1>2. call'[m.by] = call[m.by] /\ pc'[m.by] # "idle"
  <2>1. CASE m.by # p
    BY <1>1, <2>1, OthersKept DEF Others, ControlInv, IsSealed
  <2>2. CASE m.by = p
    BY <1>1, <2>2, CallKept DEF ControlInv, IsSealed
  <2> QED
    BY <2>1, <2>2
<1> QED
  BY <1>1, <1>2 DEF IsSealed

\* A step that keeps p's buffer, text and offset, and the files and containers,
\* keeps what p relies on as long as p does not reach a point where it relies on
\* more.
LEMMA SameMemory ==
  ASSUME ControlInv, DataInv, NEW p \in Proc,
         UNCHANGED <<files, text, size, buf, offset, sealed>>,
         pc' = [pc EXCEPT ![p] = pc'[p]],
         call' = call, pc[p] # "idle",
         \/ pc'[p] \in {"done", "dead"}
         \/ pc[p] = "media" /\ pc'[p] = "reading"
         \/ pc[p] = "sound" /\ pc'[p] \in {"samples", "seal"}
  PROVE  Memory(p)'
<1>1. Memory(p)
  BY DEF DataInv
<1>2. FileBytes' = FileBytes /\ OutBytes' = OutBytes
  BY DEF FileBytes, OutBytes, MediaBytes
<1> QED
  BY <1>1, <1>2 DEF Memory

\* What a step of readFile adds to the buffer: the next bytes of the file as it
\* is now, and zeros behind its end.
LEMMA ReadEffect ==
  ASSUME ControlInv, DataInv, NEW p \in Proc, ReadSome(p),
         NEW content \in {files[call[p].in]}
  PROVE  /\ content \in Seq(FileBytes)
         /\ buf'[p] \in Seq(FileBytes)
         /\ Len(buf[p]) <= Len(buf'[p]) /\ Len(buf'[p]) <= size[p]
         /\ \A i \in 1..Len(buf[p]) : buf'[p][i] = buf[p][i]
         /\ \A i \in (Len(buf[p]) + 1)..Len(buf'[p]) :
              buf'[p][i] = IF i <= Len(content) THEN content[i] ELSE Zero
         /\ pc'[p] = IF Len(buf'[p]) = size[p] THEN "open" ELSE "read"
<1> DEFINE have == Len(buf[p])
           upTo == IF have + Chunk < size[p] THEN have + Chunk ELSE size[p]
           cell(i) == IF have + i <= Len(content) THEN content[have + i] ELSE Zero
           piece == [i \in 1..(upTo - have) |-> cell(i)]
<1>1. Shape /\ Memory(p) /\ pc[p] = "read"
  BY DEF ControlInv, DataInv, ReadSome
<1>2. /\ buf[p] \in Seq(FileBytes) /\ content \in Seq(FileBytes) /\ size[p] \in Nat
      /\ have \in Nat /\ Len(content) \in Nat /\ have <= size[p]
  BY <1>1, LenProperties DEF Memory
<1>3. upTo \in Nat /\ have <= upTo /\ upTo <= size[p] /\ upTo - have \in Nat
  BY <1>2, ChunkAssumption
<1>4. /\ buf'[p] = buf[p] \o piece
      /\ pc'[p] = IF upTo = size[p] THEN "open" ELSE "read"
  BY <1>1 DEF ReadSome, Shape, Goto
<1> HIDE DEF upTo
<1>5. piece \in Seq(FileBytes) /\ Len(piece) = upTo - have
  <2>1. \A i \in 1..(upTo - have) : cell(i) \in FileBytes
    <3>1. ASSUME NEW i \in 1..(upTo - have) PROVE cell(i) \in FileBytes
      <4>1. CASE have + i <= Len(content)
        <5>1. have + i \in 1..Len(content)
          BY <1>2, <1>3, <4>1
        <5> QED
          BY <1>2, <4>1, <5>1, ElementOfSeq
      <4> QED
        BY <4>1, ZeroByte
    <3> QED
      BY <3>1
  <2> HIDE DEF cell
  <2>2. piece \in [1..(upTo - have) -> FileBytes]
    BY <2>1
  <2> QED
    BY <1>3, <2>2, FunctionIsSeq
<1>6. /\ buf[p] \o piece \in Seq(FileBytes) /\ Len(buf[p] \o piece) = have + Len(piece)
      /\ \A i \in 1..(have + Len(piece)) :
           (buf[p] \o piece)[i] = IF i <= have THEN buf[p][i] ELSE piece[i - have]
  <2> HIDE DEF piece
  <2> QED
    BY <1>2, <1>5, ConcatProperties
<1>7. Len(buf'[p]) = upTo
  BY <1>2, <1>3, <1>4, <1>5, <1>6
<1>8. ASSUME NEW i \in (have + 1)..upTo
      PROVE  buf'[p][i] = IF i <= Len(content) THEN content[i] ELSE Zero
  <2>1. i \in 1..(have + Len(piece)) /\ ~(i <= have) /\ i - have \in 1..(upTo - have)
    BY <1>2, <1>3, <1>5
  <2>2. buf'[p][i] = piece[i - have]
    BY <1>4, <1>6, <2>1
  <2>3. piece[i - have] = cell(i - have) /\ have + (i - have) = i
    BY <1>2, <1>3, <2>1
  <2> QED
    BY <2>2, <2>3
<1>9. \A i \in 1..have : buf'[p][i] = buf[p][i]
  BY <1>2, <1>3, <1>4, <1>5, <1>6
<1> QED
  BY <1>2, <1>3, <1>4, <1>6, <1>7, <1>8, <1>9

\* The steps of p keep its own memory in order.
LEMMA OwnMemory ==
  ASSUME ControlInv, DataInv, NEW p \in Proc, Move(p), \A m \in sealed' : IsSealed(m)'
  PROVE  Memory(p)'
<1>1. Shape /\ Control(p) /\ Memory(p) /\ \A f \in Path : FileHeld(f)
  BY DEF ControlInv, DataInv
<1>2. /\ sealed \subseteq sealed' /\ OutBytes \subseteq OutBytes' /\ FileBytes \subseteq FileBytes'
      /\ OutBytes \subseteq FileBytes /\ OutBytes' \subseteq FileBytes'
  BY EffectOfMove, BytesGrow
<1>3. pc[p] # "idle" => call[p] \in Calls /\ call[p].in \in Path /\ call[p].out \in Path
  BY <1>1, CallsAssumption DEF Control
<1>4. buf[p] \in Seq(FileBytes')
  BY <1>1, <1>2, SeqMonotone DEF Memory
<1>5. ASSUME sealed' = sealed PROVE FileBytes' = FileBytes /\ OutBytes' = OutBytes
  BY <1>5 DEF FileBytes, OutBytes, MediaBytes
<1>6. ASSUME NEW c \in Calls, Begin(p, c) PROVE Memory(p)'
  BY <1>1, <1>5, <1>6 DEF Begin, Memory, Shape
<1>7. CASE ReadMedia(p)
  <2>1. ASSUME NEW t \in TextsRead(call[p], files[call[p].in]), text' = [text EXCEPT ![p] = t],
               Goto(p, IF call[p].op = "encryptVideo" THEN "sound" ELSE "seal")
        PROVE  Memory(p)'
    <3>1. t \in Part /\ t \in SomeText
      BY <1>3, <1>7, <2>1, PartsRead DEF ReadMedia, SomeText
    <3> QED
      BY <1>1, <1>5, <1>7, <2>1, <3>1 DEF ReadMedia, Memory, Shape, Goto, history
  <2>2. ASSUME NEW e, End(p, e), UNCHANGED text PROVE Memory(p)'
    BY <1>1, <1>7, <2>2, SameMemory DEF ReadMedia, End, Shape, history
  <2> QED
    BY <1>7, <2>1, <2>2 DEF ReadMedia
<1>8. CASE ReadSound(p)
  <2>1. PICK t \in IF IsMedia(files[call[p].in]) THEN {files[call[p].in][1].sound} ELSE Junk :
          text' = [text EXCEPT ![p] = @ \o t]
    BY <1>8 DEF ReadSound
  <2>2. t \in Part
    BY <1>3, <1>8, <2>1, PartsRead DEF ReadSound
  <2>3. text[p] \in Part
    BY <1>1, <1>8 DEF ReadSound, Memory
  <2>4. text'[p] = text[p] \o t
    BY <1>1, <2>1 DEF Shape
  <2>5. text'[p] \in SomeText
    BY <2>2, <2>3, <2>4, TextsAreTexts
  <2> QED
    BY <1>1, <1>5, <1>8, <2>5 DEF ReadSound, Memory, Shape, Goto, history
<1>16. CASE OpenMedia(p) \/ OpenSound(p)
  BY <1>1, <1>16, SameMemory DEF OpenMedia, OpenSound, Goto, End, Shape, history
<1>9. CASE JpegReaderExits(p) \/ PngWriterThrows(p) \/ JpegWriterExits(p) \/ BadAlloc(p)
           \/ Crash(p) \/ DecryptDataThrows(p) \/ WriteFails(p)
  BY <1>1, <1>9, SameMemory
  DEF JpegReaderExits, PngWriterThrows, JpegWriterExits, BadAlloc, Crash, DecryptDataThrows,
      WriteFails, Die, Goto, End, Shape, history
<1>10. CASE SealText(p)
  <2>1. ASSUME NEW d \in CompressXZ(text[p]), NEW iv \in Ivs,
               buf' = [buf EXCEPT ![p] = Seal(KeyOf(call[p].password), iv, d)],
               sealed' = sealed \cup {[by |-> p, key |-> KeyOf(call[p].password), data |-> d,
                                       container |-> buf'[p]]},
               Goto(p, "create")
        PROVE  Memory(p)'
    <3> DEFINE m == [by |-> p, key |-> KeyOf(call[p].password), data |-> d,
                     container |-> buf'[p]]
    <3>1. m \in sealed' /\ m.by = p /\ m.container = buf'[p]
      BY <2>1
    <3>2. m.container \in Seq(Range(m.container))
      <4>1. IsContainer(m)
        BY <3>1 DEF IsSealed
      <4> QED
        BY <4>1, SealedContainer
    <3>3. buf'[p] \in Seq(OutBytes')
      <4>1. Range(m.container) \subseteq OutBytes'
        BY <3>1 DEF OutBytes
      <4> QED
        BY <3>1, <3>2, <4>1, SeqMonotone
    <3>4. buf'[p] \in Seq(FileBytes') /\ Len(buf'[p]) \in Nat
      BY <1>2, <3>3, SeqMonotone, LenProperties
    <3> HIDE DEF m
    <3> QED
      BY <1>1, <1>10, <2>1, <3>1, <3>4 DEF SealText, Memory, Shape, Goto
  <2>2. ASSUME NEW e, End(p, e), UNCHANGED <<buf, sealed>> PROVE Memory(p)'
    BY <1>1, <1>10, <2>2, SameMemory DEF SealText, End, Shape
  <2> QED
    BY <1>10, <2>1, <2>2 DEF SealText
<1>11. CASE OpenInput(p)
  <2> DEFINE content == files[call[p].in]
  <2>1. CASE content = NoFile
    BY <1>1, <1>11, <2>1, SameMemory DEF OpenInput, End, Shape, history
  <2>2. CASE content # NoFile
    <3>1. content \in Seq(FileBytes)
      <4>1. FileHeld(call[p].in)
        BY <1>1, <1>3, <1>11 DEF OpenInput
      <4>2. CASE content \in Seq(OutBytes)
        BY <1>2, <4>2, SeqMonotone
      <4>3. CASE content = MediaFile(Media[call[p].in])
        <5>1. content[1] \in FileBytes
          BY <1>3, <1>11, <4>3 DEF OpenInput, FileBytes, MediaBytes
        <5>2. content = <<content[1]>>
          BY <4>3 DEF MediaFile
        <5>3. \A b \in FileBytes : <<b>> \in Seq(FileBytes)
          OBVIOUS
        <5>4. <<content[1]>> \in Seq(FileBytes)
          BY <5>1, <5>3
        <5> QED
          BY <5>2, <5>4
      <4> QED
        BY <2>2, <4>1, <4>2, <4>3 DEF FileHeld, AtStart
    <3>2. Len(content) \in Nat
      BY <3>1, LenProperties
    <3> QED
      BY <1>1, <1>5, <1>11, <2>2, <3>1, <3>2 DEF OpenInput, Memory, Shape, Goto, history
  <2> QED
    BY <2>1, <2>2
<1>12. CASE ReadSome(p)
  <2>1. /\ files[call[p].in] \in Seq(FileBytes)
        /\ buf'[p] \in Seq(FileBytes) /\ Len(buf'[p]) <= size[p]
        /\ pc'[p] \in {"open", "read"}
    BY <1>12, ReadEffect
  <2>2. Len(buf'[p]) \in Nat /\ offset[p] = 0 /\ text[p] \in SomeText /\ size[p] \in Nat
    BY <1>1, <1>12, <2>1, LenProperties DEF ReadSome, Memory
  <2>3. UNCHANGED <<files, text, size, offset, call, sealed>>
    BY <1>12 DEF ReadSome, Goto, history
  <2> QED
    BY <1>5, <2>1, <2>2, <2>3 DEF Memory
<1>13. CASE OpenContainer(p)
  <2>1. UNCHANGED <<files, size, buf, offset, call, sealed>>
    BY <1>13 DEF OpenContainer, Goto, End, history
  <2>2. pc'[p] \in {"done", "create"} /\ call[p].op \notin EncryptOps
    <3>1. call[p].op \in DecryptOps
      BY <1>1, <1>13 DEF OpenContainer, Control
    <3>2. pc'[p] \in {"done", "create"}
      BY <1>1, <1>13 DEF OpenContainer, Goto, End, Shape
    <3> QED
      BY <3>1, <3>2 DEF EncryptOps, DecryptOps
  <2>3. text'[p] \in SomeText
    BY <1>1, <1>13, TextsAreTexts DEF OpenContainer, DecompressXZ, Memory, Shape
  <2> QED
    BY <1>1, <1>5, <1>13, <2>1, <2>2, <2>3 DEF Memory, OpenContainer
<1>14. CASE CreateOutput(p)
  <2>1. CASE End(p, "DhtError") /\ UNCHANGED <<files, buf, opened>>
    BY <1>1, <1>14, <2>1, SameMemory DEF CreateOutput, End, Shape
  <2>2. CASE /\ files' = [files EXCEPT ![call[p].out] = <<>>]
             /\ buf' = [buf EXCEPT ![p] = IF call[p].op \in EncryptOps THEN @ ELSE BmpHeader]
             /\ Goto(p, "write")
    <3>1. /\ UNCHANGED <<text, size, offset, call, sealed>> /\ pc[p] = "create"
          /\ pc'[p] = "write" /\ files'[call[p].out] = <<>>
          /\ buf'[p] = IF call[p].op \in EncryptOps THEN buf[p] ELSE BmpHeader
      BY <1>1, <1>3, <1>14, <2>2 DEF CreateOutput, Goto, Shape
    <3>2. CASE call[p].op \in EncryptOps
      <4>1. PICK m \in sealed : m.by = p /\ buf[p] = m.container
        BY <1>1, <3>1, <3>2 DEF Memory
      <4>2. m.container \in Seq(Range(m.container)) /\ Range(m.container) \subseteq OutBytes
        BY SealedContainer DEF DataInv, IsSealed, OutBytes
      <4>3. buf[p] \in Seq(OutBytes)
        BY <4>1, <4>2, SeqMonotone
      <4> QED
        BY <1>1, <1>5, <3>1, <3>2, <4>1, <4>3 DEF Memory
    <3>3. CASE call[p].op \notin EncryptOps
      <4>1. BmpHeader[1] \in OutBytes /\ BmpHeader \in Seq({BmpHeader[1]})
        BY DEF BmpHeader, OutBytes, Range
      <4>2. BmpHeader \in Seq(OutBytes)
        BY <4>1, SeqMonotone
      <4>3. BmpHeader \in Seq(FileBytes) /\ Len(BmpHeader) \in Nat
        BY <1>2, <4>2, SeqMonotone, LenProperties
      <4> QED
        BY <1>1, <1>5, <3>1, <3>3, <4>2, <4>3 DEF Memory
    <3> QED
      BY <3>2, <3>3
  <2> QED
    BY <1>14, <2>1, <2>2 DEF CreateOutput
<1>15. CASE WriteSome(p)
  <2>1. /\ UNCHANGED <<text, size, buf, call, sealed>> /\ pc[p] = "write"
        /\ pc'[p] \in {"write", "done"}
        /\ offset'[p] = IF offset[p] + Chunk < Len(buf[p]) THEN offset[p] + Chunk ELSE Len(buf[p])
    BY <1>1, <1>15 DEF WriteSome, Goto, End, Shape, history
  <2>2. offset'[p] \in 0..Len(buf[p])
    BY <1>1, <2>1, LenProperties, ChunkAssumption DEF Memory
  <2>3. files'[call[p].out] \in Seq(OutBytes')
    BY <1>1, <1>3, <1>5, <2>1, FileAfterMove DEF Memory
  <2> QED
    BY <1>1, <1>5, <2>1, <2>2, <2>3 DEF Memory
<1> QED
  BY <1>6, <1>7, <1>8, <1>9, <1>10, <1>11, <1>12, <1>13, <1>14, <1>15, <1>16 DEF Move, Step

\* Every container made is the Seal of what its call read; the new one too.
LEMMA AllSealed ==
  ASSUME ControlInv, DataInv, NEW p \in Proc, Move(p)
  PROVE  \A m \in sealed' : IsSealed(m)'
<1>1. \A m \in sealed : IsSealed(m)'
  BY SealedKept
<1>2. CASE SealText(p)
  <2>1. Shape /\ Control(p) /\ Memory(p) /\ pc[p] = "seal" /\ call[p].op \in EncryptOps
    BY <1>2 DEF ControlInv, DataInv, Control, SealText
  <2>2. ASSUME NEW d \in CompressXZ(text[p]), NEW iv \in Ivs, ~Weak(call[p].password),
               EncryptDataMay(d, call[p].password, iv, "ok", Seal(KeyOf(call[p].password), iv, d)),
               buf' = [buf EXCEPT ![p] = Seal(KeyOf(call[p].password), iv, d)],
               sealed' = sealed \cup {[by |-> p, key |-> KeyOf(call[p].password), data |-> d,
                                       container |-> buf'[p]]},
               Goto(p, "create")
        PROVE  \A m \in sealed' : IsSealed(m)'
    <3> DEFINE n == [by |-> p, key |-> KeyOf(call[p].password), data |-> d,
                     container |-> buf'[p]]
    <3>1. Narrow(Len(d)) >= 0
      BY <2>2 DEF EncryptDataMay
    <3>2. n.container = Seal(n.key, iv, n.data)
      BY <2>1, <2>2 DEF Shape
    <3>3. IsContainer(n)
      BY <2>1, <2>2, <3>1, <3>2 DEF IsContainer, Memory
    <3>4. call' = call /\ pc'[p] = "create"
      BY <2>1, <2>2 DEF Goto, Shape
    <3>6. ASSUME NEW m, m = n PROVE IsSealed(m)'
      <4>1. IsContainer(m) /\ m.by = p /\ m.key = KeyOf(call[p].password) /\ m.data = d
        BY <3>3, <3>6
      <4> QED
        BY <2>2, <3>4, <4>1 DEF IsSealed
    <3> QED
      BY <1>1, <2>2, <3>6
  <2>3. CASE sealed' = sealed
    BY <1>1, <2>3
  <2> QED
    BY <1>2, <2>2, <2>3 DEF SealText
<1>3. CASE ~SealText(p)
  <2>1. sealed' = sealed
    BY <1>3
    DEF Move, Begin, Step, BadAlloc, OpenMedia, ReadMedia, OpenSound, ReadSound, JpegReaderExits,
        OpenInput, ReadSome,
        DecryptDataThrows, OpenContainer, CreateOutput, WriteSome, WriteFails,
        PngWriterThrows, JpegWriterExits, Crash, history
  <2> QED
    BY <1>1, <2>1
<1> QED
  BY <1>2, <1>3

\* Whatever readFile collected, decryptData returns only what some call sealed:
\* the tag it verified is a byte of a container, and a tag names its contents.
LEMMA OpenedIsSealed ==
  ASSUME DataInv, NEW p \in Proc,
         NEW password, DecryptDataMay(buf[p], password, "ok", Unseal(KeyOf(password), buf[p]))
  PROVE  \E m \in sealed :
           SameKey(m, password) /\ Unseal(KeyOf(password), buf[p]) = Processed(m.data)
<1> DEFINE key == KeyOf(password)
           tag == TagCell(key, IvOf(buf[p]), Processed(CiphertextOf(buf[p])), 1)
<1>1. ~Weak(password) /\ ~TooShort(buf[p]) /\ TagVerifies(buf[p], key)
  BY DEF DecryptDataMay
<1>2. buf[p] \in Seq(FileBytes)
  BY DEF DataInv, Memory
<1> HIDE DEF key
<1>3. tag \in FileBytes
  BY <1>1, <1>2, VerifiedTag
<1>4. tag.kind = "tag"
  BY DEF TagCell
<1> HIDE DEF tag
<1>5. PICK m \in sealed : tag \in Range(m.container)
  <2>1. tag \notin MediaBytes
    BY <1>4 DEF MediaBytes, MediaFile
  <2>2. tag \notin RawCells
    BY <1>4 DEF RawCells, RawCell
  <2>3. tag \notin Range(BmpHeader)
    BY <1>4 DEF Range, BmpHeader
  <2> QED
    BY <1>3, <2>1, <2>2, <2>3 DEF FileBytes, OutBytes
<1>6. IsContainer(m)
  BY DEF DataInv, IsSealed
<1>7. PICK iv \in Ivs : m.container = Seal(m.key, iv, m.data)
  BY <1>6 DEF IsContainer
<1>8. PICK i \in DOMAIN m.container : m.container[i] = tag
  BY <1>5 DEF Range
<1>9. /\ m.data \in Seq(Byte) /\ Narrow(Len(m.data)) >= 0
      /\ iv \in Seq(RawCells) /\ Len(iv) = AES_IV_LENGTH
  BY <1>6, SealedContainer, IvsAssumption DEF IsContainer, RawCells
<1>10. /\ i \in DOMAIN Seal(m.key, iv, m.data)
       /\ Seal(m.key, iv, m.data)[i] = TagCell(key, IvOf(buf[p]), Processed(CiphertextOf(buf[p])), 1)
  BY <1>7, <1>8 DEF tag
<1>11. key = m.key /\ Unseal(key, buf[p]) = Processed(m.data)
  BY <1>1, <1>9, <1>10, OnlySealedOpens
<1> QED
  BY <1>1, <1>11 DEF SameKey, key

\* What p got from decryptData is, and stays, what some call sealed.
LEMMA OwnAuthentic ==
  ASSUME ControlInv, DataInv, NEW p \in Proc, Move(p)
  PROVE  Authentic(p)'
<1>1. Shape /\ Control(p) /\ Authentic(p)
  BY DEF ControlInv, DataInv
<1>2. sealed \subseteq sealed'
  BY EffectOfMove
<1>3. CASE OpenContainer(p)
  <2>1. /\ pc[p] = "open" /\ call'[p] = call[p] /\ pc'[p] # "idle"
        /\ decrypted'[p] = Unseal(KeyOf(call[p].password), buf[p])
        /\ DecryptDataMay(buf[p], call[p].password, "ok",
                          Unseal(KeyOf(call[p].password), buf[p]))
    BY <1>1, <1>3 DEF OpenContainer, Shape, Goto, End
  <2>2. \E m \in sealed : SameKey(m, call[p].password) /\ decrypted'[p] = Processed(m.data)
    BY <2>1, OpenedIsSealed
  <2> QED
    BY <1>1, <1>2, <2>1, <2>2 DEF Authentic, SameKey, Control
<1>4. CASE ~OpenContainer(p)
  <2>1. decrypted' = decrypted
    BY <1>4
    DEF Move, Begin, Step, BadAlloc, OpenMedia, ReadMedia, OpenSound, ReadSound, JpegReaderExits,
        SealText,
        OpenInput, ReadSome, DecryptDataThrows, CreateOutput, WriteSome, WriteFails,
        PngWriterThrows, JpegWriterExits, Crash
  <2> QED
    BY <1>1, <1>2, <2>1, CallKept DEF Authentic, SameKey
<1> QED
  BY <1>3, <1>4

\* Files, memory, containers and what was decrypted stay in order through every
\* step.
LEMMA DataKept ==
  ASSUME ControlInv, DataInv, NEW p \in Proc, Move(p)
  PROVE  DataInv'
<1>1. ASSUME NEW f \in Path PROVE FileHeld(f)'
  <2>1. FileHeld(f) /\ OutBytes \subseteq OutBytes'
    BY EffectOfMove, BytesGrow DEF DataInv
  <2>2. files'[f] = files[f] \/ files'[f] \in Seq(OutBytes')
    BY FileAfterMove
  <2> QED
    BY <2>1, <2>2, SeqMonotone DEF FileHeld
<1>2. \A m \in sealed' : IsSealed(m)'
  BY AllSealed
<1>3. ASSUME NEW q \in Proc PROVE Memory(q)' /\ Authentic(q)'
  BY <1>2, OthersData, OwnMemory, OwnAuthentic
<1> QED
  BY <1>1, <1>2, <1>3 DEF DataInv

\* At the start there are only media files, and nothing is in memory.
LEMMA InitData ==
  ASSUME Init
  PROVE  DataInv
<1>1. ASSUME NEW f \in Path PROVE FileHeld(f)
  BY DEF Init, FileHeld, AtStart
<1>2. ASSUME NEW p \in Proc PROVE Memory(p) /\ Authentic(p)
  BY JunkAssumption DEF Init, Memory, Authentic, SomeText, Part
<1> QED
  BY <1>1, <1>2 DEF Init, DataInv

\* Control state and data stay in order in every behaviour.
LEMMA DataInvariant == Spec => [](ControlInv /\ DataInv)
<1>1. ASSUME ControlInv /\ DataInv, [Next]_vars PROVE (ControlInv /\ DataInv)'
  <2>1. CASE UNCHANGED vars
    <3>1. OutBytes' = OutBytes /\ FileBytes' = FileBytes
      BY <2>1 DEF vars, OutBytes, FileBytes, MediaBytes
    <3>2. ControlInv'
      BY <1>1, <2>1 DEF vars, ControlInv, Shape, Control
    <3>3. DataInv'
      BY <1>1, <2>1, <3>1
      DEF vars, DataInv, FileHeld, Memory, IsSealed, Authentic, SameKey
    <3> QED
      BY <3>2, <3>3
  <2> QED
    BY <1>1, <2>1, StepOfOne, ControlKept, DataKept
<1> QED
  BY InitControl, InitData, <1>1, PTL DEF Spec

\* However calls of the six functions interleave, crash and fail, readFile and
\* writeFile stay within their buffers, a call has an outcome exactly when it
\* is over, and every container on record was sealed with its caller's key.
THEOREM TypeCorrect == Spec => []TypeOK
<1>1. ASSUME ControlInv, DataInv PROVE TypeOK
  <2>1. ASSUME NEW f \in Path, files[f] # NoFile, NEW i \in DOMAIN files[f]
        PROVE  files[f][i].kind \in {"raw", "ct", "tag", "media", "bmp"}
    <3>1. FileHeld(f) /\ \A b \in OutBytes : b.kind \in {"raw", "ct", "tag", "bmp"}
      BY <1>1, OutBytesAreNoMedia DEF DataInv
    <3>2. CASE files[f] \in Seq(OutBytes)
      <4>1. files[f][i] \in OutBytes
        BY <2>1, <3>2, LenProperties, ElementOfSeq
      <4> QED
        BY <3>1, <4>1
    <3>3. CASE files[f] = MediaFile(Media[f])
      BY <2>1, <3>3 DEF MediaFile
    <3> QED
      BY <2>1, <3>1, <3>2, <3>3 DEF FileHeld, AtStart
  <2>2. ASSUME NEW p \in Proc
        PROVE  /\ pc[p] \in Labels /\ (pc[p] # "idle" => call[p] \in Calls)
               /\ offset[p] \in 0..Len(buf[p]) /\ size[p] \in Nat
               /\ decrypted[p] # NoText => call[p].op \in DecryptOps
               /\ outcome[p] # "none" <=> pc[p] = "done"
               /\ p \in short => p \in opened
    <3>1. Shape /\ Control(p) /\ Memory(p) /\ Authentic(p)
      BY <1>1 DEF ControlInv, DataInv
    <3> QED
      BY <3>1 DEF Shape, Control, Memory, Authentic
  <2>3. opened \subseteq Proc /\ short \subseteq Proc
    BY <1>1 DEF ControlInv
  <2>4. \A m \in sealed : m.by \in Proc /\ m.key = KeyOf(call[m.by].password)
    BY <1>1 DEF DataInv, IsSealed
  <2> QED
    BY <2>1, <2>2, <2>3, <2>4 DEF TypeOK, Labels
<1> QED
  BY DataInvariant, <1>1, PTL

\* Whatever crashes, failed writes and concurrent writers left in a file, and
\* whatever readFile saw of a file being rewritten, decryptData returns only data
\* that some encrypt call sealed with that key, and all of it that
\* EVP_EncryptUpdate was given: a torn or mixed container never opens.
THEOREM TornContainersNeverOpen == Spec => []TornContainersRejected
<1>1. DataInv => TornContainersRejected
  BY DEF DataInv, Authentic, TornContainersRejected
<1> QED
  BY DataInvariant, <1>1, PTL

-----------------------------------------------------------------------------
(***************************************************************************)
(* The texts that are sealed.                                              *)
(***************************************************************************)

\* As long as no other call has opened the input of p for writing, what p has
\* read of it is all there is to read.
WholeInput(p) ==
  InputKept(p) =>
    /\ pc[p] \in {"reading", "sound", "samples", "seal"} => call[p].in \in HasMedia
    /\ pc[p] \in {"sound", "samples"} => text[p] = Media[call[p].in].frames
    /\ pc[p] = "seal" => text[p] = WholeText(call[p])

\* A container holds that.
WholeSealed(m) ==
  InputKept(m.by) =>
    call[m.by].in \in HasMedia /\ m.data \in CompressXZ(WholeText(call[m.by]))

\* A file that no call has opened for writing is as it was at the start.
Untouched(f) == (\A q \in opened : call[q].out # f) => files[f] = AtStart(f)

InputInv ==
  /\ \A f \in Path : Untouched(f)
  /\ \A p \in Proc : WholeInput(p)
  /\ \A m \in sealed : WholeSealed(m)

\* A call that has opened its output is not exchanged for another, so what was
\* opened for writing stays so.
LEMMA OpenedGrows ==
  ASSUME ControlInv, NEW p \in Proc, Move(p)
  PROVE  /\ opened \subseteq opened'
         /\ \A q \in opened : call'[q] = call[q]
         /\ \A q \in Proc : pc[q] # "idle" => call'[q] = call[q]
<1>1. Shape /\ Control(p) /\ opened \cup short \subseteq Proc /\ Others(p)
  BY OthersKept DEF ControlInv
<1>2. opened \subseteq opened'
  BY DEF Move, Begin, Step, BadAlloc, OpenMedia, ReadMedia, OpenSound, ReadSound, JpegReaderExits,
         SealText, OpenInput, ReadSome, DecryptDataThrows, OpenContainer, CreateOutput, WriteSome,
         WriteFails, PngWriterThrows, JpegWriterExits, Crash, history
<1>3. ASSUME NEW q \in Proc, pc[q] # "idle" PROVE call'[q] = call[q]
  BY <1>1, <1>3, CallKept DEF Others
<1>4. \A q \in opened : q \in Proc /\ pc[q] # "idle"
  BY <1>1 DEF ControlInv, Control
<1> QED
  BY <1>2, <1>3, <1>4

\* If the input of a call is kept after a step, it was before.
LEMMA KeptBefore ==
  ASSUME ControlInv, NEW p \in Proc, Move(p), NEW q \in Proc, pc[q] # "idle", InputKept(q)'
  PROVE  InputKept(q)
BY OpenedGrows DEF InputKept

\* A kept input that its call has not overwritten itself is as at the start.
LEMMA KeptIsThere ==
  ASSUME ControlInv, InputInv, NEW p \in Proc, pc[p] \in {"media", "reading", "sound", "samples"},
         InputKept(p)
  PROVE  /\ call[p] \in Calls /\ call[p].in \in Path
         /\ files[call[p].in] = AtStart(call[p].in)
<1>1. Control(p)
  BY DEF ControlInv
<1>2. call[p] \in Calls /\ call[p].in \in Path /\ p \notin opened
  BY <1>1, CallsAssumption DEF Control
<1>3. \A q \in opened : call[q].out # call[p].in
  BY <1>2 DEF InputKept
<1> QED
  BY <1>2, <1>3 DEF InputInv, Untouched

\* A file that exists and is as at the start is media.
LEMMA StartIsMedia ==
  ASSUME NEW f \in Path, files[f] = AtStart(f), files[f] # NoFile
  PROVE  /\ f \in HasMedia /\ IsMedia(files[f])
         /\ files[f][1].frames = Media[f].frames /\ files[f][1].sound = Media[f].sound
<1>1. f \in HasMedia /\ files[f] = MediaFile(Media[f])
  BY DEF AtStart, HasMedia
<1> QED
  BY <1>1, MediaParts

\* The files stay as they were until a call opens them for writing.
LEMMA UntouchedKept ==
  ASSUME ControlInv, InputInv, NEW p \in Proc, Move(p), NEW f \in Path
  PROVE  Untouched(f)'
<1> SUFFICES ASSUME \A q \in opened' : call'[q].out # f
             PROVE  files'[f] = AtStart(f)
  BY DEF Untouched, AtStart
<1>1. Shape /\ Control(p) /\ Untouched(f)
  BY DEF ControlInv, InputInv
<1>2. files[f] = AtStart(f)
  BY <1>1, OpenedGrows DEF Untouched
<1>3. CASE CreateOutput(p)
  <2>1. CASE files' = files
    BY <1>2, <2>1
  <2>2. CASE /\ files' = [files EXCEPT ![call[p].out] = <<>>] /\ opened' = opened \cup {p}
    <3>1. call'[p] = call[p]
      BY <1>3, OpenedGrows DEF CreateOutput
    <3>2. call[p].out # f
      BY <2>2, <3>1
    <3> QED
      BY <1>1, <1>2, <2>2, <3>2 DEF Shape
  <2> QED
    BY <1>3, <2>1, <2>2 DEF CreateOutput
<1>4. CASE WriteSome(p)
  <2>1. p \in opened /\ call'[p] = call[p] /\ p \in opened'
    BY <1>1, <1>4, OpenedGrows DEF WriteSome, Control
  <2>2. call[p].out # f
    BY <2>1
  <2> QED
    BY <1>1, <1>2, <1>4, <2>2 DEF WriteSome, Shape
<1>5. CASE ~CreateOutput(p) /\ ~WriteSome(p)
  <2>1. files' = files
    BY <1>5
    DEF Move, Begin, Step, BadAlloc, OpenMedia, ReadMedia, OpenSound, ReadSound, JpegReaderExits,
        SealText, OpenInput, ReadSome, DecryptDataThrows, OpenContainer, WriteFails,
        PngWriterThrows, JpegWriterExits, Crash
  <2> QED
    BY <1>2, <2>1
<1> QED
  BY <1>3, <1>4, <1>5

\* What p reads of a kept input is all of it.
LEMMA OwnWhole ==
  ASSUME ControlInv, DataInv, InputInv, NEW p \in Proc, Move(p), pc[p] # "idle"
  PROVE  WholeInput(p)'
<1> SUFFICES ASSUME InputKept(p)'
             PROVE  /\ pc'[p] \in {"reading", "sound", "samples", "seal"} => call[p].in \in HasMedia
                    /\ pc'[p] \in {"sound", "samples"} => text'[p] = Media[call[p].in].frames
                    /\ pc'[p] = "seal" => text'[p] = WholeText(call[p])
  BY OpenedGrows DEF WholeInput, WholeText
<1>1. Shape /\ Control(p) /\ Memory(p) /\ WholeInput(p) /\ InputKept(p)
  BY KeptBefore DEF ControlInv, DataInv, InputInv
<1> DEFINE c == call[p]
           content == files[c.in]
<1>2. pc[p] \in {"media", "reading", "sound", "samples"} =>
        /\ c \in Calls /\ c.in \in Path
        /\ content # NoFile => /\ c.in \in HasMedia /\ IsMedia(content)
                               /\ content[1].frames = Media[c.in].frames
                               /\ content[1].sound = Media[c.in].sound
  BY <1>1, KeptIsThere, StartIsMedia
<1>3. pc[p] \in {"reading", "sound", "samples", "seal"} => c.in \in HasMedia
  BY <1>1 DEF WholeInput
<1>4. c.in \in HasMedia => MediaFile(Media[c.in]) # NoFile
  BY NoFileAssumption
<1>10. pc[p] \in {"reading", "sound", "samples"} => content # NoFile
  BY <1>1, <1>3, <1>4, KeptIsThere DEF AtStart, HasMedia
<1>5. CASE OpenMedia(p)
  <2>1. pc[p] = "media"
    BY <1>5 DEF OpenMedia
  <2>2. CASE Goto(p, "reading") /\ Accepts(c, content)
    <3>1. pc'[p] = "reading" /\ content # NoFile
      BY <1>1, <2>2 DEF Goto, Shape, Accepts
    <3> QED
      BY <1>2, <2>1, <3>1
  <2>3. ASSUME NEW e, End(p, e) PROVE pc'[p] = "done"
    BY <1>1, <2>3 DEF End, Shape
  <2> QED
    BY <1>5, <2>2, <2>3 DEF OpenMedia
<1>6. CASE ReadMedia(p)
  <2>1. pc[p] = "reading" /\ c.op \in EncryptOps
    BY <1>1, <1>6 DEF ReadMedia, Control
  <2>2. ASSUME NEW t \in TextsRead(c, content), text' = [text EXCEPT ![p] = t],
               Goto(p, IF c.op = "encryptVideo" THEN "sound" ELSE "seal")
        PROVE  /\ text'[p] = IF c.op = "encryptAudio" THEN Media[c.in].sound ELSE Media[c.in].frames
               /\ pc'[p] = IF c.op = "encryptVideo" THEN "sound" ELSE "seal"
    <3>1. IsMedia(content) /\ content[1].frames = Media[c.in].frames
          /\ content[1].sound = Media[c.in].sound
      BY <1>2, <2>1, <1>10
    <3>2. t = IF c.op = "encryptAudio" THEN Media[c.in].sound ELSE Media[c.in].frames
      BY <2>2, <3>1 DEF TextsRead
    <3> QED
      BY <1>1, <2>2, <3>2 DEF Goto, Shape
  <2>3. ASSUME NEW e, End(p, e) PROVE pc'[p] = "done"
    BY <1>1, <2>3 DEF End, Shape
  <2> QED
    BY <1>3, <1>6, <2>1, <2>2, <2>3 DEF ReadMedia, WholeText, EncryptOps
<1>7. CASE OpenSound(p)
  <2>1. pc[p] = "sound" /\ c.op = "encryptVideo" /\ text[p] = Media[c.in].frames /\ text' = text
    BY <1>1, <1>7 DEF OpenSound, Control, WholeInput
  <2>2. CASE Goto(p, "samples")
    BY <1>1, <1>3, <2>1, <2>2 DEF Goto, Shape
  <2>3. CASE /\ IsMedia(content) => content[1].sound = <<>>
             /\ Goto(p, "seal")
    <3>1. Media[c.in].sound = <<>>
      BY <1>2, <1>10, <2>1, <2>3
    <3>2. Media[c.in].frames \in Seq(Payload)
      BY <1>3, <2>1, MediaParts, TextsAreTexts
    <3>3. \A u \in Seq(Payload) : u \o <<>> = u
      OBVIOUS
    <3>4. text'[p] = WholeText(c)
      BY <2>1, <3>1, <3>2, <3>3 DEF WholeText
    <3>5. pc'[p] = "seal"
      BY <1>1, <2>3 DEF Goto, Shape
    <3> QED
      BY <1>3, <2>1, <3>4, <3>5
  <2>4. ASSUME NEW e, End(p, e) PROVE pc'[p] = "done"
    BY <1>1, <2>4 DEF End, Shape
  <2> QED
    BY <1>7, <2>2, <2>3, <2>4 DEF OpenSound
<1>8. CASE ReadSound(p)
  <2>1. pc[p] = "samples" /\ c.op = "encryptVideo" /\ text[p] = Media[c.in].frames
    BY <1>1, <1>8 DEF ReadSound, Control, WholeInput
  <2>2. IsMedia(content) /\ content[1].sound = Media[c.in].sound
    BY <1>2, <1>10, <2>1
  <2>3. text'[p] = text[p] \o Media[c.in].sound
    <3>1. text' = [text EXCEPT ![p] = @ \o Media[c.in].sound]
      BY <1>8, <2>2 DEF ReadSound
    <3> QED
      BY <1>1, <3>1 DEF Shape
  <2>4. pc'[p] = "seal"
    BY <1>1, <1>8 DEF ReadSound, Goto, Shape
  <2> QED
    BY <1>3, <2>1, <2>3, <2>4 DEF WholeText
<1>9. CASE ~OpenMedia(p) /\ ~ReadMedia(p) /\ ~OpenSound(p) /\ ~ReadSound(p)
  <2>1. pc'[p] \notin {"reading", "sound", "samples", "seal"}
    BY <1>1, <1>9
    DEF Shape, Move, Begin, Step, BadAlloc, JpegReaderExits, SealText, OpenInput, ReadSome,
        DecryptDataThrows, OpenContainer, CreateOutput, WriteSome, WriteFails, PngWriterThrows,
        JpegWriterExits, Crash, Goto, End, Die
  <2> QED
    BY <2>1
<1> QED
  BY <1>5, <1>6, <1>7, <1>8, <1>9

\* What p relies on is left alone by the other processes.
LEMMA WholeKept ==
  ASSUME ControlInv, DataInv, InputInv, NEW p \in Proc, Move(p), NEW q \in Proc
  PROVE  WholeInput(q)'
<1>1. Shape /\ Others(p) /\ WholeInput(q)
  BY OthersKept DEF ControlInv, InputInv
<1>2. CASE q # p
  <2>1. pc'[q] = pc[q] /\ call'[q] = call[q] /\ text'[q] = text[q]
    BY <1>1, <1>2 DEF Others
  <2>2. CASE pc[q] = "idle"
    BY <2>1, <2>2 DEF WholeInput
  <2>3. CASE pc[q] # "idle"
    BY <1>1, <2>1, <2>3, KeptBefore DEF WholeInput, WholeText
  <2> QED
    BY <2>2, <2>3
<1>3. CASE q = p /\ pc[p] # "idle"
  BY <1>3, OwnWhole
<1>4. CASE q = p /\ pc[p] = "idle"
  <2>1. PICK c \in Calls : Begin(p, c)
    BY <1>4
    DEF Move, Step, BadAlloc, OpenMedia, ReadMedia, OpenSound, ReadSound, JpegReaderExits, SealText,
        OpenInput, ReadSome, DecryptDataThrows, OpenContainer, CreateOutput, WriteSome, WriteFails,
        PngWriterThrows, JpegWriterExits, Crash
  <2>2. pc'[p] \in {"media", "size"}
    BY <1>1, <2>1 DEF Begin, Shape
  <2> QED
    BY <1>4, <2>2 DEF WholeInput
<1> QED
  BY <1>2, <1>3, <1>4

\* All containers hold whole texts; the new one too.
LEMMA WholeSealedKept ==
  ASSUME ControlInv, DataInv, InputInv, NEW p \in Proc, Move(p), NEW m \in sealed'
  PROVE  WholeSealed(m)'
<1>1. Shape /\ Control(p) /\ WholeInput(p) /\ \A n \in sealed : IsSealed(n) /\ WholeSealed(n)
  BY DEF ControlInv, DataInv, InputInv
<1>2. CASE m \in sealed
  <2>1. m.by \in Proc /\ pc[m.by] # "idle" /\ WholeSealed(m)
    BY <1>1, <1>2 DEF IsSealed
  <2>2. call'[m.by] = call[m.by]
    BY <2>1, OpenedGrows
  <2> QED
    BY <2>1, <2>2, KeptBefore DEF WholeSealed, WholeText
<1>3. CASE m \notin sealed
  <2>1. SealText(p)
    BY <1>3
    DEF Move, Begin, Step, BadAlloc, OpenMedia, ReadMedia, OpenSound, ReadSound, JpegReaderExits,
        OpenInput, ReadSome, DecryptDataThrows, OpenContainer, CreateOutput, WriteSome, WriteFails,
        PngWriterThrows, JpegWriterExits, Crash, history
  <2>2. pc[p] = "seal" /\ call' = call /\ m.by = p /\ m.data \in CompressXZ(text[p])
    BY <1>3, <2>1 DEF SealText, Goto, End
  <2> QED
    BY <1>1, <2>2, KeptBefore DEF WholeSealed, WholeInput, WholeText
<1> QED
  BY <1>2, <1>3

\* Whatever other calls do meanwhile, a call seals all of its input: every frame
\* and every sample, although it opens the file before it reads it and
\* encryptVideo opens it twice, unless another call has opened that file for
\* writing before the seal (encrypt_video.cpp:16-23, frame_extractor.cpp:96,
\* audio_extractor.cpp:32-35 and :74, audio_reader.cpp:75).
THEOREM SealedTextIsAlwaysTheInput == Spec => []SealedTextIsTheInput
<1>1. Init => InputInv
  <2>1. ASSUME Init, NEW f \in Path PROVE Untouched(f)
    BY <2>1 DEF Init, Untouched, AtStart
  <2>2. ASSUME Init, NEW p \in Proc PROVE WholeInput(p)
    BY <2>2 DEF Init, WholeInput
  <2> QED
    BY <2>1, <2>2 DEF Init, InputInv
<1>2. ControlInv /\ DataInv /\ InputInv /\ [Next]_vars => InputInv'
  <2> SUFFICES ASSUME ControlInv, DataInv, InputInv, [Next]_vars PROVE InputInv'
    OBVIOUS
  <2>1. CASE UNCHANGED vars
    BY <2>1 DEF vars, InputInv, Untouched, AtStart, WholeInput, WholeSealed, InputKept, WholeText
  <2>2. ASSUME NEW p \in Proc, Move(p) PROVE InputInv'
    BY <2>2, UntouchedKept, WholeKept, WholeSealedKept DEF InputInv
  <2> QED
    BY <2>1, <2>2, StepOfOne
<1>3. InputInv => SealedTextIsTheInput
  BY DEF InputInv, WholeSealed, SealedTextIsTheInput, HasMedia
<1> QED
  BY DataInvariant, <1>1, <1>2, <1>3, PTL DEF Spec

-----------------------------------------------------------------------------
(***************************************************************************)
(* What a sole writer stores, and what is read of it.                      *)
(***************************************************************************)

\* Writing the next piece of a buffer behind the pieces written so far leaves
\* the buffer's beginning in the file.
LEMMA OverwriteExtends ==
  ASSUME NEW S, NEW s \in Seq(S), NEW off \in Nat, NEW upTo \in Nat,
         off <= upTo, upTo <= Len(s)
  PROVE  Overwrite(SubSeq(s, 1, off), off, SubSeq(s, off + 1, upTo)) = SubSeq(s, 1, upTo)
<1> DEFINE content == SubSeq(s, 1, off)
           piece == SubSeq(s, off + 1, upTo)
           whole == SubSeq(s, 1, upTo)
           v(i) == CASE i \in (off + 1)..(off + Len(piece)) -> piece[i - off]
                     [] i \notin (off + 1)..(off + Len(piece)) /\ i <= Len(content) -> content[i]
                     [] OTHER -> Zero
<1>1. Len(s) \in Nat /\ \A i \in 1..Len(s) : s[i] \in S
  BY LenProperties, ElementOfSeq
<1>2. Len(content) = off /\ \A i \in 1..off : content[i] = s[i]
  <2>1. \A i \in 1..off : s[i] \in S
    BY <1>1
  <2>2. /\ Len(content) = IF 1 <= off THEN off - 1 + 1 ELSE 0
        /\ \A i \in 1..(off - 1 + 1) : content[i] = s[1 + i - 1]
    BY <2>1, SubSeqProperties
  <2> QED
    BY <2>2
<1>3. Len(piece) = upTo - off /\ \A i \in 1..(upTo - off) : piece[i] = s[off + i]
  <2>1. \A i \in (off + 1)..upTo : s[i] \in S
    BY <1>1
  <2>2. /\ Len(piece) = IF off + 1 <= upTo THEN upTo - (off + 1) + 1 ELSE 0
        /\ \A i \in 1..(upTo - (off + 1) + 1) : piece[i] = s[(off + 1) + i - 1]
    BY <2>1, SubSeqProperties
  <2> QED
    BY <2>2
<1>4. whole = [i \in 1..upTo |-> s[i]]
  <2>1. \A i \in 1..upTo : s[i] \in S
    BY <1>1
  <2>2. /\ whole \in Seq(S) /\ Len(whole) = IF 1 <= upTo THEN upTo - 1 + 1 ELSE 0
        /\ \A i \in 1..(upTo - 1 + 1) : whole[i] = s[1 + i - 1]
    BY <2>1, SubSeqProperties
  <2>3. Len(whole) = upTo /\ whole = [i \in 1..Len(whole) |-> whole[i]]
    BY <2>2, LenProperties, SeqDef
  <2> QED
    BY <2>2, <2>3
<1>5. ASSUME NEW i \in 1..upTo PROVE v(i) = s[i]
  <2> HIDE DEF content, piece
  <2>1. CASE i \in (off + 1)..(off + Len(piece))
    <3>1. v(i) = piece[i - off]
      BY <2>1, Zenon
    <3>2. i - off \in 1..(upTo - off) /\ off + (i - off) = i
      BY <1>3, <2>1
    <3> QED
      BY <1>3, <3>1, <3>2
  <2>2. CASE i \notin (off + 1)..(off + Len(piece))
    <3>1. i <= Len(content) /\ i \in 1..off
      BY <1>2, <1>3, <2>2
    <3>2. v(i) = content[i]
      BY <2>2, <3>1, Zenon
    <3> QED
      BY <1>2, <3>1, <3>2
  <2> QED
    BY <2>1, <2>2
<1>6. Overwrite(content, off, piece) = [i \in 1..upTo |-> v(i)]
  <2> HIDE DEF content, piece
  <2>1. (IF off + Len(piece) < Len(content) THEN Len(content) ELSE off + Len(piece)) = upTo
    BY <1>2, <1>3
  <2> QED
    BY <2>1 DEF Overwrite
<1> HIDE DEF v, whole
<1> QED
  BY <1>4, <1>5, <1>6 DEF whole

\* A step of another process leaves the file of a sole writer alone.
LEMMA SoleWriterFile ==
  ASSUME ControlInv, NEW p \in Proc, NEW r \in Proc \ {p}, Move(r),
         pc[p] # "idle", SoleWriter(p)'
  PROVE  SoleWriter(p) /\ files'[call[p].out] = files[call[p].out]
<1>1. Shape /\ call[p].out \in Path
  BY CallsAssumption DEF ControlInv, Control
<1>2. Others(r)
  BY <1>1, OthersKept DEF ControlInv
<1>3. pc[r] # "idle" => call'[r] = call[r] /\ pc'[r] # "idle"
  BY <1>1, CallKept
<1>4. SoleWriter(p)
  BY <1>2, <1>3 DEF SoleWriter, Others
<1>5. files' # files => pc[r] # "idle" /\
        \E x : files' = [files EXCEPT ![call[r].out] = x]
  BY EffectOfMove DEF FilesEffect
<1>6. pc[r] # "idle" => call[r].out # call[p].out
  BY <1>4 DEF SoleWriter
<1> QED
  BY <1>1, <1>4, <1>5, <1>6 DEF Shape

\* The steps of p store its container piece by piece, as long as no other call
\* writes to the same file.
LEMMA OwnStoring ==
  ASSUME ControlInv, DataInv, StoreInv, NEW p \in Proc, Move(p)
  PROVE  Storing(p)'
<1>1. Shape /\ Control(p) /\ Memory(p) /\ Storing(p)
  BY DEF ControlInv, DataInv, StoreInv
<1>2. SUFFICES ASSUME (call[p].op \in EncryptOps /\ SoleWriter(p))',
                      pc[p] # "idle"
               PROVE  /\ pc'[p] = "write" => files'[call'[p].out] = SubSeq(buf'[p], 1, offset'[p])
                      /\ pc'[p] = "done" /\ outcome'[p] = "ok" /\ p \notin short' =>
                           \E m \in sealed' : m.by = p /\ files'[call'[p].out] = m.container
  <2>1. ASSUME pc[p] = "idle" PROVE pc'[p] \notin {"write", "done"}
    BY <1>1, <2>1
    DEF Shape, Move, Begin, Step, BadAlloc, OpenMedia, ReadMedia, OpenSound, ReadSound,
        JpegReaderExits, SealText,
        OpenInput, ReadSome, DecryptDataThrows, OpenContainer, CreateOutput, WriteSome,
        WriteFails, PngWriterThrows, JpegWriterExits, Crash
  <2> QED
    BY <2>1 DEF Storing
<1>3. call'[p] = call[p] /\ call[p].out \in Path /\ call[p].op \in EncryptOps
  BY <1>1, <1>2, CallKept, CallsAssumption DEF Control
<1>4. SoleWriter(p)
  <2>1. Others(p)
    BY <1>1, OthersKept DEF ControlInv
  <2> QED
    BY <1>2, <1>3, <2>1 DEF SoleWriter, Others
<1>5. CASE CreateOutput(p)
  <2>1. CASE End(p, "DhtError")
    BY <1>1, <2>1 DEF End, Shape
  <2>2. CASE /\ files' = [files EXCEPT ![call[p].out] = <<>>]
             /\ Goto(p, "write")
    <3>1. pc'[p] = "write" /\ files'[call[p].out] = <<>> /\ offset'[p] = 0
      BY <1>1, <1>3, <1>5, <2>2 DEF CreateOutput, Goto, Shape, Memory
    <3>2. SubSeq(buf'[p], 1, 0) = <<>>
      BY SubSeqEmpty
    <3> QED
      BY <1>3, <3>1, <3>2
  <2> QED
    BY <1>5, <2>1, <2>2 DEF CreateOutput
<1>6. CASE WriteSome(p)
  <2> DEFINE out == call[p].out
             upTo == IF offset[p] + Chunk < Len(buf[p]) THEN offset[p] + Chunk ELSE Len(buf[p])
  <2>1. /\ pc[p] = "write" /\ buf'[p] = buf[p] /\ offset'[p] = upTo /\ sealed' = sealed
        /\ files'[out] = Overwrite(files[out], offset[p], SubSeq(buf[p], offset[p] + 1, upTo))
        /\ pc'[p] = IF upTo = Len(buf[p]) THEN "done" ELSE "write"
    BY <1>1, <1>3, <1>6 DEF WriteSome, Goto, End, Shape, history
  <2>2. /\ buf[p] \in Seq(FileBytes) /\ Len(buf[p]) \in Nat /\ offset[p] \in 0..Len(buf[p])
        /\ files[out] = SubSeq(buf[p], 1, offset[p])
    BY <1>1, <1>3, <1>4, <2>1, LenProperties DEF Memory, Storing
  <2>3. offset[p] \in Nat /\ upTo \in Nat /\ offset[p] <= upTo /\ upTo <= Len(buf[p])
    BY <2>2, ChunkAssumption
  <2> HIDE DEF upTo
  <2>4. files'[out] = SubSeq(buf[p], 1, upTo)
    BY <2>1, <2>2, <2>3, OverwriteExtends
  <2>5. ASSUME upTo = Len(buf[p]) PROVE \E m \in sealed : m.by = p /\ files'[out] = m.container
    <3>1. SubSeq(buf[p], 1, upTo) = buf[p]
      BY <2>2, <2>5, SubSeqFull
    <3>2. \E m \in sealed : m.by = p /\ buf[p] = m.container
      BY <1>1, <1>3, <2>1 DEF Memory
    <3> QED
      BY <2>4, <3>1, <3>2
  <2> QED
    BY <1>3, <2>1, <2>4, <2>5
<1>7. CASE WriteFails(p)
  BY <1>1, <1>7 DEF WriteFails, End, Shape
<1>8. CASE OpenMedia(p)
  <2>1. pc'[p] # "write" /\ (pc'[p] = "done" => outcome'[p] # "ok")
    <3>1. ASSUME Goto(p, "reading") PROVE pc'[p] = "reading"
      BY <1>1, <3>1 DEF Goto, Shape
    <3>2. ASSUME NEW e \in ReaderErrors(call[p], files[call[p].in]), End(p, e)
          PROVE  pc'[p] = "done" /\ outcome'[p] # "ok"
      BY <1>1, <3>2, ReaderErrorNames DEF End, Shape
    <3> QED
      BY <1>8, <3>1, <3>2 DEF OpenMedia
  <2> QED
    BY <2>1
<1>9. CASE ~CreateOutput(p) /\ ~WriteSome(p) /\ ~WriteFails(p) /\ ~OpenMedia(p)
  <2>1. pc'[p] # "write" /\ (pc'[p] = "done" => outcome'[p] # "ok")
    BY <1>1, <1>2, <1>9
    DEF Shape, Move, Begin, Step, BadAlloc, ReadMedia, OpenSound, ReadSound, JpegReaderExits,
        SealText,
        OpenInput, ReadSome, DecryptDataThrows, OpenContainer, PngWriterThrows,
        JpegWriterExits, Crash, Goto, End, Die
  <2> QED
    BY <2>1
<1> QED
  BY <1>5, <1>6, <1>7, <1>8, <1>9

\* A step of another process leaves what p has stored.
LEMMA OthersStoring ==
  ASSUME ControlInv, DataInv, StoreInv, NEW p \in Proc, NEW r \in Proc \ {p}, Move(r)
  PROVE  Storing(p)'
<1>1. Shape /\ Storing(p) /\ sealed \subseteq sealed'
  BY EffectOfMove DEF ControlInv, StoreInv
<1>2. /\ pc'[p] = pc[p] /\ call'[p] = call[p] /\ buf'[p] = buf[p] /\ offset'[p] = offset[p]
      /\ outcome'[p] = outcome[p] /\ (p \in short' <=> p \in short)
  BY <1>1, OthersKept DEF Others, ControlInv
<1>3. pc[p] # "idle" /\ SoleWriter(p)' =>
        SoleWriter(p) /\ files'[call[p].out] = files[call[p].out]
  BY SoleWriterFile
<1> QED
  BY <1>1, <1>2, <1>3 DEF Storing

\* What a sole writer has stored is a container, and not mistaken for a file
\* that does not exist.
LEMMA StoredIsContainer ==
  ASSUME ControlInv, DataInv, StoreInv, NEW p \in Proc, Stored(p)
  PROVE  \E iv \in Ivs, d \in Seq(Byte) :
           /\ Narrow(Len(d)) >= 0
           /\ files[call[p].out] = Seal(KeyOf(call[p].password), iv, d)
           /\ files[call[p].out] # NoFile
<1>1. PICK m \in sealed : m.by = p /\ files[call[p].out] = m.container
  BY DEF StoreInv, Storing, Stored
<1>2. IsSealed(m) /\ IsContainer(m)
  BY DEF DataInv, IsSealed
<1>3. PICK iv \in Ivs : m.container = Seal(m.key, iv, m.data)
  BY <1>2 DEF IsContainer
<1>4. PICK t \in SomeText : m.data \in CompressXZ(t)
  BY <1>2 DEF IsContainer
<1>5. /\ m.key = KeyOf(call[p].password) /\ ~Weak(call[p].password)
      /\ m.data \in Seq(Byte) /\ Narrow(Len(m.data)) >= 0
  BY <1>1, <1>2, SealedContainer DEF IsSealed, IsContainer
<1>6. call[p] \in Calls
  BY DEF ControlInv, Control, Stored
<1>7. m.container # NoFile
  BY <1>3, <1>4, <1>5, <1>6, NoFileAssumption
<1> QED
  BY <1>1, <1>3, <1>5, <1>7

\* A decrypt call that was made after p had stored its container finds it
\* unchanged at every step.
LEMMA SupplyLasts ==
  ASSUME ControlInv, NEW p \in Proc, NEW q \in Proc, NEW r \in Proc, Move(r),
         pc[q] # "idle" \/ q # r, Supplies(p, q)'
  PROVE  /\ Supplies(p, q) /\ p # r
         /\ call'[p] = call[p] /\ call'[q] = call[q]
         /\ files'[call[p].out] = files[call[p].out]
<1>1. Shape /\ Others(r) /\ ~Over(r)
  BY OthersKept, OverIsOver DEF ControlInv
<1>2. before'[q] = before[q] /\ call'[q] = call[q]
  BY <1>1, CallKept DEF Others
<1>3. p \in before[q] /\ pc[p] = "done" /\ p # r
  BY <1>1, <1>2 DEF ControlInv, Control, Supplies, Over
<1>4. /\ pc'[p] = pc[p] /\ call'[p] = call[p] /\ outcome'[p] = outcome[p]
      /\ (p \in short' <=> p \in short)
  BY <1>1, <1>3 DEF Others
<1>5. SoleWriter(p) /\ files'[call[p].out] = files[call[p].out]
  BY <1>3, SoleWriterFile DEF Supplies, Stored
<1>6. Supplies(p, q)
  BY <1>2, <1>3, <1>4, <1>5 DEF Supplies, Stored
<1> QED
  BY <1>2, <1>3, <1>4, <1>5, <1>6

\* The outcomes that tell the caller the container is missing, damaged or not
\* for this password.
Refusals == {"FileNotFoundError", "CorruptedFileError", "InvalidPasswordError"}

\* The steps of a decrypt call q read p's container from its beginning to its
\* end, and then open it.
LEMMA OwnReading ==
  ASSUME ControlInv, DataInv, StoreInv, NEW p \in Proc, NEW q \in Proc, Move(q),
         pc[q] # "idle", Supplies(p, q)', Supplies(p, q), p # q,
         call'[p] = call[p], call'[q] = call[q], files'[call[p].out] = files[call[p].out],
         NEW content \in {files[call[p].out]}
  PROVE  /\ pc'[q] = "read" =>
              size'[q] = Len(content) /\ buf'[q] = SubSeq(content, 1, Len(buf'[q]))
         /\ pc'[q] = "open" => buf'[q] = content
         /\ ~Weak(call[q].password) /\ KeyOf(call[q].password) = KeyOf(call[p].password) =>
              outcome'[q] \notin Refusals
<1>1. /\ Shape /\ Control(q) /\ Memory(q) /\ Reading(p, q) /\ Stored(p)
      /\ call[q].op \in DecryptOps /\ call[q].op \notin EncryptOps
      /\ files[call[q].in] = content
  BY DEF ControlInv, DataInv, StoreInv, Supplies, EncryptOps, DecryptOps
<1>2. /\ pc[q] = "read" => size[q] = Len(content) /\ buf[q] = SubSeq(content, 1, Len(buf[q]))
      /\ pc[q] = "open" => buf[q] = content
      /\ ~Weak(call[q].password) /\ KeyOf(call[q].password) = KeyOf(call[p].password) =>
           outcome[q] \notin Refusals
  BY <1>1 DEF Reading, Refusals
<1>3. PICK iv \in Ivs, d \in Seq(Byte) :
        /\ Narrow(Len(d)) >= 0 /\ content # NoFile
        /\ content = Seal(KeyOf(call[p].password), iv, d)
  BY <1>1, StoredIsContainer
<1>4. CASE OpenInput(q)
  <2>1. pc'[q] = "read" /\ size'[q] = Len(content) /\ buf'[q] = <<>> /\ outcome'[q] = outcome[q]
    BY <1>1, <1>3, <1>4 DEF OpenInput, Goto, Shape, Memory
  <2>2. Len(buf'[q]) = 0 /\ SubSeq(content, 1, 0) = <<>>
    BY <2>1, SubSeqEmpty
  <2> QED
    BY <1>2, <2>1, <2>2
<1>5. CASE ReadSome(q)
  <2>1. /\ content \in Seq(FileBytes) /\ buf'[q] \in Seq(FileBytes)
        /\ Len(buf[q]) <= Len(buf'[q]) /\ Len(buf'[q]) <= size[q]
        /\ \A i \in 1..Len(buf[q]) : buf'[q][i] = buf[q][i]
        /\ \A i \in (Len(buf[q]) + 1)..Len(buf'[q]) :
             buf'[q][i] = IF i <= Len(content) THEN content[i] ELSE Zero
        /\ pc'[q] = IF Len(buf'[q]) = size[q] THEN "open" ELSE "read"
    BY <1>1, <1>5, ReadEffect
  <2>2. /\ pc[q] = "read" /\ size'[q] = size[q] /\ size[q] = Len(content)
        /\ buf[q] = SubSeq(content, 1, Len(buf[q])) /\ outcome'[q] = outcome[q]
    BY <1>2, <1>5 DEF ReadSome, Goto
  <2>3. Len(content) \in Nat /\ Len(buf[q]) \in Nat /\ Len(buf'[q]) \in Nat
    BY <1>1, <2>1, LenProperties DEF Memory
  <2>4. \A i \in 1..Len(content) : content[i] \in FileBytes
    BY <2>1, ElementOfSeq
  <2>5. \A i \in 1..Len(buf[q]) : buf[q][i] = content[i]
    <3> DEFINE n == Len(buf[q])
    <3>1. n \in Nat /\ n <= Len(content)
      BY <2>1, <2>2, <2>3
    <3> HIDE DEF n
    <3>2. \A i \in 1..n : content[i] \in FileBytes
      BY <2>3, <2>4, <3>1
    <3>3. \A i \in 1..(n - 1 + 1) : SubSeq(content, 1, n)[i] = content[1 + i - 1]
      BY <3>1, <3>2, SubSeqProperties
    <3>4. \A i \in 1..n : SubSeq(content, 1, n)[i] = content[i]
      BY <3>1, <3>3
    <3> QED
      BY <2>2, <3>4 DEF n
  <2>6. \A i \in 1..Len(buf'[q]) : buf'[q][i] = content[i]
    BY <2>1, <2>2, <2>3, <2>5
  <2>7. buf'[q] = SubSeq(content, 1, Len(buf'[q]))
    <3> DEFINE n == Len(buf'[q])
    <3>1. n \in Nat /\ n <= Len(content)
      BY <2>1, <2>2, <2>3
    <3>2. buf'[q] = [i \in 1..n |-> buf'[q][i]]
      BY <2>1, LenProperties, SeqDef
    <3> HIDE DEF n
    <3>3. \A i \in 1..n : content[i] \in FileBytes
      BY <2>3, <2>4, <3>1
    <3>4. /\ SubSeq(content, 1, n) \in Seq(FileBytes)
          /\ Len(SubSeq(content, 1, n)) = IF 1 <= n THEN n - 1 + 1 ELSE 0
          /\ \A i \in 1..(n - 1 + 1) : SubSeq(content, 1, n)[i] = content[1 + i - 1]
      BY <3>1, <3>3, SubSeqProperties
    <3>5. SubSeq(content, 1, n) = [i \in 1..n |-> content[i]]
      <4>1. Len(SubSeq(content, 1, n)) = n /\ \A i \in 1..n : SubSeq(content, 1, n)[i] = content[i]
        BY <3>1, <3>4
      <4> QED
        BY <3>4, <4>1, LenProperties, SeqDef
    <3> QED
      BY <2>6, <3>2, <3>5 DEF n
  <2>8. SubSeq(content, 1, Len(content)) = content
    BY <2>1, SubSeqFull
  <2> QED
    BY <1>2, <2>1, <2>2, <2>7, <2>8
<1>6. CASE DecryptDataThrows(q)
  <2>1. PICK e \in {"WeakPasswordError", "CorruptedFileError", "DhtError",
                    "DecryptionFailedError", "InvalidPasswordError"} :
          DecryptDataMay(buf[q], call[q].password, e, <<>>) /\ End(q, e)
    BY <1>6 DEF DecryptDataThrows
  <2>2. pc'[q] = "done" /\ outcome'[q] = e /\ buf[q] = content
    BY <1>1, <1>2, <1>6, <2>1 DEF DecryptDataThrows, End, Shape
  <2>3. iv \in Seq(RawCells) /\ Len(iv) = AES_IV_LENGTH
    BY IvsAssumption DEF RawCells
  <2>4. ~TooShort(content) /\ TagVerifies(content, KeyOf(call[p].password))
    BY <1>3, <2>3, SealThenUnseal
  <2>5. ASSUME ~Weak(call[q].password), KeyOf(call[q].password) = KeyOf(call[p].password)
        PROVE  e \notin Refusals
    BY <2>1, <2>2, <2>4, <2>5 DEF DecryptDataMay, Refusals
  <2> QED
    BY <2>2, <2>5
<1>7. CASE ~OpenInput(q) /\ ~ReadSome(q) /\ ~DecryptDataThrows(q)
  <2>1. ~OpenMedia(q) /\ ~ReadMedia(q) /\ ~SealText(q)
    BY <1>1 DEF OpenMedia, ReadMedia, SealText, Control
  <2>2. pc'[q] \notin {"read", "open"} /\
        (outcome'[q] = outcome[q] \/ outcome'[q] \in {"ok", "DhtError", "bad_alloc",
                                                      "UnsupportedFormatError"})
    BY <1>1, <1>7, <2>1
    DEF Shape, Move, Begin, Step, BadAlloc, OpenSound, ReadSound, JpegReaderExits, OpenContainer,
        CreateOutput, WriteSome, WriteFails, PngWriterThrows, JpegWriterExits, Crash,
        Goto, End, Die
  <2> QED
    BY <1>2, <2>2 DEF Refusals
<1> QED
  BY <1>4, <1>5, <1>6, <1>7

\* Every step keeps what a decrypt call has read of a stored container.
LEMMA ReadingKept ==
  ASSUME ControlInv, DataInv, StoreInv, NEW p \in Proc, NEW q \in Proc, NEW r \in Proc, Move(r)
  PROVE  Reading(p, q)'
<1>1. SUFFICES ASSUME Supplies(p, q)' PROVE Reading(p, q)'
  BY DEF Reading
<1>2. Shape /\ Others(r) /\ Control(q) /\ Reading(p, q)
  BY OthersKept DEF ControlInv, StoreInv
<1>3. CASE q = r /\ pc[q] = "idle"
  <2>1. PICK c \in Calls : Begin(q, c)
    BY <1>3
    DEF Move, Step, BadAlloc, OpenMedia, ReadMedia, OpenSound, ReadSound, JpegReaderExits,
        SealText, OpenInput,
        ReadSome, DecryptDataThrows, OpenContainer, CreateOutput, WriteSome, WriteFails,
        PngWriterThrows, JpegWriterExits, Crash
  <2>2. pc'[q] \in {"media", "size"} /\ outcome'[q] = "none"
    BY <1>2, <1>3, <2>1 DEF Begin, Shape, Control
  <2> QED
    BY <2>2 DEF Reading
<1>4. CASE pc[q] # "idle" \/ q # r
  <2>1. /\ Supplies(p, q) /\ p # r /\ call'[p] = call[p] /\ call'[q] = call[q]
        /\ files'[call[p].out] = files[call[p].out]
    BY <1>1, <1>4, SupplyLasts
  <2>2. CASE q = r
    <3>1. pc[q] # "idle" /\ Move(q) /\ p # q
      BY <1>4, <2>1, <2>2
    <3> QED
      BY <1>1, <2>1, <3>1, OwnReading DEF Reading, Refusals
  <2>3. CASE q # r
    <3>1. /\ pc'[q] = pc[q] /\ size'[q] = size[q] /\ buf'[q] = buf[q]
          /\ outcome'[q] = outcome[q]
      BY <1>2, <2>3 DEF Others
    <3> QED
      BY <1>2, <2>1, <3>1 DEF Reading
  <2> QED
    BY <2>2, <2>3
<1> QED
  BY <1>3, <1>4

\* Control, data and what is stored stay in order in every behaviour.
LEMMA StoreInvariant == Spec => [](ControlInv /\ DataInv /\ StoreInv)
<1>1. Init => StoreInv
  BY DEF Init, StoreInv, Storing, Reading, Supplies, Stored
<1>2. ASSUME ControlInv, DataInv, StoreInv, [Next]_vars PROVE StoreInv'
  <2>1. CASE UNCHANGED vars
    BY <1>2, <2>1 DEF vars, StoreInv, Storing, Reading, Supplies, Stored, SoleWriter
  <2>2. ASSUME NEW r \in Proc, Move(r) PROVE StoreInv'
    <3>1. ASSUME NEW p \in Proc PROVE Storing(p)'
      BY <1>2, <2>2, OwnStoring, OthersStoring
    <3>2. ASSUME NEW p \in Proc, NEW q \in Proc PROVE Reading(p, q)'
      BY <1>2, <2>2, ReadingKept
    <3> QED
      BY <3>1, <3>2 DEF StoreInv
  <2> QED
    BY <1>2, <2>1, <2>2, StepOfOne
<1> QED
  BY DataInvariant, <1>1, <1>2, PTL DEF Spec

\* When an encrypt call has returned, no write of it failed and no other call
\* writes to its output, its whole container is in that file, and stays there
\* whatever other calls and crashes follow.
THEOREM ReturnedIsStored == Spec => []ReturnedMeansStored
<1>1. StoreInv => ReturnedMeansStored
  BY DEF StoreInv, Storing, Stored, ReturnedMeansStored
<1> QED
  BY StoreInvariant, <1>1, PTL

\* A decrypt call made after its container was stored, with the key it was
\* sealed with, is never told that the file is missing or corrupt or that the
\* password is wrong: readFile gets all of it, and its tag verifies.
THEOREM StoredContainersOpen == Spec => []StoredContainerOpens
<1>1. StoreInv => StoredContainerOpens
  BY DEF StoreInv, Reading, Supplies, StoredContainerOpens
<1> QED
  BY StoreInvariant, <1>1, PTL

-----------------------------------------------------------------------------
(***************************************************************************)
(* MemoryStream implements ByteStream, for every width of size_t and every *)
(* set of buffers.                                                         *)
(***************************************************************************)

\* Half is the size of the largest object and one; size_t has twice as many
\* values.
Half == 2^(Width - 1)

\* What the proofs need of the powers of two.
LEMMA Bounds ==
  /\ Half \in Nat \ {0} /\ Limit \in Nat \ {0} /\ Limit = 2 * Half
  /\ Sizes = 0..(Half - 1)
  /\ MaxData \in Nat /\ MaxData < Half
<1>1. Half \in Nat /\ Limit \in Nat /\ Limit = 2 * Half
  BY WidthAssumption DEF Half
<1>2. Sizes = 0..(Half - 1)
  BY DEF Sizes, Half
<1>3. MaxData \in 0..(Half - 1)
  BY <1>2, MaxDataAssumption
<1> QED
  BY <1>1, <1>2, <1>3

\* The remainder of a sum of two numbers below n.
LEMMA Remainder ==
  ASSUME NEW n \in Nat \ {0}, NEW x \in 0..(2 * n - 1)
  PROVE  x % n = IF x < n THEN x ELSE x - n
  OBVIOUS

-----------------------------------------------------------------------------
\* The bytes behind position_ are bytes of the vector.
LEMMA BytesRead ==
  ASSUME StreamTypeOK, NEW n \in Sizes, position_ + n <= Len(data_)
  PROVE  SubSeq(data_, position_ + 1, position_ + n) \in Seq(Octet)
<1>1. position_ \in Nat /\ n \in Nat /\ Len(data_) \in Nat
  BY Bounds, LenProperties DEF StreamTypeOK
<1>2. \A i \in (position_ + 1)..(position_ + n) : data_[i] \in Octet
  BY <1>1, ElementOfSeq DEF StreamTypeOK
<1> QED
  BY <1>1, <1>2, SubSeqProperties

\* A read that the wrapping sum lets pass ends within the vector, or it starts
\* behind its end and the exact sum is no size_t any more; one that it refuses
\* would have ended behind the end.
LEMMA BoundsCheck ==
  ASSUME StreamTypeOK, NEW n \in Sizes
  PROVE  /\ EndOf(n) > Len(data_) => position_ + n > Len(data_)
         /\ EndOf(n) <= Len(data_) /\ position_ + n > Len(data_) =>
              position_ > Len(data_) /\ position_ + n >= Limit
         /\ position_ + n <= Len(data_) => EndOf(n) = position_ + n
<1>1. /\ position_ \in 0..(Limit - 1) /\ n \in 0..(Half - 1)
      /\ Len(data_) \in Nat /\ Len(data_) < Half
  BY Bounds, LenProperties DEF StreamTypeOK
<1>2. Limit \in Nat \ {0} /\ n + Len(data_) < Limit
  BY <1>1, Bounds
<1>3. PICK x \in 0..(2 * Limit - 1) : x = position_ + n
  BY <1>1, <1>2, Bounds
<1>4. EndOf(n) = x % Limit
  BY <1>3 DEF EndOf
<1>5. x % Limit = IF x < Limit THEN x ELSE x - Limit
  BY <1>2, Remainder, Zenon
<1>6. CASE x < Limit
  BY <1>1, <1>2, <1>3, <1>4, <1>5, <1>6
<1>7. CASE ~(x < Limit)
  <2>0. x % Limit = x - Limit
    BY <1>5, <1>7, Zenon
  <2>1. EndOf(n) = (position_ + n) - Limit
    BY <1>3, <1>4, <2>0, Zenon
  <2>2. position_ + n >= Limit /\ n < Limit /\ Len(data_) < Limit - n
    BY <1>1, <1>2, <1>3, <1>7
  <2>3. position_ > Len(data_) /\ position_ + n > Len(data_)
    BY <1>1, <1>2, <2>2
  <2> QED
    BY <1>1, <1>2, <2>1, <2>2, <2>3
<1> QED
  BY <1>6, <1>7

\* The variables of a MemoryStream keep their types: position_ stays a size_t.
THEOREM StreamTypeCorrect == StreamSpec => []StreamTypeOK
<1>1. StreamInit => StreamTypeOK
  <2> SUFFICES ASSUME StreamInit PROVE StreamTypeOK
    OBVIOUS
  <2>1. <<>> \in Seq(Octet) /\ Len(<<>>) <= MaxData
    BY EmptySeq, Bounds
  <2>2. CASE data_ = <<>>
    BY <2>1, <2>2, Bounds DEF StreamInit, StreamTypeOK
  <2>3. CASE data_ \in Buffers
    <3>1. data_ \in Seq(Octet) /\ Len(data_) <= MaxData
      BY <2>3, BuffersAssumption, MaxDataAssumption
    <3> QED
      BY <2>1, <3>1, Bounds DEF StreamInit, StreamTypeOK
  <2> QED
    BY <2>2, <2>3 DEF StreamInit
<1>2. StreamTypeOK /\ [StreamNext]_streamVars => StreamTypeOK'
  <2> SUFFICES ASSUME StreamTypeOK, [StreamNext]_streamVars PROVE StreamTypeOK'
    OBVIOUS
  <2>1. CASE \E b \in Buffers : Write(b)
    <3>1. PICK b \in Buffers : Write(b)
      BY <2>1
    <3>2. data_ \o b \in Seq(Octet) /\ Len(data_ \o b) = Len(data_) + Len(b)
      BY BuffersAssumption, ConcatProperties DEF StreamTypeOK
    <3> QED
      BY <3>1, <3>2 DEF Write, StreamTypeOK
  <2>2. CASE \E n \in Sizes : Read(n)
    <3>1. PICK n \in Sizes : Read(n)
      BY <2>2
    <3>2. CASE Copy(n) /\ position_ + n <= Len(data_)
      <4>1. EndOf(n) \in 0..(Limit - 1)
        BY <3>2, BoundsCheck, Bounds, LenProperties DEF StreamTypeOK
      <4> QED
        BY <3>1, <3>2, <4>1, BytesRead DEF Read, Copy, StreamTypeOK
    <3>3. CASE ~(Copy(n) /\ position_ + n <= Len(data_))
      BY <3>1, <3>3, Bounds, LenProperties DEF Read, Copy, StreamTypeOK
    <3> QED
      BY <3>2, <3>3
  <2>3. CASE \E pos \in 0..(Limit - 1) : Seek(pos)
    BY <2>3 DEF Seek, StreamTypeOK
  <2>4. CASE UNCHANGED streamVars
    BY <2>4 DEF streamVars, StreamTypeOK
  <2> QED
    BY <2>1, <2>2, <2>3, <2>4 DEF StreamNext, Undefined
<1> QED
  BY <1>1, <1>2, PTL DEF StreamSpec

\* MemoryStream is a ByteStream, whatever the width of size_t: each read
\* delivers the bytes behind the cursor or throws and changes nothing, and
\* the sum in its bounds check fools it only after a seek beyond the end
\* (memory_stream.cpp:17-23).
THEOREM StreamImplemented == StreamSpec => KeepsByteStream
<1>1. StreamInit => Stream!Init
  BY DEF StreamInit, Stream!Init
<1>2. StreamTypeOK /\ [StreamNext]_streamVars => [Stream!Next]_(Stream!svars)
  <2> SUFFICES ASSUME StreamTypeOK, [StreamNext]_streamVars
               PROVE  Stream!Next \/ UNCHANGED Stream!svars
    OBVIOUS
  <2>1. ASSUME NEW b \in Buffers, ended # "undefined", Write(b)
        PROVE  Stream!Next
    BY <2>1 DEF Write, Stream!Next, Stream!Write, Stream!BadAlloc
  <2>2. ASSUME NEW n \in Sizes, ended # "undefined", Read(n)
        PROVE  Stream!Next
    <3>1. CASE EndOf(n) > Len(data_) /\ ended' = "out_of_range"
               /\ UNCHANGED <<data_, position_, buffer>>
      <4>1. Stream!OutOfRange(n)
        BY <2>2, <3>1, BoundsCheck DEF Read, Stream!OutOfRange
      <4> QED
        BY <2>2, <4>1 DEF Stream!Next
    <3>2. CASE EndOf(n) <= Len(data_) /\ Copy(n) /\ position_ + n <= Len(data_)
      <4>1. EndOf(n) = position_ + n
        BY <3>2, BoundsCheck
      <4>2. ~(position_ + n > Len(data_))
        BY <3>2, Bounds, LenProperties DEF StreamTypeOK
      <4>3. Stream!Read(n)
        BY <2>2, <3>2, <4>1, <4>2 DEF Read, Copy, Stream!Read
      <4> QED
        BY <2>2, <4>3 DEF Stream!Next
    <3>3. CASE EndOf(n) <= Len(data_) /\ Copy(n) /\ ~(position_ + n <= Len(data_))
      <4>1. position_ + n > Len(data_) /\ ended' = "undefined"
            /\ UNCHANGED <<data_, position_, buffer>>
        BY <3>3, Bounds, LenProperties DEF Copy, StreamTypeOK
      <4>2. Stream!Beyond(n)
        BY <2>2, <3>3, <4>1, BoundsCheck DEF Read, Stream!Beyond
      <4> QED
        BY <2>2, <4>2 DEF Stream!Next
    <3> QED
      BY <2>2, <3>1, <3>2, <3>3 DEF Read
  <2>3. ASSUME NEW pos \in 0..(Limit - 1), ended # "undefined", Seek(pos)
        PROVE  Stream!Next
    BY <2>3 DEF Seek, Stream!Next, Stream!Seek
  <2>4. CASE UNCHANGED streamVars
    BY <2>4 DEF streamVars, Stream!svars
  <2> QED
    BY <2>1, <2>2, <2>3, <2>4 DEF StreamNext, Undefined
<1> QED
  BY <1>1, <1>2, StreamTypeCorrect, PTL DEF StreamSpec, KeepsByteStream, Stream!Spec

=============================================================================
