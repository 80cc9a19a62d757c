------------------------------- MODULE DhtFiles -------------------------------
(***************************************************************************)
(* The six file functions of Dht (src/interface), each process running one *)
(* call, over a file system all processes share.  A call reads its input,  *)
(* works in memory, and truncates and rewrites its output file piece by    *)
(* piece; there is no lock, no temporary file and no rename.  In memory it *)
(* goes through the contracts of Container (encryptData, decryptData) and  *)
(* LzmaCode (compressXZ, decompressXZ).                                    *)
(*                                                                         *)
(* pc:  "idle"    not called yet                                           *)
(*      "media"   the reader of an encryptor is about to open its input    *)
(*      "reading" it is reading what it opened                             *)
(*      "sound"   encryptVideo is about to open its input a second time    *)
(*      "samples" extractAudio is reading what it opened                   *)
(*      "seal"    before compressXZ and encryptData                        *)
(*      "size"    readFile, of a decryptor, is about to open the input     *)
(*      "read"    readFile is reading                                      *)
(*      "open"    before decryptData, decompressXZ and the format check    *)
(*      "create"  the output is about to be opened for writing             *)
(*      "write"   the output is being written                              *)
(*      "done"    the call has returned or thrown                          *)
(*      "dead"    the process has crashed or called exit()                 *)
(***************************************************************************)
EXTENDS Container, LzmaCode

CONSTANTS Proc,     \* processes
          Path,     \* file names
          Ext,      \* Ext[f]: getFileExtension(f): "png", "jpg", "bmp" or another
          Calls,    \* the calls made: op, in, out and password
          Ivs,      \* what RAND_bytes may deliver
          Media,    \* Media[f]: what can be read of the media file f, or NoText
          Junk,     \* texts readers make of bytes that are no media file, or no
                    \* longer: also the beginning of a text, and the empty one
          NoText,   \* no media file, no text
          NoFile,   \* the file does not exist
          Chunk     \* bytes one read() or write() moves at most

EncryptOps == {"encryptImage", "encryptVideo", "encryptAudio"}
DecryptOps == {"decryptImage", "decryptVideo", "decryptAudio"}

ASSUME CallsAssumption ==
  Calls \subseteq [op : EncryptOps \cup DecryptOps, in : Path, out : Path, password : Seq(Byte)]
ASSUME BytesAssumption == Symbol \subseteq Byte
ASSUME IvsAssumption ==
  \A iv \in Ivs : iv \in Seq({RawCell(b) : b \in Byte}) /\ Len(iv) = AES_IV_LENGTH
\* frames is the text of what is to be seen, sound that of its audio stream;
\* without such a stream it is empty.
ASSUME MediaAssumption ==
  Media \in [Path -> [frames : Seq(Payload), sound : Seq(Payload)] \cup {NoText}]
ASSUME JunkAssumption == Junk \subseteq Seq(Payload) /\ <<>> \in Junk
ASSUME ChunkAssumption == Chunk \in Nat \ {0}

VARIABLES
  files,     \* contents by name: a sequence of bytes, or NoFile
  pc,
  call,      \* the call a process runs
  text,      \* textData
  size,      \* what tellg() told readFile
  buf,       \* the byte string read so far, or to be written
  offset,    \* bytes written to the output
  decrypted, \* what decryptData returned, or NoText
  outcome,   \* "ok" or the exception thrown
  sealed,    \* history: containers encryptData has returned
  opened,    \* history: processes that opened their output
  short,     \* history: processes with a write that failed
  before     \* history: processes done when this one was called

vars == <<files, pc, call, text, size, buf, offset, decrypted,
          outcome, sealed, opened, short, before>>
history == <<sealed, opened, short, before>>

\* The bytes of a media file are one unit: no call writes such a file, and one
\* that is opened for writing is emptied.
MediaFile(m) == <<[kind |-> "media", frames |-> m.frames, sound |-> m.sound]>>
IsMedia(content) == content # NoFile /\ Len(content) = 1 /\ content[1].kind = "media"
Zero == RawCell("Z")

NoCall == [op |-> "none"]

Init ==
  /\ files = [f \in Path |-> IF Media[f] = NoText THEN NoFile ELSE MediaFile(Media[f])]
  /\ pc = [p \in Proc |-> "idle"]
  /\ call = [p \in Proc |-> NoCall]
  /\ text = [p \in Proc |-> <<>>]
  /\ size = [p \in Proc |-> 0]
  /\ buf = [p \in Proc |-> <<>>]
  /\ offset = [p \in Proc |-> 0]
  /\ decrypted = [p \in Proc |-> NoText]
  /\ outcome = [p \in Proc |-> "none"]
  /\ sealed = {} /\ opened = {} /\ short = {}
  /\ before = [p \in Proc |-> {}]

-----------------------------------------------------------------------------
Goto(p, l) == pc' = [pc EXCEPT ![p] = l] /\ UNCHANGED <<call, outcome>>

\* The call of p ends, normally ("ok") or with exception e.
End(p, e) ==
  /\ pc' = [pc EXCEPT ![p] = "done"]
  /\ outcome' = [outcome EXCEPT ![p] = e]
  /\ UNCHANGED call

\* The process is gone: what it had in memory is lost.
Die(p) == Goto(p, "dead")

\* A faulty variant: the output is emptied at the start of a call.
BeginOpensOutput(p, c) ==
  /\ pc[p] = "idle"
  /\ call' = [call EXCEPT ![p] = c]
  /\ pc' = [pc EXCEPT ![p] = IF c.op \in EncryptOps THEN "media" ELSE "size"]
  /\ before' = [before EXCEPT ![p] = {q \in Proc : pc[q] = "done"}]
  /\ opened' = opened \cup {p}
  /\ UNCHANGED <<files, text, size, buf, offset, decrypted, outcome, sealed, short>>

Begin(p, c) ==
  /\ pc[p] = "idle"
  /\ call' = [call EXCEPT ![p] = c]
  /\ pc' = [pc EXCEPT ![p] = IF c.op \in EncryptOps THEN "media" ELSE "size"]
  /\ before' = [before EXCEPT ![p] = {q \in Proc : pc[q] = "done"}]
  /\ UNCHANGED <<files, text, size, buf, offset, decrypted, outcome, sealed, opened, short>>

-----------------------------------------------------------------------------
(***************************************************************************)
(* encryptImage, encryptVideo, encryptAudio                                *)
(***************************************************************************)

\* What one reading of a file can give, and the texts made of it.
HasMedia == {f \in Path : Media[f] # NoText}
Part == Junk \cup {Media[f].frames : f \in HasMedia} \cup {Media[f].sound : f \in HasMedia}
SomeText == Part \cup {u \o v : u, v \in Part}

\* Neither a media file nor a container is mistaken for a file that does not exist.
ASSUME NoFileAssumption ==
  /\ \A f \in HasMedia : MediaFile(Media[f]) # NoFile
  /\ \A c \in Calls, iv \in Ivs, t \in SomeText : \A d \in CompressXZ(t) :
       ~Weak(c.password) => Seal(KeyOf(c.password), iv, d) # NoFile

\* The file writeBMP leaves for a 0 x 0 image: its 54 byte header.
BmpHeader == <<[kind |-> "bmp", width |-> 0, height |-> 0]>>

Image(c, exts) == c.op = "encryptImage" /\ Ext[c.in] \in exts

\* The reader for call c accepts the file it opens.  readBMP checks neither the
\* header it reads nor that it read one, and FFmpeg may take any bytes for
\* some format; libpng and libjpeg know their files.
Accepts(c, content) ==
  /\ content # NoFile
  /\ c.op = "encryptImage" => Image(c, {"bmp"}) \/ (Image(c, {"png", "jpg"}) /\ IsMedia(content))

\* The texts the reader may have when it stops reading, the file having content
\* then.  One that still is media was so all the time.  If it was emptied and
\* written anew meanwhile, only libpng reports an error: to av_read_frame, to
\* fread and to libjpeg, which warns and goes on, it is as if the file ended.
TextsRead(c, content) ==
  IF IsMedia(content)
  THEN {IF c.op = "encryptAudio" THEN content[1].sound ELSE content[1].frames}
  ELSE IF Image(c, {"png"}) THEN {} ELSE Junk

\* The exceptions the reader for call c may throw.  readBMP, once its file is
\* open, throws none of its own; libjpeg does not throw.
ReaderErrors(c, content) ==
  CASE c.op = "encryptImage" /\ ~Image(c, {"png", "jpg", "bmp"}) -> {"UnsupportedFormatError"}
    [] Image(c, {"png", "jpg", "bmp"}) /\ content = NoFile -> {"FileNotFoundError"}
    [] Image(c, {"jpg", "bmp"}) /\ content # NoFile -> {}
    [] OTHER -> {"DhtError"}

\* The file is opened, and its streams or its header are looked at.
OpenMedia(p) ==
  LET content == files[call[p].in] IN
  /\ pc[p] = "media"
  /\ \/ Accepts(call[p], content) /\ Goto(p, "reading")
     \/ \E e \in ReaderErrors(call[p], content) : End(p, e)
  /\ UNCHANGED <<files, text, size, buf, offset, decrypted, history>>

\* It is read up to its end and turned into text: the loop over av_read_frame,
\* or over rows.  encryptVideo has only its frames so far.
ReadMedia(p) ==
  LET c == call[p] IN
  /\ pc[p] = "reading"
  /\ \/ \E t \in TextsRead(c, files[c.in]) :
          /\ text' = [text EXCEPT ![p] = t]
          /\ Goto(p, IF c.op = "encryptVideo" THEN "sound" ELSE "seal")
     \/ Image(c, {"png"}) /\ End(p, "DhtError") /\ UNCHANGED text
  /\ UNCHANGED <<files, size, buf, offset, decrypted, history>>

\* A faulty variant: a file that does not open has no sound.
OpenSoundTolerant(p) ==
  /\ pc[p] = "sound"
  /\ Goto(p, "samples") \/ Goto(p, "seal")
  /\ UNCHANGED <<files, text, size, buf, offset, decrypted, history>>

\* extractAudio opens the file again, as it is now.  Without an audio stream
\* it returns no samples and no error.
OpenSound(p) ==
  LET content == files[call[p].in] IN
  /\ pc[p] = "sound"
  /\ \/ Accepts(call[p], content) /\ Goto(p, "samples")
     \/ /\ Accepts(call[p], content) /\ (IsMedia(content) => content[1].sound = <<>>)
        /\ Goto(p, "seal")
     \/ End(p, "DhtError")
  /\ UNCHANGED <<files, text, size, buf, offset, decrypted, history>>

\* Its loop over av_read_frame ends as that of extractFrames, and joinVideoText
\* puts the sound behind the frames.
ReadSound(p) ==
  LET content == files[call[p].in] IN
  /\ pc[p] = "samples"
  /\ \E t \in IF IsMedia(content) THEN {content[1].sound} ELSE Junk :
       text' = [text EXCEPT ![p] = @ \o t]
  /\ Goto(p, "seal")
  /\ UNCHANGED <<files, size, buf, offset, decrypted, history>>

\* libjpeg's default error handler calls exit().
JpegReaderExits(p) ==
  /\ pc[p] \in {"media", "reading"}
  /\ Image(call[p], {"jpg"}) /\ files[call[p].in] # NoFile
  /\ Die(p)
  /\ UNCHANGED <<files, text, size, buf, offset, decrypted, history>>

\* compressXZ and encryptData; the password is looked at only here.
SealText(p) ==
  LET password == call[p].password IN
  /\ pc[p] = "seal"
  /\ \/ \E d \in CompressXZ(text[p]), iv \in Ivs :
          /\ ~Weak(password)
          /\ EncryptDataMay(d, password, iv, "ok", Seal(KeyOf(password), iv, d))
          /\ buf' = [buf EXCEPT ![p] = Seal(KeyOf(password), iv, d)]
          /\ sealed' = sealed \cup
               {[by |-> p, key |-> KeyOf(password), data |-> d, container |-> buf'[p]]}
          /\ Goto(p, "create")
     \/ /\ \/ End(p, "DhtError")
           \/ Weak(password) /\ End(p, "WeakPasswordError")
        /\ UNCHANGED <<buf, sealed>>
  /\ UNCHANGED <<files, text, size, offset, decrypted, opened, short, before>>

-----------------------------------------------------------------------------
(***************************************************************************)
(* decryptImage, decryptVideo, decryptAudio                                *)
(***************************************************************************)

\* A faulty variant: the input is opened for writing and emptied.
OpenInputTruncates(p) ==
  LET content == files[call[p].in] IN
  /\ pc[p] = "size"
  /\ \/ content = NoFile /\ End(p, "FileNotFoundError") /\ UNCHANGED <<files, size>>
     \/ /\ content # NoFile /\ Goto(p, "read")
        /\ size' = [size EXCEPT ![p] = Len(content)]
        /\ files' = [files EXCEPT ![call[p].in] = <<>>]
  /\ UNCHANGED <<text, buf, offset, decrypted, history>>

\* readFile: open at the end, tellg(), data(size).
OpenInput(p) ==
  LET content == files[call[p].in] IN
  /\ pc[p] = "size"
  /\ \/ content = NoFile /\ End(p, "FileNotFoundError") /\ UNCHANGED size
     \/ content # NoFile /\ Goto(p, "read") /\ size' = [size EXCEPT ![p] = Len(content)]
  /\ UNCHANGED <<files, text, buf, offset, decrypted, history>>

\* A faulty variant: reading goes on until size bytes have come.
ReadSomeInsists(p) ==
  LET content == files[call[p].in]
      have == Len(buf[p])
      most == IF have + Chunk < size[p] THEN have + Chunk ELSE size[p]
      upTo == IF most <= Len(content) THEN most ELSE have
  IN  /\ pc[p] = "read"
      /\ buf' = [buf EXCEPT ![p] = @ \o SubSeq(content, have + 1, upTo)]
      /\ IF upTo = size[p] THEN Goto(p, "open") ELSE Goto(p, "read")
      /\ UNCHANGED <<files, text, size, offset, decrypted, history>>

\* file.read(data, size), unchecked: the next bytes of the file as it is now,
\* and zeros (from data(size)) where it has become shorter.
ReadSome(p) ==
  LET content == files[call[p].in]
      have == Len(buf[p])
      upTo == IF have + Chunk < size[p] THEN have + Chunk ELSE size[p]
      piece == [i \in 1..(upTo - have) |->
                  IF have + i <= Len(content) THEN content[have + i] ELSE Zero]
  IN  /\ pc[p] = "read"
      /\ buf' = [buf EXCEPT ![p] = @ \o piece]
      /\ IF upTo = size[p] THEN Goto(p, "open") ELSE Goto(p, "read")
      /\ UNCHANGED <<files, text, size, offset, decrypted, history>>

\* The decryptors that reach an image writer.  Its image is 0 x 0: "" is the
\* only text decompressXZ delivers, and textToPixel makes no pixel of it.
ReachesWriter(c) ==
  \/ c.op = "decryptImage" /\ Ext[c.out] \in {"png", "jpg", "bmp"}
  \/ c.op = "decryptVideo" /\ Ext[c.out] \in {"png", "jpg"}

\* decryptData throws.
DecryptDataThrows(p) ==
  /\ pc[p] = "open"
  /\ \E e \in {"WeakPasswordError", "CorruptedFileError", "DhtError",
               "DecryptionFailedError", "InvalidPasswordError"} :
       DecryptDataMay(buf[p], call[p].password, e, <<>>) /\ End(p, e)
  /\ UNCHANGED <<files, text, size, buf, offset, decrypted, history>>

\* decryptData returns; decompressXZ, the text decoder and the format check
\* follow.  decryptAudio ends with "Audio decoding not implemented yet".
OpenContainer(p) ==
  LET c == call[p]
      d == Unseal(KeyOf(c.password), buf[p])
  IN  /\ pc[p] = "open"
      /\ DecryptDataMay(buf[p], c.password, "ok", d)
      /\ decrypted' = [decrypted EXCEPT ![p] = d]
      /\ \/ /\ DecompressXZ(d) = {}
            /\ End(p, "DhtError")
            /\ UNCHANGED text
         \/ \E t \in DecompressXZ(d) :
              /\ text' = [text EXCEPT ![p] = t]
              /\ CASE ReachesWriter(c)        -> Goto(p, "create")
                   [] c.op = "decryptAudio"   -> End(p, "DhtError")
                   [] OTHER                   -> End(p, "UnsupportedFormatError")
      /\ UNCHANGED <<files, size, buf, offset, history>>

-----------------------------------------------------------------------------
(***************************************************************************)
(* Writing the output: writeFile, writePNG, writeJPEG, writeBMP            *)
(***************************************************************************)

\* std::ofstream or fopen(path, "wb"): the output is created or emptied.
CreateOutput(p) ==
  LET c == call[p] IN
  /\ pc[p] = "create"
  /\ \/ End(p, "DhtError") /\ UNCHANGED <<files, buf, opened>>
     \/ /\ files' = [files EXCEPT ![c.out] = <<>>]
        /\ buf' = [buf EXCEPT ![p] = IF c.op \in EncryptOps THEN @ ELSE BmpHeader]
        /\ opened' = opened \cup {p}
        /\ Goto(p, "write")
  /\ UNCHANGED <<text, size, offset, decrypted, sealed, short, before>>

WritesBytes(c) == c.op \in EncryptOps \/ Ext[c.out] = "bmp"

\* content with piece written at position off; a gap reads as zeros.
Overwrite(content, off, piece) ==
  LET end == off + Len(piece) IN
  [i \in 1..(IF end < Len(content) THEN Len(content) ELSE end) |->
     CASE i \in (off + 1)..end -> piece[i - off]
       [] i \notin (off + 1)..end /\ i <= Len(content) -> content[i]
       [] OTHER -> Zero]

\* A faulty variant: each piece is written at the start of the file.
WriteSomeAtStart(p) ==
  LET c == call[p]
      upTo == IF offset[p] + Chunk < Len(buf[p]) THEN offset[p] + Chunk ELSE Len(buf[p])
  IN  /\ pc[p] = "write" /\ WritesBytes(c)
      /\ files' = [files EXCEPT ![c.out] =
                      Overwrite(@, 0, SubSeq(buf[p], offset[p] + 1, upTo))]
      /\ offset' = [offset EXCEPT ![p] = upTo]
      /\ IF upTo = Len(buf[p]) THEN End(p, "ok") ELSE Goto(p, "write")
      /\ UNCHANGED <<text, size, buf, decrypted, history>>

\* A faulty variant: the offset runs one byte ahead.
WriteSomeAhead(p) ==
  LET c == call[p]
      upTo == IF offset[p] + Chunk < Len(buf[p]) THEN offset[p] + Chunk ELSE Len(buf[p])
  IN  /\ pc[p] = "write" /\ WritesBytes(c)
      /\ files' = [files EXCEPT ![c.out] =
                      Overwrite(@, offset[p], SubSeq(buf[p], offset[p] + 1, upTo))]
      /\ offset' = [offset EXCEPT ![p] = upTo + 1]
      /\ IF upTo = Len(buf[p]) THEN End(p, "ok") ELSE Goto(p, "write")
      /\ UNCHANGED <<text, size, buf, decrypted, history>>

\* The next bytes reach the file; after the last ones the call returns.
WriteSome(p) ==
  LET c == call[p]
      upTo == IF offset[p] + Chunk < Len(buf[p]) THEN offset[p] + Chunk ELSE Len(buf[p])
  IN  /\ pc[p] = "write" /\ WritesBytes(c)
      /\ files' = [files EXCEPT ![c.out] =
                      Overwrite(@, offset[p], SubSeq(buf[p], offset[p] + 1, upTo))]
      /\ offset' = [offset EXCEPT ![p] = upTo]
      /\ IF upTo = Len(buf[p]) THEN End(p, "ok") ELSE Goto(p, "write")
      /\ UNCHANGED <<text, size, buf, decrypted, history>>

\* A write that fails is not noticed: neither file.write() nor fwrite() is
\* checked, and the call returns normally.
WriteFails(p) ==
  /\ pc[p] = "write" /\ WritesBytes(call[p])
  /\ End(p, "ok")
  /\ short' = short \cup {p}
  /\ UNCHANGED <<files, text, size, buf, offset, decrypted, sealed, opened, before>>

\* An image of width 0: libpng reports an error, and writePNG throws.
PngWriterThrows(p) ==
  /\ pc[p] = "write" /\ ~WritesBytes(call[p]) /\ Ext[call[p].out] = "png"
  /\ End(p, "DhtError")
  /\ UNCHANGED <<files, text, size, buf, offset, decrypted, history>>

\* libjpeg reports it by exit().
JpegWriterExits(p) ==
  /\ pc[p] = "write" /\ ~WritesBytes(call[p]) /\ Ext[call[p].out] = "jpg"
  /\ Die(p)
  /\ UNCHANGED <<files, text, size, buf, offset, decrypted, history>>

-----------------------------------------------------------------------------
Over(p) == pc[p] \in {"done", "dead"}

\* The process is killed in the middle of its call.
Crash(p) ==
  /\ pc[p] # "idle" /\ ~Over(p)
  /\ Die(p)
  /\ UNCHANGED <<files, text, size, buf, offset, decrypted, history>>

\* A std::vector or std::string cannot be allocated: readers, decoders and
\* the codecs all work in memory, and no one catches std::bad_alloc.
BadAlloc(p) ==
  /\ pc[p] \in {"media", "reading", "sound", "samples", "seal", "size", "open"}
  /\ End(p, "bad_alloc")
  /\ UNCHANGED <<files, text, size, buf, offset, decrypted, history>>

Step(p) ==
  \/ BadAlloc(p) \/ OpenMedia(p) \/ ReadMedia(p) \/ OpenSound(p) \/ ReadSound(p)
  \/ JpegReaderExits(p) \/ SealText(p)
  \/ OpenInput(p) \/ ReadSome(p) \/ DecryptDataThrows(p) \/ OpenContainer(p)
  \/ CreateOutput(p) \/ WriteSome(p) \/ WriteFails(p)
  \/ PngWriterThrows(p) \/ JpegWriterExits(p)

\* Every process has made its call.
Stopped == (\A p \in Proc : Over(p)) /\ UNCHANGED vars

Next ==
  \/ \E p \in Proc :
       \/ \E c \in Calls : Begin(p, c)
       \/ Step(p)
       \/ Crash(p)
  \/ Stopped

Spec == Init /\ [][Next]_vars

\* Each process is scheduled as long as its call has a step to take; nothing
\* forces a process to make a call, or to crash.
FairSpec == Spec /\ \A p \in Proc : WF_vars(Step(p))

-----------------------------------------------------------------------------
(***************************************************************************)
(* Properties                                                              *)
(***************************************************************************)

TypeOK ==
  /\ \A f \in Path : files[f] = NoFile \/ \A i \in DOMAIN files[f] :
       files[f][i].kind \in {"raw", "ct", "tag", "media", "bmp"}
  /\ \A p \in Proc :
       /\ pc[p] \in {"idle", "media", "reading", "sound", "samples", "seal", "size", "read",
                     "open", "create", "write", "done", "dead"}
       /\ pc[p] # "idle" => call[p] \in Calls
       /\ offset[p] \in 0..Len(buf[p])
       /\ size[p] \in Nat
       /\ decrypted[p] # NoText => call[p].op \in DecryptOps
       /\ outcome[p] # "none" <=> pc[p] = "done"
  /\ opened \subseteq Proc /\ short \subseteq opened
  /\ \A m \in sealed : m.by \in Proc /\ m.key = KeyOf(call[m.by].password)

SameKey(m, password) == ~Weak(password) /\ m.key = KeyOf(password)

\* Whatever concurrent writers, crashes and failed writes left in a file, and
\* whatever a reader saw of a file being rewritten, a decryptor gets past
\* decryptData only with data that some encrypt call protected with that key:
\* a torn or mixed container is always rejected.  All of that data, as long as
\* its size fits an int.
TornContainersRejected ==
  \A p \in Proc : decrypted[p] # NoText =>
    \E m \in sealed :
      SameKey(m, call[p].password) /\ decrypted[p] = Processed(m.data)

\* No other call may write to the file p writes to.
SoleWriter(p) ==
  \A q \in Proc \ {p} : pc[q] # "idle" => call[q].out # call[p].out

Stored(p) ==
  /\ pc[p] = "done" /\ outcome[p] = "ok"
  /\ call[p].op \in EncryptOps
  /\ p \notin short /\ SoleWriter(p)

\* When an encrypt call returns, its whole container is in its output file
\* and stays there, unless a write failed unnoticed or another call writes to
\* the same file (file_utils.cpp:24-31).
ReturnedMeansStored ==
  \A p \in Proc : Stored(p) =>
    \E m \in sealed : m.by = p /\ files[call[p].out] = m.container

\* A container stored before a decrypt call was made is never reported as
\* corrupt, nor its password as wrong, to that call.
StoredContainerOpens ==
  \A p, q \in Proc :
    /\ Stored(p) /\ p \in before[q]
    /\ call[q].op \in DecryptOps /\ call[q].in = call[p].out
    /\ ~Weak(call[q].password) /\ KeyOf(call[q].password) = KeyOf(call[p].password)
    => outcome[q] \notin {"FileNotFoundError", "CorruptedFileError", "InvalidPasswordError"}

\* The exceptions that reject a call for its input, its password or its format,
\* and a failed allocation.
Rejections == {"FileNotFoundError", "UnsupportedFormatError", "WeakPasswordError",
               "CorruptedFileError", "InvalidPasswordError", "DecryptionFailedError",
               "bad_alloc"}

\* A call that ends with one of these has not touched its output: the file is
\* opened only after every check has passed and all work in memory is done.
RejectedCallKeepsOutput ==
  \A p \in Proc : outcome[p] \in Rejections => p \notin opened

\* No other call has opened the input of p for writing.
InputKept(p) == \A q \in opened \ {p} : call[q].out # call[p].in

\* All that call c should read.
WholeText(c) ==
  CASE c.op = "encryptImage" -> Media[c.in].frames
    [] c.op = "encryptVideo" -> Media[c.in].frames \o Media[c.in].sound
    [] OTHER                 -> Media[c.in].sound

\* What a call seals is all of its input, though it opens the file before it
\* reads it, and encryptVideo opens it twice (encrypt_video.cpp:16-23): no
\* frame and no sample is left out, unless another call has opened that file
\* for writing before the seal.  Then a part may be sealed, or the frames
\* without their sound, and no one is told: the loops over av_read_frame end
\* and extractAudio finds no stream (frame_extractor.cpp:96,
\* audio_reader.cpp:75, audio_extractor.cpp:32-35 and :74).
SealedTextIsTheInput ==
  \A m \in sealed : InputKept(m.by) =>
    /\ Media[call[m.by].in] # NoText
    /\ m.data \in CompressXZ(WholeText(call[m.by]))

\* A file that no running call has as its output does not change: media and
\* containers are only ever read by the other calls.
OnlyOutputsChange ==
  [][\A f \in Path : files'[f] # files[f] =>
       \E p \in Proc : pc[p] \in {"create", "write"} /\ call[p].out = f]_vars

\* Every call that is made comes to an end.
CallsEnd == \A p \in Proc : pc[p] # "idle" ~> Over(p)

=============================================================================
