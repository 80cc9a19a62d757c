# A verification development for Dht

Dht is a C++ library that turns images, videos and sound files into a text,
compresses the text with XZ, encrypts it with AES-256-GCM and writes one
container file; and back. This directory holds TLA+ modules that model it, TLC
configurations that check them on small instances, and proofs that TLAPS checks.

`PROJECT.json` lists components, runs, mutants (one faulty variant of a
definition for each property), the source lines behind each definition, the
hazards of the code and the theorems. Source paths below are relative to the
repository.

## 1. The system

```
encryptX:  media file -> reader -> text -> compressXZ -> encryptData -> writeFile
decryptX:  readFile -> decryptData -> decompressXZ -> text -> image writer
```

| component | state it keeps | operations | what is hard about it | what makes it correct |
|---|---|---|---|---|
| XZ compression, `src/core/compression` | lzma_stream, outBuffer, output | compressXZ, decompressXZ | a loop that follows lzma_code()'s protocol; buffer boundaries; termination | nothing lost between two calls; complete Stream; the loop ends; lzma_end() on every path |
| container, `src/core/crypto` | EVP context, iv, tag, buffers | encryptData, decryptData | seven OpenSSL calls that may fail; damaged containers; size_t to int | only protected data comes out; unharmed containers open; contexts freed |
| file access, `src/core/io` | files | readFile, writeFile, getFileExtension | no lock, no rename, unchecked read and write | torn containers are rejected; a returned call has stored its container |
| file functions, `src/interface` | none between calls | encrypt/decrypt Image, Video, Audio | order of checks and side effects; crashes; exit() in libjpeg | a rejected call leaves its output alone; calls end |
| FFmpeg readers, `src/core/video`, `src/core/audio` | six FFmpeg objects, the decoder's queue | extractFrames, extractAudio, readAudio | hand-written cleanup at ten places; decoder delay; errors passed over | no leak; even sampling; nothing lost from an undamaged file |
| colour code, `src/core/color` | none | rgbToCode, codeToRGB, isValidCode | thresholds, rounding, an unordered_map | independent of map order; repeated encoding settles |
| text codec, `src/core/encoder`, `decoder`, `audio`, `video` | none | pixelToText, textToPixel, joinVideoText, sampleToText, textToAudio, formatText, parseText, removeExtraSpaces, trim | separators that are also content; counting rows and columns; a container has no kind | decoding undoes encoding up to the colour code; the writer finds all pixels |
| image files | library objects | readPNG/JPEG/BMP, writePNG/JPEG/BMP | row padding, setjmp, exit() | pixels survive; files are closed |
| MemoryStream | data, position | read, write, seek | position_ + size wraps | no read outside the data |
| logger, platform detector, version | none | | | |

Nothing in the library runs concurrently with itself: every function is
synchronous and keeps no global state. Concurrency comes from several processes
or threads that call it on the same files.

The repository has no tests and no build file, and as it stands parts of it do
not compile: `encrypt_data.cpp` and `decrypt_data.cpp` define again the function
they include, `&row_buffer.data()` in the JPEG files takes the address of a
temporary, and `frame->channels` is gone from the vendored FFmpeg. The models
follow the evident meaning of these lines.

## 2. Modules

Specifications:

- `LzmaCode`: lzma_code() of the vendored liblzma (its sequence number, the rule
  for LZMA_BUF_ERROR), the fields of an .xz Stream, and what compressXZ and
  decompressXZ deliver (`CompressXZ`, `DecompressXZ`).
- `CodecCall`: abstract specification of such a call: it ends in one step, with
  an allowed result or an exception.
- `XzDecompressor`: decompressXZ, with stream_decode() of liblzma running inside
  it. One step consumes one field, copies one byte of text, or enters or leaves
  lzma_code(). A symbol of compressed data stands for any text (`Run`), so a
  match can overfill outBuffer.
- `XzCompressor`: compressXZ with stream_encode(). The encoder takes input into
  its window and writes it out whenever it likes.
- `Container`: layout of the container, the ideal cipher, the narrowing of sizes,
  and how encryptData and decryptData may end (`EncryptDataMay`, `DecryptDataMay`).
- `AesGcm`: both functions with every OpenSSL call and allocation a step that may
  fail, called one after another on containers that were tampered with.
- `DhtFiles`: the six file functions over shared files. It composes the contracts
  of `LzmaCode` and `Container` that the detailed modules are shown to keep.
- `MediaReader`: the three FFmpeg readers; a constant `Delay` says how many frames
  the decoder keeps back.
- `ColorCode`: rgbToCode, codeToRGB and isValidCode as operators; the order in which
  the C++ library traverses BASE_COLORS is an argument.
- `MediaText`: every conversion between media and text as an operator on sequences
  of tokens (a space, a newline, the marker, a pixel's code, an amplitude).
- `TextCodec`: the encryptors make texts and each of the three decryptors is called
  on each, since nothing in a container says what made it; images written are
  encrypted again, possibly by a build with another order of BASE_COLORS. It composes `MediaText` the way the six functions do, without
  the files and codecs between them.
- `CInt`: the type int, of any width: `Wrap` is what an expression with a given exact
  value amounts to.
- `BmpFile`: writeBMP step by step, with a full disk and crashes, then readBMP on
  what is in the file, whether writeBMP or another program made it.
- `ImageLibs`: readPNG, writePNG, readJPEG, writeJPEG over libpng (errors by
  longjmp) and libjpeg (errors by exit()); both libraries are external.
- `ByteStream`: what MemoryStream promises, with exact arithmetic; `MemoryStream`:
  the class with a size_t of `Width` bits.

The `*Proofs` modules have the theorems (section 4); the `MC*` modules only give
constants their values. Operators with "faulty variant" in their comment are the mutants;
no specification uses them.

How state corresponds to code: variables carry the names of the source
(`next_in`, `outBuffer` as `out`, `ret`, `frameCount`, ...); `pc` names the place
in the function or the library call about to be made; variables marked "history"
only record what happened, for the properties.

Abstractions worth knowing:

- lzma: a field (header, Index, footer) is one symbol, so waiting for the rest of
  a field is waiting for the symbol. All verdicts on bad input are `DATA_ERROR`.
- Cipher: a ciphertext byte is a record of key, iv, position and plaintext byte,
  a tag byte a record of key, iv and ciphertext. Equality of such records is
  equality of bytes; chance collisions and iv reuse are outside the model.
- `KnownCells` limits what decryptData is called with to bytes that exist: raw
  bytes and bytes of containers made before. Nobody else can make tags.
- Files: a media file is the text of its frames and the text of its sound, in one unit:
  no call writes such a file, and one that is opened for writing is emptied. A reader
  opens its file (`OpenMedia`, `OpenSound`) and later reads it up to its end
  (`ReadMedia`, `ReadSound`), whatever became of it in between. If it is still the media
  file, the reader gets all of it. If not, the loop over av_read_frame just ends, since
  the code does not tell an error from the end (frame_extractor.cpp:96,
  audio_extractor.cpp:74, audio_reader.cpp:75): the reader has any text of `Junk`, and no
  error. readBMP and libjpeg, which warns and pads, do the same; only libpng reports a
  file cut short. extractAudio has no samples, and no error, where it finds no audio stream
  (audio_extractor.cpp:32-35), so encryptVideo may seal frames alone. FFmpeg may accept
  any file, also one that a call wrote. Damage inside a file and errors of the disk are in
  `MediaReader`. `Ext` has "jpg" for "jpg" and "jpeg".
- decompressXZ delivers text only for empty data (see finding 1), so an image
  writer is reached only with a 0 x 0 image; the model has what libpng and
  libjpeg do with that, and the bare BMP header.
- readBMP checks nothing it reads: on a file that is no BMP it yields any text.
- FFmpeg: a packet holds the frames the decoder will make of it. The conversion of
  an infinity or a NaN to int, undefined in C++, gives what the compilers for x86
  and ARM make of it: the least int, 0 or the largest.
- Text: `TextCodec` starts from the text decompressXZ is meant to deliver, not from
  the one it does (finding 1). A sample is a multiple of a thousandth, or NaN;
  `RoundsDown` lists the n of 0 to 100 for which the double n / 100.0 * 100.0 is
  less than n. A division by 0 traps or gives 0. The texts have a number in every
  amplitude; on others std::stoi in textToAudio (text_to_audio.cpp:17) throws an exception
  that is no DhtError, which is left out.
- BMP: a header is four fields, or `Cut` when the file ends inside it; then readBMP
  reads what was on the stack, any of `Headers`.
- Sizes and indices of images are ints, and their sums and products wrap. The language
  leaves signed overflow undefined; the model has what the code made of these lines by
  the common compilers does. A negative size makes a std::vector throw
  std::length_error. An index that is not inside a vector ends the model ("undefined").
- PNG and JPEG: a file is its size, its colour type and its pixels; sides are limited by
  `MaxSide` (libpng takes 1000000, libjpeg 65500). A vector that a
  longjmp passes over is not destroyed; other effects of that undefined
  behaviour are not modelled.

## 3. Runs

| run | checks | states |
|---|---|---|
| `xz_decompressor` | `NothingLost`, `BufErrorAfterAllDelivered`, `StreamEnded`; refinement `ImplementsCall` with liveness | 6 thousand |
| `xz_readback` | violation: `CompressorOutputAccepted` | |
| `xz_compressor` | `NothingLost`, `StreamEnded`, `OnlyAllocationFails`; refinement `ImplementsCall` with liveness | 9 thousand |
| `aes_gcm` | `OnlySealedDataComesOut`, `SealedDataOpens`, `ContractKept`, `CompleteUnlessSizeWraps`, `ContextsFreed` | 150 thousand |
| `dht_files` | `TornContainersRejected`, `ReturnedMeansStored`, `StoredContainerOpens` | 1.2 million |
| `dht_calls` | `RejectedCallKeepsOutput`, `SealedTextIsTheInput`, `OnlyOutputsChange`, `CallsEnd` | 129 thousand |
| `media_reader` | `NothingLeaks`, `EveryNthFrameKept`, `TargetRateReached`, `LossIsTheDelayedTail` | 21 thousand |
| `media_drain` | violation: `WholeFileDelivered` | |
| `text_codec` | `OrderIrrelevant`, `ImageComesBack`, `VideoComesBack`, `SoundComesBack`, `RepeatedEncodingSettles`, `PixelsMissingOnlyBelowSound`, `ToolsFitCodec` | 121 thousand |
| `bmp_file` | `RowsComeBack`, `StaysInside`, `FileClosed` | 354 thousand |
| `image_libs` | `ResourcesReleased`, `PixelsPassThrough` | 2 thousand |
| `memory_stream` | refinement `KeepsByteStream` | 55 thousand |

The type invariants of `XzDecompressor`, `AesGcm` and `DhtFiles` are checked in
their runs. The other modules' `TypeOK` (`StreamTypeOK`, `LibTypeOK`) states the types
of their variables; no run spends a property on it, and for `XzCompressor`,
`MediaReader` and `MemoryStream` it is proved.

Some properties are conjunctions of named parts: `VideoComesBack` of
`FramesComeBack` and `SoundSplitsExactly`; `SoundComesBack` of `SamplesComeBack` and
`SampleCountBounded`; `RepeatedEncodingSettles` of `HueSurvives`, `ColoursSettle`
and `AmplitudesSettle`; `ToolsFitCodec` of `ToolsKeepPixels` and
`ValidatorTellsPixels`; `RowsComeBack` of `BmpComesBack` and `CutFileLosesTopRows`;
`ResourcesReleased` of `OnlyJumpedVectorsLeak` and `BadAllocLeaksObjects`;
`PixelsPassThrough` of `RgbComesBack`, `RowsFitUnlessTransparent` and
`RowsWrittenExactly`.

### Bounds

- `xz_decompressor`: OutSize 2 with a symbol that expands to five bytes, so a
  block fills outBuffer several times and ends both on and off its boundary.
  Inputs: one- and two-Stream files with payloads of up to two symbols, padding
  of 0, 1 and 4 bytes, all their truncations, and all single-field corruptions.
- `xz_compressor`: every text of up to five bytes over two letters, OutSize 3.
- `aes_gcm`: keys of 2 bytes, ivs of 1, tags of 2, and INT_MAX 3 so that sizes 4
  to 7 become negative and 8 and more wrap; two passwords with one key, one with
  another and one too short; three calls, so two containers can be mixed.
- `dht_files`: three processes are one more than a torn file needs (two writers,
  one reader); pieces of four bytes cut every container inside its ciphertext.
  The processes are symmetric: no property and no constant names one.
- `dht_calls`: two processes choose from sixteen calls that cover each function,
  each output format, a missing file, an unsupported format, an unchecked BMP, a
  weak password, a file overwritten while it is read and a video overwritten
  between its two readings. `Junk` has the empty text and the beginning of a longer one,
  so a video is also sealed in part, and without its sound: without its premise
  `InputKept`, `SealedTextIsTheInput` is violated. No symmetry, because liveness is
  checked.
- `media_reader`: files with no stream, no packet, packets with 0 to 3 frames,
  interleaved streams; Delay 1; frame rates of 3, 3/2, 0 and 0/0 with targets from
  -1 to 2, which give intervals of 1, 3 and the undefined ones.
- `text_codec`: images of up to 2 x 2, 3 x 1, 1 x 3 and without pixels, and single
  pixels on a grid with both sides of every threshold of the colour code (14 values
  per channel), each encoded up to twice and decoded after that; videos of 0 to 3
  frames with and without sound; sounds of up to ten samples with magnitudes around
  every limit and NaN; INT_MAX 3, so that the step overflows; every text of up to
  five codes, spaces and newlines, and of up to four tokens with markers and amplitudes,
  most of which no encryptor writes.
- `bmp_file`: pictures of 0 x 0 to 5 x 3, whose rows need padding of 0 to 3 bytes;
  headers of other programs with depths from -8 to 32, negative sizes, and offsets
  that are negative, right behind the header or further on. INT_MAX is 255: headers
  overflow each of the products, to negative, small and zero sizes, and pictures 10 and
  22 pixels wide overflow the row size.
- `image_libs`: all colour types with and without transparency, up to 3 x 2. INT_MAX is
  31 and `MaxSide` 7: images of 4 x 3, 4 x 7 and 7 x 5 have more bytes, and the last
  more pixels, than an int counts; one of 8 x 1 is refused.
- `memory_stream`: size_t of 4 bits, up to 5 bytes of data, all
  positions, all sizes a buffer can have (up to PTRDIFF_MAX, half of the range).

### Fairness

A call runs on its caller's thread and nothing in it waits for another call, so
weak fairness of the whole call (`WF(Next)`, or `WF(Step(p))` for each process of
`DhtFiles`) says only that a running thread is scheduled. No fairness is assumed
of starting a call, of crashing or of any particular outcome of a library call.
In particular nothing makes liblzma or FFmpeg progress: that the loops end
follows from finite input and from lzma_code()'s rule for LZMA_BUF_ERROR.

### What the runs show

- Both XZ loops handle outBuffer boundaries correctly, end, and end the
  lzma_stream; compressXZ keeps to lzma_code()'s protocol for every text.
- **Finding 1** (`xz_readback`): decompressXZ throws for everything compressXZ
  writes. It uses LZMA_CONCATENATED but never LZMA_FINISH, against the
  documentation of the flag, so LZMA_STREAM_END never comes. The text has been
  decoded in full when "XZ decompression failed" is thrown
  (`BufErrorAfterAllDelivered`).
- decryptData returns only data that was protected with the same key, although
  the narrowed size lets 2^32 k trailing bytes pass unnoticed. encryptData drops
  data silently only from 2^32 bytes on.
- A file being rewritten, cut by a crash or mixed by two writers never gets past
  decryptData. But a full disk is not reported, and the old output is gone before
  the new one is complete: both are preconditions of `ReturnedMeansStored`.
- The cleanup of all three FFmpeg readers is complete, except for exceptions of
  the C++ library.
- **Finding 2** (`media_drain`): the readers do not drain the decoder at the end of
  the file; with a decoder that is Delay frames behind, the last Delay frames are
  lost, and no more than those (`LossIsTheDelayedTail`).
- The colour code does not depend on the order of BASE_COLORS (`OrderIrrelevant`),
  keeps hues, and reaches a fixed point after two generations.
- Thinning out video frames keeps at least the rate asked for and at most twice as
  much; with a target of 0 or an unknown rate, all frames or one of INT_MAX.
- What an encryptor seals is all of its input, unless another call opened that input
  for writing before the seal (`SealedTextIsTheInput`). If one did, nothing in the code
  notices: a call may fail, but it may also seal a part of the input, or a video's
  frames without their sound, and return normally.
- The text codec undoes itself up to the colour code: images, frames in their
  order, the sound to the character, amplitudes to a hundredth. What rounding takes
  from sound that is encoded again is bounded (`RepeatedEncodingSettles`).
- Called on another kind of text, a decryptor hands the image writer fewer pixels
  than width * height in one case only: decryptImage on a video with sound, whose
  frames are more than one pixel wide (`PixelsMissingOnlyBelowSound`).
- decryptVideo throws std::out_of_range, which is no DhtError, for a text that ends at
  the marker. No encryptor writes such a text (lemma `CodecTextsSplit`).
- Two promises of the repository's README.md are visibly not kept by `TextCodec`, as
  by the code: decryptVideo writes PNG and JPEG only, all frames in one image, and
  decryptAudio ends with "not implemented yet" (README.md:7-8 promise the decryption
  of video and sound). No run is spent on them.
- readBMP undoes writeBMP. Of a cut file the top rows are lost and come back black,
  without an error. readBMP stays inside its buffers for every header with a
  positive depth, as long as the bits of a row, the bytes of all rows and the number of
  pixels fit an int (`SizesFit`); of a header with larger sizes, such as 65536 x 65536 with
  24 bits, it may leave image_data. It leaves its file open for a top-down BMP and where
  the size overflows to a negative one.
- The PNG and JPEG functions release the file and the library's objects on every
  path of their own and after libpng's jump, which loses the vectors;
  std::bad_alloc, and std::length_error, lose the file and the objects. Rows do not fit
  the space provided for them in two cases: a PNG with tRNS, and an image with more than
  INT_MAX bytes, for which the product that is the size of image_data wraps (65536 x 65537
  in RGB: 196608 bytes). `RgbComesBack` leaves grey PNGs out: readPNG never asks libpng
  for RGB (png_reader.cpp:44), so their rows are shorter than it takes them to be, and
  their pixels come out wrong; and JPEGs in CMYK, whose fourth channel readJPEG drops.
- MemoryStream is the exact stream until a sum reaches 2^64, which takes a seek
  beyond the end.

## 4. Proofs

TLC checks small instances; the theorems hold for every value of the constants: any
number of processes, calls and files, inputs, images and videos of any length,
buffers, keys and pieces of any size. "Run property" is the property of section 3
that a theorem states in general.

| module | theorem | run property |
|---|---|---|
| `XzDecompressorProofs` | `TypeCorrect`, `NoTextLost`, `BufErrorComesLast`, `StreamIsEnded` | `TypeOK`, `NothingLost`, `BufErrorAfterAllDelivered`, `StreamEnded` |
| | `CallImplemented` | safety part of `ImplementsCall` |
| `XzCompressorProofs` | `NoByteLost`, `FailsOnlyByAllocation`, `StreamIsEnded` | `NothingLost`, `OnlyAllocationFails`, `StreamEnded` |
| | `CallImplemented`, `TypeCorrect` | safety part of `ImplementsCall`; none |
| `ContainerProofs` | `SealThenUnseal`, `OnlySealedOpens` | none: facts about the layout that the next two modules use |
| `AesGcmProofs` | `TypeCorrect`, `ContextsAreFreed`, `ContractHolds`, `ContainersComplete` | `TypeOK`, `ContextsFreed`, `ContractKept`, `CompleteUnlessSizeWraps` |
| | `OnlySealedDataReturned`, `SealedDataWillOpen` | `OnlySealedDataComesOut`, `SealedDataOpens` |
| `DhtFilesProofs` | `TypeCorrect`, `RejectedCallsKeepOutput`, `OnlyOutputsEverChange` | `TypeOK`, `RejectedCallKeepsOutput`, `OnlyOutputsChange` |
| | `TornContainersNeverOpen`, `SealedTextIsAlwaysTheInput` | `TornContainersRejected`, `SealedTextIsTheInput` |
| | `ReturnedIsStored`, `StoredContainersOpen` | `ReturnedMeansStored`, `StoredContainerOpens` |
| | `StreamImplemented`, `StreamTypeCorrect` (of `MemoryStream`) | `KeepsByteStream`; none |
| `MediaReaderProofs` | `NothingEverLeaks`, `EveryNthFrameIsKept`, `TargetRateIsReached`, `OnlyDelayedTailIsLost` | `NothingLeaks`, `EveryNthFrameKept`, `TargetRateReached`, `LossIsTheDelayedTail` |
| | `TypeCorrect` | none |
| `ImageProofs` | `FileIsClosed`, `LoopIsInside`, `WrittenRowsComeBack` | `FileClosed`, `StaysInside`, `RowsComeBack` |
| | `LibraryObjectsReleased`, `PixelsComeThrough` | `ResourcesReleased`, `PixelsPassThrough` |
| `TextCodecProofs` | `BuildsAgree`, `ImagesComeBack`, `VideosComeBack`, `SoundsComeBack` | `OrderIrrelevant`, `ImageComesBack`, `VideoComesBack`, `SoundComesBack` |
| | `PixelsAreThere`, `EncodingSettles`, `ToolsAreFit` | `PixelsMissingOnlyBelowSound`, `RepeatedEncodingSettles`, `ToolsFitCodec` |
| | `CodeIgnoresOrder`, `EveryCodeIsAColor`, `ColorsSettle` | none: facts about the colour code for all 2^24 pixels |

### Assumptions

The proofs use the named ASSUMEs of the modules, and TLC evaluates these on the
constants of the runs:

- `LzmaCode`, `XzDecompressor`, `XzCompressor`: payload symbols are not field
  symbols, `Run` maps them to texts, OutSize is positive, inputs and texts are
  sequences.
- `Container`, `AesGcm`: the lengths are positive and the minimal password is at
  least as long as a key (config.hpp), INT_MAX is a natural number, an iv has its
  length and raw bytes.
- `DhtFiles`: calls are well formed, symbols are bytes, `Chunk` is positive, `Media` and
  `Junk` are texts, the empty one among the latter, and `NoFile` is neither a media file
  nor a container that calls can write.
- `CInt`: INT_MAX is at least 31. `BmpFile`: at least 54, the offset in its own header.
- `MediaReader`: a rate is a pair of ints that are not negative, as FFmpeg gives
  them; INT_MAX is positive.
- `BmpFile`: the sides of an image are ints, and an image given to writeBMP has width * height pixels (the one use for which
  that fails is in `PixelsMissingOnlyBelowSound`); a header is four
  ints whose data do not start inside the header; `Cut` and `NoFile` are no headers.
- `MemoryStream`: `Limit` is twice 2^(Width - 1). That is arithmetic on powers, which
  the provers do not know.
- `ImageLibs`: images and files have width * height pixels (with the same exception),
  a file is not empty, and the pixels of a grey one are grey; `Alpha` is a sample; a row of
  `MaxSide` pixels has at most INT_MAX bytes.
- `MediaText`, `TextCodec`: `Char` has the characters the codec writes; an image or a
  frame has width * height pixels, and the frames of a video, which all have one size, are
  not empty; other texts are sequences of tokens; INT_MAX is a natural number and rates
  are ints.

### Arguments

*decompressXZ.* The invariant `IInv` adds to the properties: `ret` is LZMA_OK inside
the loop, STREAM_END is never seen, a call without progress has an empty outBuffer,
text is pending only inside a Block, and only empty data has returned. The third and
fourth are what LZMA_BUF_ERROR needs: when lzma_code() gives up without progress,
input is exhausted, nothing is pending and nothing is in outBuffer, so `output` is
all of the text. `LeaveKeeps` is that argument.

*compressXZ.* `NothingLost` says that `output` and outBuffer together are what the encoder
has made so far, sequence by sequence (`EncodedIs`). `CallInv` adds the protocol:
LZMA_FINISH is given exactly when the input is exhausted and never taken back, and
stream_encode() returns LZMA_OK only from a call that consumed or wrote something, so
lzma_code() never turns it into LZMA_BUF_ERROR (`LeaveKeeps`). `OnlyAllocationFails` is
not inductive without that.

*Container.* A byte of a tag is a record of key, iv and ciphertext. If a tag verifies,
its first byte determines the key, the iv and the whole ciphertext, and with them the
plaintext: `OnlySealedOpens`. `SealThenUnseal` is about positions: what encryptData
appends is where decryptData looks for it, also when a size was narrowed.

*AesGcm.* `IInv` says at each `pc` whether the context exists, what is in the buffers
(`BufHeld`), and that every record in `made` is a sealed container (`MadeIsSealed`);
`KnownCells` then gives `OnlySealedOpens` its premise.

*DhtFiles.* The invariant has four layers, each proved with the ones before it.
`ControlInv` ties `pc`, `call`, `opened` and `outcome` together, one process at a
time; it is all that `RejectedCallKeepsOutput` and `OnlyOutputsChange` need.
`DataInv` says that every byte of a tag, in a file or in the memory of a call, belongs
to a container on record in `sealed`; this survives every interleaving of pieces, so
`TornContainersRejected` follows from `OnlySealedOpens` without looking at the order of
writes. `InputInv` says that a file which no call has opened for writing is as it was at
the start (`Untouched`), and what a call whose input is such a file has in memory at each
`pc` (`WholeInput`): the frames, then the frames and the sound. `opened` only grows
(`OpenedGrows`), so a call whose input is kept now has had it kept all along, which is
what makes `SealedTextIsTheInput` inductive. `StoreInv` says, for a call with no rival for its output, how much of its
container is in the file at each step, and of a reader that started later that it has
read a prefix of that.

*MediaReader.* `LadderInv` lists what is held at each `pc`. `Thinned` says that `frames`
has ceil(frameCount / interval) elements and where they come from; `RateReached` turns
this into the bounds of `TargetRateReached`. `TailInv` says that `received`, the frame
at hand and `queue` together are the frames of the packets read so far.

*Images.* `FileInv` gives byte j of the file as a function of the picture
(`FileByte`), as far as it was written; `ReaderInv` says that image_data is as
long as the header asks for; `ReadBackInv` that its bytes are those of the file.
`PixelInside` and `PixelInFile` are the arithmetic of rows and padding. Nothing is assumed
about the size of products: where the sizes fit an int, every index is between 0 and one
of them, so `Wrap` leaves it alone; where they do not, the properties claim nothing, and
`FileClosed` and `ResourcesReleased` follow the std::length_error.
Of the PNG and JPEG functions, `Holding` lists what is held at each step (`at`), and
`PassInv` says what has moved: after `rowsMoved` rows the samples are those of the first
rows of the file, at multiples of the stride, as long as all bytes of the image fit an int,
and `sent` is the bytes of the rows written. If they do not fit, no reader returns
normally: a row that would be written outside, or a negative size, ends the call before. `FlattenSeq` of pieces of one length is what both need.

*Text codec.* `CodecInv` says what the text is (`Encodes`: the text of the media, without
reference to the build that wrote it), what was decoded (`Decodes`: a function of the
text) and what rounds of encoding do to an image (`Rounds`: after n of them every pixel is
in `Shade(n)`, the n-fold image of the colour code, and the letters of the first text are
still those of the pixels). That much is easily inductive; what the properties need is
what the conversions make of a text built by joining. A text of rows is read by
`Lines` and `Words` into the same rows (`LinesKept`, `PictureComesBack`), also when it is
followed by another frame (`JoinedFrames`, `FramesRead`), by a marker (`SplitThere`) or by
sound (`FilmSplits`, `FilmSounds`). `RowsPaint` gives the image of rows of one width,
`RowsFull` says when rows of different widths still fill it. For the text tools a text is
read as its words, whatever the lines they are in (`AllWords`, `PixelsAreWords`): all four
tools keep that reading, since they move white space only. `OneRow` follows the
counter of `formatText` along a row.

*Colour code.* If a pixel is within 100 of a base colour, one channel is over 155 and
the others are under 100, so it is near no second one (`NearOne`).

*MemoryStream.* Steps map to steps of `ByteStream`; no object is larger than
half of the address space, so a sum in the bounds check that wraps, and still passes it,
started beyond the end of the data (`BoundsCheck`).

Recursive functions (`FramesOf`, `Count`, `Mixed`, the states of a `Fold`, `FlattenSeq`)
are reached through the least-number principle (`LeastElement`, from `NatLessThanWellFounded`): the set of
lengths up to which no function satisfies the recursion, or satisfies it with a wrong
value, has no least element and is empty.

### Only model-checked

Liveness: `CallsEnd`, and that the XZ calls end (the fairness part of `ImplementsCall`).
TLAPS has no rules for fairness and ENABLED here. Every other property of a passing run
is also proved.

## 5. Not modelled

- Logger, platform detector, version: no state and no callers.
- The data functions of `src/interface` define again what they include; the
  functions themselves are in `AesGcm`.
- The arithmetic of LZMA, AES, PNG, JPEG and the FFmpeg decoders. Nearly all lines
  of the repository are vendored (OpenSSL, FFmpeg, liblzma); of these only what
  decides how a call of Dht goes is modelled.
- The samples inside an audio frame. The readers treat `frame->data[0]` as
  interleaved doubles whatever the sample format is; a frame is one value here.
  For the same reason a stream that changes its resolution (sws_scale in
  extractFrames) is not modelled.
- Overflow of int in the pixels of a video frame (frame_extractor.cpp:103-107), for the
  same reason.
- The colours libjpeg delivers for CMYK, of which readJPEG takes the first three.

## 6. Plan

Done: all components with state or control of their own, and proofs of all safety
properties that the runs check. What would come next is not a proof: the samples and
pixels inside a frame (section 5).
