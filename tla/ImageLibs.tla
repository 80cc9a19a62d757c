------------------------------- MODULE ImageLibs -------------------------------
(***************************************************************************)
(* readPNG(), writePNG(), readJPEG() and writeJPEG(): C++ functions around *)
(* libpng, which reports an error by longjmp() to the setjmp() in the      *)
(* function, and libjpeg, whose default handler calls exit().  The sizes   *)
(* of vectors and the places in them are ints.  One behaviour is one call. *)
(*                                                                         *)
(* at:  "fopen" "struct" "info"   acquiring                                *)
(*      "header"                  up to png_read_update_info,              *)
(*                                png_write_info, jpeg_start_(de)compress  *)
(*      "vectors"                 the std::vectors for rows and pixels     *)
(*      "rows" "finish"           moving rows; ending and releasing        *)
(*      "convert"                 making the result                        *)
(*      "over"                                                             *)
(***************************************************************************)
EXTENDS CInt, SequencesExt

CONSTANTS Pngs, Jpegs,   \* files: width, height, colorType, tRNS, pixels
          Images,        \* images to write: width, height, pixels
          Alpha,         \* a byte of an alpha channel
          MaxSide        \* the widest and highest image the libraries take

Sample == 0..255
RGB == [r : Sample, g : Sample, b : Sample]
PngColor == {"gray", "palette", "rgb", "gray_alpha", "rgb_alpha"}
JpegColor == {"gray", "rgb", "cmyk"}
File(colors) == [width : Nat \ {0}, height : Nat \ {0}, colorType : colors,
                 tRNS : BOOLEAN, pixels : Seq(RGB)]

ASSUME FilesAssumption ==
  /\ Pngs \subseteq File(PngColor) /\ Jpegs \subseteq File(JpegColor)
  /\ \A f \in Pngs \cup Jpegs : Len(f.pixels) = f.width * f.height
  /\ \A f \in Pngs \cup Jpegs :
       f.colorType \in {"gray", "gray_alpha"} =>
         \A i \in DOMAIN f.pixels : f.pixels[i].r = f.pixels[i].g /\ f.pixels[i].g = f.pixels[i].b
ASSUME ImagesAssumption ==
  /\ Images \subseteq [width : Nat, height : Nat, pixels : Seq(RGB)]
  /\ \A m \in Images : Len(m.pixels) = m.width * m.height
ASSUME AlphaAssumption == Alpha \in Sample
\* libpng takes 1000000 pixels, libjpeg 65500: the bytes of one row fit an int.
ASSUME MaxSideAssumption == MaxSide \in Nat /\ 4 * MaxSide <= INT_MAX

VARIABLES
  func,        \* which of the four functions
  input,       \* the file read, or the image written
  at,
  held,        \* library objects, and vectors that own memory
  rowsMoved,   \* rows moved so far
  samples,     \* bytes of the reader's image_data
  sent,        \* rows the writer gave to the library
  pixelsRead,  \* what the reader returns
  ended,       \* "running", "ok", an exception, "exit" or "undefined"
  failed       \* history: where the library reported an error

libVars == <<func, input, at, held, rowsMoved, samples, sent, pixelsRead, ended, failed>>
data == <<rowsMoved, samples, sent, pixelsRead>>

IsPng == func \in {"readPNG", "writePNG"}
IsReader == func \in {"readPNG", "readJPEG"}

LibInit ==
  /\ \/ func = "readPNG" /\ input \in Pngs
     \/ func = "readJPEG" /\ input \in Jpegs
     \/ func \in {"writePNG", "writeJPEG"} /\ input \in Images
  /\ at = "fopen" /\ held = {}
  /\ rowsMoved = 0 /\ samples = <<>> /\ sent = <<>> /\ pixelsRead = <<>>
  /\ ended = "running" /\ failed = "no"

-----------------------------------------------------------------------------
(***************************************************************************)
(* Layout                                                                  *)
(***************************************************************************)

\* What is left of a PNG's channels after the transformations readPNG asks
\* for: strip_16, palette_to_rgb, expand_gray, tRNS_to_alpha and, for
\* PNG_COLOR_TYPE_RGB_ALPHA only, strip_alpha.
PngChannels(f) ==
  LET color == CASE f.colorType = "gray" -> 1
                 [] f.colorType = "gray_alpha" -> 2
                 [] OTHER -> 3
  IN  IF f.tRNS THEN color + 1 ELSE color

\* cinfo.output_components.
JpegChannels(f) ==
  CASE f.colorType = "gray" -> 1 [] f.colorType = "rgb" -> 3 [] f.colorType = "cmyk" -> 4

\* What the library delivers for pixel p.
Samples(p, channels) ==
  CASE channels = 1 -> <<p.r>>
    [] channels = 2 -> <<p.r, Alpha>>
    [] channels = 3 -> <<p.r, p.g, p.b>>
    [] channels = 4 -> <<p.r, p.g, p.b, Alpha>>

\* Row y (from 0) of m, with the given channels.
RowBytes(m, y, channels) ==
  FlattenSeq([x \in 1..m.width |-> Samples(m.pixels[y * m.width + x], channels)])

Channels == IF func = "readPNG" THEN PngChannels(input) ELSE JpegChannels(input)

\* Bytes the reader provides for each pixel of a row.
Stride == IF func = "readPNG" THEN 3 ELSE Channels

\* The pixel whose bytes start at d[idx + 1].
PixelAt(d, idx) ==
  IF Stride >= 3 THEN [r |-> d[idx + 1], g |-> d[idx + 2], b |-> d[idx + 3]]
  ELSE [r |-> d[idx + 1], g |-> d[idx + 1], b |-> d[idx + 1]]

-----------------------------------------------------------------------------
(***************************************************************************)
(* Ways to end                                                             *)
(***************************************************************************)

Over(e) == at' = "over" /\ ended' = e

\* The function throws e itself; before, it released what is in freed.
Throw(e, freed) ==
  /\ Over(e) /\ held' = held \ freed
  /\ UNCHANGED <<func, input, data, failed>>

\* A faulty variant: the file stays open.
LibraryErrorKeepsFile ==
  /\ failed' = at
  /\ IF IsPng THEN Over("DhtError") /\ held' = held \ {"png", "info"}
              ELSE Over("exit") /\ UNCHANGED held
  /\ UNCHANGED <<func, input, data>>

\* libpng jumps back to setjmp(), and the function destroys png and info,
\* closes fp and throws.  The jump passes over the destructors of vectors.
\* libjpeg ends the process.
LibraryError ==
  /\ failed' = at
  /\ IF IsPng THEN Over("DhtError") /\ held' = held \ {"png", "info", "fp"}
              ELSE Over("exit") /\ UNCHANGED held
  /\ UNCHANGED <<func, input, data>>

\* A std::vector cannot be made, for want of memory or because its size is
\* negative: e leaves the function, and vectors made so far are destroyed.
NoVector(e) ==
  /\ Over(e)
  /\ held' = held \cap {"fp", "png", "info", "cinfo"}
  /\ UNCHANGED <<func, input, data, failed>>

Advance(to, acquired) ==
  /\ at' = to /\ held' = held \cup acquired
  /\ UNCHANGED <<func, input, ended, failed>>

-----------------------------------------------------------------------------
Fopen ==
  /\ at = "fopen"
  /\ \/ Advance("struct", {"fp"}) /\ UNCHANGED data
     \/ Throw(IF IsReader THEN "FileNotFoundError" ELSE "DhtError", {})

\* png_create_*_struct returns null when it fails; jpeg_create_* calls the
\* error handler.
CreateStruct ==
  /\ at = "struct"
  /\ \/ IsPng /\ Advance("info", {"png"}) /\ UNCHANGED data
     \/ IsPng /\ Throw("DhtError", {"fp"})
     \/ ~IsPng /\ Advance("header", {"cinfo"}) /\ UNCHANGED data
     \/ ~IsPng /\ LibraryError

CreateInfo ==
  /\ at = "info"
  /\ \/ Advance("header", {"info"}) /\ UNCHANGED data
     \/ Throw("DhtError", {"png", "fp"})

\* Both libraries refuse an image without pixels, and one that is too large.
PassHeader ==
  /\ at = "header"
  /\ \/ /\ input.width \in 1..MaxSide /\ input.height \in 1..MaxSide
        /\ Advance("vectors", {}) /\ UNCHANGED data
     \/ LibraryError

Vectors ==
  CASE func = "readPNG"   -> {"pixels", "row_pointers", "image_data"}
    [] func = "writePNG"  -> {"row_pointers", "image_data"}
    [] func = "readJPEG"  -> {"row_buffer", "image_data"}
    [] func = "writeJPEG" -> {"row_buffer"}

\* The sizes of the vectors that hold the image: readPNG makes its pixels
\* first, and writeJPEG has a row only, which fits.
Sizes ==
  LET n == input.width * input.height IN
  CASE func = "readPNG"   -> {Wrap(n), Wrap(n * 3)}
    [] func = "writePNG"  -> {Wrap(n * 3)}
    [] func = "readJPEG"  -> {Wrap(n * Channels)}
    [] func = "writeJPEG" -> {input.width * 3}

AllocateVectors ==
  /\ at = "vectors"
  /\ \/ /\ \A n \in Sizes : n >= 0
        /\ Advance("rows", Vectors)
        /\ samples' = IF IsReader
                      THEN [i \in 1..Wrap(input.width * input.height * Stride) |-> 0] ELSE <<>>
        /\ UNCHANGED <<rowsMoved, sent, pixelsRead>>
     \/ (\E n \in Sizes : n < 0) /\ NoVector("length_error")
     \/ NoVector("bad_alloc")

\* A faulty variant: the rows of a JPEG are all put at the same place.
ReadRowInPlace ==
  LET bytes == RowBytes(input, rowsMoved, Channels) IN
  /\ at = "rows" /\ IsReader /\ rowsMoved < input.height
  /\ \/ /\ samples' = [i \in DOMAIN samples |->
                            IF i <= Len(bytes) THEN bytes[i] ELSE samples[i]]
        /\ rowsMoved' = rowsMoved + 1
        /\ UNCHANGED <<func, input, at, held, sent, pixelsRead, ended, failed>>
     \/ LibraryError

\* The library delivers a row, which goes where the function wants it: libpng
\* writes through row_pointers[y] as many bytes as the row has, readJPEG
\* copies width * channels.  A row that is not inside has no defined effect.
ReadRow ==
  LET bytes == RowBytes(input, rowsMoved, Channels)
      start == Wrap(rowsMoved * input.width * Stride)
      inside == start >= 0 /\ start + Len(bytes) <= Len(samples)
  IN  /\ at = "rows" /\ IsReader /\ rowsMoved < input.height
      /\ \/ /\ inside
            /\ samples' = [i \in DOMAIN samples |->
                                IF i \in (start + 1)..(start + Len(bytes))
                                THEN bytes[i - start] ELSE samples[i]]
            /\ rowsMoved' = rowsMoved + 1
            /\ UNCHANGED <<func, input, at, held, sent, pixelsRead, ended, failed>>
         \/ /\ ~inside
            /\ Over("undefined")
            /\ UNCHANGED <<func, input, held, data, failed>>
         \/ LibraryError

\* The pixels the writer goes through before it gives row y to the library:
\* writePNG copies all of them into image_data first, writeJPEG one row.
Copied(y) == IF IsPng THEN 1..(input.width * input.height)
             ELSE (y * input.width + 1)..(y * input.width + input.width)

\* The index of a pixel, and in writePNG also that of its bytes, is inside.
CopyInside(y) ==
  \A i \in Copied(y) :
    /\ Wrap(i - 1) \in 0..(Len(input.pixels) - 1)
    /\ IsPng => Wrap((i - 1) * 3) >= 0
                /\ Wrap((i - 1) * 3) + 2 < Wrap(input.width * input.height * 3)

SendRow ==
  /\ at = "rows" /\ ~IsReader /\ rowsMoved < input.height
  /\ \/ /\ CopyInside(rowsMoved)
        /\ sent' = Append(sent, RowBytes(input, rowsMoved, 3))
        /\ rowsMoved' = rowsMoved + 1
        /\ UNCHANGED <<func, input, at, held, samples, pixelsRead, ended, failed>>
     \/ /\ ~CopyInside(rowsMoved)
        /\ Over("undefined")
        /\ UNCHANGED <<func, input, held, data, failed>>
     \/ LibraryError

AllRowsMoved ==
  /\ at = "rows" /\ rowsMoved = input.height
  /\ Advance("finish", {}) /\ UNCHANGED data

\* png_write_end, jpeg_finish_*: may fail, except that readPNG has no such
\* call.  Then the library's objects and the file are released.
Finish ==
  /\ at = "finish"
  /\ \/ /\ at' = "convert"
        /\ held' = held \ {"png", "info", "cinfo", "fp"}
        /\ UNCHANGED <<func, input, data, ended, failed>>
     \/ func # "readPNG" /\ LibraryError

\* readJPEG allocates its pixels only here.  No index and no size overflows:
\* all rows were inside.  On return all vectors go.
Convert ==
  /\ at = "convert"
  /\ \/ /\ Over("ok") /\ held' = {}
        /\ pixelsRead' = IF IsReader
                     THEN [i \in 1..(input.width * input.height) |->
                             PixelAt(samples, (i - 1) * Stride)]
                     ELSE <<>>
        /\ UNCHANGED <<func, input, rowsMoved, samples, sent, failed>>
     \/ func = "readJPEG" /\ NoVector("bad_alloc")

-----------------------------------------------------------------------------
Finished == at = "over" /\ UNCHANGED libVars

LibNext ==
  \/ Fopen \/ CreateStruct \/ CreateInfo \/ PassHeader \/ AllocateVectors
  \/ ReadRow \/ SendRow \/ AllRowsMoved \/ Finish \/ Convert
  \/ Finished

LibSpec == LibInit /\ [][LibNext]_libVars

-----------------------------------------------------------------------------
(***************************************************************************)
(* Properties                                                              *)
(***************************************************************************)

Objects == {"fp", "png", "info", "cinfo"}

LibTypeOK ==
  /\ func \in {"readPNG", "writePNG", "readJPEG", "writeJPEG"}
  /\ at \in {"fopen", "struct", "info", "header", "vectors", "rows", "finish", "convert", "over"}
  /\ held \subseteq Objects \cup {"pixels", "row_pointers", "image_data", "row_buffer"}
  /\ rowsMoved \in 0..input.height
  /\ samples \in Seq(Sample) /\ pixelsRead \in Seq(RGB)
  /\ Len(sent) = IF IsReader THEN 0 ELSE rowsMoved
  /\ ended \in {"running", "ok", "FileNotFoundError", "DhtError", "bad_alloc",
               "length_error", "exit", "undefined"}

\* However a call returns or throws an exception of Dht, the file is closed
\* and the library's objects are destroyed.  Only the memory of the vectors
\* is lost, and only when libpng's longjmp passes over them, while rows are
\* moved (png_reader.cpp:29-33, png_writer.cpp:28-32).
OnlyJumpedVectorsLeak ==
  ended \in {"ok", "FileNotFoundError", "DhtError"} =>
    /\ held \cap Objects = {}
    /\ held # {} => failed \in {"rows", "finish"} /\ held = Vectors

\* std::bad_alloc, and std::length_error of a size that overflowed, leave the
\* library's objects and the file behind, except where readJPEG has released
\* them before it allocates its pixels.
BadAllocLeaksObjects ==
  ended \in {"bad_alloc", "length_error"} =>
    held = CASE IsPng -> {"fp", "png", "info"}
             [] func = "readJPEG" /\ rowsMoved = input.height /\ input.height > 0 -> {}
             [] OTHER -> {"fp", "cinfo"}

\* The pixels of an RGB file, of a PNG with a palette or an alpha channel
\* that was stripped, and of a grey JPEG are returned as they are, row by row.
RgbComesBack ==
  ended = "ok" /\ ((func = "readPNG" /\ Channels = 3) \/ (func = "readJPEG" /\ Channels < 4)) =>
    pixelsRead = input.pixels

\* Rows fit the space that both readers and both writers provide for them,
\* unless transparency in a PNG (tRNS) added a fourth channel that no one
\* strips, or the image has more bytes than an int counts
\* (png_reader.cpp:50-55, jpeg_reader.cpp:29-35, png_writer.cpp:38-50).
RowsFitUnlessTransparent ==
  ended = "undefined" =>
    \/ func = "readPNG" /\ Channels = 4
    \/ input.width * input.height * (IF IsReader THEN Stride ELSE 3) > INT_MAX

\* The writers give every row to the library once, in order, with the pixels
\* of that row.
RowsWrittenExactly ==
  ended = "ok" /\ ~IsReader =>
    /\ Len(sent) = input.height
    /\ FlattenSeq(sent) = FlattenSeq([i \in 1..Len(input.pixels) |-> Samples(input.pixels[i], 3)])

\* What a call acquired is released, except for these two leaks.
ResourcesReleased == OnlyJumpedVectorsLeak /\ BadAllocLeaksObjects

\* What a reader returns without an error is the file's pixels, but for a grey
\* PNG, one with a channel left over and a JPEG in CMYK; a writer passes on
\* all pixels; and what they touch is theirs, with the exceptions above.
PixelsPassThrough == RgbComesBack /\ RowsFitUnlessTransparent /\ RowsWrittenExactly

=============================================================================
