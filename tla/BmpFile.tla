-------------------------------- MODULE BmpFile --------------------------------
(***************************************************************************)
(* writeBMP() writes an image to a file and readBMP() reads a file, that   *)
(* one or one of another program.  The writer sends a header and then the  *)
(* rows, the last first, through stdio, and looks at no result; the reader *)
(* believes the header.  Both calculate sizes and indices as int.          *)
(*                                                                         *)
(* A file is its header, whole or not, and the bytes behind it.  header is *)
(* the record of the fields the reader uses, Cut (the file ends before its *)
(* 54th byte) or NoFile.                                                   *)
(*                                                                         *)
(* pc:  "create" "header" "row_data" "rows" "fclose"      in writeBMP      *)
(*      "at rest"                                         no call runs     *)
(*      "fopen" "fread" "image_data" "pixels" "decode"    in readBMP       *)
(*      "over"                                            readBMP ended    *)
(***************************************************************************)
EXTENDS CInt, Sequences

CONSTANTS Pictures,   \* images given to writeBMP: width, height, pixels
          Foreign,    \* BMP files of other programs: header and bytes
          Headers,    \* what an uninitialized header may hold
          Cut, NoFile

Byte == 0..255
Pixel == [r : Byte, g : Byte, b : Byte]
Header == [width : Ints, height : Ints, bitsPerPixel : Ints, dataOffset : Ints]

\* The offset in a header of writeBMP is an int.
ASSUME HeaderAssumption == INT_MAX >= 54
ASSUME PicturesAssumption ==
  /\ Pictures \subseteq [width : 0..INT_MAX, height : 0..INT_MAX, pixels : Seq(Pixel)]
  /\ \A p \in Pictures : Len(p.pixels) = p.width * p.height
ASSUME ForeignAssumption == \A f \in Foreign : f.header \in Headers /\ f.bytes \in Seq(Byte)
ASSUME MarkersAssumption == Cut \notin Header /\ NoFile \notin Header /\ Cut # NoFile
\* No data starts inside the header; a negative offset makes fseek fail.
ASSUME HeadersAssumption ==
  Headers \subseteq Header /\ \A h \in Headers : h.dataOffset < 0 \/ h.dataOffset >= 54

VARIABLES
  pc,
  header, bytes,  \* the file
  picture,        \* the image given to writeBMP
  y,              \* the row the writer is at
  full,           \* the disk is full, or the writer is gone
  fp,             \* FILE objects open
  hdr,            \* the header as readBMP sees it
  image_data,
  result,         \* what readBMP delivers: width, height, pixels
  outcome         \* how the last call ended

vars == <<pc, header, bytes, picture, y, full, fp, hdr, image_data, result, outcome>>
file == <<header, bytes>>
reader == <<hdr, image_data, result>>

NoPicture == [width |-> 0, height |-> 0, pixels |-> <<>>]
NoHeader == [width |-> 0, height |-> 0, bitsPerPixel |-> 0, dataOffset |-> 0]

Init ==
  /\ \/ /\ pc = "create" /\ picture \in Pictures
        /\ header = NoFile /\ bytes = <<>>
     \/ /\ pc = "at rest" /\ picture = NoPicture
        /\ \/ header = NoFile /\ bytes = <<>>
           \/ \E f \in Foreign : header = f.header /\ bytes = f.bytes
  /\ y = picture.height - 1
  /\ full = FALSE /\ fp = 0
  /\ hdr = NoHeader /\ image_data = <<>> /\ result = NoPicture
  /\ outcome = "none"

-----------------------------------------------------------------------------
\* A faulty variant: rows are not padded to four bytes.
RowSizeUnpadded(bitsPerPixel, width) == CDiv(Wrap(bitsPerPixel * width), 8)

RowSize(bitsPerPixel, width) == CDiv(Wrap(bitsPerPixel * width + 31), 32) * 4

Ends(e) == pc' = "at rest" /\ outcome' = e

-----------------------------------------------------------------------------
(***************************************************************************)
(* writeBMP                                                                *)
(***************************************************************************)

Create ==
  /\ pc = "create"
  /\ \/ /\ Ends("DhtError")
        /\ UNCHANGED <<file, fp>>
     \/ /\ header' = Cut /\ bytes' = <<>>
        /\ fp' = fp + 1
        /\ pc' = "header" /\ UNCHANGED outcome
  /\ UNCHANGED <<picture, y, full, reader>>

WriteHeader ==
  /\ pc = "header"
  /\ header' = IF full THEN header
               ELSE [width |-> picture.width, height |-> picture.height,
                     bitsPerPixel |-> 24, dataOffset |-> 54]
  /\ pc' = "row_data"
  /\ UNCHANGED <<bytes, picture, y, full, fp, reader, outcome>>

\* std::vector row_data(rowSize, 0): without memory, or with a negative size,
\* no one closes fp.
AllocateRow ==
  /\ pc = "row_data"
  /\ \/ RowSize(24, picture.width) >= 0 /\ pc' = "rows" /\ UNCHANGED outcome
     \/ RowSize(24, picture.width) < 0 /\ Ends("length_error")
     \/ Ends("bad_alloc")
  /\ UNCHANGED <<file, picture, y, full, fp, reader>>

\* Every pixel of row r is in pixels, and its bytes are in row_data.
RowInside(r) ==
  LET w == picture.width IN
  \A x \in 0..(w - 1) :
    /\ Wrap(r * w + x) \in 0..(Len(picture.pixels) - 1)
    /\ {Wrap(x * 3), Wrap(x * 3 + 1), Wrap(x * 3 + 2)} \subseteq 0..(RowSize(24, w) - 1)

\* row_data of row r: blue, green, red of each pixel, then zeros.
RowData(r) ==
  LET w == picture.width
      color(i) == picture.pixels[Wrap(r * w + (i - 1) \div 3) + 1]
  IN  [i \in 1..RowSize(24, w) |->
         CASE i > 3 * w -> 0
           [] i <= 3 * w /\ i % 3 = 1 -> color(i).b
           [] i <= 3 * w /\ i % 3 = 2 -> color(i).g
           [] OTHER -> color(i).r]

\* A faulty variant: rows go from the top down.
WriteRowTopDown ==
  /\ pc = "rows" /\ y >= 0 /\ RowInside(y)
  /\ bytes' = IF full THEN bytes ELSE bytes \o RowData(picture.height - 1 - y)
  /\ y' = y - 1
  /\ UNCHANGED <<pc, header, picture, full, fp, reader, outcome>>

\* A row with an index that is not inside has no defined effect.
WriteRow ==
  /\ pc = "rows" /\ y >= 0
  /\ \/ /\ RowInside(y)
        /\ bytes' = IF full THEN bytes ELSE bytes \o RowData(y)
        /\ y' = y - 1
        /\ UNCHANGED <<pc, outcome>>
     \/ /\ ~RowInside(y)
        /\ pc' = "over" /\ outcome' = "undefined write"
        /\ UNCHANGED <<bytes, y>>
  /\ UNCHANGED <<header, picture, full, fp, reader>>

RowsDone ==
  /\ pc = "rows" /\ y < 0
  /\ pc' = "fclose"
  /\ UNCHANGED <<file, picture, y, full, fp, reader, outcome>>

\* A faulty variant: the file is not closed.
CloseForgotten ==
  /\ pc = "fclose"
  /\ Ends("ok")
  /\ UNCHANGED <<file, picture, y, full, fp, reader>>

Close ==
  /\ pc = "fclose"
  /\ fp' = fp - 1
  /\ Ends("ok")
  /\ UNCHANGED <<file, picture, y, full, reader>>

Writing == pc \in {"header", "row_data", "rows", "fclose"}

\* Part of what was written so far stays in the file.
Keep ==
  \/ header' = Cut /\ bytes' = <<>>
  \/ /\ header # Cut /\ UNCHANGED header
     /\ \E n \in 0..Len(bytes) : bytes' = SubSeq(bytes, 1, n)

\* The disk is full; neither fwrite nor fclose is checked.
DiskFull ==
  /\ Writing /\ ~full
  /\ full' = TRUE
  /\ Keep
  /\ UNCHANGED <<pc, picture, y, fp, reader, outcome>>

\* The process is killed: what stdio had not passed on is lost.
Crash ==
  /\ Writing
  /\ full' = TRUE /\ fp' = 0
  /\ Keep
  /\ Ends("killed")
  /\ UNCHANGED <<picture, y, reader>>

-----------------------------------------------------------------------------
(***************************************************************************)
(* readBMP                                                                 *)
(***************************************************************************)

\* Another call starts: fp counts its FILE objects.
BeginRead ==
  /\ pc = "at rest"
  /\ pc' = "fopen" /\ outcome' = "none" /\ fp' = 0
  /\ UNCHANGED <<file, picture, y, full, reader>>

Throws(e) == pc' = "over" /\ outcome' = e

Open ==
  /\ pc = "fopen"
  /\ \/ header = NoFile /\ Throws("FileNotFoundError") /\ UNCHANGED fp
     \/ header # NoFile /\ fp' = fp + 1 /\ pc' = "fread" /\ UNCHANGED outcome
  /\ UNCHANGED <<file, picture, y, full, reader>>

\* fread(header, 1, 54, fp), unchecked: of a shorter file the fields hold
\* what was on the stack.
ReadHeader ==
  /\ pc = "fread"
  /\ IF header = Cut THEN hdr' \in Headers ELSE hdr' = header
  /\ pc' = "image_data"
  /\ UNCHANGED <<file, picture, y, full, fp, image_data, result, outcome>>

DataSize(h) == Wrap(h.height * RowSize(h.bitsPerPixel, h.width))

\* The byte of the file that fills image_data[i - 1]; where fseek fails, the
\* file stays where reading the header left it.
FromFile(h, i) == i + (IF h.dataOffset < 0 THEN 0 ELSE h.dataOffset - 54)

\* image_data(height * rowSize), filled with zeros, is read from dataOffset,
\* and the file closed.  A negative size is too large for a std::vector, and
\* then, or without memory, no one closes fp.
ReadData ==
  /\ pc = "image_data"
  /\ \/ /\ DataSize(hdr) >= 0
        /\ image_data' = [i \in 1..DataSize(hdr) |->
                            IF FromFile(hdr, i) <= Len(bytes) THEN bytes[FromFile(hdr, i)] ELSE 0]
        /\ fp' = fp - 1
        /\ pc' = "pixels" /\ UNCHANGED outcome
     \/ DataSize(hdr) < 0 /\ Throws("length_error") /\ UNCHANGED <<image_data, fp>>
     \/ Throws("bad_alloc") /\ UNCHANGED <<image_data, fp>>
  /\ UNCHANGED <<file, picture, y, full, hdr, result>>

PixelCount(h) == Wrap(h.width * h.height)

\* std::vector<RGB> pixels(width * height), all of them black.
AllocatePixels ==
  /\ pc = "pixels"
  /\ \/ /\ PixelCount(hdr) >= 0
        /\ result' = [width |-> hdr.width, height |-> hdr.height,
                      pixels |-> [i \in 1..PixelCount(hdr) |-> [r |-> 0, g |-> 0, b |-> 0]]]
        /\ pc' = "decode" /\ UNCHANGED outcome
     \/ PixelCount(hdr) < 0 /\ Throws("length_error") /\ UNCHANGED result
     \/ Throws("bad_alloc") /\ UNCHANGED result
  /\ UNCHANGED <<file, picture, y, full, fp, hdr, image_data>>

\* The index idx of row yy and column x.
Index(h, yy, x) ==
  Wrap(yy * RowSize(h.bitsPerPixel, h.width) + x * CDiv(h.bitsPerPixel, 8))

\* The bytes of image_data that the pixel at idx is made of.
Touched(h, idx) == IF h.bitsPerPixel >= 24 THEN {idx, idx + 1, idx + 2} ELSE {idx}

\* Every byte the loop reads is in image_data, and every pixel it sets, in
\* pixels.
Inside(h) ==
  \A yy \in 0..(h.height - 1), x \in 0..(h.width - 1) :
    /\ \A i \in Touched(h, Index(h, yy, x)) : i \in 0..(Len(image_data) - 1)
    /\ Wrap((h.height - 1 - yy) * h.width + x) \in 0..(Len(result.pixels) - 1)

At(i) == image_data[i + 1]

ColorAt(h, idx) ==
  IF h.bitsPerPixel >= 24
  THEN [r |-> At(idx + 2), g |-> At(idx + 1), b |-> At(idx)]
  ELSE [r |-> At(idx), g |-> At(idx), b |-> At(idx)]

\* Row yy of the data is row height - 1 - yy of the image.  A loop that leaves
\* image_data or pixels has no defined result; one that does not sets every
\* pixel once, or has no rows or columns to go through.
Decode ==
  LET w == hdr.width
      row(i) == hdr.height - 1 - (i - 1) \div w
      column(i) == (i - 1) % w
  IN  /\ pc = "decode"
      /\ IF Inside(hdr)
         THEN /\ result' = IF w <= 0 \/ hdr.height <= 0 THEN result
                           ELSE [result EXCEPT !.pixels =
                                   [i \in DOMAIN @ |-> ColorAt(hdr, Index(hdr, row(i), column(i)))]]
              /\ Throws("ok")
         ELSE Throws("undefined") /\ UNCHANGED result
      /\ UNCHANGED <<file, picture, y, full, fp, hdr, image_data>>

-----------------------------------------------------------------------------
Stopped == pc = "over" /\ UNCHANGED vars

Next ==
  \/ Create \/ WriteHeader \/ AllocateRow \/ WriteRow \/ RowsDone \/ Close
  \/ DiskFull \/ Crash
  \/ BeginRead \/ Open \/ ReadHeader \/ ReadData \/ AllocatePixels \/ Decode
  \/ Stopped

Spec == Init /\ [][Next]_vars

-----------------------------------------------------------------------------
(***************************************************************************)
(* Properties                                                              *)
(***************************************************************************)

TypeOK ==
  /\ pc \in {"create", "header", "row_data", "rows", "fclose", "at rest",
             "fopen", "fread", "image_data", "pixels", "decode", "over"}
  /\ header \in Header \cup {Cut, NoFile} /\ bytes \in Seq(Byte)
  /\ y \in -1..(picture.height - 1)
  /\ full \in BOOLEAN /\ fp \in 0..1
  /\ hdr \in Header /\ image_data \in Seq(Byte)
  /\ result.width \in Int /\ result.height \in Int
  /\ result.pixels \in Seq(Pixel)
  /\ outcome \in {"none", "ok", "DhtError", "FileNotFoundError", "bad_alloc",
                  "length_error", "killed", "undefined", "undefined write"}

\* The file is what writeBMP made of picture, up to the row it is at, and
\* nothing of it was lost.
WrittenWhole == picture # NoPicture /\ header \in Header /\ ~full /\ y = -1

ReadOk == pc = "over" /\ outcome = "ok"

\* The sizes that both functions calculate are ints: bits of a row, bytes of
\* all rows, and pixels.
SizesFit(bitsPerPixel, width, height) ==
  /\ bitsPerPixel * width + 31 <= INT_MAX
  /\ height * RowSize(bitsPerPixel, width) <= INT_MAX
  /\ width * height <= INT_MAX

PictureFits == SizesFit(24, picture.width, picture.height)

\* An image whose sizes fit an int and whose rows were all written is read
\* back pixel by pixel, whatever its width and the padding of its rows
\* (bmp_writer.cpp:31-42, bmp_reader.cpp:27-38).
BmpComesBack == PictureFits /\ WrittenWhole /\ ReadOk => result = picture

\* A file that a crash, a full disk or std::bad_alloc cut short is read without an
\* error.  If its header is whole, it is the image up to a row: the rows below
\* are intact, and those above black, which were to be written later.
CutFileLosesTopRows ==
  LET w == picture.width
      same(r) == \A x \in 1..w : result.pixels[r * w + x] = picture.pixels[r * w + x]
      black(r) == \A x \in 1..w : result.pixels[r * w + x] = [r |-> 0, g |-> 0, b |-> 0]
  IN  PictureFits /\ picture # NoPicture /\ header \in Header /\ ReadOk =>
        /\ result.width = w /\ result.height = picture.height
        /\ \E r \in 0..picture.height :
             /\ \A above \in 0..(r - 2) : black(above)
             /\ \A below \in r..(picture.height - 1) : same(below)

\* What a file holds of an image comes back, row by row.
RowsComeBack == BmpComesBack /\ CutFileLosesTopRows

\* The reader's loop stays within image_data and pixels for every file with a
\* positive depth, whatever its width, height, depth and offset and however
\* much of it is missing, and the writer's within its row, unless one of the
\* sizes does not fit an int (bmp_reader.cpp:21-32, bmp_writer.cpp:15-39).
StaysInside ==
  /\ outcome = "undefined" =>
       hdr.bitsPerPixel < 1 \/ ~SizesFit(hdr.bitsPerPixel, hdr.width, hdr.height)
  /\ outcome = "undefined write" => ~PictureFits

\* The file is closed however the two functions end, unless a std::vector
\* cannot be made while it is open: for want of memory, or of a negative
\* size, as in a file whose height is negative because its rows go from the
\* top down, or where the size overflowed.
FileClosed ==
  pc \in {"at rest", "over"} /\ fp > 0 =>
    \/ outcome \in {"bad_alloc", "undefined write"}
    \/ outcome = "length_error" /\ (DataSize(hdr) < 0 \/ RowSize(24, picture.width) < 0)

=============================================================================
