------------------------------ MODULE ImageProofs ------------------------------
(***************************************************************************)
(* Proofs about the readers and writers of images, for every size and      *)
(* content: of BMP files, and of PNG and JPEG files over their libraries.  *)
(***************************************************************************)
EXTENDS BmpFile, ImageLibs, SequenceTheorems, WellFoundedInduction, TLAPS

-----------------------------------------------------------------------------
(***************************************************************************)
(* The type int.                                                           *)
(***************************************************************************)

\* What % computes when it takes away no or one modulus, or adds one.
LEMMA Remainder ==
  ASSUME NEW n \in Int, NEW M \in Nat \ {0}
  PROVE  /\ n % M \in 0..(M - 1)
         /\ n >= 0 /\ n < M => n % M = n
         /\ n < 0 /\ n + M >= 0 => n % M = n + M
OBVIOUS

\* An int that does not overflow is exact, and one that overflows, but not
\* beyond twice the largest int, is negative.
LEMMA WrapIs ==
  ASSUME NEW n \in Int
  PROVE  /\ Wrap(n) \in Int /\ Wrap(n) \in Ints
         /\ n \in Ints => Wrap(n) = n
         /\ n > INT_MAX /\ n <= 2 * INT_MAX + 1 => Wrap(n) < 0
<1> DEFINE M == 2 * (INT_MAX + 1)
<1>1. INT_MAX \in Nat /\ M \in Nat \ {0} /\ M = 2 * INT_MAX + 2
  BY IntMaxAssumption
<1>2. Wrap(n) = IF n % M <= INT_MAX THEN n % M ELSE (n % M) - M
  BY DEF Wrap
<1> HIDE DEF M
<1>3. /\ n % M \in 0..(M - 1)
      /\ n >= 0 /\ n < M => n % M = n
      /\ n < 0 /\ n + M >= 0 => n % M = n + M
  BY <1>1, Remainder
<1> DEFINE m == n % M
<1> HIDE DEF m
<1>4. m \in 0..(M - 1) /\ (n >= 0 /\ n < M => m = n) /\ (n < 0 /\ n + M >= 0 => m = n + M)
  BY <1>3 DEF m
<1>5. Wrap(n) = IF m <= INT_MAX THEN m ELSE m - M
  BY <1>2 DEF m
<1> QED
  BY <1>1, <1>4, <1>5 DEF Ints

-----------------------------------------------------------------------------
(***************************************************************************)
(* FILE objects.                                                           *)
(***************************************************************************)

\* A negative size of the reader's image_data, and of the writer's row_data.
NegativeSize(h) == DataSize(h) < 0
NegativeRow(p) == RowSize(24, p.width) < 0

\* Where the file is open, and how it may be left open.
OpenWhere ==
  /\ pc \in {"create", "header", "row_data", "rows", "fclose", "at rest",
             "fopen", "fread", "image_data", "pixels", "decode", "over"}
  /\ pc \in {"header", "row_data", "rows", "fclose", "fread", "image_data"} => fp = 1
  /\ pc \in {"create", "fopen", "pixels", "decode"} => fp = 0
  /\ pc = "at rest" => \/ fp = 0
                       \/ outcome = "bad_alloc"
                       \/ outcome = "length_error" /\ NegativeRow(picture)
  /\ pc = "over" => \/ fp = 0
                    \/ outcome \in {"bad_alloc", "undefined write"}
                    \/ outcome = "length_error" /\ NegativeSize(hdr)

\* Every step opens and closes the file where it should.
LEMMA OpenWhereKept ==
  ASSUME OpenWhere, [Next]_vars
  PROVE  OpenWhere'
<1>0. 0 + 1 = 1 /\ 1 - 1 = 0
  OBVIOUS
<1> USE DEF OpenWhere, Ends, Throws, file, reader
<1>1. CASE UNCHANGED vars
  BY <1>1 DEF vars, NegativeSize, DataSize, NegativeRow
<1>2. CASE Create \/ WriteHeader \/ AllocateRow \/ WriteRow \/ RowsDone \/ Close
  <2>1. CASE Create
    BY <1>0, <2>1, Zenon DEF Create
  <2>2. CASE WriteHeader
    BY <2>2 DEF WriteHeader
  <2>3. CASE AllocateRow
    <3>1. pc = "row_data" /\ fp = 1 /\ fp' = fp /\ picture' = picture
      BY <2>3 DEF AllocateRow
    <3>2. \/ pc' = "rows"
          \/ pc' = "at rest" /\ outcome' = "length_error" /\ NegativeRow(picture)
          \/ pc' = "at rest" /\ outcome' = "bad_alloc"
      BY <2>3, Zenon DEF AllocateRow, NegativeRow
    <3>3. NegativeRow(picture)' <=> NegativeRow(picture)
      BY <3>1, Zenon DEF NegativeRow
    <3> QED
      BY <3>1, <3>2, <3>3, Zenon
  <2>4. CASE WriteRow
    BY <2>4 DEF WriteRow
  <2>5. CASE RowsDone
    BY <2>5 DEF RowsDone
  <2>6. CASE Close
    BY <1>0, <2>6, Zenon DEF Close
  <2> QED
    BY <1>2, <2>1, <2>2, <2>3, <2>4, <2>5, <2>6
<1>3. CASE DiskFull \/ Crash
  BY <1>3 DEF DiskFull, Crash, Writing
<1>4. CASE BeginRead \/ Open \/ ReadHeader
  <2>1. CASE BeginRead
    BY <2>1 DEF BeginRead
  <2>2. CASE Open
    BY <1>0, <2>2, Zenon DEF Open
  <2>3. CASE ReadHeader
    BY <2>3 DEF ReadHeader
  <2> QED
    BY <1>4, <2>1, <2>2, <2>3
<1>5. CASE ReadData
  <2>1. pc = "image_data" /\ fp = 1 /\ hdr' = hdr
    BY <1>5 DEF ReadData
  <2>2. \/ pc' = "pixels" /\ fp' = fp - 1
        \/ pc' = "over" /\ outcome' = "length_error" /\ NegativeSize(hdr)
        \/ pc' = "over" /\ outcome' = "bad_alloc"
    BY <1>5, Zenon DEF ReadData, NegativeSize
  <2>3. NegativeSize(hdr)' <=> NegativeSize(hdr)
    BY <2>1, Zenon DEF NegativeSize, DataSize
  <2> QED
    BY <1>0, <2>1, <2>2, <2>3, Zenon
<1>6. CASE AllocatePixels \/ Decode
  BY <1>6 DEF AllocatePixels, Decode
<1> QED
  BY <1>1, <1>2, <1>3, <1>4, <1>5, <1>6, Zenon DEF Next, Stopped

\* However writeBMP and readBMP end, killed or on a full disk too, the file is
\* closed, unless a std::vector could not be made while it was open.
THEOREM FileIsClosed == Spec => []FileClosed
<1>1. Init => OpenWhere
  BY DEF Init, OpenWhere
<1>2. OpenWhere => FileClosed
  <2>1. ~(0 > 0)
    OBVIOUS
  <2> QED
    BY <2>1, Zenon DEF OpenWhere, FileClosed, NegativeSize, NegativeRow
<1> QED
  BY <1>1, <1>2, OpenWhereKept, PTL DEF Spec

-----------------------------------------------------------------------------
(***************************************************************************)
(* Rows and bytes.                                                         *)
(***************************************************************************)

\* What \div computes.
LEMMA Quotient ==
  ASSUME NEW n \in Nat, NEW k \in Nat \ {0}
  PROVE  n \div k \in Nat /\ (n \div k) * k <= n /\ n < (n \div k) * k + k
OBVIOUS

\* A padded row has room for its pixels, and a row with pixels is not empty.
LEMMA RowHasRoom ==
  ASSUME NEW bpp \in Nat \ {0}, NEW w \in Nat, bpp * w + 31 <= INT_MAX
  PROVE  /\ RowSize(bpp, w) \in Nat
         /\ w * (bpp \div 8) <= RowSize(bpp, w)
         /\ w > 0 => RowSize(bpp, w) >= 4
<1> DEFINE n == bpp * w + 31
           q == n \div 32
           B == bpp \div 8
<1>1. bpp * w \in Nat /\ n \in Nat
  OBVIOUS
<1>2. q \in Nat /\ q * 32 <= n /\ n < q * 32 + 32
  BY <1>1
<1>3. B \in Nat /\ B * 8 <= bpp
  OBVIOUS
<1>4. RowSize(bpp, w) = q * 4
  <2>1. Wrap(n) = n
    <3> HIDE DEF n
    <3>1. n \in Ints
      BY <1>1, IntMaxAssumption DEF Ints, n
    <3> QED
      BY <1>1, <3>1, WrapIs
  <2> QED
    BY <1>1, <2>1 DEF RowSize, CDiv
<1> HIDE DEF q, B
<1>5. bpp * w <= q * 32
  BY <1>1, <1>2
<1>6. w * B * 8 <= bpp * w
  <2>1. (bpp - B * 8) * w >= 0
    BY <1>3
  <2> QED
    BY <1>3, <2>1
<1>7. w > 0 => bpp * w >= 1
  OBVIOUS
<1>8. w * B \in Nat
  BY <1>3
<1>9. w * B <= q * 4
  BY <1>1, <1>2, <1>5, <1>6, <1>8
<1> QED
  BY <1>1, <1>2, <1>4, <1>5, <1>7, <1>9 DEF B

\* The bytes of a pixel are in its row, and the row is in the data.
LEMMA PixelInside ==
  ASSUME NEW bpp \in Nat \ {0}, NEW w \in Nat, NEW h \in Nat,
         NEW yy \in 0..(h - 1), NEW x \in 0..(w - 1), NEW e \in 0..2,
         bpp < 24 => e = 0, bpp * w + 31 <= INT_MAX
  PROVE  /\ x * (bpp \div 8) + e \in 0..(RowSize(bpp, w) - 1)
         /\ yy * RowSize(bpp, w) + x * (bpp \div 8) + e \in 0..(h * RowSize(bpp, w) - 1)
<1> DEFINE B == bpp \div 8
           RS == RowSize(bpp, w)
<1>1. RS \in Nat /\ w * B <= RS /\ RS >= 4
  BY RowHasRoom
<1>2. B \in Nat /\ (bpp >= 24 => B >= 3)
  OBVIOUS
<1> HIDE DEF B, RS
<1>3. x * B \in Nat /\ x * B + B <= w * B
  <2>1. (w - 1 - x) * B >= 0
    BY <1>2
  <2> QED
    BY <1>2, <2>1
<1>4. x * B + e <= RS - 1
  <2>1. CASE bpp >= 24
    BY <1>1, <1>2, <1>3, <2>1
  <2>2. CASE bpp < 24 /\ B >= 1
    BY <1>1, <1>2, <1>3, <2>2
  <2>3. CASE B = 0
    BY <1>1, <1>2, <2>3
  <2> QED
    BY <1>2, <2>1, <2>2, <2>3
<1>5. yy * RS \in Nat /\ yy * RS + RS <= h * RS
  <2>1. (h - 1 - yy) * RS >= 0
    BY <1>1
  <2> QED
    BY <1>1, <2>1
<1> QED
  BY <1>1, <1>3, <1>4, <1>5 DEF B, RS

-----------------------------------------------------------------------------
(***************************************************************************)
(* The file that writeBMP leaves.                                          *)
(***************************************************************************)

PictureType(p) ==
  /\ p \in [width : 0..INT_MAX, height : 0..INT_MAX, pixels : Seq(Pixel)]
  /\ Len(p.pixels) = p.width * p.height

\* An image whose sizes fit an int.
IsPicture(p) ==
  /\ p \in [width : Nat, height : Nat, pixels : Seq(Pixel)]
  /\ Len(p.pixels) = p.width * p.height
  /\ SizesFit(24, p.width, p.height)

\* Bytes in a row of p's file.
RowStride(p) == RowSize(24, p.width)

\* Byte i of row r.
RowByte(p, r, i) ==
  LET c == p.pixels[r * p.width + (i - 1) \div 3 + 1]
  IN  IF i > 3 * p.width THEN 0
      ELSE IF i % 3 = 1 THEN c.b
      ELSE IF i % 3 = 2 THEN c.g
      ELSE c.r

\* Byte j behind the header.
FileByte(p, j) ==
  RowByte(p, p.height - 1 - (j - 1) \div RowStride(p), ((j - 1) % RowStride(p)) + 1)

HeaderOf(p) ==
  [width |-> p.width, height |-> p.height, bitsPerPixel |-> 24, dataOffset |-> 54]

HoldsRows(p, bs) == \A j \in 1..Len(bs) : bs[j] = FileByte(p, j)

\* The rows from h - 1 down to yy + 1 are in a file that lost nothing, and a
\* start of them is in any other.
UpToRow(p, bs, yy, lossy) ==
  /\ Len(bs) <= (p.height - 1 - yy) * RowStride(p)
  /\ ~lossy => Len(bs) = (p.height - 1 - yy) * RowStride(p)

FileInv ==
  /\ PictureType(picture)
  /\ y \in Int /\ y >= -1 /\ y < picture.height
  /\ header \in Header \cup {Cut, NoFile}
  /\ pc \in {"create", "header", "row_data"} => y = picture.height - 1
  /\ PictureFits => bytes \in Seq(Byte)
  /\ PictureFits /\ picture # NoPicture =>
       /\ header \in {Cut, NoFile, HeaderOf(picture)}
       /\ HoldsRows(picture, bytes)
       /\ UpToRow(picture, bytes, y, full)

\* A picture that fits is one.
LEMMA FittingPicture ==
  ASSUME PictureType(picture), PictureFits
  PROVE  IsPicture(picture)
<1>1. picture \in [width : Nat, height : Nat, pixels : Seq(Pixel)]
  BY IntMaxAssumption DEF PictureType
<1> QED
  BY <1>1, Zenon DEF PictureType, PictureFits, IsPicture

\* The rows of an image have no negative length, and have room for its pixels.
LEMMA StrideOfPicture ==
  ASSUME NEW p, IsPicture(p)
  PROVE  /\ RowStride(p) \in Nat
         /\ 3 * p.width <= RowStride(p)
         /\ p.width > 0 => RowStride(p) >= 4
<1>1. p.width \in Nat /\ 24 \div 8 = 3 /\ 24 * p.width + 31 <= INT_MAX
  BY DEF IsPicture, SizesFit
<1>2. RowSize(24, p.width) \in Nat /\ p.width * (24 \div 8) <= RowSize(24, p.width)
      /\ (p.width > 0 => RowSize(24, p.width) >= 4)
  <2>1. 24 \in Nat \ {0}
    OBVIOUS
  <2> QED
    BY <1>1, <2>1, RowHasRoom, Zenon
<1> QED
  BY <1>1, <1>2 DEF RowStride

\* row_data is made of bytes of the row's own pixels, and zeros.
LEMMA RowByByte ==
  ASSUME NEW p, IsPicture(p), NEW r \in 0..(p.height - 1), NEW i \in 1..RowStride(p)
  PROVE  RowByte(p, r, i) \in Byte
<1> DEFINE w == p.width
           h == p.height
           k == r * w + (i - 1) \div 3 + 1
<1>1. w \in Nat /\ h \in Nat /\ p.pixels \in Seq(Pixel) /\ Len(p.pixels) = w * h
  BY DEF IsPicture
<1>2. RowStride(p) \in Nat
  BY StrideOfPicture
<1>3. CASE i > 3 * w
  <2>1. 0 \in Byte
    BY DEF Byte
  <2> QED
    BY <1>3, <2>1, Zenon DEF RowByte
<1>4. CASE ~(i > 3 * w)
  <2>1. (i - 1) \div 3 \in 0..(w - 1)
    BY <1>1, <1>2, <1>4
  <2>2. r * w \in Nat /\ r * w + w <= w * h
    <3> HIDE DEF w, h
    <3>1. (h - 1 - r) * w >= 0
      BY <1>1 DEF h
    <3> QED
      BY <1>1, <3>1 DEF h
  <2>3. k \in 1..(w * h)
    <3> DEFINE c == (i - 1) \div 3
               m == r * w
               n == w * h
    <3>1. n \in Nat /\ c \in 0..(w - 1) /\ m \in Nat /\ m + w <= n
      BY <1>1, <2>1, <2>2
    <3> HIDE DEF c, m, n, w
    <3>2. m + c + 1 \in 1..n
      BY <1>1, <3>1
    <3> QED
      BY <3>2 DEF c, m, n, w
  <2>4. p.pixels[k] \in Pixel
    BY <1>1, <2>3
  <2> QED
    BY <1>4, <2>4 DEF RowByte, Pixel
<1> QED
  BY <1>3, <1>4

\* The number of a pixel of row r does not overflow.
LEMMA PixelNumber ==
  ASSUME NEW p, IsPicture(p), NEW r \in 0..(p.height - 1)
  PROVE  /\ \A x \in 0..(p.width - 1) :
              /\ Wrap(r * p.width + x) = r * p.width + x
              /\ r * p.width + x \in 0..(Len(p.pixels) - 1)
         /\ \A i \in 1..RowStride(p) : i <= 3 * p.width =>
              Wrap(r * p.width + (i - 1) \div 3) + 1 = r * p.width + (i - 1) \div 3 + 1
<1> DEFINE w == p.width
           h == p.height
           m == r * w
           n == w * h
<1>1. w \in Nat /\ h \in Nat /\ Len(p.pixels) = n /\ n <= INT_MAX
  BY DEF IsPicture, SizesFit
<1>2. RowStride(p) \in Nat
  BY StrideOfPicture
<1>3. m \in Nat /\ n \in Nat /\ m + w <= n
  <2> HIDE DEF w, h
  <2>1. (h - 1 - r) * w >= 0
    BY <1>1 DEF h
  <2> QED
    BY <1>1, <2>1 DEF h
<1> HIDE DEF m, n
<1>4. ASSUME NEW x \in 0..(w - 1)
      PROVE  Wrap(m + x) = m + x /\ m + x \in 0..(n - 1) /\ m + x \in Int
  <2>1. m + x \in 0..(n - 1) /\ m + x \in Int
    BY <1>1, <1>3
  <2>2. m + x \in Ints
    BY <1>1, <1>3, <2>1, IntMaxAssumption DEF Ints
  <2> QED
    BY <2>1, <2>2, WrapIs
<1>5. ASSUME NEW i \in 1..RowStride(p), i <= 3 * w
      PROVE  Wrap(m + (i - 1) \div 3) + 1 = m + (i - 1) \div 3 + 1
  <2>1. (i - 1) \div 3 \in 0..(w - 1)
    BY <1>1, <1>2, <1>5
  <2> QED
    BY <1>4, <2>1, Zenon
<1> QED
  BY <1>1, <1>4, <1>5, Zenon DEF m

\* What fwrite leaves behind the bytes of a file.
LEMMA Appended ==
  ASSUME NEW s \in Seq(Byte), NEW t \in Seq(Byte)
  PROVE  /\ s \o t \in Seq(Byte)
         /\ Len(s \o t) = Len(s) + Len(t)
         /\ \A j \in 1..Len(s) : (s \o t)[j] = s[j]
         /\ \A j \in Int : j > Len(s) /\ j <= Len(s) + Len(t) =>
                             (s \o t)[j] = t[j - Len(s)]
OBVIOUS

\* A row_data vector of n bytes is a sequence.
LEMMA BytesInRow ==
  ASSUME NEW n \in Nat, NEW f \in [1..n -> Byte]
  PROVE  f \in Seq(Byte) /\ Len(f) = n
OBVIOUS

\* fwrite of row_data adds the row that follows, in the order of the file.
LEMMA RowAppended ==
  ASSUME NEW p, IsPicture(p), NEW yy \in 0..(p.height - 1), NEW bs \in Seq(Byte), NEW rd,
         HoldsRows(p, bs), Len(bs) = (p.height - 1 - yy) * RowStride(p),
         rd = [i \in 1..RowStride(p) |-> RowByte(p, yy, i)]
  PROVE  /\ bs \o rd \in Seq(Byte)
         /\ Len(bs \o rd) = (p.height - 1 - (yy - 1)) * RowStride(p)
         /\ HoldsRows(p, bs \o rd)
<1> DEFINE S == RowStride(p)
           h == p.height
           n == h - 1 - yy
           b == n * S
<1>1. S \in Nat /\ h \in Nat /\ n \in Nat
  <2>1. h \in Nat /\ yy \in 0..(h - 1)
    BY DEF IsPicture
  <2>2. n \in Nat
    BY <2>1
  <2>3. S \in Nat
    BY StrideOfPicture, Zenon
  <2> QED
    BY <2>1, <2>2, <2>3, Zenon
<1>2. \A i \in 1..S : RowByte(p, yy, i) \in Byte
  BY RowByByte
<1>3. rd \in Seq(Byte) /\ Len(rd) = S
  <2> HIDE DEF S
  <2>1. rd \in [1..S -> Byte]
    BY <1>2, Zenon DEF S
  <2> QED
    BY <1>1, <2>1, BytesInRow, Zenon
<1>4. Len(bs) = b
  OBVIOUS
<1>5. n * S + S = (h - 1 - (yy - 1)) * S
  <2>1. h - 1 - (yy - 1) = n + 1
    BY <1>1
  <2> HIDE DEF n, S
  <2> QED
    BY <1>1, <2>1
<1>6. p.height - 1 - n = yy
  BY <1>1
<1> HIDE DEF b
<1>7. b \in Nat
  BY <1>1, <1>4
<1>8. bs \o rd \in Seq(Byte) /\ Len(bs \o rd) = b + S
  BY <1>3, <1>4, Appended, Zenon
<1>9. ASSUME NEW j \in 1..(b + S)
      PROVE  (bs \o rd)[j] = FileByte(p, j)
  <2>0. j \in Int
    BY <1>1, <1>7
  <2>1. CASE j <= b
    <3>1. j \in 1..Len(bs)
      BY <1>1, <1>4, <1>7, <2>1
    <3>2. (bs \o rd)[j] = bs[j]
      BY <1>3, <3>1, Appended, Zenon
    <3> QED
      BY <3>1, <3>2 DEF HoldsRows
  <2>2. CASE j > b
    <3> DEFINE e == j - 1 - b
    <3> HIDE DEF S, n, h
    <3>1. e \in 0..(S - 1) /\ j - 1 = b + e /\ e + 1 = j - b /\ e + 1 \in 1..S
      BY <1>1, <1>7, <2>2
    <3>2. S \in Nat \ {0}
      BY <1>1, <3>1
    <3>3. (bs \o rd)[j] = rd[j - b]
      <4>1. j > b /\ j <= b + S
        BY <1>1, <1>7, <2>2
      <4>2. j > Len(bs) /\ j <= Len(bs) + Len(rd)
        BY <1>3, <1>4, <4>1, Zenon
      <4>3. (bs \o rd)[j] = rd[j - Len(bs)]
        BY <1>3, <2>0, <4>2, Appended, Zenon
      <4> QED
        BY <1>4, <4>3, Zenon
    <3> HIDE DEF e
    <3>4. rd[e + 1] = RowByte(p, yy, e + 1)
      BY <3>1 DEF S
    <3>5. (n * S + e) \div S = n /\ (n * S + e) % S = e
      BY <1>1, <3>1, <3>2
    <3>6. (j - 1) \div S = n /\ (j - 1) % S = e
      BY <3>1, <3>5 DEF b
    <3> QED
      BY <1>6, <3>1, <3>3, <3>4, <3>6 DEF FileByte, S
  <2>3. j <= b \/ j > b
    BY <1>7, <2>0
  <2> QED
    BY <2>1, <2>2, <2>3, Zenon
<1> QED
  BY <1>5, <1>8, <1>9 DEF HoldsRows, b

\* A file that loses its end, or is created anew, holds a start of the rows.
LEMMA StartKept ==
  ASSUME NEW p, NEW bs \in Seq(Byte), NEW n \in 0..Len(bs), HoldsRows(p, bs)
  PROVE  /\ SubSeq(bs, 1, n) \in Seq(Byte) /\ Len(SubSeq(bs, 1, n)) = n
         /\ HoldsRows(p, SubSeq(bs, 1, n))
<1>1. SubSeq(bs, 1, n) \in Seq(Byte) /\ Len(SubSeq(bs, 1, n)) = n
      /\ \A j \in 1..n : SubSeq(bs, 1, n)[j] = bs[j]
  OBVIOUS
<1>2. \A j \in 1..n : j \in 1..Len(bs)
  OBVIOUS
<1> QED
  BY <1>1, <1>2 DEF HoldsRows

\* An empty file holds the rows of any picture, as far as it goes.
LEMMA NothingWritten ==
  ASSUME NEW p
  PROVE  <<>> \in Seq(Byte) /\ Len(<<>>) = 0 /\ HoldsRows(p, <<>>)
<1>1. <<>> \in Seq(Byte) /\ Len(<<>>) = 0 /\ 1..0 = {}
  OBVIOUS
<1> QED
  BY <1>1, Zenon DEF HoldsRows

\* What Keep leaves in the file.
LEMMA KeepKeeps ==
  ASSUME FileInv, Keep, picture' = picture, y' = y, full' = TRUE,
         pc' \in {"create", "header", "row_data"} => pc' = pc
  PROVE  FileInv'
<1> DEFINE S == RowStride(picture)
           n == picture.height - 1 - y
<1>0. PictureFits' <=> PictureFits
  BY Zenon DEF PictureFits, SizesFit
<1>X. CASE ~PictureFits
  <2>1. header' \in Header \cup {Cut, NoFile}
    BY Zenon DEF FileInv, Keep
  <2> QED
    BY <1>0, <1>X, <2>1, Zenon DEF FileInv
<1> SUFFICES ASSUME PictureFits
             PROVE  FileInv'
  BY <1>X
<1>1. IsPicture(picture) /\ y \in Int /\ y < picture.height /\ bytes \in Seq(Byte)
  BY FittingPicture DEF FileInv
<1>2. S \in Nat /\ n \in Nat
  BY <1>1, StrideOfPicture DEF IsPicture
<1>3. 0 <= n * S
  BY <1>2
<1>4. CASE header' = Cut /\ bytes' = <<>>
  <2>1. Len(bytes') <= n * S /\ bytes' \in Seq(Byte) /\ HoldsRows(picture, bytes')
    BY <1>3, <1>4, NothingWritten
  <2>2. UpToRow(picture, bytes', y, TRUE)
    BY <2>1, Zenon DEF UpToRow
  <2> QED
    BY <1>0, <1>4, <2>1, <2>2, Zenon DEF FileInv
<1>5. ASSUME header' = header, NEW k \in 0..Len(bytes), bytes' = SubSeq(bytes, 1, k)
      PROVE  FileInv'
  <2>1. bytes' \in Seq(Byte) /\ Len(bytes') = k
    BY <1>1, <1>5
  <2>2. ASSUME picture # NoPicture
        PROVE  HoldsRows(picture, bytes') /\ UpToRow(picture, bytes', y, TRUE)
    <3>1. HoldsRows(picture, bytes) /\ Len(bytes) <= n * S
      BY <2>2, Zenon DEF FileInv, UpToRow
    <3>2. HoldsRows(picture, bytes')
      BY <1>1, <1>5, <3>1, StartKept
    <3>3. k <= Len(bytes) /\ k \in Nat /\ Len(bytes) \in Nat
      BY <1>1
    <3>4. k <= n * S
      <4> HIDE DEF n, S
      <4> QED
        BY <1>2, <3>1, <3>3
    <3> QED
      BY <2>1, <3>2, <3>4, Zenon DEF UpToRow
  <2> QED
    BY <1>0, <1>5, <2>1, <2>2, Zenon DEF FileInv
<1> QED
  BY <1>4, <1>5, Zenon DEF Keep

\* Every step of writeBMP, DiskFull and Crash leaves the file as FileInv says,
\* and readBMP does not touch it.
LEMMA FileInvKept ==
  ASSUME FileInv, [Next]_vars
  PROVE  FileInv'
<1> DEFINE S == RowStride(picture)
           h == picture.height
<1>P. picture' = picture
  BY DEF Next, vars, Create, WriteHeader, AllocateRow, WriteRow, RowsDone, Close, DiskFull, Crash,
         BeginRead, Open, ReadHeader, ReadData, AllocatePixels, Decode, Stopped
<1>F. PictureFits' <=> PictureFits
  BY <1>P, Zenon DEF PictureFits, SizesFit
<1>U. ASSUME UNCHANGED <<picture, y, header, bytes, full>>,
             pc' \in {"create", "header", "row_data"} => pc' = pc
      PROVE  FileInv'
  BY <1>F, <1>U, Zenon DEF FileInv
<1>H. WriteHeader /\ ~full => header' = HeaderOf(picture) /\ HeaderOf(picture) \in Header
  <2>1. picture.width \in 0..INT_MAX /\ picture.height \in 0..INT_MAX
    BY DEF FileInv, PictureType
  <2>2. HeaderOf(picture) \in Header
    BY <2>1, IntMaxAssumption, HeaderAssumption DEF HeaderOf, Header, Ints
  <2> QED
    BY <2>2, Zenon DEF WriteHeader, HeaderOf
<1>X. CASE ~PictureFits
  <2>0. picture.height \in Nat
    BY IntMaxAssumption DEF FileInv, PictureType
  <2>1. header' \in Header \cup {Cut, NoFile}
    <3>1. CASE WriteHeader
      BY <1>H, <3>1, Zenon DEF WriteHeader, FileInv
    <3>2. CASE header' \in {header, Cut}
      BY <3>2, Zenon DEF FileInv
    <3> QED
      BY <3>1, <3>2, Zenon
         DEF Next, vars, Create, AllocateRow, WriteRow, RowsDone, Close, DiskFull, Crash, Keep,
             BeginRead, Open, ReadHeader, ReadData, AllocatePixels, Decode, Stopped, file
  <2>2. \/ y' = y
        \/ y' = y - 1 /\ y >= 0 /\ pc' = "rows"
    BY DEF Next, vars, Create, WriteHeader, AllocateRow, WriteRow, RowsDone, Close, DiskFull, Crash,
           BeginRead, Open, ReadHeader, ReadData, AllocatePixels, Decode, Stopped
  <2>3. y' \in Int /\ y' >= -1 /\ y' < picture.height
    BY <2>0, <2>2 DEF FileInv
  <2>4. pc' \in {"create", "header", "row_data"} => y' = y /\ pc \in {"create", "header", "row_data"}
    BY DEF Next, vars, Create, WriteHeader, AllocateRow, WriteRow, RowsDone, Close, DiskFull, Crash,
           BeginRead, Open, ReadHeader, ReadData, AllocatePixels, Decode, Stopped, Ends, Throws
  <2> QED
    BY <1>F, <1>P, <1>X, <2>1, <2>3, <2>4, Zenon DEF FileInv
<1> SUFFICES ASSUME PictureFits
             PROVE  FileInv'
  BY <1>X
<1>0. IsPicture(picture) /\ y \in Int /\ y >= -1 /\ y < h /\ bytes \in Seq(Byte)
  BY FittingPicture DEF FileInv
<1>1. S \in Nat /\ h \in Nat
  BY <1>0, StrideOfPicture DEF IsPicture
<1>2. ASSUME UNCHANGED <<picture, y, header, bytes, full>>,
             pc' \in {"create", "header", "row_data"} => pc' = pc
      PROVE  FileInv'
  BY <1>2, <1>U
<1>3. CASE Create
  <2>1. pc = "create" /\ picture' = picture /\ y' = y /\ full' = full
    BY <1>3 DEF Create
  <2>2. y = h - 1
    BY <2>1, Zenon DEF FileInv
  <2>3. CASE UNCHANGED file
    BY <1>F, <2>1, <2>2, <2>3, Zenon DEF FileInv, file
  <2>4. CASE header' = Cut /\ bytes' = <<>>
    <3>1. (h - 1 - y) * S = 0 /\ 0 <= 0
      <4>1. h - 1 - y = 0
        BY <1>0, <1>1, <2>2
      <4> HIDE DEF S, h
      <4> QED
        BY <1>1, <4>1
    <3>2. UpToRow(picture, <<>>, y, full) /\ <<>> \in Seq(Byte) /\ HoldsRows(picture, <<>>)
      BY <3>1, NothingWritten, Zenon DEF UpToRow
    <3> QED
      BY <1>F, <2>1, <2>2, <2>4, <3>2, Zenon DEF FileInv
  <2> QED
    BY <1>3, <2>3, <2>4, Zenon DEF Create
<1>4. CASE WriteHeader
  <2>1. /\ pc = "header" /\ pc' = "row_data"
        /\ picture' = picture /\ y' = y /\ full' = full /\ bytes' = bytes
        /\ header' = header \/ header' = HeaderOf(picture)
    BY <1>4 DEF WriteHeader, HeaderOf
  <2>2. header' # header => HeaderOf(picture) \in Header
    BY <1>4, <1>H, Zenon DEF WriteHeader
  <2> QED
    BY <1>F, <2>1, <2>2, Zenon DEF FileInv
<1>5. CASE WriteRow /\ ~RowInside(y)
  BY <1>2, <1>5 DEF WriteRow
<1>9. CASE WriteRow /\ RowInside(y)
  <2>1. /\ pc = "rows" /\ y >= 0 /\ y' = y - 1 /\ pc' = pc
        /\ header' = header /\ picture' = picture /\ full' = full
        /\ bytes' = IF full THEN bytes ELSE bytes \o RowData(y)
    BY <1>9, Zenon DEF WriteRow
  <2>2. y' \in Int /\ y' >= -1 /\ y' < h /\ y \in 0..(h - 1)
    BY <1>0, <1>1, <2>1
  <2>3. RowData(y) = [i \in 1..S |-> RowByte(picture, y, i)]
    <3>1. picture.width \in Nat
      BY <1>0 DEF IsPicture
    <3>2. \A i \in 1..S : i \in Int /\ (i > 3 * picture.width \/ i <= 3 * picture.width)
      BY <1>1, <3>1
    <3>3. \A i \in 1..S : i > 3 * picture.width => ~(i <= 3 * picture.width)
      BY <1>1, <3>1
    <3>4. 1 # 2
      OBVIOUS
    <3>7. \A i \in 1..S : i <= 3 * picture.width =>
            Wrap(y * picture.width + (i - 1) \div 3) + 1 = y * picture.width + (i - 1) \div 3 + 1
      BY <1>0, <2>2, PixelNumber, Zenon DEF S
    <3>5. ASSUME NEW i \in 1..S
          PROVE  RowData(y)[i] = RowByte(picture, y, i)
      <4>1. CASE i > 3 * picture.width
        BY <3>2, <3>3, <3>4, <4>1 DEF RowData, RowByte, RowStride
      <4>2. CASE ~(i > 3 * picture.width)
        <5>1. i <= 3 * picture.width
          BY <3>2, <4>2, Zenon
        <5> DEFINE k == Wrap(y * picture.width + (i - 1) \div 3) + 1
                   c == picture.pixels[k]
        <5>2. k = y * picture.width + (i - 1) \div 3 + 1
          BY <3>7, <5>1, Zenon
        <5>3. RowByte(picture, y, i) = IF i % 3 = 1 THEN c.b ELSE IF i % 3 = 2 THEN c.g ELSE c.r
          BY <4>2, <5>2, Zenon DEF RowByte
        <5>4. RowData(y)[i] = CASE i > 3 * picture.width -> 0
                                [] i <= 3 * picture.width /\ i % 3 = 1 -> c.b
                                [] i <= 3 * picture.width /\ i % 3 = 2 -> c.g
                                [] OTHER -> c.r
          BY Zenon DEF RowData, RowStride
        <5> HIDE DEF c
        <5> QED
          BY <3>4, <4>2, <5>1, <5>3, <5>4
      <4> QED
        BY <4>1, <4>2
    <3>6. RowData(y) = [i \in 1..S |-> RowData(y)[i]]
      BY DEF RowData, RowStride
    <3> QED
      BY <3>5, <3>6
  <2>4. CASE full
    <3>1. ASSUME picture # NoPicture
          PROVE  UpToRow(picture, bytes, y', full)
      <4> DEFINE n == h - 1 - y
                 l == Len(bytes)
      <4>1. l <= n * S /\ l \in Nat
        BY <1>0, <3>1 DEF FileInv, UpToRow
      <4>2. h - 1 - y' = n + 1 /\ n \in Nat
        BY <1>0, <1>1, <2>1
      <4> HIDE DEF n, l, S
      <4>3. l <= (n + 1) * S
        BY <1>1, <4>1, <4>2
      <4> QED
        BY <2>4, <4>2, <4>3, Zenon DEF UpToRow, l, S
    <3> QED
      BY <1>F, <2>1, <2>2, <2>4, <3>1, Zenon DEF FileInv
  <2>5. CASE ~full
    <3>1. bytes' = bytes \o RowData(y)
      BY <2>1, <2>5, Zenon
    <3>2. bytes' \in Seq(Byte)
      <4>1. \A i \in 1..S : RowByte(picture, y, i) \in Byte
        BY <1>0, <2>2, RowByByte, Zenon
      <4>2. RowData(y) \in Seq(Byte)
        BY <1>1, <2>3, <4>1
      <4> QED
        BY <1>0, <3>1, <4>2, Appended, Zenon
    <3>3. ASSUME picture # NoPicture
          PROVE  HoldsRows(picture, bytes') /\ UpToRow(picture, bytes', y', full)
      <4>1. HoldsRows(picture, bytes) /\ Len(bytes) = (h - 1 - y) * S
        BY <2>5, <3>3, Zenon DEF FileInv, UpToRow
      <4>2. HoldsRows(picture, bytes') /\ Len(bytes') = (h - 1 - (y - 1)) * S
        BY <1>0, <2>2, <2>3, <3>1, <4>1, RowAppended, Zenon
      <4>3. Len(bytes') \in Nat
        BY <3>2
      <4>4. Len(bytes') <= Len(bytes')
        BY <4>3
      <4> QED
        BY <2>1, <4>2, <4>4, Zenon DEF UpToRow
    <3> QED
      BY <1>F, <2>1, <2>2, <3>2, <3>3, Zenon DEF FileInv
  <2> QED
    BY <2>4, <2>5
<1>6. CASE DiskFull \/ Crash
  <2>1. /\ Keep /\ picture' = picture /\ y' = y /\ full' = TRUE
        /\ pc' \in {"create", "header", "row_data"} => pc' = pc
    BY <1>6 DEF DiskFull, Crash, Ends
  <2> QED
    BY <2>1, KeepKeeps
<1>7. CASE AllocateRow \/ RowsDone \/ Close \/ BeginRead \/ Open \/ ReadHeader
  BY <1>2, <1>7, Zenon
     DEF AllocateRow, RowsDone, Close, BeginRead, Open, ReadHeader, Ends, Throws, file, reader
<1>8. CASE ReadData \/ AllocatePixels \/ Decode \/ Stopped \/ UNCHANGED vars
  BY <1>2, <1>8, Zenon DEF ReadData, AllocatePixels, Decode, Stopped, Throws, file, vars
<1> QED
  BY <1>3, <1>4, <1>5, <1>6, <1>7, <1>8, <1>9, Zenon DEF Next

\* The file is as it should be before the first step.
LEMMA FileInvAtStart ==
  ASSUME Init
  PROVE  FileInv
<1>1. CASE pc = "create" /\ picture \in Pictures /\ header = NoFile /\ bytes = <<>>
  <2>1. PictureType(picture) /\ picture.height \in Nat
    BY <1>1, PicturesAssumption, IntMaxAssumption DEF PictureType
  <2>2. y = picture.height - 1
    BY DEF Init
  <2>3. y \in Int /\ y >= -1 /\ y < picture.height
    BY <2>1, <2>2
  <2>X. CASE ~PictureFits
    BY <1>1, <2>1, <2>2, <2>3, <2>X, Zenon DEF FileInv
  <2> SUFFICES ASSUME PictureFits
               PROVE  FileInv
    BY <2>X
  <2>6. RowStride(picture) \in Nat
    BY <2>1, FittingPicture, StrideOfPicture
  <2>4. (picture.height - 1 - y) * RowStride(picture) = 0 /\ 0 <= 0
    <3>1. picture.height - 1 - y = 0
      BY <2>1, <2>2
    <3> QED
      BY <2>6, <3>1
  <2>5. UpToRow(picture, bytes, y, full) /\ bytes \in Seq(Byte) /\ HoldsRows(picture, bytes)
    BY <1>1, <2>4, NothingWritten, Zenon DEF UpToRow
  <2> QED
    BY <1>1, <2>1, <2>2, <2>3, <2>5, Zenon DEF FileInv
<1>2. CASE pc = "at rest" /\ picture = NoPicture
           /\ (\/ header = NoFile /\ bytes = <<>>
               \/ \E f \in Foreign : header = f.header /\ bytes = f.bytes)
  <2>1. PictureType(picture) /\ picture.height = 0
    <3>1. <<>> \in Seq(Pixel) /\ Len(<<>>) = 0 /\ 0 * 0 = 0 /\ 0 \in 0..INT_MAX
      BY IntMaxAssumption
    <3>2. /\ NoPicture \in [width : 0..INT_MAX, height : 0..INT_MAX, pixels : Seq(Pixel)]
          /\ NoPicture.pixels = <<>> /\ NoPicture.width = 0 /\ NoPicture.height = 0
      BY <3>1 DEF NoPicture
    <3> QED
      BY <1>2, <3>1, <3>2, Zenon DEF PictureType
  <2>2. y = picture.height - 1
    BY DEF Init
  <2>3. y \in Int /\ y >= -1 /\ y < picture.height
    BY <2>1, <2>2
  <2>4. header \in Header \cup {Cut, NoFile} /\ bytes \in Seq(Byte)
    BY <1>2, NothingWritten, ForeignAssumption, HeadersAssumption, Zenon
  <2> QED
    BY <1>2, <2>1, <2>3, <2>4, Zenon DEF FileInv
<1> QED
  BY <1>1, <1>2, Zenon DEF Init

-----------------------------------------------------------------------------
(***************************************************************************)
(* What readBMP does with a file.                                          *)
(***************************************************************************)

\* The header is one, the data and the pixels are as many as it says, and a
\* loop that left them had no positive depth, or sizes that overflow.
ReaderInv ==
  /\ pc = "fread" => header # NoFile
  /\ pc \in {"image_data", "pixels", "decode"} => hdr \in Header
  /\ pc \in {"pixels", "decode"} => DataSize(hdr) \in Nat /\ Len(image_data) = DataSize(hdr)
  /\ pc = "decode" => PixelCount(hdr) \in Nat /\ Len(result.pixels) = PixelCount(hdr)
  /\ outcome = "undefined" =>
       /\ pc = "over"
       /\ hdr.bitsPerPixel < 1 \/ ~SizesFit(hdr.bitsPerPixel, hdr.width, hdr.height)
  /\ outcome = "undefined write" => pc = "over" /\ ~PictureFits

\* The fields of a header are integers.
LEMMA FieldsAreInts ==
  ASSUME NEW h \in Header
  PROVE  h.bitsPerPixel \in Int /\ h.width \in Int /\ h.height \in Int
<1>1. Ints \subseteq Int
  BY IntMaxAssumption DEF Ints
<1> QED
  BY <1>1 DEF Header

\* The loop stays inside data and pixels that are as many as its header says.
LEMMA LoopStaysInside ==
  ASSUME hdr \in Header, hdr.bitsPerPixel >= 1,
         SizesFit(hdr.bitsPerPixel, hdr.width, hdr.height),
         Len(image_data) = DataSize(hdr), Len(result.pixels) = PixelCount(hdr)
  PROVE  Inside(hdr)
<1> DEFINE h == hdr.height
           w == hdr.width
           bpp == hdr.bitsPerPixel
<1>1. h \in Int /\ w \in Int /\ bpp \in Int /\ bpp >= 1
  BY IntMaxAssumption DEF Header, Ints
<1> SUFFICES ASSUME NEW yy \in 0..(h - 1), NEW x \in 0..(w - 1)
             PROVE  /\ \A i \in Touched(hdr, Index(hdr, yy, x)) : i \in 0..(Len(image_data) - 1)
                    /\ Wrap((h - 1 - yy) * w + x) \in 0..(Len(result.pixels) - 1)
  BY Zenon DEF Inside
<1>2. bpp \in Nat \ {0} /\ h \in Nat /\ w \in Nat
  BY <1>1
<1>3. CDiv(bpp, 8) = bpp \div 8
  BY <1>1 DEF CDiv
<1>S. bpp * w + 31 <= INT_MAX /\ h * RowSize(bpp, w) <= INT_MAX /\ w * h <= INT_MAX
  BY DEF SizesFit
<1>R. RowSize(bpp, w) \in Nat
  BY <1>2, <1>S, RowHasRoom
<1>D. Len(image_data) = h * RowSize(bpp, w) /\ h * RowSize(bpp, w) \in Nat
  <2> DEFINE k == h * RowSize(bpp, w)
  <2>1. k \in Nat /\ k <= INT_MAX
    BY <1>2, <1>R, <1>S
  <2> HIDE DEF k
  <2>2. k \in Ints
    BY <2>1, IntMaxAssumption DEF Ints
  <2>3. Wrap(k) = k
    BY <2>1, <2>2, WrapIs
  <2> QED
    BY <2>1, <2>3, Zenon DEF DataSize, k
<1>P. Len(result.pixels) = w * h /\ w * h \in Nat
  <2> DEFINE k == w * h
  <2>1. k \in Nat /\ k <= INT_MAX
    BY <1>2, <1>S
  <2> HIDE DEF k
  <2>2. k \in Ints
    BY <2>1, IntMaxAssumption DEF Ints
  <2>3. Wrap(k) = k
    BY <2>1, <2>2, WrapIs
  <2> QED
    BY <2>1, <2>3, Zenon DEF PixelCount, k
<1>4. Wrap((h - 1 - yy) * w + x) \in 0..(Len(result.pixels) - 1)
  <2> DEFINE r == h - 1 - yy
             m == r * w
             n == w * h
  <2>1. r \in 0..(h - 1)
    BY <1>2
  <2>2. m \in Nat /\ m + w <= n /\ n \in Nat /\ n <= INT_MAX
    <3> HIDE DEF r, h, w
    <3>1. (h - 1 - r) * w >= 0
      BY <1>2, <2>1
    <3> QED
      BY <1>2, <1>S, <2>1, <3>1
  <2> HIDE DEF m, n
  <2>3. m + x \in 0..(n - 1) /\ m + x \in Int
    BY <1>2, <2>2
  <2>4. m + x \in Ints
    BY <2>2, <2>3, IntMaxAssumption DEF Ints
  <2>5. Wrap(m + x) = m + x
    BY <2>3, <2>4, WrapIs
  <2> QED
    BY <1>P, <2>3, <2>5, Zenon DEF m, n
<1> DEFINE idx == yy * RowSize(bpp, w) + x * (bpp \div 8)
<1>5. ASSUME NEW e \in 0..2, bpp < 24 => e = 0
      PROVE  idx + e \in 0..(h * RowSize(bpp, w) - 1)
  BY <1>2, <1>5, <1>S, PixelInside, Zenon
<1>6. Index(hdr, yy, x) = idx
  <2>1. idx \in Int
    <3>1. bpp \div 8 \in Nat
      BY <1>2
    <3> QED
      BY <1>1, <1>R, <3>1
  <2>2. idx + 0 \in 0..(h * RowSize(bpp, w) - 1)
    <3>1. 0 \in 0..2 /\ (bpp < 24 => 0 = 0)
      OBVIOUS
    <3> HIDE DEF idx
    <3> QED
      BY <1>5, <3>1, Zenon
  <2> DEFINE k == h * RowSize(bpp, w)
  <2>3. k \in Nat /\ k <= INT_MAX
    BY <1>D, <1>S
  <2> HIDE DEF idx, k
  <2>4. idx \in Ints
    BY <2>1, <2>2, <2>3, IntMaxAssumption DEF Ints, k
  <2>5. Wrap(idx) = idx
    BY <2>1, <2>4, WrapIs
  <2> QED
    BY <1>3, <2>5, Zenon DEF Index, idx
<1>7. ASSUME NEW i \in Touched(hdr, Index(hdr, yy, x))
      PROVE  i \in 0..(Len(image_data) - 1)
  <2>0. idx \in Int
    <3>1. bpp \div 8 \in Nat
      BY <1>2
    <3> QED
      BY <1>1, <1>R, <3>1
  <2> HIDE DEF idx
  <2>1. PICK e \in 0..2 : i = idx + e /\ (bpp < 24 => e = 0)
    <3>1. CASE bpp >= 24
      <4>1. i \in {idx, idx + 1, idx + 2}
        BY <1>6, <1>7, <3>1, Zenon DEF Touched
      <4> QED
        BY <1>1, <2>0, <3>1, <4>1
    <3>2. CASE ~(bpp >= 24)
      <4>1. i \in {idx}
        BY <1>6, <1>7, <3>2, Zenon DEF Touched
      <4> QED
        BY <1>1, <2>0, <3>2, <4>1
    <3> QED
      BY <3>1, <3>2
  <2>2. idx + e \in 0..(h * RowSize(bpp, w) - 1)
    BY <1>5, <2>1, Zenon
  <2> QED
    BY <1>D, <2>1, <2>2, Zenon
<1> QED
  BY <1>4, <1>7, Zenon

\* A row of an image whose sizes fit stays inside too.
LEMMA RowStaysInside ==
  ASSUME IsPicture(picture), NEW r \in 0..(picture.height - 1)
  PROVE  RowInside(r)
<1> DEFINE w == picture.width
           S == RowSize(24, w)
<1>1. w \in Nat /\ S \in Nat /\ 3 * w <= S
  BY StrideOfPicture DEF IsPicture, RowStride
<1>2. 24 * w + 31 <= INT_MAX
  BY DEF IsPicture, SizesFit
<1>3. ASSUME NEW x \in 0..(w - 1)
      PROVE  /\ Wrap(r * w + x) \in 0..(Len(picture.pixels) - 1)
             /\ {Wrap(x * 3), Wrap(x * 3 + 1), Wrap(x * 3 + 2)} \subseteq 0..(S - 1)
  <2>1. Wrap(r * w + x) \in 0..(Len(picture.pixels) - 1)
    BY PixelNumber, Zenon
  <2>2. \A e \in {x * 3, x * 3 + 1, x * 3 + 2} :
          e \in Int /\ e \in 0..(S - 1) /\ e \in Ints
    BY <1>1, <1>2, IntMaxAssumption DEF Ints
  <2>3. \A e \in {x * 3, x * 3 + 1, x * 3 + 2} : Wrap(e) = e
    BY <2>2, WrapIs
  <2> HIDE DEF S
  <2>4. /\ Wrap(x * 3) \in 0..(S - 1) /\ Wrap(x * 3 + 1) \in 0..(S - 1)
        /\ Wrap(x * 3 + 2) \in 0..(S - 1)
    BY <2>2, <2>3, Zenon
  <2> QED
    BY <2>1, <2>4, Zenon
<1> QED
  BY <1>3, Zenon DEF RowInside

\* Every step keeps the reader's header and data together.
LEMMA ReaderInvKept ==
  ASSUME FileInv, ReaderInv, [Next]_vars
  PROVE  ReaderInv'
<1>P. picture' = picture
  BY DEF Next, vars, Create, WriteHeader, AllocateRow, WriteRow, RowsDone, Close, DiskFull, Crash,
         BeginRead, Open, ReadHeader, ReadData, AllocatePixels, Decode, Stopped
<1>F. PictureFits' <=> PictureFits
  BY <1>P, Zenon DEF PictureFits, SizesFit
<1>1. CASE UNCHANGED vars \/ Stopped
  BY <1>1, <1>F, Zenon DEF ReaderInv, vars, Stopped, DataSize, PixelCount, SizesFit
<1>2. CASE Create \/ WriteHeader \/ AllocateRow \/ RowsDone \/ Close \/ DiskFull \/ Crash
  BY <1>2, Zenon
     DEF ReaderInv, Create, WriteHeader, AllocateRow, RowsDone, Close, DiskFull, Crash,
         Writing, Ends, reader
<1>8. CASE WriteRow
  <2>1. CASE RowInside(y)
    BY <1>8, <2>1, Zenon DEF ReaderInv, WriteRow
  <2>2. CASE ~RowInside(y)
    <3>1. y \in 0..(picture.height - 1)
      <4>1. y \in Int /\ y >= 0 /\ y < picture.height /\ PictureType(picture)
        BY <1>8, Zenon DEF FileInv, WriteRow
      <4>2. picture.height \in Nat
        BY <4>1, IntMaxAssumption DEF PictureType
      <4> QED
        BY <4>1, <4>2
    <3>2. ~PictureFits
      BY <2>2, <3>1, FittingPicture, RowStaysInside, Zenon DEF FileInv
    <3>3. pc' = "over" /\ outcome' = "undefined write"
      BY <1>8, <2>2, Zenon DEF WriteRow
    <3> QED
      BY <1>F, <3>2, <3>3, Zenon DEF ReaderInv
  <2> QED
    BY <2>1, <2>2
<1>3. CASE BeginRead \/ Open
  BY <1>3, Zenon DEF ReaderInv, BeginRead, Open, Throws, file, reader
<1>4. CASE ReadHeader
  <2>1. hdr' \in Header
    <3>1. header \in Header \cup {Cut} /\ (header = Cut \/ hdr' = header)
          /\ (header = Cut => hdr' \in Headers)
      BY <1>4, Zenon DEF ReaderInv, FileInv, ReadHeader
    <3> QED
      BY <3>1, HeadersAssumption
  <2> QED
    BY <1>4, <2>1, Zenon DEF ReaderInv, ReadHeader
<1>5. CASE ReadData
  <2>1. pc = "image_data" /\ hdr' = hdr /\ hdr \in Header
        /\ outcome # "undefined" /\ outcome # "undefined write"
    BY <1>5, Zenon DEF ReaderInv, ReadData
  <2>2. CASE /\ DataSize(hdr) >= 0 /\ pc' = "pixels" /\ outcome' = outcome
             /\ image_data' = [i \in 1..DataSize(hdr) |->
                                 IF FromFile(hdr, i) <= Len(bytes)
                                 THEN bytes[FromFile(hdr, i)] ELSE 0]
    <3>1. DataSize(hdr) \in Int
      <4>1. RowSize(hdr.bitsPerPixel, hdr.width) \in Int /\ hdr.height \in Int
        <5>1. hdr.bitsPerPixel \in Int /\ hdr.width \in Int /\ hdr.height \in Int
          BY <2>1, FieldsAreInts, Zenon
        <5>2. Wrap(hdr.bitsPerPixel * hdr.width + 31) \in Int
          <6>1. hdr.bitsPerPixel * hdr.width + 31 \in Int
            BY <5>1
          <6> QED
            BY <6>1, WrapIs
        <5> QED
          BY <5>1, <5>2 DEF RowSize, CDiv
      <4>2. hdr.height * RowSize(hdr.bitsPerPixel, hdr.width) \in Int
        BY <4>1
      <4> QED
        BY <4>2, WrapIs DEF DataSize
    <3>2. DataSize(hdr) \in Nat
      BY <2>2, <3>1
    <3>3. Len(image_data') = DataSize(hdr)
      BY <2>2, <3>2
    <3> QED
      BY <2>1, <2>2, <3>2, <3>3, Zenon DEF ReaderInv, DataSize
  <2>3. CASE pc' = "over" /\ outcome' # "undefined" /\ outcome' # "undefined write"
    BY <2>1, <2>3, Zenon DEF ReaderInv
  <2> QED
    BY <1>5, <2>2, <2>3, Zenon DEF ReadData, Throws
<1>6. CASE AllocatePixels
  <2>1. pc = "pixels" /\ hdr' = hdr /\ image_data' = image_data /\ hdr \in Header
        /\ outcome # "undefined" /\ outcome # "undefined write"
    BY <1>6, Zenon DEF ReaderInv, AllocatePixels
  <2>2. CASE PixelCount(hdr) >= 0 /\ pc' = "decode"
    <3>1. PixelCount(hdr) \in Int
      <4>0. hdr.width \in Int /\ hdr.height \in Int
        BY <2>1, FieldsAreInts, Zenon
      <4>1. hdr.width * hdr.height \in Int
        BY <4>0
      <4> QED
        BY <4>1, WrapIs DEF PixelCount
    <3>2. PixelCount(hdr) \in Nat
      BY <2>2, <3>1
    <3>3. result'.pixels = [i \in 1..PixelCount(hdr) |-> [r |-> 0, g |-> 0, b |-> 0]]
          /\ outcome' = outcome
      BY <1>6, <2>2 DEF AllocatePixels, Throws
    <3>4. Len(result'.pixels) = PixelCount(hdr)
      BY <3>2, <3>3
    <3> QED
      BY <2>1, <2>2, <3>2, <3>3, <3>4, Zenon DEF ReaderInv, DataSize, PixelCount
  <2>3. CASE pc' = "over" /\ outcome' # "undefined" /\ outcome' # "undefined write"
    BY <2>1, <2>3, Zenon DEF ReaderInv
  <2> QED
    BY <1>6, <2>2, <2>3, Zenon DEF AllocatePixels, Throws
<1>7. CASE Decode
  <2>1. /\ hdr' = hdr /\ hdr \in Header /\ pc' = "over"
        /\ Len(image_data) = DataSize(hdr) /\ Len(result.pixels) = PixelCount(hdr)
        /\ outcome' = "ok" \/ (outcome' = "undefined" /\ ~Inside(hdr))
    BY <1>7, Zenon DEF Decode, ReaderInv, Throws
  <2>2. hdr.bitsPerPixel \in Int
    BY <2>1, IntMaxAssumption DEF Header, Ints
  <2>3. hdr.bitsPerPixel < 1 \/ hdr.bitsPerPixel >= 1
    BY <2>2
  <2>4. outcome' = "undefined" =>
          hdr.bitsPerPixel < 1 \/ ~SizesFit(hdr.bitsPerPixel, hdr.width, hdr.height)
    BY <2>1, <2>3, LoopStaysInside, Zenon
  <2>5. "ok" # "undefined" /\ "ok" # "undefined write" /\ "undefined" # "undefined write"
    OBVIOUS
  <2> QED
    BY <2>1, <2>4, <2>5, Zenon DEF ReaderInv, SizesFit
<1> QED
  BY <1>1, <1>2, <1>3, <1>4, <1>5, <1>6, <1>7, <1>8, Zenon DEF Next

\* For every header with a positive depth, whatever its sizes and offset and
\* however much of the file is missing, the loop of readBMP stays within
\* image_data and pixels, and that of writeBMP within its row and pixels,
\* unless one of the sizes they calculate does not fit an int.
THEOREM LoopIsInside == Spec => []StaysInside
<1>1. Init => FileInv /\ ReaderInv
  <2>1. Init => ReaderInv
    BY Zenon DEF Init, ReaderInv
  <2> QED
    BY <2>1, FileInvAtStart
<1>2. FileInv /\ ReaderInv /\ [Next]_vars => FileInv' /\ ReaderInv'
  BY FileInvKept, ReaderInvKept
<1>3. ReaderInv => StaysInside
  BY Zenon DEF ReaderInv, StaysInside
<1> QED
  BY <1>1, <1>2, <1>3, PTL DEF Spec

-----------------------------------------------------------------------------
(***************************************************************************)
(* What comes back of an image.                                            *)
(***************************************************************************)

\* image_data[k - 1], read from a file with the bytes bs.
DataByte(bs, k) == IF k <= Len(bs) THEN bs[k] ELSE 0

\* Where the bytes of pixel i of an image start in its file, counted from 0.
PixelStart(p, i) ==
  (p.height - 1 - (i - 1) \div p.width) * RowStride(p) + ((i - 1) % p.width) * 3

\* The pixels that readBMP makes of bs.
PixelsRead(p, bs) ==
  [i \in 1..(p.width * p.height) |->
     [r |-> DataByte(bs, PixelStart(p, i) + 2 + 1), g |-> DataByte(bs, PixelStart(p, i) + 1 + 1),
      b |-> DataByte(bs, PixelStart(p, i) + 1)]]

\* Row and column of pixel i.
LEMMA Place ==
  ASSUME NEW w \in Nat \ {0}, NEW h \in Nat, NEW i \in 1..(w * h)
  PROVE  /\ (i - 1) \div w \in 0..(h - 1)
         /\ (i - 1) % w \in 0..(w - 1)
         /\ i = ((i - 1) \div w) * w + ((i - 1) % w) + 1
<1> DEFINE n == i - 1
           q == n \div w
<1>1. n \in Nat /\ n < w * h /\ i = n + 1
  BY DEF n
<1> HIDE DEF n
<1>2. q \in Nat /\ q * w <= n /\ n < q * w + w
  BY <1>1, Quotient
<1>3. n % w \in 0..(w - 1) /\ n = q * w + (n % w)
  BY <1>1
<1> HIDE DEF q
<1>4. q < h
  <2>1. q >= h => (q - h) * w >= 0
    BY <1>2
  <2> QED
    BY <1>1, <1>2, <2>1
<1> QED
  BY <1>1, <1>2, <1>3, <1>4 DEF q, n

\* The number of row r and column x, and back.
LEMMA Number ==
  ASSUME NEW w \in Nat \ {0}, NEW h \in Nat, NEW r \in 0..(h - 1), NEW x \in 0..(w - 1)
  PROVE  /\ r * w + (x + 1) \in 1..(w * h)
         /\ ((r * w + (x + 1)) - 1) \div w = r
         /\ ((r * w + (x + 1)) - 1) % w = x
<1>1. r * w \in Nat /\ r * w + w <= w * h
  <2>1. (h - 1 - r) * w >= 0
    OBVIOUS
  <2> QED
    BY <2>1
<1>2. (r * w + (x + 1)) - 1 = r * w + x
  BY <1>1
<1>3. (r * w + x) \div w = r /\ (r * w + x) % w = x
  OBVIOUS
<1>4. r * w + (x + 1) \in 1..(w * h)
  <2> DEFINE m == r * w
             n == w * h
  <2>1. m \in Nat /\ n \in Nat /\ m + w <= n
    BY <1>1
  <2> HIDE DEF m, n
  <2>2. m + (x + 1) \in 1..n
    BY <2>1
  <2> QED
    BY <2>2 DEF m, n
<1> QED
  BY <1>2, <1>3, <1>4

\* Pixel i of an image is blue, green and red at PixelStart in its file.
LEMMA PixelInFile ==
  ASSUME NEW p, IsPicture(p), NEW i \in 1..(p.width * p.height)
  PROVE  /\ PixelStart(p, i) \in Nat /\ PixelStart(p, i) + 3 <= p.height * RowStride(p)
         /\ FileByte(p, PixelStart(p, i) + 1) = p.pixels[i].b
         /\ FileByte(p, PixelStart(p, i) + 1 + 1) = p.pixels[i].g
         /\ FileByte(p, PixelStart(p, i) + 2 + 1) = p.pixels[i].r
<1> DEFINE w == p.width
           h == p.height
           S == RowStride(p)
           r == (i - 1) \div w
           c == (i - 1) % w
           f == h - 1 - r
<1>1. w \in Nat /\ h \in Nat
  BY DEF IsPicture
<1>2. w \in Nat \ {0}
  <2>1. w = 0 => w * h = 0
    BY <1>1
  <2> QED
    BY <1>1, <2>1
<1>3. S \in Nat /\ 3 * w <= S /\ S >= 4
  BY <1>2, StrideOfPicture
<1>4. r \in 0..(h - 1) /\ c \in 0..(w - 1) /\ i = r * w + c + 1
  BY <1>1, <1>2, Place
<1>5. PixelStart(p, i) = f * S + c * 3
  BY DEF PixelStart
<1> HIDE DEF r, c, S
<1>6. f \in 0..(h - 1) /\ p.height - 1 - f = r
  BY <1>1, <1>4
<1> HIDE DEF f
<1>7. f * S \in Nat /\ f * S + S <= h * S
  <2> HIDE DEF h
  <2>1. (h - 1 - f) * S >= 0
    BY <1>1, <1>3, <1>6
  <2> QED
    BY <1>1, <1>3, <1>6, <2>1
<1>8. ASSUME NEW e \in 0..2
      PROVE  FileByte(p, f * S + c * 3 + e + 1) = RowByte(p, r, c * 3 + e + 1)
  <2> DEFINE m == c * 3 + e
             b == f * S
  <2>1. m \in 0..(S - 1)
    BY <1>2, <1>3, <1>4
  <2>2. (f * S + m) \div S = f /\ (f * S + m) % S = m
    <3> HIDE DEF m
    <3> QED
      BY <1>3, <1>6, <2>1
  <2>3. (f * S + c * 3 + e + 1) - 1 = f * S + m
    <3> HIDE DEF b
    <3>1. b \in Int /\ c \in Int
      BY <1>4, <1>7 DEF b
    <3>2. (b + c * 3 + e + 1) - 1 = b + (c * 3 + e)
      BY <3>1
    <3> QED
      BY <3>2 DEF b
  <2>4. \A j : (j - 1) \div S = f /\ (j - 1) % S = m => FileByte(p, j) = RowByte(p, r, m + 1)
    BY <1>6, Zenon DEF FileByte, S
  <2> DEFINE j == f * S + c * 3 + e + 1
  <2>5. j - 1 = f * S + m
    BY <2>3
  <2> HIDE DEF j, m
  <2>6. (j - 1) \div S = f /\ (j - 1) % S = m
    BY <2>2, <2>5, Zenon
  <2>7. FileByte(p, j) = RowByte(p, r, m + 1)
    BY <2>4, <2>6, Zenon
  <2> QED
    BY <2>7, Zenon DEF j, m
<1>9. ASSUME NEW e \in 0..2
      PROVE  /\ ~(c * 3 + e + 1 > 3 * p.width)
             /\ p.pixels[r * p.width + ((c * 3 + e + 1) - 1) \div 3 + 1] = p.pixels[i]
             /\ (c * 3 + e + 1) % 3 = (e + 1) % 3
  <2>1. c \in Nat /\ c <= w - 1
    BY <1>2, <1>4
  <2> HIDE DEF w
  <2>2. ~(c * 3 + e + 1 > 3 * w)
    BY <1>1, <2>1
  <2>3. ((c * 3 + e + 1) - 1) \div 3 = c
    BY <2>1
  <2>4. (c * 3 + e + 1) % 3 = (e + 1) % 3
    BY <2>1
  <2> QED
    BY <1>4, <2>2, <2>3, <2>4, Zenon DEF w
<1>10. /\ RowByte(p, r, c * 3 + 0 + 1) = p.pixels[i].b
       /\ RowByte(p, r, c * 3 + 1 + 1) = p.pixels[i].g
       /\ RowByte(p, r, c * 3 + 2 + 1) = p.pixels[i].r
  <2>1. /\ 0 \in 0..2 /\ 1 \in 0..2 /\ 2 \in 0..2
        /\ (0 + 1) % 3 = 1 /\ (1 + 1) % 3 = 2 /\ (2 + 1) % 3 = 0
        /\ 2 # 1 /\ 0 # 1 /\ 0 # 2
    OBVIOUS
  <2> DEFINE k(e) == c * 3 + e + 1
  <2>5. \A e \in 0..2 :
          RowByte(p, r, k(e)) = IF k(e) % 3 = 1 THEN p.pixels[i].b
                                ELSE IF k(e) % 3 = 2 THEN p.pixels[i].g
                                ELSE p.pixels[i].r
    <3>1. \A n : ~(n > 3 * p.width)
                /\ p.pixels[r * p.width + (n - 1) \div 3 + 1] = p.pixels[i] =>
            RowByte(p, r, n) = IF n % 3 = 1 THEN p.pixels[i].b
                               ELSE IF n % 3 = 2 THEN p.pixels[i].g
                               ELSE p.pixels[i].r
      BY DEF RowByte
    <3>2. \A e \in 0..2 :
            /\ ~(k(e) > 3 * p.width)
            /\ p.pixels[r * p.width + (k(e) - 1) \div 3 + 1] = p.pixels[i]
      BY <1>9, Zenon
    <3> HIDE DEF k
    <3> QED
      BY <3>1, <3>2, Zenon
  <2>6. k(0) % 3 = 1 /\ k(1) % 3 = 2 /\ k(2) % 3 = 0
    BY <1>9, <2>1, Zenon
  <2>2. RowByte(p, r, k(0)) = p.pixels[i].b
    BY <2>1, <2>5, <2>6, Zenon
  <2>3. RowByte(p, r, k(1)) = p.pixels[i].g
    BY <2>1, <2>5, <2>6, Zenon
  <2>4. RowByte(p, r, k(2)) = p.pixels[i].r
    BY <2>1, <2>5, <2>6, Zenon
  <2> QED
    BY <2>2, <2>3, <2>4
<1>11. PixelStart(p, i) \in Nat /\ PixelStart(p, i) + 3 <= h * S
  <2> DEFINE b == f * S
             a == h * S
  <2>1. c \in Nat /\ c * 3 + 3 <= S
    BY <1>2, <1>3, <1>4
  <2>2. b \in Nat /\ b + S <= a /\ a \in Nat
    BY <1>1, <1>3, <1>7
  <2> HIDE DEF a, b
  <2>3. b + c * 3 \in Nat /\ b + c * 3 + 3 <= a
    BY <1>3, <2>1, <2>2
  <2> QED
    BY <1>5, <2>3 DEF a, b
<1>12. /\ PixelStart(p, i) + 0 + 1 = PixelStart(p, i) + 1
  BY <1>11
<1>13. /\ FileByte(p, f * S + c * 3 + 0 + 1) = p.pixels[i].b
       /\ FileByte(p, f * S + c * 3 + 1 + 1) = p.pixels[i].g
       /\ FileByte(p, f * S + c * 3 + 2 + 1) = p.pixels[i].r
  <2>1. 0 \in 0..2 /\ 1 \in 0..2 /\ 2 \in 0..2
    OBVIOUS
  <2> QED
    BY <1>8, <1>10, <2>1, Zenon
<1> QED
  BY <1>5, <1>11, <1>12, <1>13, Zenon DEF S


Black == [r |-> 0, g |-> 0, b |-> 0]

\* A pixel that the file holds is read as it was written, and one behind the
\* end of the file is black.
LEMMA ColorRead ==
  ASSUME NEW p, IsPicture(p), NEW bs \in Seq(Byte), HoldsRows(p, bs),
         NEW i \in 1..(p.width * p.height)
  PROVE  /\ PixelStart(p, i) + 3 <= Len(bs) => PixelsRead(p, bs)[i] = p.pixels[i]
         /\ PixelStart(p, i) >= Len(bs) => PixelsRead(p, bs)[i] = Black
<1> DEFINE a == PixelStart(p, i)
           l == Len(bs)
<1>1. a \in Nat /\ l \in Nat
  BY PixelInFile
<1>2. PixelsRead(p, bs)[i] = [r |-> DataByte(bs, a + 2 + 1), g |-> DataByte(bs, a + 1 + 1),
                              b |-> DataByte(bs, a + 1)]
  BY Zenon DEF PixelsRead
<1> HIDE DEF a
<1>3. ASSUME a + 3 <= l
      PROVE  PixelsRead(p, bs)[i] = p.pixels[i]
  <2>1. a + 1 \in 1..l /\ a + 1 + 1 \in 1..l /\ a + 2 + 1 \in 1..l
    BY <1>1, <1>3
  <2>2. \A k \in 1..l : DataByte(bs, k) = FileByte(p, k)
    BY <1>1 DEF DataByte, HoldsRows
  <2>3. /\ DataByte(bs, a + 1) = p.pixels[i].b
        /\ DataByte(bs, a + 1 + 1) = p.pixels[i].g
        /\ DataByte(bs, a + 2 + 1) = p.pixels[i].r
    <3>1. /\ FileByte(p, a + 1) = p.pixels[i].b
          /\ FileByte(p, a + 1 + 1) = p.pixels[i].g
          /\ FileByte(p, a + 2 + 1) = p.pixels[i].r
      BY PixelInFile, Zenon DEF a
    <3> QED
      BY <2>1, <2>2, <3>1, Zenon
  <2>4. p.pixels[i] \in Pixel
    BY DEF IsPicture
  <2>5. p.pixels[i] = [r |-> p.pixels[i].r, g |-> p.pixels[i].g, b |-> p.pixels[i].b]
    BY <2>4 DEF Pixel
  <2> QED
    BY <1>2, <2>3, <2>5, Zenon
<1>4. ASSUME a >= l
      PROVE  PixelsRead(p, bs)[i] = Black
  <2>1. ~(a + 1 <= l) /\ ~(a + 1 + 1 <= l) /\ ~(a + 2 + 1 <= l)
    BY <1>1, <1>4
  <2> QED
    BY <1>2, <2>1, Zenon DEF DataByte, Black
<1> QED
  BY <1>3, <1>4 DEF a

\* A whole file gives back the pixels of its image.
LEMMA WholeRead ==
  ASSUME NEW p, IsPicture(p), NEW bs \in Seq(Byte), HoldsRows(p, bs),
         Len(bs) = p.height * RowStride(p)
  PROVE  [width |-> p.width, height |-> p.height, pixels |-> PixelsRead(p, bs)] = p
<1> DEFINE n == p.width * p.height
<1>1. \A i \in 1..n : PixelsRead(p, bs)[i] = p.pixels[i]
  BY PixelInFile, ColorRead, Zenon
<1>2. PixelsRead(p, bs) = [i \in 1..n |-> PixelsRead(p, bs)[i]]
  BY DEF PixelsRead
<1>3. p.pixels = [i \in 1..n |-> p.pixels[i]]
  BY DEF IsPicture
<1>4. PixelsRead(p, bs) = p.pixels
  BY <1>1, <1>2, <1>3
<1>5. p = [width |-> p.width, height |-> p.height, pixels |-> p.pixels]
  BY DEF IsPicture
<1> QED
  BY <1>4, <1>5, Zenon

\* Row r of the image, of which file row h - 1 - r holds the bytes.
LEMMA RowRead ==
  ASSUME NEW p, IsPicture(p), NEW bs \in Seq(Byte), HoldsRows(p, bs),
         NEW r \in 0..(p.height - 1), NEW x \in 1..p.width
  PROVE  LET i == r * p.width + x
             f == (p.height - 1 - r) * RowStride(p)
         IN  /\ f + RowStride(p) <= Len(bs) => PixelsRead(p, bs)[i] = p.pixels[i]
             /\ f >= Len(bs) => PixelsRead(p, bs)[i] = Black
<1> DEFINE w == p.width
           h == p.height
           S == RowStride(p)
           i == r * w + x
           f == (h - 1 - r) * S
           c == x - 1
<1>1. w \in Nat \ {0} /\ h \in Nat /\ c \in 0..(w - 1) /\ x = c + 1 /\ Len(bs) \in Nat
  BY DEF IsPicture
<1>2. S \in Nat /\ 3 * w <= S
  BY StrideOfPicture
<1> HIDE DEF c
<1>3. i \in 1..(w * h) /\ (i - 1) \div w = r /\ (i - 1) % w = c
  BY <1>1, Number
<1>4. PixelStart(p, i) = f + c * 3
  <2> HIDE DEF i
  <2> QED
    BY <1>3, Zenon DEF PixelStart
<1>5. f \in Nat
  <2>1. h - 1 - r \in Nat
    BY <1>1
  <2> HIDE DEF h, S
  <2> QED
    BY <1>2, <2>1
<1> HIDE DEF i, f, S
<1>6. f + S <= Len(bs) => PixelStart(p, i) + 3 <= Len(bs)
  BY <1>1, <1>2, <1>4, <1>5
<1>7. f >= Len(bs) => PixelStart(p, i) >= Len(bs)
  BY <1>1, <1>4, <1>5
<1>8. /\ f + S <= Len(bs) => PixelsRead(p, bs)[i] = p.pixels[i]
      /\ f >= Len(bs) => PixelsRead(p, bs)[i] = Black
  BY <1>3, <1>6, <1>7, ColorRead, Zenon
<1> QED
  BY <1>8 DEF i, f, S


DataRead(p, bs) == [k \in 1..(p.height * RowStride(p)) |-> DataByte(bs, k)]

AllBlack(p) ==
  [width |-> p.width, height |-> p.height,
   pixels |-> [i \in 1..(p.width * p.height) |-> [r |-> 0, g |-> 0, b |-> 0]]]

ImageRead(p, bs) ==
  [width |-> p.width, height |-> p.height, pixels |-> PixelsRead(p, bs)]

\* What readBMP holds at each of its steps of a file with a whole header.
ReadBackInv ==
  PictureFits /\ picture # NoPicture /\ header \in Header =>
    /\ pc \in {"image_data", "pixels", "decode"} => hdr = HeaderOf(picture)
    /\ pc \in {"pixels", "decode"} => image_data = DataRead(picture, bytes)
    /\ pc = "decode" => result = AllBlack(picture)
    /\ ReadOk => result = ImageRead(picture, bytes)

\* The fields of the header that writeBMP writes, as readBMP uses them.
LEMMA HeaderFields ==
  ASSUME NEW p, NEW h, h = HeaderOf(p), IsPicture(p)
  PROVE  /\ h.width = p.width /\ h.height = p.height
         /\ h.bitsPerPixel = 24 /\ h.dataOffset = 54
         /\ RowSize(h.bitsPerPixel, h.width) = RowStride(p)
         /\ DataSize(h) = p.height * RowStride(p)
         /\ PixelCount(h) = p.width * p.height
         /\ \A i \in Int : FromFile(h, i) = i
<1>1. /\ h.width = p.width /\ h.height = p.height
      /\ h.bitsPerPixel = 24 /\ h.dataOffset = 54
  BY DEF HeaderOf
<1>2. RowSize(h.bitsPerPixel, h.width) = RowStride(p)
  BY <1>1, Zenon DEF RowStride
<1>3. \A i \in Int : FromFile(h, i) = i
  BY <1>1 DEF FromFile
<1> DEFINE d == p.height * RowStride(p)
           n == p.width * p.height
<1>4. d \in Nat /\ n \in Nat /\ d <= INT_MAX /\ n <= INT_MAX
  BY StrideOfPicture DEF IsPicture, SizesFit, RowStride
<1> HIDE DEF d, n
<1>5. d \in Ints /\ n \in Ints
  BY <1>4, IntMaxAssumption DEF Ints
<1>6. Wrap(d) = d /\ Wrap(n) = n
  BY <1>4, <1>5, WrapIs
<1> QED
  BY <1>1, <1>2, <1>3, <1>6, Zenon DEF DataSize, PixelCount, d, n

\* The loop of readBMP puts the bytes of each pixel in its place.
LEMMA DecodeReads ==
  ASSUME NEW p, IsPicture(p), NEW bs, hdr = HeaderOf(p), image_data = DataRead(p, bs),
         result = AllBlack(p), Decode, outcome' = "ok"
  PROVE  result' = ImageRead(p, bs)
<1> DEFINE w == p.width
           h == p.height
           S == RowStride(p)
           n == w * h
           row(i) == hdr.height - 1 - (i - 1) \div hdr.width
           column(i) == (i - 1) % hdr.width
           color(i) == ColorAt(hdr, Index(hdr, row(i), column(i)))
<1>1. w \in Nat /\ h \in Nat /\ S \in Nat
  BY StrideOfPicture DEF IsPicture
<1>2. hdr.width = w /\ hdr.height = h /\ hdr.bitsPerPixel = 24
  BY HeaderFields, Zenon
<1>3. result' = IF hdr.width <= 0 \/ hdr.height <= 0 THEN result
                ELSE [result EXCEPT !.pixels = [i \in DOMAIN @ |-> color(i)]]
  BY Zenon DEF Decode, Throws
<1>4. CASE w = 0 \/ h = 0
  <2>1. 1..n = {} /\ (w <= 0 \/ h <= 0)
    <3>1. n = 0
      BY <1>1, <1>4
    <3> HIDE DEF n
    <3> QED
      BY <1>4, <3>1
  <2>2. result' = AllBlack(p)
    BY <1>2, <1>3, <2>1, Zenon
  <2>3. PixelsRead(p, bs) = [i \in 1..n |-> [r |-> 0, g |-> 0, b |-> 0]]
    BY <2>1 DEF PixelsRead
  <2> QED
    BY <2>2, <2>3, Zenon DEF AllBlack, ImageRead
<1>5. CASE ~(w = 0 \/ h = 0)
  <2>1. ~(hdr.width <= 0 \/ hdr.height <= 0)
    BY <1>1, <1>2, <1>5
  <2>2. DOMAIN result.pixels = 1..n
    BY DEF AllBlack
  <2>3. result' = [width |-> w, height |-> h, pixels |-> [i \in 1..n |-> color(i)]]
    <3>1. result' = [result EXCEPT !.pixels = [i \in DOMAIN result.pixels |-> color(i)]]
      BY <1>3, <2>1, Zenon
    <3> HIDE DEF color, n
    <3>2. result' = [result EXCEPT !.pixels = [i \in 1..n |-> color(i)]]
      BY <2>2, <3>1, Zenon
    <3> DEFINE px == [i \in 1..n |-> color(i)]
               bl == [i \in 1..n |-> [r |-> 0, g |-> 0, b |-> 0]]
    <3>3. result = [width |-> w, height |-> h, pixels |-> bl]
      BY Zenon DEF AllBlack, n
    <3> HIDE DEF px, bl, w, h
    <3>4. result' = [[width |-> w, height |-> h, pixels |-> bl] EXCEPT !.pixels = px]
      BY <3>2, <3>3, Zenon DEF px
    <3>5. \A b, c, d, e : [[width |-> b, height |-> c, pixels |-> d] EXCEPT !.pixels = e]
                          = [width |-> b, height |-> c, pixels |-> e]
      OBVIOUS
    <3> QED
      BY <3>4, <3>5, Zenon DEF px
  <2>4. ASSUME NEW i \in 1..n
        PROVE  color(i) = PixelsRead(p, bs)[i]
    <3> DEFINE a == PixelStart(p, i)
    <3>1. Index(hdr, row(i), column(i)) = a
      <4>1. RowSize(hdr.bitsPerPixel, hdr.width) = S /\ CDiv(hdr.bitsPerPixel, 8) = 3
        <5>1. CDiv(24, 8) = 3
          BY DEF CDiv
        <5> QED
          BY <1>2, <5>1, HeaderFields, Zenon
      <4>2. row(i) = h - 1 - (i - 1) \div w /\ column(i) = (i - 1) % w
        BY <1>2, Zenon
      <4> HIDE DEF row, column
      <4>3. Index(hdr, row(i), column(i)) = Wrap(a)
        BY <4>1, <4>2, Zenon DEF PixelStart, Index
      <4>4. a \in Nat /\ a + 3 <= h * S /\ h * S <= INT_MAX /\ h * S \in Nat
        BY <1>1, PixelInFile DEF IsPicture, SizesFit, RowStride
      <4> DEFINE d == h * S
      <4> HIDE DEF a, d
      <4>5. a \in Ints
        BY <4>4, IntMaxAssumption DEF Ints, d
      <4>6. Wrap(a) = a
        BY <4>4, <4>5, WrapIs
      <4> QED
        BY <4>3, <4>6, Zenon
    <3>2. a \in Nat /\ a + 3 <= h * S
      BY PixelInFile, Zenon
    <3> HIDE DEF a
    <3>3. h * S \in Nat
      BY <1>1
    <3>4. a + 1 \in 1..(h * S) /\ a + 1 + 1 \in 1..(h * S) /\ a + 2 + 1 \in 1..(h * S)
      <4> DEFINE m == h * S
      <4>1. m \in Nat /\ a + 3 <= m
        BY <3>2, <3>3
      <4> HIDE DEF m
      <4>2. a + 1 \in 1..m /\ a + 1 + 1 \in 1..m /\ a + 2 + 1 \in 1..m
        BY <3>2, <4>1
      <4> QED
        BY <4>2 DEF m
    <3>5. /\ At(a) = DataByte(bs, a + 1) /\ At(a + 1) = DataByte(bs, a + 1 + 1)
          /\ At(a + 2) = DataByte(bs, a + 2 + 1)
      BY <3>4, Zenon DEF At, DataRead
    <3>6. ColorAt(hdr, a) = [r |-> At(a + 2), g |-> At(a + 1), b |-> At(a)]
      <4>1. 24 >= 24
        OBVIOUS
      <4> QED
        BY <1>2, <4>1, Zenon DEF ColorAt
    <3>7. PixelsRead(p, bs)[i] = [r |-> DataByte(bs, a + 2 + 1), g |-> DataByte(bs, a + 1 + 1),
                                  b |-> DataByte(bs, a + 1)]
      BY Zenon DEF PixelsRead, a
    <3> QED
      BY <3>1, <3>5, <3>6, <3>7, Zenon
  <2>5. PixelsRead(p, bs) = [i \in 1..n |-> PixelsRead(p, bs)[i]]
    BY DEF PixelsRead
  <2>6. [i \in 1..n |-> color(i)] = PixelsRead(p, bs)
    <3> HIDE DEF color, n
    <3> QED
      BY <2>4, <2>5, Zenon
  <2> QED
    BY <2>3, <2>6, Zenon DEF ImageRead
<1> QED
  BY <1>4, <1>5

\* Every step of readBMP keeps what it holds of the written image.
LEMMA ReadBackInvKept ==
  ASSUME FileInv, ReaderInv, ReadBackInv, [Next]_vars
  PROVE  ReadBackInv'
<1>P. picture' = picture
  BY DEF Next, vars, Create, WriteHeader, AllocateRow, WriteRow, RowsDone, Close, DiskFull, Crash,
         BeginRead, Open, ReadHeader, ReadData, AllocatePixels, Decode, Stopped
<1>F. PictureFits' <=> PictureFits
  BY <1>P, Zenon DEF PictureFits, SizesFit
<1>1. CASE UNCHANGED vars
  BY <1>1, <1>F, Zenon DEF ReadBackInv, ReadOk, vars
<1>2. CASE Create \/ WriteHeader \/ AllocateRow \/ WriteRow \/ RowsDone \/ Close \/ DiskFull \/ Crash
  <2>1. \/ pc' \in {"header", "row_data", "rows", "fclose", "at rest"}
        \/ pc' = "over" /\ outcome' = "undefined write"
    BY <1>2, Zenon
       DEF Create, WriteHeader, AllocateRow, WriteRow, RowsDone, Close, DiskFull, Crash,
           Writing, Ends
  <2> QED
    BY <2>1 DEF ReadBackInv, ReadOk
<1>3. CASE BeginRead \/ Open
  BY <1>3, Zenon DEF ReadBackInv, ReadOk, BeginRead, Open, Throws
<1>4. SUFFICES ASSUME PictureFits, picture # NoPicture, header \in Header,
                      UNCHANGED <<header, picture, bytes>>,
                      ReadHeader \/ ReadData \/ AllocatePixels \/ Decode
               PROVE  ReadBackInv'
  <2>1. CASE Stopped
    BY <1>1, <2>1, Zenon DEF Stopped
  <2>2. CASE ReadHeader \/ ReadData \/ AllocatePixels \/ Decode
    <3>1. UNCHANGED <<header, picture, bytes>>
      BY <2>2, Zenon DEF ReadHeader, ReadData, AllocatePixels, Decode, file
    <3> QED
      BY <1>4, <1>F, <2>2, <3>1, Zenon DEF ReadBackInv
  <2> QED
    BY <1>1, <1>2, <1>3, <2>1, <2>2, Zenon DEF Next
<1>5. IsPicture(picture) /\ bytes \in Seq(Byte) /\ header = HeaderOf(picture)
  BY <1>4, FittingPicture, MarkersAssumption, Zenon DEF FileInv
<1>6. CASE ReadHeader
  <2>1. header # Cut
    BY <1>4, MarkersAssumption, Zenon
  <2> QED
    BY <1>4, <1>5, <1>6, <2>1, Zenon DEF ReadBackInv, ReadOk, ReadHeader
<1>7. CASE ReadData
  <2>1. pc = "image_data" /\ hdr' = hdr /\ hdr = HeaderOf(picture)
    BY <1>4, <1>7, Zenon DEF ReadBackInv, ReadData
  <2>2. CASE pc' = "pixels"
    <3>1. image_data' = [i \in 1..DataSize(hdr) |->
                           IF FromFile(hdr, i) <= Len(bytes)
                           THEN bytes[FromFile(hdr, i)] ELSE 0]
      BY <1>7, <2>2, Zenon DEF ReadData, Throws
    <3>2. DataSize(hdr) = picture.height * RowStride(picture)
      BY <1>5, <2>1, HeaderFields, Zenon
    <3>3. \A i \in 1..DataSize(hdr) : i \in Int
      OBVIOUS
    <3>4. \A i \in 1..DataSize(hdr) : FromFile(hdr, i) = i
      BY <1>5, <2>1, <3>3, HeaderFields, Zenon
    <3>5. image_data' = [i \in 1..DataSize(hdr) |-> DataByte(bytes, i)]
      BY <3>1, <3>4, Zenon DEF DataByte
    <3>6. image_data' = DataRead(picture, bytes)
      BY <3>2, <3>5, Zenon DEF DataRead
    <3> QED
      BY <1>4, <2>1, <2>2, <3>6, Zenon DEF ReadBackInv, ReadOk
  <2>3. CASE pc' = "over" /\ outcome' # "ok"
    BY <2>3, Zenon DEF ReadBackInv, ReadOk
  <2> QED
    BY <1>7, <2>2, <2>3, Zenon DEF ReadData, Throws
<1>8. CASE AllocatePixels
  <2>1. pc = "pixels" /\ hdr' = hdr /\ image_data' = image_data
        /\ hdr = HeaderOf(picture) /\ image_data = DataRead(picture, bytes)
    BY <1>4, <1>8, Zenon DEF ReadBackInv, AllocatePixels
  <2>2. hdr.width = picture.width /\ hdr.height = picture.height
        /\ PixelCount(hdr) = picture.width * picture.height
    BY <1>5, <2>1, HeaderFields, Zenon
  <2>3. CASE pc' = "decode"
    <3>1. result' = AllBlack(picture)
      BY <1>8, <2>2, <2>3, Zenon DEF AllocatePixels, Throws, AllBlack
    <3> QED
      BY <1>4, <2>1, <2>3, <3>1, Zenon DEF ReadBackInv, ReadOk
  <2>4. CASE pc' = "over" /\ outcome' # "ok"
    BY <2>4, Zenon DEF ReadBackInv, ReadOk
  <2> QED
    BY <1>8, <2>3, <2>4, Zenon DEF AllocatePixels, Throws
<1>9. CASE Decode
  <2>1. /\ pc = "decode" /\ pc' = "over"
        /\ hdr = HeaderOf(picture) /\ image_data = DataRead(picture, bytes)
        /\ result = AllBlack(picture)
    BY <1>4, <1>9, Zenon DEF ReadBackInv, Decode, Throws
  <2>2. outcome' = "ok" => result' = ImageRead(picture, bytes)
    BY <1>5, <1>9, <2>1, DecodeReads, Zenon
  <2> QED
    BY <1>4, <2>1, <2>2, Zenon DEF ReadBackInv, ReadOk
<1> QED
  BY <1>4, <1>6, <1>7, <1>8, <1>9

\* What the invariants say of an image that is read again.
LEMMA RowsAreBack ==
  ASSUME FileInv, ReadBackInv
  PROVE  RowsComeBack
<1> SUFFICES ASSUME PictureFits, picture # NoPicture, header \in Header, ReadOk
             PROVE  RowsComeBack
  BY Zenon DEF RowsComeBack, BmpComesBack, CutFileLosesTopRows, WrittenWhole
<1> DEFINE p == picture
           w == p.width
           h == p.height
           S == RowStride(p)
           l == Len(bytes)
<1>1. /\ IsPicture(p) /\ bytes \in Seq(Byte) /\ HoldsRows(p, bytes)
      /\ UpToRow(p, bytes, y, full) /\ y \in Int /\ y >= -1 /\ y < h
  BY FittingPicture DEF FileInv
<1>2. w \in Nat /\ h \in Nat /\ S \in Nat /\ l \in Nat
  BY <1>1, StrideOfPicture DEF IsPicture
<1>3. result = ImageRead(p, bytes)
  BY Zenon DEF ReadBackInv
<1>4. BmpComesBack
  <2> SUFFICES ASSUME ~full, y = -1
               PROVE  result = picture
    BY Zenon DEF BmpComesBack, WrittenWhole
  <2>1. h - 1 - y = h
    BY <1>2
  <2>2. l = h * S
    BY <1>1, <2>1, Zenon DEF UpToRow
  <2> QED
    BY <1>1, <1>3, <2>2, WholeRead, Zenon DEF ImageRead
<1>5. l <= h * S
  <2> DEFINE m == h - 1 - y
  <2>1. m \in Nat /\ m <= h
    BY <1>1, <1>2
  <2>2. l <= m * S
    BY <1>1, Zenon DEF UpToRow
  <2> HIDE DEF m, h, S, l
  <2>3. (h - m) * S >= 0
    BY <1>2, <2>1
  <2> QED
    BY <1>2, <2>1, <2>2, <2>3
<1>6. result.width = w /\ result.height = h /\ result.pixels = PixelsRead(p, bytes)
  BY <1>3 DEF ImageRead
<1>7. \E r \in 0..h :
        /\ \A above \in 0..(r - 2) : \A x \in 1..w : PixelsRead(p, bytes)[above * w + x] = Black
        /\ \A below \in r..(h - 1) :
             \A x \in 1..w : PixelsRead(p, bytes)[below * w + x] = p.pixels[below * w + x]
  <2>1. CASE w = 0
    <3>1. 1..w = {} /\ 0 \in 0..h
      BY <1>2, <2>1
    <3> QED
      BY <3>1, Zenon
  <2>2. CASE w # 0
    <3> DEFINE q == l \div S
               r == h - q
    <3>1. S >= 4
      BY <1>1, <1>2, <2>2, StrideOfPicture
    <3>2. q \in Nat /\ q * S <= l /\ l < q * S + S
      <4> HIDE DEF l, S
      <4> QED
        BY <1>2, <3>1, Quotient
    <3>3. q <= h
      <4> HIDE DEF q, h, S, l
      <4>1. q > h => (q - h - 1) * S >= 0
        BY <1>2, <3>1, <3>2
      <4> QED
        BY <1>2, <1>5, <3>1, <3>2, <4>1
    <3>4. r \in 0..h
      BY <1>2, <3>2, <3>3
    <3>5. ASSUME NEW above \in 0..(r - 2), NEW x \in 1..w
          PROVE  PixelsRead(p, bytes)[above * w + x] = Black
      <4> DEFINE f == h - 1 - above
      <4>1. f \in Nat /\ f >= q + 1 /\ above \in 0..(h - 1)
        <5> HIDE DEF q, h, S, l
        <5>1. h \in Nat /\ q \in Nat /\ above \in 0..(h - q - 2)
          BY <1>2, <3>2
        <5> QED
          BY ONLY <5>1
      <4>2. f * S >= l
        <5> HIDE DEF f, q, h, S, l
        <5>1. (f - q - 1) * S >= 0
          BY <1>2, <3>2, <4>1
        <5> QED
          BY <1>2, <3>2, <4>1, <5>1
      <4> QED
        BY <1>1, <4>1, <4>2, RowRead, Zenon
    <3>6. ASSUME NEW below \in r..(h - 1), NEW x \in 1..w
          PROVE  PixelsRead(p, bytes)[below * w + x] = p.pixels[below * w + x]
      <4> DEFINE f == h - 1 - below
      <4>1. f \in Nat /\ f + 1 <= q /\ below \in 0..(h - 1)
        BY <1>2, <3>2, <3>4
      <4>2. f * S + S <= l
        <5> HIDE DEF f, q, h, S, l
        <5>1. (q - f - 1) * S >= 0
          BY <1>2, <3>2, <4>1
        <5> QED
          BY <1>2, <3>2, <4>1, <5>1
      <4> QED
        BY <1>1, <4>1, <4>2, RowRead, Zenon
    <3> QED
      BY <3>4, <3>5, <3>6, Zenon
  <2> QED
    BY <2>1, <2>2
<1>8. CutFileLosesTopRows
  BY <1>6, <1>7, Zenon DEF CutFileLosesTopRows, Black
<1> QED
  BY <1>4, <1>8, Zenon DEF RowsComeBack

\* Whatever its pixels and its size, as long as that fits an int, an image
\* whose rows were all written is read back as it was, and of one that a crash,
\* a full disk or std::bad_alloc cut short, the rows from some row down.
THEOREM WrittenRowsComeBack == Spec => []RowsComeBack
<1> DEFINE Inv == FileInv /\ ReaderInv /\ ReadBackInv
<1>1. Init => Inv
  <2>1. Init => ReaderInv /\ ReadBackInv
    BY Zenon DEF Init, ReaderInv, ReadBackInv, ReadOk
  <2> QED
    BY <2>1, FileInvAtStart
<1>2. Inv /\ [Next]_vars => Inv'
  BY FileInvKept, ReaderInvKept, ReadBackInvKept
<1>3. Inv => RowsComeBack
  BY RowsAreBack
<1> QED
  BY <1>1, <1>2, <1>3, PTL DEF Spec

-----------------------------------------------------------------------------
(***************************************************************************)
(* The functions around libpng and libjpeg.                                *)
(***************************************************************************)
\* What a call holds at each point, and how it may end.
Holding ==
  /\ func \in {"readPNG", "writePNG", "readJPEG", "writeJPEG"}
  /\ at \in {"fopen", "struct", "info", "header", "vectors", "rows", "finish", "convert", "over"}
  /\ at # "over" => ended = "running"
  /\ at = "fopen" => held = {}
  /\ at = "struct" => held = {"fp"}
  /\ at = "info" => IsPng /\ held = {"fp", "png"}
  /\ at \in {"header", "vectors"} =>
       held = IF IsPng THEN {"fp", "png", "info"} ELSE {"fp", "cinfo"}
  /\ at \in {"rows", "finish"} =>
       held = Vectors \cup IF IsPng THEN {"fp", "png", "info"} ELSE {"fp", "cinfo"}
  /\ at = "convert" => held = Vectors
  /\ at \in {"fopen", "struct", "info", "header", "vectors"} => rowsMoved = 0
  /\ at \in {"vectors", "rows", "finish", "convert"} => input.height > 0
  /\ at \in {"finish", "convert"} => rowsMoved = input.height
  /\ at = "over" => ResourcesReleased

\* Every step acquires and releases what it should.
LEMMA HoldingKept ==
  ASSUME Holding, [LibNext]_libVars
  PROVE  Holding'
<1> USE DEF Holding, data, Advance, Over, Throw, IsReader, IsPng,
            Vectors, ResourcesReleased, OnlyJumpedVectorsLeak,
            BadAllocLeaksObjects, Objects
<1>1. CASE UNCHANGED libVars
  BY <1>1 DEF libVars
<1>2. CASE Fopen
  BY <1>2 DEF Fopen
<1>3. CASE CreateStruct
  BY <1>3 DEF CreateStruct, LibraryError
<1>4. CASE CreateInfo
  BY <1>4 DEF CreateInfo
<1>5. CASE PassHeader
  <2>1. MaxSide \in Nat
    BY MaxSideAssumption
  <2>2. \A n \in 1..MaxSide : n > 0
    BY <2>1
  <2> QED
    BY <1>5, <2>2 DEF PassHeader, LibraryError
<1>6. CASE AllocateVectors
  BY <1>6 DEF AllocateVectors, NoVector
<1>7. CASE ReadRow
  BY <1>7 DEF ReadRow, LibraryError
<1>8. CASE SendRow
  BY <1>8 DEF SendRow, LibraryError
<1>9. CASE AllRowsMoved
  BY <1>9 DEF AllRowsMoved
<1>10. CASE Finish
  BY <1>10 DEF Finish, LibraryError
<1>11. CASE Convert
  BY <1>11 DEF Convert, NoVector
<1>12. CASE Finished
  BY <1>12 DEF Finished, libVars
<1> QED
  BY <1>1, <1>2, <1>3, <1>4, <1>5, <1>6, <1>7, <1>8, <1>9, <1>10, <1>11, <1>12, Zenon
     DEF LibNext

\* However readPNG, writePNG, readJPEG or writeJPEG return or throw, what they
\* acquired is released: FILE, structs and vectors, but for the vectors that
\* libpng's longjmp passes over and the objects that std::bad_alloc, and
\* std::length_error of a size that overflowed, leave behind.
THEOREM LibraryObjectsReleased == LibSpec => []ResourcesReleased
<1>1. LibInit => Holding
  BY DEF LibInit, Holding
<1>2. Holding /\ [LibNext]_libVars => Holding'
  BY HoldingKept, Zenon
<1>3. Holding => ResourcesReleased
  BY DEF Holding, ResourcesReleased, OnlyJumpedVectorsLeak, BadAllocLeaksObjects
<1> QED
  BY <1>1, <1>2, <1>3, PTL DEF LibSpec

-----------------------------------------------------------------------------
(***************************************************************************)
(* Sequences put together from pieces of one length.                       *)
(***************************************************************************)

\* The least-number principle.
LEMMA LeastElement ==
  ASSUME NEW T \in SUBSET Nat, T # {}
  PROVE  \E m \in T : \A k \in T : ~(k < m)
<1> DEFINE R == OpToRel(<, Nat)
<1>1. IsWellFoundedOn(R, Nat)
  BY NatLessThanWellFounded
<1>2. \E m \in T : \A k \in T : ~(<<k, m>> \in R)
  <2> HIDE DEF R
  <2> QED
    BY <1>1, WFMin, Zenon
<1>3. \A k \in Nat, m \in Nat : k < m => <<k, m>> \in R
  BY DEF OpToRel
<1> QED
  BY <1>2, <1>3

\* Induction over the natural numbers.
LEMMA SetInduction ==
  ASSUME NEW H, 0 \in H, \A n \in Nat : n \in H => n + 1 \in H
  PROVE  Nat \subseteq H
<1> DEFINE T == Nat \ H
<1> SUFFICES ASSUME T # {} PROVE FALSE
  OBVIOUS
<1>1. PICK m \in T : \A k \in T : ~(k < m)
  BY LeastElement
<1>2. m # 0 /\ m - 1 \in Nat /\ m - 1 < m
  OBVIOUS
<1>3. m - 1 \in H
  BY <1>1, <1>2
<1>4. (m - 1) + 1 \in H /\ (m - 1) + 1 = m
  BY <1>2, <1>3
<1> QED
  BY <1>4

\* The first i of the sequences ss, each of length k, one after another.
Flat(ss, k, i) == [j \in 1..(i * k) |-> ss[((j - 1) \div k) + 1][((j - 1) % k) + 1]]

\* Element c of piece i, counted from 0, is at i * k + c + 1 of the whole.
LEMMA PieceOf ==
  ASSUME NEW k \in Nat \ {0}, NEW i \in Nat, NEW c \in 0..(k - 1)
  PROVE  (i * k + c) \div k = i /\ (i * k + c) % k = c
OBVIOUS

\* The elements of two sequences, one after the other.
LEMMA Joined ==
  ASSUME NEW s \in Seq(Sample), NEW t \in Seq(Sample)
  PROVE  /\ s \o t \in Seq(Sample) /\ Len(s \o t) = Len(s) + Len(t)
         /\ \A j \in 1..Len(s) : (s \o t)[j] = s[j]
         /\ \A j \in 1..Len(t) : (s \o t)[Len(s) + j] = t[j]
OBVIOUS

\* The pieces up to piece i are those before it, and it.
LEMMA FlatGrows ==
  ASSUME NEW n \in Nat, NEW k \in Nat \ {0}, NEW ss \in [1..n -> Seq(Sample)],
         \A i \in 1..n : Len(ss[i]) = k, NEW i \in 1..n
  PROVE  Flat(ss, k, i) = Flat(ss, k, i - 1) \o ss[i]
<1> DEFINE m == i - 1
           b == m * k
           s == Flat(ss, k, m)
           t == ss[i]
           u == Flat(ss, k, i)
<1>1. m \in Nat /\ m + 1 = i
  OBVIOUS
<1>2. b \in Nat /\ i * k = b + k
  <2>1. i * k = (m + 1) * k
    BY <1>1
  <2> HIDE DEF m
  <2> QED
    BY <1>1, <2>1
<1>3. ASSUME NEW l \in 0..n, NEW j \in 1..(l * k)
      PROVE  /\ ((j - 1) \div k) + 1 \in 1..l /\ ((j - 1) % k) + 1 \in 1..k
             /\ ss[((j - 1) \div k) + 1][((j - 1) % k) + 1] \in Sample
  <2>1. l \in Nat /\ j \in 1..(k * l)
    OBVIOUS
  <2>2. (j - 1) \div k \in 0..(l - 1) /\ (j - 1) % k \in 0..(k - 1)
    BY <2>1, Place, Zenon
  <2> DEFINE q == (j - 1) \div k
             r == (j - 1) % k
  <2> HIDE DEF q, r
  <2>3. q \in 0..(l - 1) /\ r \in 0..(k - 1)
    BY <2>2 DEF q, r
  <2>4. q + 1 \in 1..l /\ r + 1 \in 1..k /\ q + 1 \in 1..n
    BY <2>3
  <2>5. ss[q + 1] \in Seq(Sample) /\ Len(ss[q + 1]) = k
    BY <2>4
  <2>6. ss[q + 1][r + 1] \in Sample
    BY <2>4, <2>5, ElementOfSeq
  <2> QED
    BY <2>4, <2>6 DEF q, r
<1>4. ASSUME NEW l \in 0..n
      PROVE  Flat(ss, k, l) \in [1..(l * k) -> Sample]
  BY <1>3 DEF Flat
<1>5. i \in 0..n /\ m \in 0..n
  BY <1>1
<1>6. u \in [1..(b + k) -> Sample] /\ s \in [1..b -> Sample]
  BY <1>2, <1>4, <1>5
<1>7. s \in Seq(Sample) /\ Len(s) = b
  <2> HIDE DEF s, b
  <2> QED
    BY <1>2, <1>6
<1>8. t \in Seq(Sample) /\ Len(t) = k
  OBVIOUS
<1>9. \A j \in 1..b : u[j] = s[j]
  <2> SUFFICES ASSUME NEW j \in 1..b PROVE u[j] = s[j]
    OBVIOUS
  <2>1. j \in 1..(i * k) /\ j \in 1..(m * k)
    <3> HIDE DEF m
    <3>1. j \in 1..b /\ b \in Nat
      BY <1>2
    <3> HIDE DEF b
    <3>2. j \in 1..(b + k)
      BY <3>1
    <3> QED
      BY <1>2, <3>1, <3>2 DEF b
  <2> HIDE DEF m
  <2> QED
    BY <2>1 DEF Flat
<1>10. \A j \in 1..k : u[b + j] = t[j]
  <2> SUFFICES ASSUME NEW j \in 1..k PROVE u[b + j] = t[j]
    OBVIOUS
  <2> DEFINE c == j - 1
  <2>1. c \in 0..(k - 1) /\ c + 1 = j
    OBVIOUS
  <2>2. (m * k + c) \div k = m /\ (m * k + c) % k = c
    BY <1>1, <2>1, PieceOf, Zenon
  <2>3. b + j \in 1..(i * k) /\ (b + j) - 1 = m * k + c
    <3> HIDE DEF m
    <3>1. b \in Nat /\ b = m * k
      BY <1>2
    <3> HIDE DEF b
    <3> QED
      BY <1>2, <3>1
  <2>4. u[b + j] = ss[(((b + j) - 1) \div k) + 1][(((b + j) - 1) % k) + 1]
    <3> HIDE DEF b
    <3> QED
      BY <2>3, Zenon DEF Flat
  <2>5. u[b + j] = ss[m + 1][c + 1]
    BY <2>2, <2>3, <2>4, Zenon
  <2> QED
    BY <1>1, <2>1, <2>5, Zenon
<1> HIDE DEF u, s, t, b, m
<1> DEFINE v == s \o t
           N == b + k
<1>11. v \in Seq(Sample) /\ Len(v) = N /\ N \in Nat
  <2>1. v \in Seq(Sample) /\ Len(v) = Len(s) + Len(t)
    BY <1>7, <1>8, Joined
  <2> HIDE DEF v
  <2> QED
    BY <1>2, <1>7, <1>8, <2>1
<1>12. \A j \in 1..b : v[j] = s[j]
  BY <1>7, <1>8, Joined
<1>13. \A j \in 1..k : v[b + j] = t[j]
  BY <1>7, <1>8, Joined
<1> HIDE DEF v
<1>14. ASSUME NEW j \in 1..N PROVE u[j] = v[j]
  <2>1. CASE j <= b
    <3>1. j \in 1..b
      BY <1>2, <2>1
    <3> QED
      BY <1>9, <1>12, <3>1, Zenon
  <2>2. CASE ~(j <= b)
    <3>1. j - b \in 1..k /\ b + (j - b) = j
      BY <1>2, <2>2
    <3>2. u[b + (j - b)] = v[b + (j - b)]
      BY <1>10, <1>13, <3>1, Zenon
    <3> QED
      BY <3>1, <3>2, Zenon
  <2> QED
    BY <2>1, <2>2, Zenon
<1>15. u \in [1..N -> Sample]
  BY <1>6
<1> HIDE DEF N
<1>16. v \in [1..N -> Sample]
  BY <1>11
<1>17. u = [j \in 1..N |-> u[j]] /\ v = [j \in 1..N |-> v[j]]
  BY <1>15, <1>16
<1>18. [j \in 1..N |-> u[j]] = [j \in 1..N |-> v[j]]
  BY <1>14, Zenon
<1>19. u = v
  BY <1>17, <1>18, Zenon
<1> QED
  BY <1>19 DEF u, v, s, t, m
\* FlattenSeq puts sequences of one length one after another.
LEMMA FlattenIsFlat ==
  ASSUME NEW n \in Nat \ {0}, NEW k \in Nat \ {0}, NEW ss \in [1..n -> Seq(Sample)],
         \A i \in 1..n : Len(ss[i]) = k
  PROVE  FlattenSeq(ss) = Flat(ss, k, n)
<1> DEFINE P(h) == h = [i \in 1..n |-> IF i = 1 THEN ss[i] ELSE h[i - 1] \o ss[i]]
           g == [i \in 1..n |-> Flat(ss, k, i)]
<1>1. Len(ss) = n
  OBVIOUS
<1>2. ss[1] \in Seq(Sample) /\ 1 \in 1..n
  OBVIOUS
<1>0. \A i \in 1..n : Flat(ss, k, i) = Flat(ss, k, i - 1) \o ss[i]
  <2>1. n \in Nat
    OBVIOUS
  <2> QED
    BY <2>1, FlatGrows, Zenon
<1>3. Flat(ss, k, 1) = ss[1]
  <2>1. Flat(ss, k, 1) = Flat(ss, k, 1 - 1) \o ss[1]
    BY <1>0, <1>2, Zenon
  <2>2. Flat(ss, k, 1 - 1) = <<>>
    <3>1. 1..((1 - 1) * k) = {}
      OBVIOUS
    <3>2. Flat(ss, k, 1 - 1) = [j \in {} |-> ss[((j - 1) \div k) + 1][((j - 1) % k) + 1]]
      BY <3>1, Zenon DEF Flat
    <3> QED
      BY <3>2
  <2>3. \A s \in Seq(Sample) : <<>> \o s = s
    OBVIOUS
  <2> QED
    BY <1>2, <2>1, <2>2, <2>3, Zenon
<1>4. \A i \in 1..n : g[i] = IF i = 1 THEN ss[i] ELSE g[i - 1] \o ss[i]
  <2> SUFFICES ASSUME NEW i \in 1..n
               PROVE  g[i] = IF i = 1 THEN ss[i] ELSE g[i - 1] \o ss[i]
    OBVIOUS
  <2>1. g[i] = Flat(ss, k, i)
    BY Zenon
  <2>2. CASE i = 1
    BY <1>3, <2>1, <2>2, Zenon
  <2>3. CASE i # 1
    <3>1. i - 1 \in 1..n
      BY <2>3
    <3>2. g[i - 1] = Flat(ss, k, i - 1)
      BY <3>1, Zenon
    <3>3. Flat(ss, k, i) = Flat(ss, k, i - 1) \o ss[i]
      BY <1>0, Zenon
    <3> QED
      BY <2>1, <2>3, <3>2, <3>3, Zenon
  <2> QED
    BY <2>2, <2>3, Zenon
<1>5. P(g)
  <2> DEFINE f == [i \in 1..n |-> IF i = 1 THEN ss[i] ELSE g[i - 1] \o ss[i]]
  <2>1. g = f
    BY <1>4
  <2> QED
    BY <2>1
<1> DEFINE h == CHOOSE x : P(x)
<1>6. P(h)
  <2> HIDE DEF P, g
  <2> QED
    BY <1>5, Zenon
<1>7. FlattenSeq(ss) = h[n]
  <2>1. Len(ss) # 0
    BY <1>1
  <2> QED
    BY <1>1, <2>1, Zenon DEF FlattenSeq
<1> HIDE DEF h
<1>8. \A i \in 1..n : h[i] = IF i = 1 THEN ss[i] ELSE h[i - 1] \o ss[i]
  BY <1>6, Zenon
<1> HIDE DEF g
<1> DEFINE H == {i \in Nat : i + 1 <= n => h[i + 1] = g[i + 1]}
<1>9. 0 \in H
  <2>1. h[1] = ss[1] /\ g[1] = ss[1]
    BY <1>2, <1>4, <1>8
  <2> QED
    BY <2>1
<1>10. ASSUME NEW i \in Nat, i \in H
       PROVE  i + 1 \in H
  <2> SUFFICES ASSUME (i + 1) + 1 <= n PROVE h[(i + 1) + 1] = g[(i + 1) + 1]
    OBVIOUS
  <2> DEFINE j == (i + 1) + 1
  <2>1. j \in 1..n /\ j # 1 /\ j - 1 = i + 1 /\ h[i + 1] = g[i + 1]
    BY <1>10
  <2> HIDE DEF j
  <2>2. g[j] = g[j - 1] \o ss[j] /\ h[j] = h[j - 1] \o ss[j]
    BY <1>4, <1>8, <2>1, Zenon
  <2>3. h[j] = g[j]
    BY <2>1, <2>2
  <2> QED
    BY <2>3 DEF j
<1>11. Nat \subseteq H
  <2> HIDE DEF H
  <2> QED
    BY <1>9, <1>10, SetInduction
<1>12. n - 1 \in H /\ (n - 1) + 1 = n
  <2>1. n - 1 \in Nat /\ (n - 1) + 1 = n
    OBVIOUS
  <2> QED
    BY <1>11, <2>1, Zenon
<1>13. h[n] = g[n]
  BY <1>12
<1>14. g[n] = Flat(ss, k, n)
  BY DEF g
<1> QED
  BY <1>7, <1>13, <1>14, Zenon

\* Where element c of piece i, counted from 0, of length k is in the whole.
PieceIndex(i, k, c) == i * k + c

\* The elements of the pieces are those of the whole.
LEMMA FlattenPieces ==
  ASSUME NEW n \in Nat \ {0}, NEW k \in Nat \ {0}, NEW ss \in [1..n -> Seq(Sample)],
         \A i \in 1..n : Len(ss[i]) = k
  PROVE  /\ FlattenSeq(ss) \in Seq(Sample) /\ Len(FlattenSeq(ss)) = n * k
         /\ \A i \in 0..(n - 1), c \in 1..k :
              /\ PieceIndex(i, k, c) \in 1..(n * k)
              /\ FlattenSeq(ss)[PieceIndex(i, k, c)] = ss[i + 1][c]
<1> DEFINE f == FlattenSeq(ss)
           N == n * k
<1>1. f = Flat(ss, k, n)
  BY FlattenIsFlat
<1>2. N \in Nat
  OBVIOUS
<1>3. f = [j \in 1..N |-> ss[((j - 1) \div k) + 1][((j - 1) % k) + 1]]
  BY <1>1 DEF Flat
<1>5. ASSUME NEW i \in 0..(n - 1), NEW c \in 1..k
      PROVE  i * k + c \in 1..N /\ f[i * k + c] = ss[i + 1][c]
  <2> DEFINE d == c - 1
             b == i * k
  <2>1. d \in 0..(k - 1) /\ d + 1 = c /\ i \in Nat
    OBVIOUS
  <2>2. b \in Nat /\ b + k <= N
    <3>1. (n - 1 - i) * k >= 0
      OBVIOUS
    <3> QED
      BY <3>1
  <2>4. (b + d) \div k = i /\ (b + d) % k = d
    BY <2>1, PieceOf, Zenon
  <2> HIDE DEF b, f, N
  <2>5. b + c \in 1..N /\ (b + c) - 1 = b + d
    BY <1>2, <2>1, <2>2
  <2>6. f[b + c] = ss[(((b + c) - 1) \div k) + 1][(((b + c) - 1) % k) + 1]
    BY <1>3, <2>5, Zenon
  <2>7. f[b + c] = ss[i + 1][d + 1]
    BY <2>4, <2>5, <2>6, Zenon
  <2> QED
    BY <2>1, <2>5, <2>7, Zenon DEF b
<1>6. ASSUME NEW j \in 1..N
      PROVE  f[j] \in Sample
  <2> DEFINE i == (j - 1) \div k
             c == (j - 1) % k
  <2>1. N = k * n /\ n \in Nat
    OBVIOUS
  <2>2. i \in 0..(n - 1) /\ c \in 0..(k - 1) /\ j = i * k + c + 1
    <3>1. j \in 1..(k * n)
      BY <2>1, Zenon
    <3> QED
      BY <2>1, <3>1, Place
  <2> HIDE DEF i, c, f, N
  <2>3. c + 1 \in 1..k /\ i * k + (c + 1) = j /\ i + 1 \in 1..n
    BY <2>2
  <2>4. f[j] = ss[i + 1][c + 1]
    BY <1>5, <2>2, <2>3, Zenon
  <2>5. ss[i + 1] \in Seq(Sample) /\ Len(ss[i + 1]) = k
    BY <2>3
  <2>6. ss[i + 1][c + 1] \in Sample
    BY <2>3, <2>5, ElementOfSeq
  <2> QED
    BY <2>4, <2>6, Zenon
<1>7. f \in Seq(Sample) /\ Len(f) = N
  <2> HIDE DEF f, N
  <2>1. f \in [1..N -> Sample]
    BY <1>3, <1>6
  <2> QED
    BY <1>2, <2>1
<1> QED
  BY <1>5, <1>7, Zenon DEF PieceIndex
-----------------------------------------------------------------------------
\* A file or an image with pixels.
IsInput(m) ==
  /\ m.width \in Nat \ {0} /\ m.height \in Nat \ {0}
  /\ m.pixels \in Seq(RGB) /\ Len(m.pixels) = m.width * m.height

\* A pixel has as many samples as there are channels.
LEMMA SamplesType ==
  ASSUME NEW p \in RGB, NEW ch \in 1..4
  PROVE  Samples(p, ch) \in Seq(Sample) /\ Len(Samples(p, ch)) = ch
<1>1. p.r \in Sample /\ p.g \in Sample /\ p.b \in Sample /\ Alpha \in Sample
  BY AlphaAssumption DEF RGB
<1>2. /\ \A a \in Sample : <<a>> \in Seq(Sample) /\ Len(<<a>>) = 1
      /\ \A a, b \in Sample : <<a, b>> \in Seq(Sample) /\ Len(<<a, b>>) = 2
  OBVIOUS
<1>3. ch = 1 \/ ch = 2 \/ ch = 3 \/ ch = 4
  OBVIOUS
<1>4. /\ ch = 1 => Samples(p, ch) = <<p.r>>
      /\ ch = 2 => Samples(p, ch) = <<p.r, Alpha>>
      /\ ch = 3 => Samples(p, ch) = <<p.r, p.g, p.b>>
      /\ ch = 4 => Samples(p, ch) = <<p.r, p.g, p.b, Alpha>>
  BY DEF Samples
<1>5. CASE ch = 1
  BY <1>1, <1>2, <1>4, <1>5, Zenon
<1>6. CASE ch = 2
  BY <1>1, <1>2, <1>4, <1>6, Zenon
<1>7. CASE ch = 3
  <2>1. <<p.r, p.g, p.b>> \in Seq(Sample) /\ Len(<<p.r, p.g, p.b>>) = 3
    BY <1>1
  <2> QED
    BY <1>4, <1>7, <2>1, Zenon
<1>8. CASE ch = 4
  <2>1. <<p.r, p.g, p.b, Alpha>> \in Seq(Sample) /\ Len(<<p.r, p.g, p.b, Alpha>>) = 4
    BY <1>1
  <2> QED
    BY <1>4, <1>8, <2>1, Zenon
<1> QED
  BY <1>3, <1>5, <1>6, <1>7, <1>8, Zenon

\* Pixel x of row yy, both counted from 0, is one of the pixels.
LEMMA PixelOfRow ==
  ASSUME IsInput(input), NEW yy \in 0..(input.height - 1), NEW x \in 1..input.width
  PROVE  yy * input.width + x \in 1..Len(input.pixels) /\ input.pixels[yy * input.width + x] \in RGB
<1> DEFINE w == input.width
           h == input.height
           d == x - 1
<1>1. w \in Nat \ {0} /\ h \in Nat /\ d \in 0..(w - 1) /\ d + 1 = x
  BY DEF IsInput
<1>2. yy * w + (d + 1) \in 1..(w * h)
  BY <1>1, Number, Zenon
<1>3. yy * input.width + x \in 1..Len(input.pixels)
  BY <1>1, <1>2 DEF IsInput
<1> QED
  BY <1>3, ElementOfSeq DEF IsInput

\* The bytes of a row are the samples of its pixels.
LEMMA RowOf ==
  ASSUME IsInput(input), NEW yy \in 0..(input.height - 1), NEW ch \in 1..4
  PROVE  /\ RowBytes(input, yy, ch) \in Seq(Sample)
         /\ Len(RowBytes(input, yy, ch)) = input.width * ch
         /\ \A x \in 0..(input.width - 1), c \in 1..ch :
              /\ PieceIndex(x, ch, c) \in 1..(input.width * ch)
              /\ RowBytes(input, yy, ch)[PieceIndex(x, ch, c)] =
                   Samples(input.pixels[yy * input.width + (x + 1)], ch)[c]
<1> DEFINE w == input.width
           ss == [x \in 1..w |-> Samples(input.pixels[yy * w + x], ch)]
<1>1. w \in Nat \ {0}
  BY DEF IsInput
<1>2. ASSUME NEW x \in 1..w
      PROVE  ss[x] \in Seq(Sample) /\ Len(ss[x]) = ch
  <2>1. input.pixels[yy * w + x] \in RGB
    BY PixelOfRow, Zenon
  <2> DEFINE p == input.pixels[yy * w + x]
  <2>2. ss[x] = Samples(p, ch)
    BY Zenon
  <2> HIDE DEF p, ss
  <2>3. p \in RGB
    BY <2>1, Zenon DEF p
  <2> QED
    BY <2>2, <2>3, SamplesType
<1>3. ch \in Nat \ {0}
  OBVIOUS
<1>4. RowBytes(input, yy, ch) = FlattenSeq(ss)
  BY Zenon DEF RowBytes
<1>5. ss \in [1..w -> Seq(Sample)]
  BY <1>2
<1>6. \A x \in 0..(w - 1) : ss[x + 1] = Samples(input.pixels[yy * w + (x + 1)], ch)
  BY <1>1
<1> HIDE DEF ss, w
<1>7. /\ FlattenSeq(ss) \in Seq(Sample) /\ Len(FlattenSeq(ss)) = w * ch
      /\ \A i \in 0..(w - 1), c \in 1..ch :
           /\ PieceIndex(i, ch, c) \in 1..(w * ch)
           /\ FlattenSeq(ss)[PieceIndex(i, ch, c)] = ss[i + 1][c]
  <2>1. \A i \in 1..w : Len(ss[i]) = ch
    BY <1>2
  <2> QED
    BY <1>1, <1>3, <1>5, <2>1, FlattenPieces, Zenon
<1> QED
  BY <1>4, <1>6, <1>7, Zenon DEF w

\* Rows of w pixels with s samples: where the samples of a row begin and end.
LEMMA RowWithin ==
  ASSUME NEW w \in Nat, NEW h \in Nat, NEW s \in Nat, NEW ch \in Nat, ch <= s,
         NEW r \in 0..(h - 1)
  PROVE  /\ r * w * s \in Nat /\ w * ch \in Nat /\ w * h * s \in Nat
         /\ r * w * s + w * ch <= w * h * s
<1>1. r * w \in Nat /\ w * h \in Nat /\ r * w + w <= w * h
  <2>1. (h - 1 - r) * w >= 0
    OBVIOUS
  <2> QED
    BY <2>1
<1> DEFINE a == r * w
           b == w * h
<1>2. a \in Nat /\ b \in Nat /\ a + w <= b
  BY <1>1
<1> HIDE DEF a, b
<1>3. (b - (a + w)) * s >= 0
  BY <1>2
<1>4. w * (s - ch) >= 0
  OBVIOUS
<1>5. a * s \in Nat /\ b * s \in Nat /\ w * ch \in Nat /\ a * s + w * ch <= b * s
  BY <1>2, <1>3, <1>4
<1> QED
  BY <1>5 DEF a, b

\* Sample c of pixel x of row r is sample x * s + c behind the start of the row.
LEMMA SampleOfRow ==
  ASSUME NEW w \in Nat \ {0}, NEW s \in Nat \ {0}, NEW r \in Nat,
         NEW x \in 0..(w - 1), NEW c \in 1..s
  PROVE  /\ PieceIndex(r * w + x, s, c) = r * w * s + PieceIndex(x, s, c)
         /\ PieceIndex(x, s, c) \in 1..(w * s)
<1>1. x * s \in Nat /\ x * s + s <= w * s /\ w * s \in Nat
  <2>1. (w - 1 - x) * s >= 0
    OBVIOUS
  <2> QED
    BY <2>1
<1>2. x * s + c \in 1..(w * s)
  <2> DEFINE a == x * s
             b == w * s
  <2>1. a \in Nat /\ b \in Nat /\ a + s <= b
    BY <1>1
  <2> HIDE DEF a, b
  <2>2. a + c \in 1..b
    BY <2>1
  <2> QED
    BY <2>2 DEF a, b
<1>3. (r * w + x) * s + c = r * w * s + (x * s + c)
  <2> DEFINE a == r * w
  <2>1. a \in Nat
    OBVIOUS
  <2> HIDE DEF a
  <2>2. (a + x) * s + c = a * s + (x * s + c)
    BY <2>1
  <2> QED
    BY <2>2 DEF a
<1> QED
  BY <1>2, <1>3 DEF PieceIndex

\* e is d with bs from t on.
StoredAt(d, e, n, t, bs, l) ==
  \A i \in 1..n : e[i] = IF i \in (t + 1)..(t + l) THEN bs[i - t] ELSE d[i]

\* The samples of the rows before r are in e as they are in d.
RowsKept(d, e, r, w, s) ==
  \A yy \in 0..(r - 1), x \in 0..(w - 1), c \in 1..s :
    e[PieceIndex(yy * w + x, s, c)] = d[PieceIndex(yy * w + x, s, c)]

\* Those of row r are in e as they are in bs.
RowPut(e, bs, r, w, s) ==
  \A x \in 0..(w - 1), c \in 1..s :
    e[PieceIndex(r * w + x, s, c)] = bs[PieceIndex(x, s, c)]

\* The samples of row r are put behind those of the rows before it.
LEMMA RowStored ==
  ASSUME NEW w \in Nat \ {0}, NEW h \in Nat, NEW s \in Nat \ {0}, NEW r \in 0..(h - 1),
         NEW d \in [1..(w * h * s) -> Sample], NEW e \in [1..(w * h * s) -> Sample],
         NEW bs \in Seq(Sample), Len(bs) = w * s,
         StoredAt(d, e, w * h * s, r * w * s, bs, w * s)
  PROVE  RowsKept(d, e, r, w, s) /\ RowPut(e, bs, r, w, s)
<1> DEFINE N == w * h * s
           t == r * w * s
           l == w * s
<1>0. w \in Nat /\ s \in Nat /\ h \in Nat /\ r \in Nat /\ s <= s
  OBVIOUS
<1>00. \A q \in Nat, x \in 0..(w - 1), c \in 1..s :
        /\ PieceIndex(q * w + x, s, c) = q * w * s + PieceIndex(x, s, c)
        /\ PieceIndex(x, s, c) \in 1..(w * s)
  <2>1. w \in Nat \ {0} /\ s \in Nat \ {0}
    OBVIOUS
  <2> QED
    BY ONLY <2>1, SampleOfRow
<1>1. t \in Nat /\ l \in Nat /\ N \in Nat /\ t + l <= N
  BY <1>0, RowWithin
<1>2. \A i \in 1..N : e[i] = IF i \in (t + 1)..(t + l) THEN bs[i - t] ELSE d[i]
  BY Zenon DEF StoredAt
<1>3. ASSUME NEW yy \in 0..(r - 1), NEW x \in 0..(w - 1), NEW c \in 1..s
      PROVE  e[PieceIndex(yy * w + x, s, c)] = d[PieceIndex(yy * w + x, s, c)]
  <2> DEFINE j == PieceIndex(yy * w + x, s, c)
             k == PieceIndex(x, s, c)
             u == yy * w * s
  <2>1. j = u + k /\ k \in 1..l
    <3>1. yy \in Nat
      OBVIOUS
    <3> QED
      BY <3>1, <1>00, Zenon
  <2>2. u \in Nat /\ u + l <= t
    <3>1. yy * w * s \in Nat /\ yy * w * s + w * s <= w * r * s
      BY <1>0, RowWithin, Zenon
    <3>2. w * r = r * w
      BY <1>0
    <3> QED
      BY <3>1, <3>2, Zenon
  <2> HIDE DEF j, k, u, t, l, N
  <2>3. j \in 1..N /\ ~(j \in (t + 1)..(t + l))
    <3>1. /\ t \in Nat /\ l \in Nat /\ N \in Nat /\ t + l <= N
          /\ u \in Nat /\ u + l <= t /\ k \in 1..l /\ j = u + k
      BY <1>1, <2>1, <2>2, Zenon
    <3> QED
      BY ONLY <3>1
  <2>4. e[j] = d[j]
    BY <1>2, <2>3, Zenon
  <2> QED
    BY <2>4 DEF j
<1>4. ASSUME NEW x \in 0..(w - 1), NEW c \in 1..s
      PROVE  e[PieceIndex(r * w + x, s, c)] = bs[PieceIndex(x, s, c)]
  <2> DEFINE j == PieceIndex(r * w + x, s, c)
             k == PieceIndex(x, s, c)
  <2>1. j = t + k /\ k \in 1..l
    BY <1>0, <1>00, Zenon
  <2> HIDE DEF j, k, t, l, N
  <2>2. j \in 1..N /\ j \in (t + 1)..(t + l) /\ j - t = k
    BY <1>1, <2>1
  <2>3. e[j] = bs[j - t]
    BY <1>2, <2>2, Zenon
  <2> QED
    BY <2>2, <2>3, Zenon DEF j, k
<1> QED
  BY <1>3, <1>4, Zenon DEF RowsKept, RowPut

-----------------------------------------------------------------------------
(***************************************************************************)
(* Pixels that pass through.                                               *)
(***************************************************************************)

\* What the four functions are called with.
InputGiven ==
  \/ func = "readPNG" /\ input \in Pngs
  \/ func = "readJPEG" /\ input \in Jpegs
  \/ func \in {"writePNG", "writeJPEG"} /\ input \in Images

\* The samples of the rows read so far are in their places.
RowsRead ==
  \A yy \in 0..(rowsMoved - 1), x \in 0..(input.width - 1), c \in 1..Stride :
    samples[PieceIndex(yy * input.width + x, Stride, c)] =
      Samples(input.pixels[yy * input.width + (x + 1)], Stride)[c]

InPlace ==
  /\ samples \in [1..(input.width * input.height * Stride) -> Sample]
  /\ Channels = Stride => RowsRead

\* An int counts the bytes of image_data.
BytesFit == input.width * input.height * Stride <= INT_MAX

\* The rows read so far were inside: the last one starts at an int.  So all
\* bytes fit when all rows were, for then the whole is at most one row more
\* than an int, and its size did not wrap to a negative one.
Reading ==
  /\ Wrap(input.width * input.height * Stride) >= 0
  /\ rowsMoved = 0 \/ (rowsMoved - 1) * input.width * Stride <= INT_MAX
  /\ BytesFit => InPlace

\* The rows written so far.
RowsSent ==
  /\ sent \in Seq(Seq(Sample)) /\ Len(sent) = rowsMoved
  /\ \A i \in 1..rowsMoved : sent[i] = RowBytes(input, i - 1, 3)

PassInv ==
  /\ InputGiven
  /\ rowsMoved \in Nat
  /\ at = "over" \/ ended = "running"
  /\ at \in {"fopen", "struct", "info", "header", "vectors"} => rowsMoved = 0 /\ sent = <<>>
  /\ at \in {"vectors", "rows", "finish", "convert"} =>
       input.width > 0 /\ input.height > 0 /\ input.width <= MaxSide
  /\ at = "rows" => rowsMoved <= input.height
  /\ at \in {"finish", "convert"} => rowsMoved = input.height
  /\ at \in {"rows", "finish", "convert"} => IF IsReader THEN Reading ELSE RowsSent
  /\ at = "over" => PixelsPassThrough

\* A call given pixels is given as many as its width and height say.
LEMMA InputIs ==
  ASSUME InputGiven, input.width > 0, input.height > 0
  PROVE  IsInput(input)
<1>1. CASE input \in Pngs \cup Jpegs
  BY <1>1, FilesAssumption DEF IsInput, File
<1>2. CASE input \in Images
  <2>1. input.width \in Nat /\ input.height \in Nat /\ input.pixels \in Seq(RGB)
        /\ Len(input.pixels) = input.width * input.height
    BY <1>2, ImagesAssumption
  <2> QED
    BY <2>1 DEF IsInput
<1> QED
  BY <1>1, <1>2 DEF InputGiven

\* How many samples a pixel has, and how many fit.
LEMMA ChannelsFit ==
  ASSUME InputGiven, IsReader
  PROVE  /\ Channels \in 1..4 /\ Stride \in 1..4
         /\ func = "readJPEG" => Stride = Channels /\ Channels \in {1, 3, 4}
         /\ func = "readPNG" => Stride = 3
         /\ func = "readJPEG" /\ Channels = 1 =>
              \A i \in DOMAIN input.pixels :
                input.pixels[i].r = input.pixels[i].g /\ input.pixels[i].g = input.pixels[i].b
<1>1. CASE func = "readPNG"
  <2>1. input \in File(PngColor)
    BY <1>1, FilesAssumption DEF InputGiven
  <2>2. input.colorType \in PngColor /\ input.tRNS \in BOOLEAN
    BY <2>1 DEF File
  <2>3. PngChannels(input) \in 1..4
    BY <2>2 DEF PngChannels, PngColor
  <2> QED
    BY <1>1, <2>3 DEF Channels, Stride
<1>2. CASE func = "readJPEG"
  <2>1. input \in Jpegs /\ input \in File(JpegColor)
    BY <1>2, FilesAssumption DEF InputGiven
  <2>2. input.colorType \in JpegColor
    BY <2>1 DEF File
  <2>3. JpegChannels(input) \in {1, 3, 4} /\ (JpegChannels(input) = 1 => input.colorType = "gray")
    BY <2>2 DEF JpegChannels, JpegColor
  <2>4. Channels = JpegChannels(input) /\ Stride = JpegChannels(input)
    BY <1>2 DEF Channels, Stride
  <2>5. input.colorType = "gray" =>
          \A i \in DOMAIN input.pixels :
            input.pixels[i].r = input.pixels[i].g /\ input.pixels[i].g = input.pixels[i].b
    BY <2>1, FilesAssumption
  <2> QED
    BY <1>2, <2>3, <2>4, <2>5
<1> QED
  BY <1>1, <1>2 DEF IsReader

\* A row that fits is put in its place.
LEMMA RowPlaced ==
  ASSUME InputGiven, IsReader, IsInput(input), rowsMoved \in 0..(input.height - 1), InPlace,
         input' = input, func' = func, rowsMoved' = rowsMoved + 1,
         samples' = [i \in DOMAIN samples |->
                       IF i \in (rowsMoved * input.width * Stride + 1)
                                  ..(rowsMoved * input.width * Stride
                                       + Len(RowBytes(input, rowsMoved, Channels)))
                       THEN RowBytes(input, rowsMoved, Channels)[i - rowsMoved * input.width * Stride]
                       ELSE samples[i]]
  PROVE  InPlace'
<1> DEFINE w == input.width
           h == input.height
           s == Stride
           r == rowsMoved
           bs == RowBytes(input, r, Channels)
           t == r * w * s
           N == w * h * s
<1>0. InPlace
  OBVIOUS
<1>1. IsInput(input)
  OBVIOUS
<1>2. w \in Nat \ {0} /\ h \in Nat \ {0} /\ r \in 0..(h - 1)
  BY DEF IsInput
<1>3. Channels \in 1..4 /\ s \in 1..4
  BY ChannelsFit
<1>4. bs \in Seq(Sample) /\ Len(bs) = w * Channels
  BY <1>1, <1>2, <1>3, RowOf
<1>6. Stride' = Stride /\ Channels' = Channels
  BY DEF Stride, Channels
<1>9. /\ samples' = [i \in DOMAIN samples |->
                       IF i \in (t + 1)..(t + Len(bs)) THEN bs[i - t] ELSE samples[i]]
      /\ rowsMoved' = rowsMoved + 1
  OBVIOUS
<1>a1. samples \in [1..N -> Sample]
  BY <1>0 DEF InPlace
<1>a2. samples' = [i \in 1..N |->
                    IF i \in (t + 1)..(t + Len(bs)) THEN bs[i - t] ELSE samples[i]]
  <2>1. DOMAIN samples = 1..N
    <3> HIDE DEF N
    <3> QED
      BY <1>a1
  <2> QED
    BY <1>9, <2>1, Zenon
<1>a3. samples' \in [1..N -> Sample]
  <2>0. r * w \in Nat /\ s \in Nat /\ t = (r * w) * s
    BY <1>2, <1>3
  <2>1. t \in Nat
    <3> DEFINE k == r * w
    <3> HIDE DEF k
    <3> QED
      BY <2>0 DEF k
  <2> HIDE DEF N, t, bs
  <2>2. ASSUME NEW i \in 1..N
        PROVE  (IF i \in (t + 1)..(t + Len(bs)) THEN bs[i - t] ELSE samples[i]) \in Sample
    <3>1. CASE i \in (t + 1)..(t + Len(bs))
      <4>1. i - t \in 1..Len(bs)
        BY <1>4, <2>1, <3>1
      <4>2. bs[i - t] \in Sample
        BY <1>4, <4>1, ElementOfSeq
      <4> QED
        BY <3>1, <4>2, Zenon
    <3>2. CASE ~(i \in (t + 1)..(t + Len(bs)))
      <4>1. samples[i] \in Sample
        BY <1>a1
      <4> QED
        BY <3>2, <4>1, Zenon
    <3> QED
      BY <3>1, <3>2, Zenon
  <2> QED
    BY <1>a2, <2>2, Zenon
<1>a4. ASSUME Channels = s
      PROVE  \A yy \in 0..r, x \in 0..(w - 1), c \in 1..s :
               samples'[PieceIndex(yy * w + x, s, c)] =
                 Samples(input.pixels[yy * w + (x + 1)], s)[c]
  <2>1. Len(bs) = w * s
    BY <1>4, <1>a4, Zenon
  <2>2. s \in Nat \ {0} /\ h \in Nat
    BY <1>2, <1>3
  <2>3. samples' = [i \in 1..N |->
                      IF i \in (t + 1)..(t + w * s) THEN bs[i - t] ELSE samples[i]]
    BY <1>a2, <2>1, Zenon
  <2>4. /\ \A yy \in 0..(r - 1), x \in 0..(w - 1), c \in 1..s :
             samples'[PieceIndex(yy * w + x, s, c)] = samples[PieceIndex(yy * w + x, s, c)]
        /\ \A x \in 0..(w - 1), c \in 1..s :
             samples'[PieceIndex(r * w + x, s, c)] = bs[PieceIndex(x, s, c)]
    <3> DEFINE d == samples
               e == samples'
               b == bs
    <3>1. d \in [1..(w * h * s) -> Sample] /\ e \in [1..(w * h * s) -> Sample]
      BY <1>a1, <1>a3, Zenon
    <3>2. StoredAt(d, e, w * h * s, r * w * s, b, w * s)
      BY <2>3, Zenon DEF StoredAt
    <3>3. b \in Seq(Sample) /\ Len(b) = w * s
      BY <1>4, <2>1, Zenon
    <3> HIDE DEF d, e, b, w, h, s, r
    <3>4. RowsKept(d, e, r, w, s) /\ RowPut(e, b, r, w, s)
      BY ONLY <1>2, <2>2, <3>1, <3>2, <3>3, RowStored, Zenon
    <3> QED
      BY <3>4, Zenon DEF d, e, b, RowsKept, RowPut
  <2>5. \A yy \in 0..(r - 1), x \in 0..(w - 1), c \in 1..s :
          samples[PieceIndex(yy * w + x, s, c)] =
            Samples(input.pixels[yy * w + (x + 1)], s)[c]
    BY <1>0, <1>a4, Zenon DEF InPlace, RowsRead
  <2>6. \A x \in 0..(w - 1), c \in 1..s :
          bs[PieceIndex(x, s, c)] = Samples(input.pixels[r * w + (x + 1)], s)[c]
    BY <1>1, <1>2, <1>3, <1>a4, RowOf, Zenon
  <2> SUFFICES ASSUME NEW yy \in 0..r, NEW x \in 0..(w - 1), NEW c \in 1..s
               PROVE  samples'[PieceIndex(yy * w + x, s, c)] =
                        Samples(input.pixels[yy * w + (x + 1)], s)[c]
    BY Zenon
  <2>7. CASE yy \in 0..(r - 1)
    BY <2>4, <2>5, <2>7, Zenon
  <2>8. CASE yy = r
    BY <2>4, <2>6, <2>8, Zenon
  <2>9. yy \in 0..(r - 1) \/ yy = r
    BY <1>2
  <2> QED
    BY <2>7, <2>8, <2>9, Zenon
<1>a5. rowsMoved' - 1 = r /\ rowsMoved' \in Nat /\ rowsMoved' <= h
  BY <1>2, <1>9
<1>a6. Channels = s => RowsRead'
  <2> SUFFICES ASSUME Channels = s PROVE RowsRead'
    OBVIOUS
  <2>1. \A yy \in 0..r, x \in 0..(w - 1), c \in 1..s :
          samples'[PieceIndex(yy * w + x, s, c)] = Samples(input.pixels[yy * w + (x + 1)], s)[c]
    BY <1>a4, Zenon
  <2>2. input' = input /\ Stride' = Stride /\ rowsMoved' - 1 = r
    BY <1>6, <1>a5, Zenon
  <2>3. ASSUME NEW yy \in 0..(rowsMoved' - 1), NEW x \in 0..(input'.width - 1), NEW c \in 1..Stride'
        PROVE  samples'[PieceIndex(yy * input'.width + x, Stride', c)] =
                 Samples(input'.pixels[yy * input'.width + (x + 1)], Stride')[c]
    <3>1. yy \in 0..r /\ x \in 0..(w - 1) /\ c \in 1..s
      BY <2>2, Zenon
    <3>2. samples'[PieceIndex(yy * w + x, s, c)] = Samples(input.pixels[yy * w + (x + 1)], s)[c]
      BY <2>1, <3>1, Zenon
    <3> QED
      BY <2>2, <3>2, Zenon
  <2> QED
    BY <2>3, Zenon DEF RowsRead
<1>a7. InPlace'
  BY <1>6, <1>a3, <1>a6, Zenon DEF InPlace
<1> QED
  BY <1>a7

\* How much of the image is behind the start of a row: no more than INT_MAX
\* and a row more, if the row before starts at an int.
LEMMA StartOf ==
  ASSUME InputGiven, IsReader, IsInput(input), input.width <= MaxSide,
         NEW r \in 0..input.height,
         r = 0 \/ (r - 1) * input.width * Stride <= INT_MAX
  PROVE  /\ r * input.width * Stride \in Nat
         /\ Wrap(r * input.width * Stride) >= 0 => r * input.width * Stride <= INT_MAX
         /\ r * input.width * Stride <= INT_MAX
              => Wrap(r * input.width * Stride) = r * input.width * Stride
<1> DEFINE w == input.width
           s == Stride
           t == r * w * s
           l == w * s
           u == (r - 1) * w * s
<1>1. w \in Nat \ {0} /\ r \in Nat /\ s \in 1..4 /\ INT_MAX \in Nat /\ MaxSide \in Nat
  BY ChannelsFit, IntMaxAssumption, MaxSideAssumption DEF IsInput
<1>2. l \in Nat /\ l <= INT_MAX
  <2>1. w * (4 - s) >= 0 /\ w * s \in Nat
    BY <1>1
  <2>2. 4 * w <= 4 * MaxSide
    BY <1>1
  <2>3. w * s <= 4 * w
    BY <1>1, <2>1
  <2>4. l \in Nat /\ l <= 4 * w
    BY <2>1, <2>3
  <2> HIDE DEF l, w
  <2> QED
    BY <1>1, <2>2, <2>4, MaxSideAssumption
<1>3. t \in Nat
  <2>1. r * w \in Nat
    BY <1>1
  <2> DEFINE a == r * w
  <2> HIDE DEF a
  <2>2. a * s \in Nat
    BY <1>1, <2>1 DEF a
  <2> QED
    BY <2>2 DEF a
<1>4. t <= 2 * INT_MAX + 1
  <2>1. CASE r = 0
    <3>1. t = 0
      BY <1>1, <2>1
    <3> QED
      BY <1>1, <3>1
  <2>2. CASE r # 0
    <3>1. t = u + l
      <4> DEFINE q == r - 1
      <4>1. q \in Int /\ r = q + 1
        BY <1>1
      <4> HIDE DEF q
      <4>2. (q + 1) * w * s = q * w * s + w * s
        <5> DEFINE a == q * w
        <5>1. (q + 1) * w = a + w /\ a \in Int
          BY <1>1, <4>1
        <5> HIDE DEF a
        <5>2. (a + w) * s = a * s + w * s
          BY <1>1, <5>1
        <5> QED
          BY <5>1, <5>2 DEF a
      <4> QED
        BY <4>1, <4>2 DEF q
    <3>2. u \in Int
      <4>1. (r - 1) * w \in Int
        BY <1>1
      <4> DEFINE a == (r - 1) * w
      <4> HIDE DEF a
      <4>2. a * s \in Int
        BY <1>1, <4>1 DEF a
      <4> QED
        BY <4>2 DEF a
    <3>3. u <= INT_MAX
      BY <2>2
    <3> HIDE DEF t, u, l
    <3> QED
      BY <1>1, <1>2, <3>1, <3>2, <3>3
  <2> QED
    BY <2>1, <2>2
<1> HIDE DEF t
<1>5. t \in Int
  BY <1>3
<1>6. /\ Wrap(t) \in Int
      /\ t \in Ints => Wrap(t) = t
      /\ t > INT_MAX /\ t <= 2 * INT_MAX + 1 => Wrap(t) < 0
  BY <1>5, WrapIs
<1>7. t <= INT_MAX => t \in Ints
  BY <1>1, <1>3 DEF Ints
<1>8. Wrap(t) >= 0 => t <= INT_MAX
  BY <1>1, <1>3, <1>4, <1>6
<1>9. t <= INT_MAX => Wrap(t) = t
  BY <1>6, <1>7
<1> QED
  BY <1>3, <1>8, <1>9 DEF t

\* A row that the library delivers is put in its place, or does not fit.
LEMMA RowIsRead ==
  ASSUME PassInv, ReadRow
  PROVE  PassInv'
<1> DEFINE w == input.width
           h == input.height
           s == Stride
           r == rowsMoved
           bs == RowBytes(input, r, Channels)
           t == r * w * s
           st == Wrap(t)
           N == w * h * s
<1>0. /\ InputGiven /\ IsReader /\ at = "rows" /\ r \in Nat /\ r < h /\ w > 0 /\ h > 0
      /\ Reading /\ ended = "running" /\ w <= MaxSide
  BY DEF PassInv, ReadRow
<1>1. IsInput(input)
  BY <1>0, InputIs
<1>2. w \in Nat \ {0} /\ h \in Nat \ {0} /\ r \in 0..(h - 1)
  BY <1>0, <1>1 DEF IsInput
<1>3. Channels \in 1..4 /\ s \in 1..4
  BY <1>0, ChannelsFit
<1>4. bs \in Seq(Sample) /\ Len(bs) = w * Channels
  BY <1>1, <1>2, <1>3, RowOf
<1>5. InputGiven' <=> InputGiven
  BY DEF ReadRow, InputGiven, LibraryError
<1>6. Stride' = Stride /\ Channels' = Channels /\ IsReader' = IsReader /\ input' = input /\ func' = func
  BY DEF ReadRow, Stride, Channels, IsReader, LibraryError
<1>S. t \in Nat /\ (st >= 0 => t <= INT_MAX) /\ (t <= INT_MAX => st = t)
  <2>1. r \in 0..h /\ (r = 0 \/ (r - 1) * w * s <= INT_MAX)
    <3>1. r \in 0..h
      BY <1>2
    <3> QED
      BY <1>0, <3>1, Zenon DEF Reading
  <2> QED
    BY <1>0, <1>1, <2>1, StartOf, Zenon
<1>7. CASE LibraryError
  <2>1. at' = "over" /\ ended' # "ok" /\ ended' # "undefined" /\ rowsMoved' = rowsMoved
    BY <1>7 DEF LibraryError, Over, data
  <2>2. PixelsPassThrough'
    BY <2>1, Zenon DEF PixelsPassThrough, RgbComesBack, RowsFitUnlessTransparent, RowsWrittenExactly
  <2> QED
    BY <1>0, <1>5, <2>1, <2>2 DEF PassInv
<1>8. CASE /\ ~(st >= 0 /\ st + Len(bs) <= Len(samples)) /\ Over("undefined")
           /\ UNCHANGED <<func, input, held, data, failed>>
  <2>1. at' = "over" /\ ended' = "undefined" /\ rowsMoved' = rowsMoved
    BY <1>8 DEF Over, data
  <2>2. ASSUME BytesFit PROVE ~(Channels <= s)
    <3> SUFFICES ASSUME Channels <= s PROVE FALSE
      OBVIOUS
    <3>1. w \in Nat /\ h \in Nat /\ s \in Nat /\ Channels \in Nat
      BY <1>2, <1>3
    <3>2. r * w * s + w * Channels <= w * h * s /\ w * h * s \in Nat
      BY <1>2, <3>1, RowWithin
    <3>3. samples \in [1..N -> Sample] /\ N \in Nat /\ N <= INT_MAX
      BY <1>0, <2>2, <3>2 DEF Reading, InPlace, BytesFit
    <3>4. Len(samples) = N
      <4> HIDE DEF N
      <4> QED
        BY <3>3
    <3>5. t + Len(bs) <= N /\ t \in Nat /\ Len(bs) \in Nat
      <4>1. r * w * s \in Nat /\ w * Channels \in Nat
        BY <1>2, <3>1, RowWithin
      <4> QED
        BY <1>4, <3>2, <4>1
    <3> HIDE DEF t, bs, N, st
    <3>6. t <= INT_MAX
      BY <3>3, <3>5, IntMaxAssumption
    <3>7. st = t
      BY <1>S, <3>6
    <3> QED
      BY <1>8, <3>3, <3>4, <3>5, <3>7
  <2>3. (func = "readPNG" /\ Channels = 4) \/ ~BytesFit
    <3>1. func = "readPNG" \/ func = "readJPEG"
      BY <1>0 DEF IsReader
    <3> QED
      BY <1>0, <1>3, <2>2, <3>1, ChannelsFit
  <2>N. ~BytesFit => w * h * s > INT_MAX
    <3>1. N \in Nat
      BY <1>2, <1>3, RowWithin
    <3>2. ~(N <= INT_MAX) => N > INT_MAX
      <4> HIDE DEF N
      <4> QED
        BY <3>1, IntMaxAssumption
    <3> QED
      BY <3>2 DEF BytesFit
  <2>4. PixelsPassThrough'
    BY <1>0, <1>6, <2>1, <2>3, <2>N, Zenon
       DEF PixelsPassThrough, RgbComesBack, RowsFitUnlessTransparent, RowsWrittenExactly
  <2> QED
    BY <1>0, <1>5, <2>1, <2>4 DEF PassInv
<1>9. CASE /\ st >= 0
           /\ samples' = [i \in DOMAIN samples |->
                            IF i \in (st + 1)..(st + Len(bs)) THEN bs[i - st] ELSE samples[i]]
           /\ rowsMoved' = rowsMoved + 1
           /\ UNCHANGED <<func, input, at, held, sent, pixelsRead, ended, failed>>
  <2>1. t <= INT_MAX /\ st = t
    BY <1>S, <1>9, Zenon
  <2>2. BytesFit => InPlace'
    <3> SUFFICES ASSUME BytesFit PROVE InPlace'
      OBVIOUS
    <3>1. InPlace
      BY <1>0, Zenon DEF Reading
    <3>2. samples' = [i \in DOMAIN samples |->
                       IF i \in (t + 1)..(t + Len(bs)) THEN bs[i - t] ELSE samples[i]]
      BY <1>9, <2>1, Zenon
    <3>3. rowsMoved' = rowsMoved + 1
      BY <1>9, Zenon
    <3> QED
      BY <1>0, <1>1, <1>2, <1>6, <3>1, <3>2, <3>3, RowPlaced, Zenon
  <2>3. rowsMoved' - 1 = r /\ rowsMoved' \in Nat /\ rowsMoved' <= h
    BY <1>2, <1>9
  <2>4. Reading'
    <3>1. BytesFit' = BytesFit
      BY <1>6, Zenon DEF BytesFit
    <3>2. Wrap(w * h * s) >= 0
      BY <1>0, Zenon DEF Reading
    <3> QED
      BY <1>6, <2>1, <2>2, <2>3, <3>1, <3>2, Zenon DEF Reading
  <2>5. at' = at /\ ended' = ended
    BY <1>9, Zenon
  <2> QED
    BY <1>0, <1>5, <1>6, <2>3, <2>4, <2>5 DEF PassInv
<1> QED
  BY <1>7, <1>8, <1>9, Zenon DEF ReadRow

\* The pixels and bytes that a writer copies are inside, if an int counts them.
LEMMA CopyIsInside ==
  ASSUME IsInput(input), NEW r \in 0..(input.height - 1),
         input.width * input.height * 3 <= INT_MAX
  PROVE  CopyInside(r)
<1> DEFINE w == input.width
           h == input.height
           n == w * h
<1>1. w \in Nat \ {0} /\ h \in Nat /\ r \in Nat /\ INT_MAX \in Nat /\ Len(input.pixels) = n
  BY IntMaxAssumption DEF IsInput
<1>2. n \in Nat /\ r * w \in Nat /\ r * w + w <= n
  <2> HIDE DEF w, h
  <2>1. r <= h - 1
    BY <1>1 DEF h
  <2>2. (h - 1 - r) * w >= 0
    BY <1>1, <2>1
  <2> QED
    BY <1>1, <2>2
<1> SUFFICES ASSUME NEW i \in Copied(r)
             PROVE  /\ Wrap(i - 1) \in 0..(n - 1)
                    /\ Wrap((i - 1) * 3) >= 0 /\ Wrap((i - 1) * 3) + 2 < Wrap(n * 3)
  BY <1>1, Zenon DEF CopyInside
<1>3. i \in 1..n
  <2> DEFINE a == r * w
  <2>1. a \in Nat /\ a + w <= n /\ i \in (IF IsPng THEN 1..n ELSE (a + 1)..(a + w))
    BY <1>2, Zenon DEF Copied
  <2> HIDE DEF a, n, w
  <2> QED
    BY <1>1, <1>2, <2>1
<1> HIDE DEF n, w, h
<1>4. n * 3 <= INT_MAX
  BY DEF n, w, h
<1> DEFINE j == i - 1
<1>5. j \in Int /\ j \in Ints /\ j * 3 \in Int /\ j * 3 \in Ints /\ n * 3 \in Int /\ n * 3 \in Ints
      /\ j \in 0..(n - 1) /\ j * 3 >= 0 /\ j * 3 + 2 < n * 3
  BY <1>1, <1>2, <1>3, <1>4 DEF Ints
<1> HIDE DEF j
<1>6. Wrap(j) = j /\ Wrap(j * 3) = j * 3 /\ Wrap(n * 3) = n * 3
  BY <1>5, WrapIs
<1> QED
  BY <1>5, <1>6 DEF j

\* The next row goes to the library.
LEMMA RowIsSent ==
  ASSUME PassInv, SendRow
  PROVE  PassInv'
<1> DEFINE r == rowsMoved
           bs == RowBytes(input, r, 3)
<1>0. /\ InputGiven /\ ~IsReader /\ at = "rows" /\ r \in Nat /\ r < input.height
      /\ input.width > 0 /\ input.height > 0 /\ RowsSent /\ ended = "running"
      /\ input.width <= MaxSide
  BY DEF PassInv, SendRow
<1>1. IsInput(input)
  BY <1>0, InputIs
<1>2. input.height \in Nat /\ r \in 0..(input.height - 1)
  BY <1>0, <1>1 DEF IsInput
<1>3. bs \in Seq(Sample)
  <2>1. 3 \in 1..4
    OBVIOUS
  <2> QED
    BY <1>1, <1>2, <2>1, RowOf, Zenon
<1>4. InputGiven' <=> InputGiven
  BY DEF SendRow, InputGiven, LibraryError
<1>5. IsReader' = IsReader /\ input' = input
  BY DEF SendRow, IsReader, LibraryError
<1>6. CASE LibraryError
  <2>1. at' = "over" /\ ended' # "ok" /\ ended' # "undefined" /\ rowsMoved' = rowsMoved
    BY <1>6 DEF LibraryError, Over, data
  <2>2. PixelsPassThrough'
    BY <2>1, Zenon DEF PixelsPassThrough, RgbComesBack, RowsFitUnlessTransparent, RowsWrittenExactly
  <2> QED
    BY <1>0, <1>4, <2>1, <2>2 DEF PassInv
<1>7. CASE /\ sent' = Append(sent, bs) /\ rowsMoved' = rowsMoved + 1
           /\ UNCHANGED <<func, input, at, held, samples, pixelsRead, ended, failed>>
  <2>1. sent \in Seq(Seq(Sample)) /\ Len(sent) = r
    BY <1>0 DEF RowsSent
  <2>2. sent' = Append(sent, bs)
    BY <1>7
  <2>3. /\ sent' \in Seq(Seq(Sample)) /\ Len(sent') = r + 1
        /\ \A i \in 1..r : sent'[i] = sent[i]
        /\ sent'[r + 1] = bs
    <3> HIDE DEF bs
    <3> QED
      BY <1>0, <1>3, <2>1, <2>2, AppendProperties
  <2>4. ASSUME NEW i \in 1..(r + 1)
        PROVE  sent'[i] = RowBytes(input, i - 1, 3)
    <3>1. CASE i \in 1..r
      BY <1>0, <2>3, <3>1, Zenon DEF RowsSent
    <3>2. CASE i = r + 1
      <4>1. (r + 1) - 1 = r
        BY <1>0
      <4> QED
        BY <2>3, <3>2, <4>1, Zenon
    <3>3. i \in 1..r \/ i = r + 1
      BY <1>0
    <3> QED
      BY <3>1, <3>2, <3>3, Zenon
  <2>5. RowsSent'
    BY <1>5, <1>7, <2>3, <2>4, Zenon DEF RowsSent
  <2>6. rowsMoved' \in Nat /\ rowsMoved' <= input.height /\ at' = at /\ ended' = ended
    BY <1>0, <1>2, <1>7
  <2> QED
    BY <1>0, <1>4, <1>5, <2>5, <2>6 DEF PassInv
<1>8. CASE /\ ~CopyInside(r) /\ Over("undefined")
           /\ UNCHANGED <<func, input, held, data, failed>>
  <2>1. at' = "over" /\ ended' = "undefined" /\ rowsMoved' = rowsMoved
    BY <1>8 DEF Over, data
  <2>2. ~(input.width * input.height * 3 <= INT_MAX)
    BY <1>1, <1>2, <1>8, CopyIsInside, Zenon
  <2>3. input.width * input.height * 3 > INT_MAX
    <3> DEFINE n == input.width * input.height
    <3>1. n \in Nat
      BY <1>1 DEF IsInput
    <3> HIDE DEF n
    <3>2. ~(n * 3 <= INT_MAX)
      BY <2>2 DEF n
    <3>3. n * 3 > INT_MAX
      BY <3>1, <3>2, IntMaxAssumption
    <3> QED
      BY <3>3 DEF n
  <2>4. PixelsPassThrough'
    BY <1>0, <1>5, <2>1, <2>3, Zenon
       DEF PixelsPassThrough, RgbComesBack, RowsFitUnlessTransparent, RowsWrittenExactly
  <2> QED
    BY <1>0, <1>4, <2>1, <2>4 DEF PassInv
<1> QED
  BY <1>6, <1>7, <1>8, Zenon DEF SendRow

\* The pixel whose samples are at idx.
LEMMA PixelMade ==
  ASSUME NEW p \in RGB, NEW d, NEW idx \in Nat, Stride = 1 \/ Stride = 3,
         \A c \in 1..Stride : d[idx + c] = Samples(p, Stride)[c],
         Stride = 1 => p.r = p.g /\ p.g = p.b
  PROVE  PixelAt(d, idx) = p
<1>1. p = [r |-> p.r, g |-> p.g, b |-> p.b]
  BY DEF RGB
<1>2. CASE Stride = 1
  <2>1. Samples(p, Stride) = <<p.r>> /\ 1 \in 1..Stride
    BY <1>2 DEF Samples
  <2>2. d[idx + 1] = p.r
    BY <2>1
  <2> QED
    BY <1>1, <1>2, <2>2 DEF PixelAt
<1>3. CASE Stride = 3
  <2>1. Samples(p, Stride) = <<p.r, p.g, p.b>> /\ 1 \in 1..Stride /\ 2 \in 1..Stride /\ 3 \in 1..Stride
    BY <1>3 DEF Samples
  <2>2. d[idx + 1] = p.r /\ d[idx + 2] = p.g /\ d[idx + 3] = p.b
    BY <2>1
  <2> QED
    BY <1>1, <1>3, <2>2 DEF PixelAt
<1> QED
  BY <1>2, <1>3

\* The reader makes the pixels of the file from the samples of its rows.
LEMMA PixelsMade ==
  ASSUME InputGiven, IsReader, IsInput(input), InPlace, rowsMoved = input.height,
         (func = "readPNG" /\ Channels = 3) \/ (func = "readJPEG" /\ Channels < 4)
  PROVE  [i \in 1..(input.width * input.height) |-> PixelAt(samples, (i - 1) * Stride)]
           = input.pixels
<1> DEFINE w == input.width
           h == input.height
           s == Stride
<1>1. w \in Nat \ {0} /\ h \in Nat \ {0} /\ input.pixels \in Seq(RGB) /\ Len(input.pixels) = w * h
  BY DEF IsInput
<1>2. Channels = s /\ (s = 1 \/ s = 3)
  BY ChannelsFit
<1>3. s = 1 => \A i \in 1..(w * h) :
         input.pixels[i].r = input.pixels[i].g /\ input.pixels[i].g = input.pixels[i].b
  <2> SUFFICES ASSUME s = 1
               PROVE  \A i \in 1..(w * h) :
                        input.pixels[i].r = input.pixels[i].g /\ input.pixels[i].g = input.pixels[i].b
    OBVIOUS
  <2>1. func = "readJPEG" /\ Channels = 1
    BY <1>2
  <2>2. DOMAIN input.pixels = 1..(w * h)
    BY <1>1, LenProperties
  <2> QED
    BY <2>1, <2>2, ChannelsFit, Zenon
<1>4. RowsRead
  BY <1>2 DEF InPlace
<1>5. ASSUME NEW i \in 1..(w * h)
      PROVE  PixelAt(samples, (i - 1) * s) = input.pixels[i]
  <2> DEFINE yy == (i - 1) \div w
             x == (i - 1) % w
             idx == (i - 1) * s
             p == input.pixels[i]
  <2>1. yy \in 0..(h - 1) /\ x \in 0..(w - 1) /\ i = yy * w + x + 1
    BY <1>1, Place
  <2>2. p \in RGB
    BY <1>1, ElementOfSeq
  <2> HIDE DEF yy, x
  <2>3. yy * w \in Nat
    BY <1>1, <2>1
  <2>4. i - 1 = yy * w + x /\ i = yy * w + (x + 1) /\ yy \in 0..(rowsMoved - 1)
    <3> DEFINE a == yy * w
    <3>1. a \in Nat /\ x \in Nat /\ i = a + x + 1
      BY <1>1, <2>1, <2>3
    <3> HIDE DEF a
    <3>2. i - 1 = a + x /\ i = a + (x + 1)
      BY <3>1
    <3> QED
      BY <2>1, <3>2 DEF a
  <2>5. idx \in Nat
    <3>1. i - 1 \in Nat /\ s \in Nat
      BY <1>1, <1>2
    <3> QED
      BY <3>1
  <2>6. \A c \in 1..s : samples[idx + c] = Samples(p, s)[c]
    <3> SUFFICES ASSUME NEW c \in 1..s PROVE samples[idx + c] = Samples(p, s)[c]
      OBVIOUS
    <3>1. samples[PieceIndex(yy * w + x, s, c)] = Samples(input.pixels[yy * w + (x + 1)], s)[c]
      BY <1>4, <2>1, <2>4, Zenon DEF RowsRead
    <3>2. PieceIndex(yy * w + x, s, c) = idx + c
      BY <2>4, Zenon DEF PieceIndex
    <3> QED
      BY <2>4, <3>1, <3>2, Zenon
  <2>7. s = 1 => p.r = p.g /\ p.g = p.b
    BY <1>3, Zenon
  <2> HIDE DEF p, idx
  <2>8. PixelAt(samples, idx) = p
    BY <1>2, <2>2, <2>5, <2>6, <2>7, PixelMade
  <2> QED
    BY <2>8 DEF p, idx
<1>6. input.pixels = [i \in 1..(w * h) |-> input.pixels[i]]
  <2> DEFINE q == input.pixels
             n == w * h
  <2>1. q \in Seq(RGB) /\ Len(q) = n
    BY <1>1
  <2> HIDE DEF q, n
  <2>2. q = [i \in 1..n |-> q[i]]
    BY <2>1
  <2> QED
    BY <2>2 DEF q, n
<1> QED
  BY <1>5, <1>6, Zenon

\* The rows given to the library are the samples of all pixels, in order.
LEMMA RowsAreAll ==
  ASSUME IsInput(input), RowsSent, rowsMoved = input.height
  PROVE  FlattenSeq(sent) =
           FlattenSeq([i \in 1..Len(input.pixels) |-> Samples(input.pixels[i], 3)])
<1> DEFINE w == input.width
           h == input.height
           n == w * h
           k == 3
           l == w * k
           all == [i \in 1..n |-> Samples(input.pixels[i], k)]
<1>0. k \in Nat \ {0} /\ k \in 1..4
  OBVIOUS
<1>K. k = 3
  OBVIOUS
<1> HIDE DEF k
<1>1. /\ w \in Nat \ {0} /\ h \in Nat \ {0} /\ input.pixels \in Seq(RGB)
      /\ Len(input.pixels) = w * h
  BY DEF IsInput
<1>2. n \in Nat \ {0} /\ l \in Nat \ {0} /\ h * l = n * k
  <2>1. n \in Nat /\ n >= 1
    <3>1. (w - 1) * h >= 0
      BY <1>0, <1>1
    <3> QED
      BY <1>0, <1>1, <3>1
  <2>2. h * l = n * k
    BY <1>0, <1>1
  <2> QED
    BY <1>0, <1>1, <2>1, <2>2
<1>N. n \in Nat \ {0} /\ l \in Nat \ {0}
  BY <1>2, Zenon
<1>W. w \in Nat \ {0} /\ h \in Nat \ {0}
  BY <1>1, Zenon
<1>3. ASSUME NEW i \in 1..n
      PROVE  all[i] \in Seq(Sample) /\ Len(all[i]) = k
  <2> DEFINE p == input.pixels[i]
  <2>1. p \in RGB
    BY <1>0, <1>1, ElementOfSeq
  <2>2. all[i] = Samples(p, k)
    BY Zenon
  <2> HIDE DEF p, all
  <2> QED
    BY <1>0, <2>1, <2>2, SamplesType, Zenon
<1>4. all \in [1..n -> Seq(Sample)]
  BY <1>0, <1>3
<1>5. /\ FlattenSeq(all) \in Seq(Sample) /\ Len(FlattenSeq(all)) = n * k
      /\ \A i \in 0..(n - 1), c \in 1..k :
           /\ PieceIndex(i, k, c) \in 1..(n * k)
           /\ FlattenSeq(all)[PieceIndex(i, k, c)] = all[i + 1][c]
  <2> HIDE DEF all, n
  <2>1. \A i \in 1..n : Len(all[i]) = k
    BY <1>3, Zenon
  <2>2. n \in Nat \ {0} /\ k \in Nat \ {0}
    BY <1>0, <1>N, Zenon
  <2> QED
    BY ONLY <2>2, <1>4, <2>1, FlattenPieces, Zenon
<1>6. ASSUME NEW i \in 1..h
      PROVE  /\ sent[i] \in Seq(Sample) /\ Len(sent[i]) = l
             /\ \A x \in 0..(w - 1), c \in 1..k :
                  sent[i][PieceIndex(x, k, c)] =
                    Samples(input.pixels[(i - 1) * w + (x + 1)], k)[c]
  <2>1. i - 1 \in 0..(h - 1)
    BY <1>0, <1>1
  <2>2. sent[i] = RowBytes(input, i - 1, k)
    BY <1>K, Zenon DEF RowsSent
  <2> QED
    <3> DEFINE z == i - 1
               b == RowBytes(input, z, k)
    <3>1. z \in 0..(h - 1) /\ IsInput(input)
      BY <2>1
    <3> HIDE DEF z
    <3>2. /\ b \in Seq(Sample) /\ Len(b) = w * k
          /\ \A x \in 0..(w - 1), c \in 1..k :
               b[PieceIndex(x, k, c)] = Samples(input.pixels[z * w + (x + 1)], k)[c]
      BY ONLY <1>0, <3>1, RowOf, Zenon
    <3> QED
      BY <2>2, <3>2, Zenon DEF z
<1>7. sent \in [1..h -> Seq(Sample)]
  <2>1. sent \in Seq(Seq(Sample)) /\ Len(sent) = h
    BY DEF RowsSent
  <2> QED
    BY <1>0, <2>1
<1>8. /\ FlattenSeq(sent) \in Seq(Sample) /\ Len(FlattenSeq(sent)) = h * l
      /\ \A i \in 0..(h - 1), c \in 1..l :
           /\ PieceIndex(i, l, c) \in 1..(h * l)
           /\ FlattenSeq(sent)[PieceIndex(i, l, c)] = sent[i + 1][c]
  <2> HIDE DEF l, h
  <2>1. \A i \in 1..h : Len(sent[i]) = l
    BY <1>0, <1>6, Zenon
  <2> QED
    BY ONLY <1>N, <1>W, <1>7, <2>1, FlattenPieces, Zenon
<1>9. ASSUME NEW j \in 1..(n * k)
      PROVE  FlattenSeq(sent)[j] = FlattenSeq(all)[j]
  <2> DEFINE q == (j - 1) \div k
             e == (j - 1) % k
             c == e + 1
             yy == q \div w
             x == q % w
  <2>1. q \in 0..(n - 1) /\ e \in 0..(k - 1) /\ j = q * k + e + 1
    <3>1. n \in Nat /\ j \in 1..(k * n)
      BY <1>0, <1>2
    <3> HIDE DEF n
    <3> QED
      BY <1>0, <3>1, Place
  <2> HIDE DEF q, e
  <2>2. c \in 1..k /\ j = PieceIndex(q, k, c) /\ q \in Nat
    <3>1. n \in Nat
      BY <1>0, <1>2
    <3> HIDE DEF n
    <3> QED
      BY <1>0, <2>1, <3>1 DEF PieceIndex
  <2>3. yy \in 0..(h - 1) /\ x \in 0..(w - 1) /\ q = yy * w + x
    <3> DEFINE i == q + 1
    <3>1. i \in 1..(w * h) /\ i - 1 = q /\ h \in Nat
      <4>1. n \in Nat
        BY <1>0, <1>2
      <4> HIDE DEF n
      <4>2. i \in 1..n /\ i - 1 = q
        BY <1>0, <2>1, <4>1
      <4> QED
        BY <1>0, <1>1, <4>2 DEF n
    <3> HIDE DEF i
    <3>2. (i - 1) \div w \in 0..(h - 1) /\ (i - 1) % w \in 0..(w - 1)
          /\ i = ((i - 1) \div w) * w + ((i - 1) % w) + 1
      BY <1>0, <1>1, <3>1, Place
    <3>3. yy \in 0..(h - 1) /\ x \in 0..(w - 1) /\ i = yy * w + x + 1
      BY <1>0, <3>1, <3>2, Zenon
    <3> HIDE DEF yy, x
    <3> DEFINE a == yy * w
    <3>4. a \in Nat /\ x \in Nat
      BY <1>0, <1>1, <3>3
    <3> HIDE DEF a
    <3>5. i = a + x + 1 /\ i - 1 = q
      BY <1>0, <3>1, <3>3 DEF a
    <3>6. q = a + x
      BY <1>0, <2>2, <3>4, <3>5
    <3> QED
      BY <1>0, <3>3, <3>6 DEF a
  <2> HIDE DEF c, yy, x
  <2>4. PieceIndex(yy * w + x, k, c) = yy * w * k + PieceIndex(x, k, c)
        /\ PieceIndex(x, k, c) \in 1..(w * k)
    <3>1. yy \in Nat /\ x \in 0..(w - 1) /\ c \in 1..k
      BY <1>W, <2>2, <2>3
    <3>2. \A v \in Nat \ {0} : \A r \in Nat, i \in 0..(v - 1), d \in 1..k :
            /\ PieceIndex(r * v + i, k, d) = r * v * k + PieceIndex(i, k, d)
            /\ PieceIndex(i, k, d) \in 1..(v * k)
      BY ONLY <1>0, SampleOfRow
    <3>3. w \in Nat \ {0}
      BY <1>W, Zenon
    <3> HIDE DEF w
    <3>4. \A r \in Nat, i \in 0..(w - 1), d \in 1..k :
            /\ PieceIndex(r * w + i, k, d) = r * w * k + PieceIndex(i, k, d)
            /\ PieceIndex(i, k, d) \in 1..(w * k)
      BY ONLY <3>2, <3>3, Zenon
    <3> QED
      BY ONLY <3>1, <3>4, Zenon
  <2>5. yy * w * k = yy * l
    <3> DEFINE v == w
    <3> HIDE DEF v
    <3>1. v \in Nat /\ yy \in Nat /\ k \in Nat
      BY <1>0, <1>1, <2>3 DEF v
    <3>2. yy * v * k = yy * (v * k)
      BY ONLY <3>1
    <3> QED
      BY <3>2 DEF v
  <2>6. j = PieceIndex(yy, l, PieceIndex(x, k, c)) /\ PieceIndex(x, k, c) \in 1..l
    <3>1. j = yy * l + PieceIndex(x, k, c)
      BY <1>0, <2>2, <2>3, <2>4, <2>5, Zenon
    <3> QED
      BY <1>0, <2>4, <3>1, Zenon DEF PieceIndex
  <2>7. FlattenSeq(sent)[j] = sent[yy + 1][PieceIndex(x, k, c)]
    BY <1>0, <1>8, <2>3, <2>6, Zenon
  <2>8. yy + 1 \in 1..h /\ (yy + 1) - 1 = yy
    BY <1>0, <1>1, <2>3
  <2>9. sent[yy + 1][PieceIndex(x, k, c)] = Samples(input.pixels[yy * w + (x + 1)], k)[c]
    BY <1>0, <1>6, <2>2, <2>3, <2>8, Zenon
  <2>10. FlattenSeq(all)[j] = all[q + 1][c]
    BY <1>0, <1>5, <2>1, <2>2, Zenon
  <2>11. q + 1 \in 1..n /\ q + 1 = yy * w + (x + 1)
    <3>1. n \in Nat /\ yy * w \in Nat /\ x \in Nat
      <4>1. yy \in Nat /\ x \in Nat /\ w \in Nat
        BY <1>1, <2>3
      <4>2. \A a, b \in Nat : a * b \in Nat
        OBVIOUS
      <4> QED
        BY <1>2, <4>1, <4>2, Zenon
    <3> DEFINE a == yy * w
    <3> HIDE DEF n, a
    <3>2. q + 1 \in 1..n
      BY <1>0, <2>1, <3>1
    <3>3. q + 1 = a + (x + 1)
      BY <1>0, <2>3, <3>1 DEF a
    <3> QED
      BY <1>0, <3>2, <3>3 DEF a
  <2>12. all[q + 1] = Samples(input.pixels[q + 1], k)
    BY <1>0, <2>11, Zenon
  <2> QED
    BY <1>0, <2>7, <2>9, <2>10, <2>11, <2>12, Zenon
<1> DEFINE f == FlattenSeq(sent)
           g == FlattenSeq(all)
           N == n * k
<1>10. f \in Seq(Sample) /\ Len(f) = N /\ g \in Seq(Sample) /\ Len(g) = N
  BY <1>0, <1>2, <1>5, <1>8, Zenon
<1>11. \A j \in 1..N : f[j] = g[j]
  BY <1>0, <1>9, Zenon
<1> HIDE DEF f, g, N
<1>12. f = [j \in 1..N |-> f[j]] /\ g = [j \in 1..N |-> g[j]]
  BY <1>0, <1>10
<1>13. f = g
  <2>1. [j \in 1..N |-> f[j]] = [j \in 1..N |-> g[j]]
    BY <1>0, <1>11, Zenon
  <2> QED
    BY <1>0, <1>12, <2>1, Zenon
<1>14. Len(input.pixels) = n
  BY <1>0, <1>1
<1> QED
  BY <1>K, <1>13, <1>14, Zenon DEF f, g

\* What the functions return is made of what they moved.
LEMMA ResultIsMade ==
  ASSUME PassInv, Convert
  PROVE  PassInv'
<1>0. /\ InputGiven /\ at = "convert" /\ rowsMoved \in Nat /\ rowsMoved = input.height
      /\ input.width > 0 /\ input.height > 0 /\ input.width <= MaxSide
      /\ IF IsReader THEN Reading ELSE RowsSent
  BY DEF PassInv, Convert
<1>1. IsInput(input)
  BY <1>0, InputIs
<1>2. InputGiven' <=> InputGiven
  BY DEF Convert, InputGiven, NoVector
<1>3. IsReader' = IsReader /\ Channels' = Channels /\ Stride' = Stride /\ func' = func /\ input' = input
  BY DEF Convert, IsReader, Channels, Stride, NoVector
<1>4. at' = "over" /\ rowsMoved' = rowsMoved /\ sent' = sent
  BY DEF Convert, NoVector, Over, data
<1>5. CASE NoVector("bad_alloc")
  <2>1. ended' # "ok" /\ ended' # "undefined"
    BY <1>5 DEF NoVector, Over
  <2>2. PixelsPassThrough'
    BY <2>1, Zenon DEF PixelsPassThrough, RgbComesBack, RowsFitUnlessTransparent, RowsWrittenExactly
  <2> QED
    BY <1>0, <1>2, <1>4, <2>2 DEF PassInv
<1>6. CASE /\ Over("ok")
           /\ pixelsRead' = IF IsReader
                            THEN [i \in 1..(input.width * input.height) |->
                                    PixelAt(samples, (i - 1) * Stride)]
                            ELSE <<>>
  <2>1. ended' = "ok"
    BY <1>6 DEF Over
  <2>2. RgbComesBack'
    <3> SUFFICES ASSUME (func = "readPNG" /\ Channels = 3) \/ (func = "readJPEG" /\ Channels < 4)
                 PROVE  pixelsRead' = input.pixels
      BY <1>3, Zenon DEF RgbComesBack
    <3>1. IsReader
      BY DEF IsReader
    <3>2. InPlace
      <4>1. Reading
        BY <1>0, <3>1, Zenon
      <4> DEFINE n == input.height * input.width * Stride
      <4>2. Wrap(n) >= 0 => n <= INT_MAX
        <5>1. input.height \in 0..input.height
          BY <1>1 DEF IsInput
        <5>2. input.height = 0 \/ (input.height - 1) * input.width * Stride <= INT_MAX
          BY <1>0, <4>1, Zenon DEF Reading
        <5> QED
          BY <1>0, <1>1, <3>1, <5>1, <5>2, StartOf, Zenon
      <4>3. input.width * input.height = input.height * input.width
        BY <1>1 DEF IsInput
      <4>4. BytesFit
        BY <4>1, <4>2, <4>3, Zenon DEF Reading, BytesFit
      <4> QED
        BY <4>1, <4>4, Zenon DEF Reading
    <3>3. [i \in 1..(input.width * input.height) |-> PixelAt(samples, (i - 1) * Stride)]
            = input.pixels
      BY <1>0, <1>1, <3>1, <3>2, PixelsMade, Zenon
    <3> QED
      BY <1>6, <3>1, <3>3, Zenon
  <2>3. RowsFitUnlessTransparent'
    BY <2>1, Zenon DEF RowsFitUnlessTransparent
  <2>4. RowsWrittenExactly'
    <3> SUFFICES ASSUME ~IsReader
                 PROVE  /\ Len(sent) = input.height
                        /\ FlattenSeq(sent) =
                             FlattenSeq([i \in 1..Len(input.pixels) |-> Samples(input.pixels[i], 3)])
      BY <1>3, <1>4, Zenon DEF RowsWrittenExactly
    <3>1. RowsSent
      BY <1>0, Zenon
    <3>2. Len(sent) = input.height
      BY <1>0, <3>1, Zenon DEF RowsSent
    <3> QED
      BY <1>0, <1>1, <3>1, <3>2, RowsAreAll, Zenon
  <2> QED
    BY <1>0, <1>2, <1>4, <2>2, <2>3, <2>4 DEF PassInv, PixelsPassThrough
<1> QED
  BY <1>5, <1>6, Zenon DEF Convert

\* Before the first row, nothing is read and nothing written.
LEMMA VectorsAreMade ==
  ASSUME PassInv, AllocateVectors
  PROVE  PassInv'
<1>0. /\ InputGiven /\ at = "vectors" /\ rowsMoved = 0 /\ sent = <<>> /\ rowsMoved \in Nat
      /\ input.width > 0 /\ input.height > 0 /\ ended = "running" /\ input.width <= MaxSide
  BY DEF PassInv, AllocateVectors
<1>1. IsInput(input)
  BY <1>0, InputIs
<1>2. InputGiven' <=> InputGiven
  BY DEF AllocateVectors, Advance, InputGiven, NoVector
<1>3. IsReader' = IsReader /\ Channels' = Channels /\ Stride' = Stride /\ func' = func /\ input' = input
  BY DEF AllocateVectors, Advance, IsReader, Channels, Stride, NoVector
<1>4. rowsMoved' = rowsMoved /\ sent' = sent
  BY DEF AllocateVectors, NoVector, data
<1>5. CASE NoVector("bad_alloc") \/ NoVector("length_error")
  <2>1. ended' # "ok" /\ ended' # "undefined" /\ at' = "over"
    BY <1>5 DEF NoVector, Over
  <2>2. PixelsPassThrough'
    BY <2>1, Zenon DEF PixelsPassThrough, RgbComesBack, RowsFitUnlessTransparent, RowsWrittenExactly
  <2> QED
    BY <1>0, <1>2, <1>4, <2>1, <2>2 DEF PassInv
<1>6. CASE /\ \A n \in Sizes : n >= 0
           /\ Advance("rows", Vectors)
           /\ samples' = IF IsReader
                         THEN [i \in 1..Wrap(input.width * input.height * Stride) |-> 0] ELSE <<>>
  <2>1. at' = "rows" /\ ended' = ended
    BY <1>6 DEF Advance
  <2>2. 0..(rowsMoved' - 1) = {} /\ 1..rowsMoved' = {}
    BY <1>0, <1>4
  <2>3. CASE IsReader
    <3> DEFINE n == input.width * input.height * Stride
    <3>0. n \in Nat /\ Wrap(n) >= 0
      <4>1. input.width \in Nat /\ input.height \in Nat /\ Stride \in Nat
        BY <1>0, <1>1, <2>3, ChannelsFit DEF IsInput
      <4>2. input.width * input.height \in Nat
        BY <4>1
      <4>3. \A a, b \in Nat : a * b \in Nat
        OBVIOUS
      <4>4. Wrap(n) \in Sizes
        <5>1. func = "readPNG" \/ func = "readJPEG"
          BY <2>3 DEF IsReader
        <5>2. func = "readPNG" => Stride = 3 /\ Sizes = {Wrap(input.width * input.height),
                                                        Wrap(input.width * input.height * 3)}
          BY DEF Stride, Sizes
        <5>3. func = "readJPEG" => Stride = Channels
                                   /\ Sizes = {Wrap(input.width * input.height * Channels)}
          BY DEF Stride, Sizes
        <5> QED
          BY <5>1, <5>2, <5>3, Zenon
      <4> QED
        BY <1>6, <4>1, <4>2, <4>3, <4>4, Zenon
    <3>1. BytesFit => samples' \in [1..n -> Sample]
      <4> SUFFICES ASSUME BytesFit PROVE samples' \in [1..n -> Sample]
        OBVIOUS
      <4>1. 0 \in Sample
        BY DEF Sample
      <4>2. n <= INT_MAX
        BY DEF BytesFit
      <4> HIDE DEF n
      <4>3. n \in Int /\ n \in Ints
        BY <3>0, <4>2, IntMaxAssumption DEF Ints
      <4>4. Wrap(n) = n
        BY <4>3, WrapIs
      <4>5. samples' = [i \in 1..Wrap(n) |-> 0]
        BY <1>6, <2>3, Zenon DEF n
      <4> QED
        BY <4>1, <4>4, <4>5, Zenon
    <3>2. RowsRead'
      BY <2>2, Zenon DEF RowsRead
    <3>3. Reading'
      <4>1. BytesFit' = BytesFit
        BY <1>3, Zenon DEF BytesFit
      <4>2. rowsMoved' = 0
        BY <1>0, <1>4
      <4> QED
        BY <1>3, <3>0, <3>1, <3>2, <4>1, <4>2, Zenon DEF Reading, InPlace
    <3>4. rowsMoved' <= input'.height
      BY <1>0, <1>1, <1>3, <1>4 DEF IsInput
    <3> QED
      BY <1>0, <1>2, <1>3, <1>4, <2>1, <2>3, <3>3, <3>4 DEF PassInv
  <2>4. CASE ~IsReader
    <3>1. sent' \in Seq(Seq(Sample)) /\ Len(sent') = rowsMoved'
      <4>1. <<>> \in Seq(Seq(Sample)) /\ Len(<<>>) = 0
        OBVIOUS
      <4> QED
        BY <1>0, <1>4, <4>1, Zenon
    <3>2. RowsSent'
      BY <2>2, <3>1, Zenon DEF RowsSent
    <3>3. rowsMoved' <= input'.height
      BY <1>0, <1>1, <1>3, <1>4 DEF IsInput
    <3> QED
      BY <1>0, <1>2, <1>3, <1>4, <2>1, <2>4, <3>2, <3>3 DEF PassInv
  <2> QED
    BY <2>3, <2>4
<1> QED
  BY <1>5, <1>6, Zenon DEF AllocateVectors

\* The other steps move no pixels.
Elsewhere ==
  Fopen \/ CreateStruct \/ CreateInfo \/ PassHeader \/ AllRowsMoved \/ Finish \/ Finished

LEMMA PixelsStay ==
  ASSUME PassInv, Elsewhere \/ UNCHANGED libVars
  PROVE  PassInv'
<1>0. /\ func' = func /\ input' = input /\ rowsMoved' = rowsMoved /\ samples' = samples
      /\ sent' = sent /\ pixelsRead' = pixelsRead
  BY DEF Elsewhere, Fopen, CreateStruct, CreateInfo, PassHeader, AllRowsMoved, Finish, Finished,
         Advance, Throw, LibraryError, data, libVars
<1>1. /\ InputGiven' = InputGiven /\ IsReader' = IsReader /\ Reading' = Reading
      /\ RowsSent' = RowsSent
  <2>1. Channels' = Channels /\ Stride' = Stride
    BY <1>0 DEF Channels, Stride
  <2>2. RowsRead' = RowsRead
    BY <1>0, <2>1 DEF RowsRead
  <2>3. Reading' = Reading
    <3>1. InPlace' = InPlace /\ BytesFit' = BytesFit
      BY <1>0, <2>1, <2>2, Zenon DEF InPlace, BytesFit
    <3> QED
      BY <1>0, <2>1, <3>1, Zenon DEF Reading
  <2>4. RowsSent' = RowsSent
    BY <1>0 DEF RowsSent
  <2>5. InputGiven' = InputGiven /\ IsReader' = IsReader
    BY <1>0 DEF InputGiven, IsReader
  <2> QED
    BY <2>3, <2>4, <2>5
<1>2. \/ at' = at /\ ended' = ended
      \/ at' = "over" /\ ended' \notin {"ok", "undefined"}
      \/ /\ at = "fopen" /\ at' = "struct" /\ ended' = ended
      \/ /\ at = "struct" /\ at' \in {"info", "header"} /\ ended' = ended
      \/ /\ at = "info" /\ at' = "header" /\ ended' = ended
      \/ /\ at = "header" /\ at' = "vectors" /\ ended' = ended
         /\ input.width > 0 /\ input.height > 0 /\ input.width <= MaxSide
      \/ /\ at = "rows" /\ at' = "finish" /\ rowsMoved = input.height /\ ended' = ended
      \/ /\ at = "finish" /\ at' = "convert" /\ ended' = ended
  <2>1. \A n \in 1..MaxSide : n > 0 /\ n <= MaxSide
    BY MaxSideAssumption
  <2> QED
    BY <2>1
       DEF Elsewhere, Fopen, CreateStruct, CreateInfo, PassHeader, AllRowsMoved, Finish, Finished,
           Advance, Throw, LibraryError, Over, libVars
<1>3. CASE at' = at /\ ended' = ended
  <2>1. PixelsPassThrough' = PixelsPassThrough
    BY <1>0, <1>3, Zenon DEF PixelsPassThrough, RgbComesBack, RowsFitUnlessTransparent,
                             RowsWrittenExactly, Channels, Stride, IsReader
  <2> QED
    BY <1>0, <1>1, <1>3, <2>1 DEF PassInv
<1>4. CASE at' = "over" /\ ended' \notin {"ok", "undefined"}
  <2>1. PixelsPassThrough'
    BY <1>4, Zenon DEF PixelsPassThrough, RgbComesBack, RowsFitUnlessTransparent, RowsWrittenExactly
  <2> QED
    BY <1>0, <1>1, <1>4, <2>1 DEF PassInv
<1>5. CASE /\ at = "fopen" /\ at' = "struct" /\ ended' = ended
  BY <1>0, <1>1, <1>5 DEF PassInv
<1>6. CASE /\ at = "struct" /\ at' \in {"info", "header"} /\ ended' = ended
  BY <1>0, <1>1, <1>6 DEF PassInv
<1>7. CASE /\ at = "info" /\ at' = "header" /\ ended' = ended
  BY <1>0, <1>1, <1>7 DEF PassInv
<1>8. CASE /\ at = "header" /\ at' = "vectors" /\ ended' = ended
         /\ input.width > 0 /\ input.height > 0 /\ input.width <= MaxSide
  BY <1>0, <1>1, <1>8 DEF PassInv
<1>9. CASE /\ at = "rows" /\ at' = "finish" /\ rowsMoved = input.height /\ ended' = ended
  BY <1>0, <1>1, <1>9 DEF PassInv
<1>10. CASE /\ at = "finish" /\ at' = "convert" /\ ended' = ended
  BY <1>0, <1>1, <1>10 DEF PassInv
<1> QED
  BY <1>2, <1>3, <1>4, <1>5, <1>6, <1>7, <1>8, <1>9, <1>10

\* Whatever its pixels, an RGB image, and a grey JPEG, that readPNG or readJPEG
\* returns is unchanged, rows fit the space the functions provide unless
\* transparency adds a channel or the bytes of the image are more than an int
\* counts, and writePNG and writeJPEG, when they return, gave the library every
\* row once and in order.  An image of any size the libraries take is covered,
\* with the int products of png_reader.cpp:50-55, jpeg_reader.cpp:29-35 and
\* png_writer.cpp:38-50 as they overflow.
THEOREM PixelsComeThrough == LibSpec => []PixelsPassThrough
<1>1. LibInit => PassInv
  BY DEF LibInit, PassInv, InputGiven
<1>2. PassInv /\ [LibNext]_libVars => PassInv'
  BY RowIsRead, RowIsSent, ResultIsMade, VectorsAreMade, PixelsStay, Zenon DEF LibNext, Elsewhere
<1>3. PassInv => PixelsPassThrough
  BY Zenon DEF PassInv, PixelsPassThrough, RgbComesBack, RowsFitUnlessTransparent, RowsWrittenExactly
<1> QED
  BY <1>1, <1>2, <1>3, PTL DEF LibSpec

=============================================================================
