------------------------------- MODULE TextCodec -------------------------------
(***************************************************************************)
(* Media as they go through the text codec: encryptImage, encryptVideo and *)
(* encryptAudio make a text, and any of the three decryptors may be called *)
(* on it, because nothing in a container tells what made it.  An image     *)
(* that was written is read and encrypted again.  Compression, encryption  *)
(* and files lie between the two halves and are left out here: the text is *)
(* what decompressXZ is meant to deliver (see the finding xz_readback).    *)
(*                                                                         *)
(* phase:  "media"    there is a media file, and no text yet               *)
(*         "text"     an encryptor has made the text                       *)
(*         "decoded"  a decryptor has ended                                *)
(*         "dead"     the process was ended by a trap or by exit()         *)
(***************************************************************************)
EXTENDS MediaText

CONSTANTS Images, Videos, Sounds,  \* the media files at the start
          Texts,           \* texts that someone else wrote
          Rates,           \* values of samplesPerSecond
          Exts,            \* extensions of output files
          MaxGenerations   \* bound on the number of encodings of an image

\* What the readers deliver: every pixel of an image, frames of one size.
ImageFile == {m \in [kind : {"image"}, width : Nat, height : Nat, pixels : Seq(Color)] :
                Len(m.pixels) = m.width * m.height}
VideoFile == {m \in [kind : {"video"}, width : Nat \ {0}, height : Nat \ {0},
                     frames : Seq(Seq(Color)), samples : Seq(AnySample)] :
                \A i \in DOMAIN m.frames : Len(m.frames[i]) = m.width * m.height}
SoundFile == [kind : {"audio"}, samples : Seq(AnySample)]

ASSUME MediaAssumption ==
  /\ Images \subseteq ImageFile /\ Videos \subseteq VideoFile /\ Sounds \subseteq SoundFile
  /\ Texts \subseteq Text
ASSUME RatesAssumption == Rates \subseteq Int
ASSUME GenerationsAssumption == MaxGenerations \in Nat

VARIABLES
  phase,
  media,
  text,        \* textData
  encryptor,   \* history: what made the text
  rate,        \* its samplesPerSecond
  decryptor,   \* what decoded it
  ext,         \* getFileExtension(outputPath)
  frameTexts,
  image,       \* width, height and pixels given to the image writer
  samples,     \* what textToAudio returned
  outcome,     \* "none", "ok", or how the decryptor ended
  nanAs,       \* what (int)NaN is in this build
  first,       \* history: the first text of an image
  generation   \* history: encodings of an image so far

vars == <<phase, media, text, encryptor, rate, decryptor, ext, frameTexts, image, samples,
          outcome, nanAs, first, generation>>
decoded == <<decryptor, ext, frameTexts, image, samples, outcome>>

ForeignText == [kind |-> "text"]

Init ==
  /\ \/ phase = "media" /\ media \in Images \cup Videos \cup Sounds
        /\ text = <<>> /\ encryptor = "none"
     \/ phase = "text" /\ media = ForeignText
        /\ text \in Texts /\ encryptor = "foreign"
  /\ rate = 0
  /\ decryptor = "none" /\ ext = "" /\ frameTexts = <<>>
  /\ image = NoImage /\ samples = <<>> /\ outcome = "none"
  /\ nanAs \in IF media.kind \in {"video", "audio"} THEN {INT_MIN, 0} ELSE {0}
  /\ first = <<>>
  /\ generation = 0

-----------------------------------------------------------------------------
Encoded(op, t, r) ==
  /\ phase' = "text"
  /\ text' = t /\ encryptor' = op /\ rate' = r
  /\ first' = IF op = "encryptImage" /\ first = <<>> THEN t ELSE first
  /\ generation' = IF op = "encryptImage" THEN generation + 1 ELSE generation
  /\ UNCHANGED <<media, decoded, nanAs>>

EncryptImage ==
  /\ phase = "media" /\ media.kind = "image" /\ generation < MaxGenerations
  /\ \E o \in Orders :
       Encoded("encryptImage", pixelToText(media.pixels, media.width, media.height, o), 0)

EncryptVideo(r) ==
  LET frames(o) == [i \in 1..Len(media.frames) |->
                      pixelToText(media.frames[i], media.width, media.height, o)]
  IN  /\ phase = "media" /\ media.kind = "video"
      /\ \E o \in Orders :
           Encoded("encryptVideo", joinVideoText(frames(o), sampleToText(media.samples, r, nanAs)), r)

EncryptAudio(r) ==
  /\ phase = "media" /\ media.kind = "audio"
  /\ Encoded("encryptAudio", sampleToText(media.samples, r, nanAs), r)

\* samplesPerSecond is 0 and the division traps.
DivisionTraps(r) ==
  /\ phase = "media" /\ media.kind \in {"video", "audio"}
  /\ r = 0
  /\ phase' = "dead"
  /\ UNCHANGED <<media, text, encryptor, rate, decoded, nanAs, first, generation>>

-----------------------------------------------------------------------------
Decoded(op, e, img, ends) ==
  /\ decryptor' = op /\ ext' = e /\ image' = img
  /\ outcome' = ends
  /\ phase' = IF ends = "exit" THEN "dead" ELSE "decoded"
  /\ UNCHANGED <<media, text, encryptor, rate, nanAs, first, generation>>

\* How the image writer for extension e ends: libpng and libjpeg refuse an
\* image without pixels, libjpeg by exit().
WriterEnds(e, img) ==
  CASE e = "png" /\ img.width = 0 -> "DhtError"
    [] e = "jpg" /\ img.width = 0 -> "exit"
    [] OTHER -> "ok"

DecryptImage(e) ==
  LET img == textToPixel(text) IN
  /\ phase = "text"
  /\ Decoded("decryptImage", e, img,
             IF e \in {"png", "jpg", "bmp"} THEN WriterEnds(e, img) ELSE "UnsupportedFormatError")
  /\ UNCHANGED <<frameTexts, samples>>

\* All frames are decoded, and their pixels given to an image writer with the
\* width and height of the first.  The sound is split off and not used, but a
\* marker with nothing after it makes splitting fail.
DecryptVideo(e) ==
  LET img == VideoImage(frameTexts') IN
  /\ phase = "text"
  /\ \/ /\ EndsAtMarker(text)
        /\ Decoded("decryptVideo", e, NoImage, "out_of_range")
        /\ UNCHANGED frameTexts
     \/ /\ ~EndsAtMarker(text)
        /\ frameTexts' = SplitFrames(SplitAudio(text).video)
        /\ Decoded("decryptVideo", e, img,
                   IF e \in {"png", "jpg"} THEN WriterEnds(e, img) ELSE "UnsupportedFormatError")
  /\ UNCHANGED samples

\* The samples are dropped: "Audio decoding not implemented yet".
DecryptAudio(e) ==
  /\ phase = "text"
  /\ samples' = textToAudio(text)
  /\ Decoded("decryptAudio", e, NoImage, "DhtError")
  /\ UNCHANGED frameTexts

\* The pixels the writer took: row y, column x is pixels[y * width + x].
Written == SubSeq(image.pixels, 1, image.width * image.height)

\* The image file just written, in a format that keeps pixels, is the next
\* media file.  Of one whose pixels were missing nothing is known.
ReadBack ==
  /\ phase = "decoded" /\ outcome = "ok" /\ ext \in {"png", "bmp"}
  /\ Len(image.pixels) >= image.width * image.height
  /\ phase' = "media"
  /\ media' = [kind |-> "image", width |-> image.width, height |-> image.height,
               pixels |-> Written]
  /\ text' = <<>> /\ encryptor' = "none" /\ rate' = 0
  /\ decryptor' = "none" /\ ext' = "" /\ frameTexts' = <<>>
  /\ image' = NoImage /\ samples' = <<>> /\ outcome' = "none"
  /\ UNCHANGED <<nanAs, first, generation>>

\* Nothing more is done with the file, or the process is gone.
Stopped == phase \in {"media", "decoded", "dead"} /\ UNCHANGED vars

Next ==
  \/ EncryptImage
  \/ \E r \in Rates : EncryptVideo(r) \/ EncryptAudio(r) \/ DivisionTraps(r)
  \/ \E e \in Exts : DecryptImage(e) \/ DecryptVideo(e) \/ DecryptAudio(e)
  \/ ReadBack
  \/ Stopped

Spec == Init /\ [][Next]_vars

-----------------------------------------------------------------------------
(***************************************************************************)
(* Properties                                                              *)
(***************************************************************************)

\* A pixel after one trip through the colour code, in whatever build.
Recoloured(p) == codeToRGB(rgbToCode(p, CHOOSE o \in Orders : TRUE))

\* The image of rows of the given width that pixels make.
Image(width, pixels) ==
  IF pixels = <<>> THEN NoImage
  ELSE [width |-> width, height |-> Len(pixels) \div width,
        pixels |-> [i \in 1..Len(pixels) |-> Recoloured(pixels[i])]]

\* What decryptImage and decryptVideo give to the writer for the text of an
\* image is that image, every pixel at its place and changed by nothing but
\* the colour code; one without pixels becomes 0 x 0
\* (pixel_to_text.cpp:11-17, text_to_pixel.cpp:16-26).
ImageComesBack ==
  phase = "decoded" /\ encryptor = "encryptImage" /\ decryptor # "decryptAudio" =>
    image = Image(media.width, media.pixels)

\* decryptVideo finds exactly the frames encryptVideo joined, with sound after
\* them or not, and has the pixels of all of them in order under the size of
\* one frame (video_text_joiner.cpp:9-20, decrypt_video.cpp:24-62).
FramesComeBack ==
  phase = "decoded" /\ encryptor = "encryptVideo" /\ decryptor = "decryptVideo" =>
    /\ Len(frameTexts) = Len(media.frames)
    /\ \A i \in DOMAIN frameTexts :
         textToPixel(frameTexts[i]) = Image(media.width, media.frames[i])
    /\ media.frames # <<>> =>
         /\ image.width = media.width /\ image.height = media.height
         /\ image.pixels = Image(media.width, FlattenSeq(media.frames)).pixels

\* The sound that decryptVideo splits off is the text that was joined, to the
\* character: 18 characters are the marker and its newline.
SoundSplitsExactly ==
  encryptor = "encryptVideo" =>
    SplitAudio(text).audio = sampleToText(media.samples, rate, nanAs)

\* A video comes back: its frames, and the sound they are followed by.
VideoComesBack == FramesComeBack /\ SoundSplitsExactly

\* The amplitudes a text carries.
Amplitudes == Numbers(text)

\* textToAudio finds one sample for each that sampleToText wrote, pixels and
\* marker of a video notwithstanding, and each is the magnitude of a sample
\* at the place it was taken from, limited to 1 and at most one hundredth less.
SamplesComeBack ==
  phase = "decoded" /\ decryptor = "decryptAudio" /\ encryptor \in {"encryptVideo", "encryptAudio"} =>
    LET step == StepOf(Len(media.samples), rate) IN
    /\ Len(samples) = Len(Amplitudes)
    /\ \A i \in DOMAIN samples :
         LET s == media.samples[(i - 1) * step + 1]
             limited == IF Abs(s.v) > 1000 THEN 1000 ELSE Abs(s.v)
         IN  ~s.nan => limited - samples[i].v \in 0..10

\* samplesPerSecond is in fact the number of samples kept: when there are as
\* many, at least that many and less than twice as many are in the text, as
\* long as the quotient fits an int (sample_to_text.cpp:9-12).
SampleCountBounded ==
  encryptor \in {"encryptVideo", "encryptAudio"} /\ rate > 0 =>
    LET size == Len(media.samples) IN
    size >= rate /\ size \div rate <= INT_MAX => Len(Amplitudes) \in rate..(2 * rate - 1)

\* Sound comes back: so many samples, and these.
SoundComesBack == SamplesComeBack /\ SampleCountBounded

\* The code of a pixel does not depend on the order in which the library
\* traverses BASE_COLORS: no pixel is near two base colours, so two builds
\* write the same text for the same image (rgb_to_code.cpp:10).
OrderIrrelevant ==
  encryptor = "encryptImage" =>
    \A o \in Orders : pixelToText(media.pixels, media.width, media.height, o) = text

\* The letters of a code, without modifiers, and those of every code in a text.
LettersOf(code) ==
  FlattenSeq([i \in 1..Len(code) |-> IF code[i] \in Letter THEN <<code[i]>> ELSE <<>>])
Hues(t) ==
  FlattenSeq([i \in 1..Len(t) |->
                IF t[i] \in {SP, NL} THEN <<>> ELSE <<LettersOf(t[i].chars)>>])

\* Encoding and decoding an image again never changes the letters of a pixel.
HueSurvives == encryptor = "encryptImage" => Hues(text) = Hues(first)

\* From the second encoding of an image on, a pixel is a fixed point of the colour code.
ColoursSettle ==
  phase = "media" /\ media.kind = "image" /\ generation >= 2 =>
    \A i \in DOMAIN media.pixels : Recoloured(media.pixels[i]) = media.pixels[i]

\* Encoding decoded sound again settles: an amplitude falls by at most one
\* each time and by two altogether, although 0.29, 0.57 and 0.58 times 100.0
\* are less than 29, 57 and 58 as doubles.  Only a text someone else wrote has
\* amplitudes above 100.
AmplitudesSettle ==
  \A i \in DOMAIN Amplitudes :
    LET once(n) == Amplitude(Sample(10 * n), nanAs)
        n == Amplitudes[i]
    IN  /\ encryptor # "foreign" => n <= 100
        /\ n \in 0..100 => /\ once(n) \in (n - 1)..n
                            /\ once(once(n)) >= n - 2
                            /\ once(once(once(n))) = once(once(n))

\* Media that are encoded and decoded again and again lose no more than in the
\* first two rounds, colours as well as amplitudes.
RepeatedEncodingSettles == HueSurvives /\ ColoursSettle /\ AmplitudesSettle

\* The writer reads pixels[y * width + x] for every row and column: they are
\* all there whatever decryptor is called on whatever encryptor's text, with
\* one exception.  The sound of a video, which decryptImage takes for rows of
\* one pixel, makes the image higher without filling the rows.
PixelsMissingOnlyBelowSound ==
  phase = "decoded" /\ encryptor # "foreign" /\ Len(image.pixels) < image.width * image.height =>
    /\ decryptor = "decryptImage" /\ encryptor = "encryptVideo"
    /\ media.samples # <<>> /\ media.width > 1

\* isValidCode() accepts exactly the words that stand for a pixel: it would
\* tell the marker and the amplitudes from codes.
ValidatorTellsPixels ==
  encryptor \in {"encryptImage", "encryptVideo", "encryptAudio"} =>
    \A i \in DOMAIN text :
      text[i] \notin {SP, NL} =>
        (isValidCode(text[i].chars) <=> text[i] # Marker /\ text[i].num = <<>>)

\* The text tools move white space only: whatever the text, its pixels stay
\* the same and in order, and a single row formatted to width w becomes an
\* image of that width.
ToolsKeepPixels ==
  LET pixels(t) == textToPixel(t).pixels IN
  /\ phase = "text" =>
       /\ pixels(removeExtraSpaces(text)) = pixels(text)
       /\ pixels(trim(text)) = pixels(text)
       /\ textToPixel(Join(parseText(text), <<NL>>)) = textToPixel(text)
       /\ \A w \in 1..3 : pixels(formatText(text, w)) = pixels(text)
  /\ phase = "decoded" /\ encryptor = "encryptImage" /\ media.height = 1 =>
       \A w \in 1..media.width : textToPixel(formatText(text, w)).width = w

\* The tools that nothing calls yet fit the texts of the codec.
ToolsFitCodec == ToolsKeepPixels /\ ValidatorTellsPixels

=============================================================================
