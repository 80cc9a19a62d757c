------------------------------- MODULE MediaText -------------------------------
(***************************************************************************)
(* The text Dht makes of media, and the way back: pixelToText() and        *)
(* textToPixel(), joinVideoText() and the splitting in decryptVideo(),     *)
(* sampleToText() and textToAudio(), and the text tools no one calls:      *)
(* formatText(), parseText(), removeExtraSpaces() and trim().              *)
(*                                                                         *)
(* A text is a sequence of tokens: a space, a newline, the marker, the     *)
(* code of a pixel or an amplitude.  A token has the characters that the   *)
(* colour code looks at and, in num, the number an amplitude carries.      *)
(***************************************************************************)
EXTENDS ColorCode, SequencesExt

CONSTANTS INT_MAX,   \* the largest value of a C int
          Char       \* the characters of texts

ASSUME IntMaxAssumption == INT_MAX \in Nat
ASSUME CharAssumption ==
  {" ", "\n", "-", "_", "(", ")", "A", "B", "D", "G", "I", "L", "O", "R", "S", "T", "U"} \subseteq Char

INT_MIN == -INT_MAX - 1

Plain(chars) == [chars |-> chars, num |-> <<>>]
SP == Plain(<<" ">>)
NL == Plain(<<"\n">>)
MarkerChars == <<"-", "-", "-", "A", "U", "D", "I", "O", "_", "S", "T", "A", "R", "T",
                 "-", "-", "-">>
Marker == Plain(MarkerChars)
Amp(n) == [chars |-> <<"A", "(", ")">>, num |-> <<n>>]

Token == [chars : Seq(Char), num : Seq(Int)]
Text == Seq(Token)

\* Parts put one after another, with sep between two of them.
Join(parts, sep) ==
  FlattenSeq([i \in 1..Len(parts) |-> IF i = 1 THEN parts[i] ELSE sep \o parts[i]])

\* A loop over the elements of seq: step[state][element] is one turn of it.
\* The step is a function, which proofs can reason about.
Fold(step, base, seq) ==
  LET state[i \in 0..Len(seq)] == IF i = 0 THEN base ELSE step[state[i - 1]][seq[i]]
  IN  state[Len(seq)]

-----------------------------------------------------------------------------
(***************************************************************************)
(* Reading lines and words                                                 *)
(***************************************************************************)

NoLine == [done |-> <<>>, line |-> <<>>]
AddToLine ==
  [acc \in [done : Seq(Text), line : Text] |-> [c \in Token |->
     IF c = NL THEN [done |-> Append(acc.done, acc.line), line |-> <<>>]
               ELSE [done |-> acc.done, line |-> Append(acc.line, c)]]]

\* The pieces std::getline delivers: what is after the last newline is a line
\* only if it is not empty.
Lines(text) ==
  LET split == Fold(AddToLine, NoLine, text)
  IN  IF split.line = <<>> THEN split.done ELSE Append(split.done, split.line)

Glue(word, c) == [chars |-> word.chars \o c.chars, num |-> word.num \o c.num]
NoWord == Plain(<<>>)

WithWord(acc) == IF acc.word = NoWord THEN acc.done ELSE Append(acc.done, acc.word)
AddToWord ==
  [acc \in [done : Text, word : Token] |-> [c \in Token |->
     IF c = SP THEN [done |-> WithWord(acc), word |-> NoWord]
               ELSE [done |-> acc.done, word |-> Glue(acc.word, c)]]]

\* The words `lineStream >> code' delivers: tokens between spaces.
Words(line) == WithWord(Fold(AddToWord, [done |-> <<>>, word |-> NoWord], line))

-----------------------------------------------------------------------------
(***************************************************************************)
(* Images                                                                  *)
(***************************************************************************)

\* A faulty variant: rows are taken from the bottom up.
pixelToTextBottomUp(pixels, width, height, order) ==
  Join([y \in 1..height |->
          Join([x \in 1..width |->
                  <<Plain(rgbToCode(pixels[(height - y) * width + x], order))>>], <<SP>>)],
       <<NL>>)

\* Row y, column x of the image is pixels[y * width + x]; order is that of
\* BASE_COLORS in this build.
pixelToText(pixels, width, height, order) ==
  Join([y \in 1..height |->
          Join([x \in 1..width |->
                  <<Plain(rgbToCode(pixels[(y - 1) * width + x], order))>>], <<SP>>)],
       <<NL>>)

ImageData == [width : Nat, height : Nat, pixels : Seq(Color)]
NoImage == [width |-> 0, height |-> 0, pixels |-> <<>>]

\* A faulty variant: the width is set in every turn, and not divided.
AddRowUndivided(image, line) ==
  LET row == [i \in 1..Len(Words(line)) |-> codeToRGB(Words(line)[i].chars)]
      pixels == image.pixels \o row
  IN  IF line = <<>> THEN image
      ELSE [pixels |-> pixels, width |-> Len(pixels), height |-> image.height + 1]

\* One turn of textToPixel's loop.  The width is taken from the first line
\* that makes it positive.
AddRow(image, line) ==
  LET row == [i \in 1..Len(Words(line)) |-> codeToRGB(Words(line)[i].chars)]
      pixels == image.pixels \o row
  IN  IF line = <<>> THEN image
      ELSE [pixels |-> pixels,
            width  |-> IF image.width = 0 THEN Len(pixels) \div (image.height + 1)
                                          ELSE image.width,
            height |-> image.height + 1]

textToPixel(text) ==
  Fold([image \in ImageData |-> [line \in Text |-> AddRow(image, line)]], NoImage, Lines(text))

-----------------------------------------------------------------------------
(***************************************************************************)
(* Sound                                                                   *)
(***************************************************************************)

\* A sample is a double: a number, in thousandths, or not a number.
AnySample == [nan : BOOLEAN, v : Int]
Sample(v) == [nan |-> FALSE, v |-> v]
NaN == [nan |-> TRUE, v |-> 0]

Abs(v) == IF v < 0 THEN -v ELSE v

\* The n for which the double n / 100.0 * 100.0 is less than n.
RoundsDown == {29, 57, 58}

\* (int)(fabs(sample) * 100.0), limited to 100; nanAs is what this build
\* makes of (int)NaN, which is undefined.
Amplitude(s, nanAs) ==
  IF s.nan THEN nanAs
  ELSE LET n == Abs(s.v) \div 10 IN
       CASE Abs(s.v) > 1000 -> 100
         [] Abs(s.v) <= 1000 /\ Abs(s.v) = 10 * n /\ n \in RoundsDown -> n - 1
         [] OTHER -> n

\* A size_t assigned to an int.
ToInt(n) ==
  LET m == n % (2 * (INT_MAX + 1)) IN
  IF m <= INT_MAX THEN m ELSE m - 2 * (INT_MAX + 1)

\* A faulty variant: the step is rounded up.
StepOfRoundedUp(size, samplesPerSecond) ==
  LET quotient == IF samplesPerSecond > 0
                  THEN (size + samplesPerSecond - 1) \div samplesPerSecond ELSE 0
  IN  IF ToInt(quotient) < 1 THEN 1 ELSE ToInt(quotient)

\* samples.size() / samplesPerSecond, at least 1.  The division is unsigned:
\* a negative divisor becomes larger than any size.  With divisor 0 it is
\* undefined; where it does not trap its result is 0.
StepOf(size, samplesPerSecond) ==
  LET quotient == IF samplesPerSecond > 0 THEN size \div samplesPerSecond ELSE 0
  IN  IF ToInt(quotient) < 1 THEN 1 ELSE ToInt(quotient)

\* The samples the loop visits: 0, step, 2 * step, ...
Visited(samples, step) ==
  [i \in 1..((Len(samples) + step - 1) \div step) |-> samples[(i - 1) * step + 1]]

sampleToText(samples, samplesPerSecond, nanAs) ==
  LET kept == Visited(samples, StepOf(Len(samples), samplesPerSecond)) IN
  FlattenSeq([i \in 1..Len(kept) |-> <<Amp(Amplitude(kept[i], nanAs)), NL>>])

Numbers(text) == FlattenSeq([i \in 1..Len(text) |-> text[i].num])

\* A line counts if "A(" occurs in it; its first number is the amplitude.
\* The texts of the model have an int between the parentheses; of anything else
\* std::stoi would throw std::invalid_argument or std::out_of_range.
AddSample ==
  [acc \in Seq(AnySample) |-> [line \in Text |->
     IF Numbers(line) = <<>> THEN acc ELSE Append(acc, Sample(10 * Head(Numbers(line))))]]

textToAudio(text) == Fold(AddSample, <<>>, Lines(text))

-----------------------------------------------------------------------------
(***************************************************************************)
(* Video                                                                   *)
(***************************************************************************)

\* A faulty variant: frames are separated by one newline.
joinVideoTextTight(frames, audioText) ==
  Join(frames, <<NL>>) \o
  (IF audioText = <<>> THEN <<>> ELSE <<NL, Marker, NL>> \o audioText)

joinVideoText(frames, audioText) ==
  Join(frames, <<NL, NL>>) \o
  (IF audioText = <<>> THEN <<>> ELSE <<NL, Marker, NL>> \o audioText)

\* decryptVideo splits at the marker.  It skips 18 characters: the marker has
\* 17, so one token, the newline after it, goes too.
SplitAudio(text) ==
  LET at == SelectInSeq(text, LAMBDA c : c = Marker)
      skipped == 18 - Len(MarkerChars)
  IN  IF at = 0 THEN [video |-> text, audio |-> <<>>]
      ELSE [video |-> SubSeq(text, 1, at - 1),
            audio |-> SubSeq(text, at + 1 + skipped, Len(text))]

\* There are no 18 characters to skip, and substr() throws.
EndsAtMarker(text) ==
  text # <<>> /\ SelectInSeq(text, LAMBDA c : c = Marker) = Len(text)

NoFrame == [frames |-> <<>>, current |-> <<>>]
WithFrame(acc) ==
  IF acc.current = <<>> THEN acc.frames ELSE Append(acc.frames, acc.current)
AddToFrame ==
  [acc \in [frames : Seq(Text), current : Text] |-> [line \in Text |->
     IF line = <<>> THEN [frames |-> WithFrame(acc), current |-> <<>>]
     ELSE [frames |-> acc.frames,
           current |-> IF acc.current = <<>> THEN line ELSE acc.current \o <<NL>> \o line]]]

\* Empty lines separate frames; an empty frame does not count.
SplitFrames(text) == WithFrame(Fold(AddToFrame, NoFrame, Lines(text)))

\* width and height are those of the first frame, allPixels those of all.
VideoImage(frameTexts) ==
  LET images == [i \in 1..Len(frameTexts) |-> textToPixel(frameTexts[i])] IN
  IF images = <<>> THEN NoImage
  ELSE [images[1] EXCEPT !.pixels = FlattenSeq([i \in 1..Len(images) |-> images[i].pixels])]

-----------------------------------------------------------------------------
(***************************************************************************)
(* Text tools                                                              *)
(***************************************************************************)

AddFormatted(width) ==
  [acc \in [text : Text, count : Nat] |-> [c \in Token |->
     IF c = SP /\ acc.count + 1 >= width
     THEN [text |-> acc.text \o <<c, NL>>, count |-> 0]
     ELSE [text |-> Append(acc.text, c), count |-> IF c = SP THEN acc.count + 1 ELSE acc.count]]]

\* A newline is put in after every width-th space.
formatText(text, width) ==
  Fold(AddFormatted(width), [text |-> <<>>, count |-> 0], text).text

\* The lines that are not empty.
parseText(text) ==
  Fold([acc \in Seq(Text) |-> [line \in Text |->
          IF line = <<>> THEN acc ELSE Append(acc, line)]], <<>>, Lines(text))

\* A faulty variant: all spaces go.
removeExtraSpacesAll(text) == SelectSeq(text, LAMBDA c : c # SP)

\* Of a run of spaces the first stays.
removeExtraSpaces(text) ==
  Fold([acc \in Text |-> [c \in Token |->
          IF c = SP /\ acc # <<>> /\ Last(acc) = SP THEN acc ELSE Append(acc, c)]],
       <<>>, text)

\* From the first to the last token that is not white space.
trim(text) ==
  LET solid == {i \in DOMAIN text : text[i] \notin {SP, NL}} IN
  IF solid = {} THEN <<>> ELSE SubSeq(text, Min(solid), Max(solid))

=============================================================================
