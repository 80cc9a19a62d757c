--------------------------- MODULE MediaReaderProofs ---------------------------
(***************************************************************************)
(* Proofs about extractFrames, extractAudio and readAudio for every media  *)
(* file, frame rate, target rate and decoder delay.                        *)
(***************************************************************************)
EXTENDS MediaReader, SequenceTheorems, WellFoundedInduction, TLAPS

-----------------------------------------------------------------------------
(***************************************************************************)
(* The ladder: what is allocated at each place.                            *)
(***************************************************************************)
Loop == {"read", "send", "receive", "keep", "unref", "free"}
OverPacket == {"send", "receive", "keep", "unref"}

SwsHeld == IF reader = "extractFrames" THEN {"swsCtx"} ELSE {}

\* The objects held at place l, all of them and no other.
HeldAt(l) ==
  IF l = "avformat_open_input" THEN {}
  ELSE IF l \in {"avformat_find_stream_info", "find_stream", "avcodec_find_decoder",
                 "avcodec_alloc_context3"} THEN {"formatCtx"}
  ELSE IF l \in {"avcodec_parameters_to_context", "avcodec_open2", "sws_getContext"}
       THEN {"formatCtx", "codecCtx"}
  ELSE IF l = "alloc" THEN {"formatCtx", "codecCtx"} \cup SwsHeld
  ELSE {"formatCtx", "codecCtx"} \cup SwsHeld \cup Buffers \cup
         (IF l \in OverPacket THEN {"packetData"} ELSE {})

\* Every place of a call but "over".
Ladder == {"avformat_open_input", "avformat_find_stream_info", "find_stream",
           "avcodec_find_decoder", "avcodec_alloc_context3",
           "avcodec_parameters_to_context", "avcodec_open2", "sws_getContext", "alloc"}

LadderInv ==
  /\ reader \in Readers
  /\ pc \in Ladder \cup {"rgbBuffer"} \cup Loop \cup {"over"}
  /\ pc \in {"sws_getContext", "rgbBuffer"} => reader = "extractFrames"
  /\ pc # "over" => held = HeldAt(pc) /\ outcome = "running"
  /\ pc = "over" => outcome \in {"ok", "DhtError", "bad_alloc"}
  /\ pc = "over" /\ outcome # "bad_alloc" => held = {}
  /\ held \subseteq Objects

\* Each step acquires or frees exactly what the next place expects.
LEMMA LadderKept ==
  ASSUME LadderInv, [Next]_vars
  PROVE  LadderInv'
<1> USE DEF LadderInv, Ladder, Loop, OverPacket, SwsHeld, HeldAt, Objects, Buffers, Readers
<1>1. CASE UNCHANGED vars
  BY <1>1 DEF vars
<1>2. CASE Rung
  <2>1. ASSUME NEW r \in Ladder \ {"find_stream", "alloc"}, pc = r, Fall(r, "DhtError")
        PROVE  LadderInv'
    BY <2>1 DEF Fall, Freed, constants, parameters
  <2>2. ASSUME NEW r \in Ladder \ {"find_stream", "alloc"}, pc = r, Climb(r)
        PROVE  LadderInv'
    BY <2>2 DEF Climb, Acquired, NextRung, constants, parameters
  <2> QED
    BY <1>2, <2>1, <2>2 DEF Rung
<1>3. CASE FindStream
  BY <1>3 DEF FindStream, Fall, Climb, Freed, Acquired, NextRung, constants, parameters
<1>4. CASE AllocBuffers
  BY <1>4 DEF AllocBuffers, Freed, NextRung, constants, parameters
<1>5. CASE RgbBuffer
  BY <1>5 DEF RgbBuffer, BadAlloc, constants, parameters
<1>6. CASE ReadFrame
  BY <1>6 DEF ReadFrame, constants, parameters
<1>7. CASE SendPacket \/ ReceiveFrame \/ ReceiveStops
  BY <1>7 DEF SendPacket, ReceiveFrame, ReceiveStops, constants, parameters
<1>8. CASE KeepFrame
  BY <1>8 DEF KeepFrame, BadAlloc, constants, parameters
<1>9. CASE UnrefPacket
  BY <1>9 DEF UnrefPacket, constants, parameters
<1>10. CASE FreeAll
  BY <1>10 DEF FreeAll, constants, parameters
<1> QED
  BY <1>1, <1>2, <1>3, <1>4, <1>5, <1>6, <1>7, <1>8, <1>9, <1>10 DEF Next, Finished

\* Every place of every call holds exactly its own objects.
LEMMA LadderInvariant == Spec => []LadderInv
<1>1. Init => LadderInv
  BY DEF Init, LadderInv, Ladder, HeldAt, Objects
<1> QED
  BY <1>1, LadderKept, PTL DEF Spec

\* Whichever FFmpeg call fails, and wherever the loop stops, a call that returns
\* or throws DhtError leaves no FFmpeg object allocated, and no packet is read
\* over one that still has its data.
THEOREM NothingEverLeaks == Spec => []NothingLeaks
<1>1. LadderInv => NothingLeaks
  BY DEF LadderInv, NothingLeaks, PacketReleasedBeforeRead, HeldAt, SwsHeld, Buffers,
         OverPacket, Loop
<1> QED
  BY LadderInvariant, <1>1, PTL

-----------------------------------------------------------------------------
(***************************************************************************)
(* Thinning out: one frame of interval.                                    *)
(***************************************************************************)

\* What \div computes.
LEMMA Quotient ==
  ASSUME NEW n \in Nat, NEW k \in Nat \ {0}
  PROVE  n \div k \in Nat /\ (n \div k) * k <= n /\ n < (n \div k) * k + k
OBVIOUS

\* L is n / k, rounded up.
Rounded(n, k, L) == n <= L * k /\ L * k < n + k

\* Rounding up, in terms of \div.
LEMMA RoundedIsCeiling ==
  ASSUME NEW n \in Nat, NEW k \in Nat \ {0}, NEW L \in Nat, Rounded(n, k, L)
  PROVE  L = (n + k - 1) \div k
<1> DEFINE q == (n + k - 1) \div k
<1>1. q \in Int /\ q * k <= n + k - 1 /\ n + k - 1 < q * k + k
  OBVIOUS
<1> HIDE DEF q
<1>2. L * k < (q + 1) * k /\ q * k < (L + 1) * k
  BY <1>1 DEF Rounded
<1>3. ~(L >= q + 1)
  <2>1. SUFFICES ASSUME L >= q + 1 PROVE FALSE
    OBVIOUS
  <2>2. (L - (q + 1)) * k >= 0
    BY <1>1, <2>1
  <2> QED
    BY <1>1, <1>2, <2>2
<1>4. ~(q >= L + 1)
  <2>1. SUFFICES ASSUME q >= L + 1 PROVE FALSE
    OBVIOUS
  <2>2. (q - (L + 1)) * k >= 0
    BY <1>1, <2>1
  <2> QED
    BY <1>1, <1>2, <2>2
<1> QED
  BY <1>1, <1>3, <1>4 DEF q

\* The frame with number n is kept exactly when all kept frames stand for the
\* n before it.
LEMMA RoundedStep ==
  ASSUME NEW n \in Nat, NEW k \in Nat \ {0}, NEW L \in Nat, Rounded(n, k, L)
  PROVE  /\ n % k = 0 => n = L * k /\ Rounded(n + 1, k, L + 1)
         /\ n % k # 0 => Rounded(n + 1, k, L)
<1> DEFINE q == n \div k
           m == n % k
<1>1. q \in Nat /\ m \in 0..(k - 1) /\ n = k * q + m
  OBVIOUS
<1> HIDE DEF q, m
<1>2. n <= L * k /\ L * k < n + k /\ L * k \in Nat
  BY DEF Rounded
<1>3. CASE m = 0
  <2>1. n = L * k
    <3>1. (L - q) * k >= 0 /\ (L - q) * k < k
      BY <1>1, <1>2, <1>3
    <3>2. L - q >= 0
      <4>1. SUFFICES ASSUME L - q <= -1 PROVE FALSE
        BY <1>1
      <4>2. (-1 - (L - q)) * k >= 0
        BY <1>1, <4>1
      <4> QED
        BY <1>1, <3>1, <4>2
    <3>3. L - q < 1
      <4>1. SUFFICES ASSUME L - q >= 1 PROVE FALSE
        BY <1>1
      <4>2. (L - q - 1) * k >= 0
        BY <1>1, <4>1
      <4> QED
        BY <1>1, <3>1, <4>2
    <3>4. L = q
      BY <1>1, <3>2, <3>3
    <3> QED
      BY <1>1, <1>3, <3>4
  <2>2. (L + 1) * k = L * k + k
    OBVIOUS
  <2> QED
    BY <1>3, <2>1, <2>2 DEF Rounded, m
<1>4. CASE m # 0
  <2>1. n # L * k
    <3>1. SUFFICES ASSUME n = L * k PROVE FALSE
      OBVIOUS
    <3>2. m = (L - q) * k
      BY <1>1, <3>1
    <3>3. L - q >= 1
      <4>1. SUFFICES ASSUME L - q <= 0 PROVE FALSE
        BY <1>1
      <4>2. (0 - (L - q)) * k >= 0
        BY <1>1, <4>1
      <4> QED
        BY <1>1, <1>4, <3>2, <4>2
    <3>4. (L - q - 1) * k >= 0
      BY <1>1, <3>3
    <3> QED
      BY <1>1, <3>2, <3>4
  <2> QED
    BY <1>2, <1>4, <2>1 DEF Rounded, m
<1> QED
  BY <1>3, <1>4

\* Every place that is kept stands before the n-th frame.
LEMMA KeptPlace ==
  ASSUME NEW n \in Nat, NEW k \in Nat \ {0}, NEW L \in Nat, Rounded(n, k, L), NEW i \in 1..L
  PROVE  (i - 1) * k + 1 \in 1..n
<1>1. (i - 1) * k >= 0 /\ (L - i) * k >= 0
  OBVIOUS
<1>2. (i - 1) * k + (L - i) * k + k = L * k
  OBVIOUS
<1>3. (i - 1) * k \in Int /\ (L - i) * k \in Int /\ L * k \in Int
  OBVIOUS
<1>4. L * k < n + k
  BY DEF Rounded
<1> QED
  BY <1>1, <1>2, <1>3, <1>4

\* What the interval, and the frames that are kept, have to do with the rates.
LEMMA RateReached ==
  ASSUME NEW num \in Nat, NEW asked \in Nat \ {0}, NEW n \in Nat, NEW k \in Nat \ {0},
         NEW L \in Nat, Rounded(n, k, L),
         n = 0 \/ k = IF num < asked THEN 1 ELSE num \div asked
  PROVE  /\ L * num >= n * (IF asked < num THEN asked ELSE num)
         /\ (L - 1) * num <= 2 * n * asked
<1>1. n <= L * k /\ L * k < n + k
  BY DEF Rounded
<1>2. CASE n = 0
  <2>1. L = 0
    <3>1. SUFFICES ASSUME L >= 1 PROVE FALSE
      OBVIOUS
    <3>2. (L - 1) * k >= 0
      BY <3>1
    <3> QED
      BY <1>1, <1>2, <3>2
  <2> QED
    BY <1>2, <2>1
<1>3. CASE n # 0 /\ num < asked
  <2>1. k = 1 /\ L = n
    BY <1>1, <1>3
  <2>2. n * (asked - num) >= 0 /\ n * asked >= 0
    BY <1>3
  <2> QED
    BY <1>3, <2>1, <2>2
<1>4. CASE n # 0 /\ ~(num < asked)
  <2>1. k = num \div asked
    BY <1>4
  <2>2. k * asked <= num /\ num < k * asked + asked
    BY <2>1
  <2>3. L >= 1
    BY <1>1, <1>4
  <2>4. L * num >= n * asked
    <3>1. L * (num - k * asked) >= 0 /\ (L * k - n) * asked >= 0
      BY <1>1, <2>2
    <3> QED
      BY <3>1
  <2>5. (L - 1) * num <= 2 * n * asked
    <3>1. num <= 2 * (k * asked)
      <4>1. asked <= k * asked
        <5>1. (k - 1) * asked >= 0
          OBVIOUS
        <5> QED
          BY <5>1
      <4> QED
        BY <2>2, <4>1
    <3>2. (L - 1) * (2 * (k * asked) - num) >= 0
      BY <2>3, <3>1
    <3>3. (L - 1) * k <= n
      BY <1>1
    <3>4. (n - (L - 1) * k) * asked >= 0
      BY <3>3
    <3> QED
      BY <3>2, <3>4
  <2>6. asked < num \/ asked = num
    BY <1>4
  <2> QED
    BY <2>4, <2>5, <2>6
<1> QED
  BY <1>2, <1>3, <1>4

-----------------------------------------------------------------------------
Early == Ladder \cup {"rgbBuffer"}

\* The values have their types, and the loop its indices.
Typed ==
  /\ file \in Files /\ rate \in Rates /\ targetFps \in Targets
  /\ interval \in 1..INT_MAX
  /\ next \in 0..Len(file.packets)
  /\ queue \in Seq(Frame) /\ received \in Seq(Frame) /\ frames \in Seq(Frame)
  /\ frame \in Seq(Frame) /\ frameCount \in Nat /\ damaged \in BOOLEAN
  /\ pc = "send" => next \in 1..Len(file.packets)
  /\ pc = "keep" => received # <<>> /\ frame = <<received[Len(received)]>>

\* Nothing is decoded before the loop, and in the loop the interval is the one
\* the rates ask for.
IntervalSet ==
  /\ pc \in Early => interval = 1 /\ received = <<>> /\ frames = <<>> /\ frameCount = 0
  /\ reader = "extractFrames" /\ (pc \in Loop \/ received # <<>>) => interval \in FrameInterval

\* The frames kept so far are one of interval of those seen.
Thinned ==
  outcome # "bad_alloc" =>
    /\ frameCount = seen
    /\ Rounded(seen, interval, Len(frames))
    /\ \A i \in 1..Len(frames) : frames[i] = received[(i - 1) * interval + 1]

\* FrameInterval is a positive int, or two of them.
LEMMA FrameIntervalIsInt ==
  ASSUME rate \in Rates, targetFps \in Targets, NEW k \in FrameInterval
  PROVE  k \in 1..INT_MAX
<1> DEFINE d == rate.den * targetFps
<1>1. rate.num \in 0..INT_MAX /\ rate.den \in 0..INT_MAX /\ targetFps \in Int /\ INT_MAX \in Nat \ {0}
  BY RatesAssumption
<1>2. d \in Int
  BY <1>1
<1> HIDE DEF d
<1>3. CASE d <= 0 \/ rate.num < d
  BY <1>1, <1>2, <1>3 DEF FrameInterval, d
<1>4. CASE d > 0 /\ ~(rate.num < d)
  <2> DEFINE q == rate.num \div d
  <2>1. q \in Int /\ q * d <= rate.num /\ rate.num < q * d + d
    <3>1. rate.num \in Nat /\ d \in Nat \ {0}
      BY <1>1, <1>2, <1>4
    <3>2. rate.num \div d \in Nat /\ (rate.num \div d) * d <= rate.num
          /\ rate.num < (rate.num \div d) * d + d
      BY <3>1, Quotient, Zenon
    <3> QED
      BY <3>2
  <2>2. k = q
    BY <1>2, <1>4 DEF FrameInterval, d
  <2> HIDE DEF q
  <2>3. q >= 1
    <3>1. SUFFICES ASSUME q <= 0 PROVE FALSE
      BY <2>1
    <3>2. (0 - q) * d >= 0
      BY <1>2, <1>4, <2>1, <3>1
    <3> QED
      BY <1>1, <1>2, <1>4, <2>1, <3>2
  <2>4. q <= rate.num
    <3>1. q * (d - 1) >= 0
      BY <1>2, <1>4, <2>1, <2>3
    <3> QED
      BY <1>1, <1>2, <2>1, <3>1
  <2> QED
    BY <1>1, <2>1, <2>2, <2>3, <2>4
<1> QED
  BY <1>2, <1>3, <1>4

\* Every step keeps the types.
LEMMA TypedKept ==
  ASSUME LadderInv, Typed, [Next]_vars
  PROVE  Typed'
<1> USE DEF Typed, constants, parameters, loopVars
<1>1. CASE UNCHANGED vars
  BY <1>1 DEF vars
<1>2. ASSUME UNCHANGED constants, UNCHANGED loopVars, pc' \notin {"send", "keep"}
      PROVE  Typed'
  BY <1>2
<1>3. CASE Rung
  <2>1. pc' \notin {"send", "keep"}
    BY <1>3 DEF Rung, Climb, Fall, NextRung
  <2> QED
    BY <1>2, <1>3, <2>1 DEF Rung, Climb, Fall
<1>4. CASE FindStream
  <2>1. pc' \notin {"send", "keep"}
    BY <1>4 DEF FindStream, Climb, Fall, NextRung
  <2> QED
    BY <1>2, <1>4, <2>1 DEF FindStream, Climb, Fall
<1>5. CASE AllocBuffers
  <2>1. pc' \notin {"send", "keep"}
    BY <1>5 DEF AllocBuffers, NextRung
  <2> QED
    BY <1>2, <1>5, <2>1 DEF AllocBuffers
<1>6. CASE RgbBuffer
  BY <1>6, FrameIntervalIsInt DEF RgbBuffer, BadAlloc
<1>7. CASE ReadFrame
  <2>1. Len(file.packets) \in Nat
    BY FilesAssumption, LenProperties
  <2>2. damaged' \in BOOLEAN
    BY <1>7, Zenon DEF ReadFrame
  <2>3. next' \in 0..Len(file.packets) /\ (pc' = "send" => next' \in 1..Len(file.packets))
    BY <1>7, <2>1 DEF ReadFrame
  <2>4. pc' # "keep" /\ UNCHANGED <<constants, queue, frame, frameCount, frames, received>>
    BY <1>7 DEF ReadFrame
  <2> QED
    BY <2>2, <2>3, <2>4
<1>8. CASE SendPacket
  <2>1. file.packets[next].frames \in Seq(Frame)
    <3>1. file.packets \in Seq(Packet)
      BY FilesAssumption
    <3>2. file.packets[next] \in Packet
      BY <1>8, <3>1, ElementOfSeq DEF SendPacket
    <3> QED
      BY <3>2 DEF Packet
  <2>2. queue \o file.packets[next].frames \in Seq(Frame)
    BY <2>1, ConcatProperties
  <2> QED
    BY <1>8, <2>2 DEF SendPacket
<1>9. CASE ReceiveFrame
  <2>1. queue # <<>> /\ Head(queue) \in Frame /\ Tail(queue) \in Seq(Frame)
    <3>1. queue # <<>>
      BY <1>9, DelayAssumption, EmptySeq, LenProperties DEF ReceiveFrame
    <3> QED
      BY <3>1, HeadTailProperties
  <2>2. /\ Append(received, Head(queue)) \in Seq(Frame)
        /\ Len(Append(received, Head(queue))) = Len(received) + 1
        /\ Append(received, Head(queue))[Len(received) + 1] = Head(queue)
    BY <2>1, AppendProperties
  <2>3. received' # <<>> /\ frame' = <<received'[Len(received')]>>
    <3>1. Len(received') = Len(received) + 1 /\ Len(received) \in Nat
      BY <1>9, <2>2, LenProperties DEF ReceiveFrame
    <3>2. received'[Len(received) + 1] = Head(queue) /\ frame' = <<Head(queue)>>
      BY <1>9, <2>2 DEF ReceiveFrame
    <3> QED
      BY <3>1, <3>2, EmptySeq
  <2> QED
    BY <1>9, <2>1, <2>2, <2>3 DEF ReceiveFrame
<1>10. CASE ReceiveStops
  <2>1. Len(queue) > Delay => Tail(queue) \in Seq(Frame)
    <3>1. Len(queue) > Delay => queue # <<>>
      BY DelayAssumption, EmptySeq, LenProperties
    <3> QED
      BY <3>1, HeadTailProperties
  <2> QED
    BY <1>10, <2>1 DEF ReceiveStops
<1>11. CASE KeepFrame
  <2>1. frames \o frame \in Seq(Frame)
    BY ConcatProperties
  <2>2. CASE BadAlloc
    BY <2>2 DEF BadAlloc
  <2>3. CASE ~BadAlloc
    <3>1. /\ frames' \in {frames, frames \o frame} /\ frameCount' = frameCount + 1
          /\ pc' = "receive"
          /\ UNCHANGED <<constants, next, queue, frame, received, damaged>>
      BY <1>11, <2>3 DEF KeepFrame
    <3>2. frames' \in Seq(Frame)
      BY <2>1, <3>1, Zenon
    <3>3. frameCount' \in Nat
      BY <3>1
    <3> QED
      BY <3>1, <3>2, <3>3
  <2> QED
    BY <2>2, <2>3
<1>12. CASE UnrefPacket \/ FreeAll
  BY <1>12 DEF UnrefPacket, FreeAll
<1> QED
  BY <1>1, <1>3, <1>4, <1>5, <1>6, <1>7, <1>8, <1>9, <1>10, <1>11, <1>12 DEF Next, Finished

\* Every step keeps the interval that the rates ask for.
LEMMA IntervalKept ==
  ASSUME LadderInv, Typed, IntervalSet, [Next]_vars
  PROVE  IntervalSet'
<1> USE DEF IntervalSet, constants, parameters, loopVars, Early, Ladder, Loop
<1>1. CASE UNCHANGED vars
  BY <1>1 DEF vars, FrameInterval
<1>2. UNCHANGED parameters => FrameInterval' = FrameInterval
  BY DEF FrameInterval
<1>3. CASE Rung
  BY <1>2, <1>3 DEF Rung, Climb, Fall, NextRung, LadderInv
<1>4. CASE FindStream
  BY <1>2, <1>4 DEF FindStream, Climb, Fall, NextRung
<1>5. CASE AllocBuffers
  BY <1>2, <1>5 DEF AllocBuffers, NextRung
<1>6. CASE RgbBuffer
  BY <1>2, <1>6 DEF RgbBuffer, BadAlloc
<1>7. CASE ReadFrame \/ SendPacket \/ ReceiveFrame \/ ReceiveStops
  BY <1>2, <1>7 DEF ReadFrame, SendPacket, ReceiveFrame, ReceiveStops
<1>8. CASE KeepFrame \/ UnrefPacket \/ FreeAll
  BY <1>2, <1>8 DEF KeepFrame, BadAlloc, UnrefPacket, FreeAll
<1> QED
  BY <1>1, <1>3, <1>4, <1>5, <1>6, <1>7, <1>8 DEF Next, Finished

\* A step that changes neither the frames nor their counts keeps the thinning.
LEMMA SameThinning ==
  ASSUME LadderInv, Thinned, UNCHANGED <<interval, received, frames, frameCount>>,
         pc # "keep", pc' # "keep", outcome = "running"
  PROVE  Thinned'
BY DEF Thinned, seen, LadderInv, Ladder, Loop

\* Every step keeps one of interval frames.
LEMMA ThinnedKept ==
  ASSUME LadderInv, Typed, IntervalSet, Thinned, [Next]_vars
  PROVE  Thinned'
<1> USE DEF constants, parameters, loopVars
<1>0. outcome = "running" \/ pc = "over"
  BY DEF LadderInv
<1>1. CASE UNCHANGED vars
  BY <1>1 DEF vars, Thinned, seen
<1>2. CASE Rung
  <2>1. pc # "keep" /\ pc' # "keep" /\ pc # "over"
    BY <1>2 DEF Rung, Climb, Fall, NextRung
  <2> QED
    BY <1>0, <1>2, <2>1, SameThinning DEF Rung, Climb, Fall
<1>3. CASE FindStream
  <2>1. pc # "keep" /\ pc' # "keep" /\ pc # "over"
    BY <1>3 DEF FindStream, Climb, Fall, NextRung
  <2> QED
    BY <1>0, <1>3, <2>1, SameThinning DEF FindStream, Climb, Fall
<1>4. CASE AllocBuffers
  <2>1. pc # "keep" /\ pc' # "keep" /\ pc # "over"
    BY <1>4 DEF AllocBuffers, NextRung
  <2> QED
    BY <1>0, <1>4, <2>1, SameThinning DEF AllocBuffers
<1>5. CASE RgbBuffer
  <2>1. CASE BadAlloc
    BY <2>1 DEF BadAlloc, Thinned
  <2>2. CASE ~BadAlloc
    <3>1. /\ received' = <<>> /\ frames' = <<>> /\ frameCount' = 0 /\ pc' = "read"
          /\ interval' \in FrameInterval
      BY <1>5, <2>2 DEF RgbBuffer, IntervalSet, Early
    <3>2. interval' \in Nat \ {0}
      BY <3>1, FrameIntervalIsInt, RatesAssumption DEF Typed
    <3>3. Len(received') = 0 /\ Len(frames') = 0
      BY <3>1
    <3>4. seen' = 0
      BY <3>1, <3>3 DEF seen
    <3>5. Rounded(0, interval', 0)
      <4>1. \A j \in Nat \ {0} : Rounded(0, j, 0)
        BY DEF Rounded
      <4> QED
        BY <3>2, <4>1
    <3> QED
      BY <3>1, <3>3, <3>4, <3>5 DEF Thinned
  <2> QED
    BY <2>1, <2>2
<1>6. CASE ReadFrame \/ SendPacket \/ ReceiveStops \/ UnrefPacket \/ FreeAll
  <2>1. pc # "keep" /\ pc' # "keep" /\ pc # "over" /\ UNCHANGED <<interval, received, frames, frameCount>>
    BY <1>6 DEF ReadFrame, SendPacket, ReceiveStops, UnrefPacket, FreeAll
  <2> QED
    BY <1>0, <2>1, SameThinning
<1>7. CASE ReceiveFrame
  <2>1. /\ pc = "receive" /\ pc' = "keep" /\ received' = Append(received, Head(queue))
        /\ UNCHANGED <<interval, frames, frameCount, outcome>>
    BY <1>7 DEF ReceiveFrame
  <2>2. Head(queue) \in Frame
    <3>1. queue # <<>>
      BY <1>7, DelayAssumption, EmptySeq, LenProperties DEF ReceiveFrame, Typed
    <3> QED
      BY <3>1, HeadTailProperties DEF Typed
  <2>3. /\ Len(received) \in Nat /\ Len(received') = Len(received) + 1
        /\ \A i \in 1..Len(received) : received'[i] = received[i]
    BY <2>1, <2>2, AppendProperties, LenProperties DEF Typed
  <2>4. seen' = seen /\ seen = Len(received)
    BY <2>1, <2>3 DEF seen
  <2>5. SUFFICES ASSUME outcome # "bad_alloc" PROVE Thinned'
    BY <2>1 DEF Thinned
  <2>6. ASSUME NEW i \in 1..Len(frames)
        PROVE  frames[i] = received'[(i - 1) * interval + 1]
    <3>1. /\ Rounded(seen, interval, Len(frames)) /\ Len(frames) \in Nat
          /\ interval \in Nat \ {0} /\ seen \in Nat
      BY <2>3, <2>4, <2>5, LenProperties DEF Thinned, Typed
    <3>2. (i - 1) * interval + 1 \in 1..Len(received)
      BY <2>4, <3>1, KeptPlace
    <3> QED
      BY <2>3, <2>5, <3>2 DEF Thinned
  <2> QED
    BY <2>1, <2>4, <2>5, <2>6 DEF Thinned
<1>8. CASE KeepFrame
  <2>1. CASE BadAlloc
    BY <2>1 DEF BadAlloc, Thinned
  <2>2. CASE ~BadAlloc
    <3> DEFINE n == Len(received) - 1
               k == interval
               L == Len(frames)
    <3>1. /\ pc = "keep" /\ pc' = "receive"
          /\ frames' = IF frameCount % interval = 0 THEN frames \o frame ELSE frames
          /\ frameCount' = frameCount + 1
          /\ UNCHANGED <<interval, received>>
      BY <1>8, <2>2 DEF KeepFrame
    <3>2. /\ received # <<>> /\ frame = <<received[Len(received)]>>
          /\ received \in Seq(Frame) /\ frames \in Seq(Frame) /\ frame \in Seq(Frame)
      BY <3>1 DEF Typed
    <3>3. n \in Nat /\ k \in Nat \ {0} /\ L \in Nat /\ Len(received) = n + 1
      BY <3>2, EmptySeq, LenProperties, RatesAssumption DEF Typed
    <3>4. seen = n /\ seen' = n + 1
      BY <3>1, <3>3 DEF seen
    <3>5. /\ frameCount = n /\ Rounded(n, k, L)
          /\ \A i \in 1..L : frames[i] = received[(i - 1) * k + 1]
      BY <1>0, <3>1, <3>4 DEF Thinned
    <3> HIDE DEF n
    <3>6. CASE n % k = 0
      <4>1. n = L * k /\ Rounded(n + 1, k, L + 1)
        BY <3>3, <3>5, <3>6, RoundedStep
      <4>2. frames' = frames \o frame /\ Len(frame) = 1 /\ frame[1] = received[n + 1]
        BY <3>1, <3>2, <3>3, <3>5, <3>6
      <4>3. /\ Len(frames') = L + 1
            /\ \A i \in 1..(L + 1) : frames'[i] = IF i <= L THEN frames[i] ELSE frame[i - L]
        BY <3>2, <4>2, ConcatProperties
      <4>4. ASSUME NEW i \in 1..(L + 1) PROVE frames'[i] = received[(i - 1) * k + 1]
        <5>1. CASE i <= L
          <6>1. i \in 1..L
            BY <3>3, <5>1
          <6> QED
            BY <3>5, <4>3, <5>1, <6>1
        <5>2. CASE ~(i <= L)
          <6>1. i = L + 1 /\ i - L = 1
            BY <3>3, <5>2
          <6>2. (i - 1) * k + 1 = n + 1
            BY <3>3, <4>1, <6>1
          <6> QED
            BY <4>2, <4>3, <5>2, <6>1, <6>2
        <5> QED
          BY <5>1, <5>2
      <4> QED
        BY <3>1, <3>4, <3>5, <4>1, <4>3, <4>4 DEF Thinned
    <3>7. CASE n % k # 0
      <4>1. Rounded(n + 1, k, L)
        BY <3>3, <3>5, <3>7, RoundedStep
      <4>2. frames' = frames
        BY <3>1, <3>5, <3>7
      <4> QED
        BY <3>1, <3>4, <3>5, <4>1, <4>2 DEF Thinned
    <3> QED
      BY <3>6, <3>7
  <2> QED
    BY <2>1, <2>2
<1> QED
  BY <1>1, <1>2, <1>3, <1>4, <1>5, <1>6, <1>7, <1>8 DEF Next, Finished

\* The ladder, the types, the interval and the thinning hold in every state.
LEMMA ReaderInvariant == Spec => [](LadderInv /\ Typed /\ IntervalSet /\ Thinned)
<1>1. ASSUME Init PROVE LadderInv /\ Typed /\ IntervalSet /\ Thinned
  <2>1. LadderInv
    BY <1>1 DEF Init, LadderInv, Ladder, HeldAt, Objects
  <2>2. Typed
    <3>1. Len(file.packets) \in Nat
      BY <1>1, FilesAssumption, LenProperties DEF Init
    <3>2. damaged \in BOOLEAN
      BY <1>1, Zenon DEF Init
    <3>3. interval \in 1..INT_MAX /\ next \in 0..Len(file.packets) /\ frameCount \in Nat
      BY <1>1, <3>1, RatesAssumption DEF Init
    <3>4. <<>> \in Seq(Frame)
      OBVIOUS
    <3> QED
      BY <1>1, <3>2, <3>3, <3>4 DEF Init, Typed
  <2>3. IntervalSet
    BY <1>1 DEF Init, IntervalSet, Loop
  <2>4. Thinned
    BY <1>1 DEF Init, Thinned, seen, Rounded
  <2> QED
    BY <2>1, <2>2, <2>3, <2>4
<1> QED
  BY <1>1, LadderKept, TypedKept, IntervalKept, ThinnedKept, PTL DEF Spec

\* The three readers keep their variables within their types: no packet is
\* read behind the end of the file, and interval stays a positive int for
\* every rate and target, though the code divides by the target.
THEOREM TypeCorrect == Spec => []TypeOK
<1>1. LadderInv /\ Typed => TypeOK
  BY DEF LadderInv, Typed, TypeOK, Ladder, Loop
<1> QED
  BY ReaderInvariant, <1>1, PTL

\* The result of extractFrames is every interval-th of the frames the decoder
\* delivered, counted across packets and over packets the decoder refused; the
\* audio readers keep all of them.
THEOREM EveryNthFrameIsKept == Spec => []EveryNthFrameKept
<1>1. ASSUME LadderInv, Typed, Thinned PROVE EveryNthFrameKept
  <2>1. SUFFICES ASSUME outcome # "bad_alloc"
                 PROVE  /\ Len(frames) = (seen + interval - 1) \div interval
                        /\ \A i \in DOMAIN frames : frames[i] = received[(i - 1) * interval + 1]
    BY DEF EveryNthFrameKept
  <2>2. /\ Rounded(seen, interval, Len(frames)) /\ Len(frames) \in Nat
        /\ interval \in Nat \ {0} /\ DOMAIN frames = 1..Len(frames)
    BY <1>1, <2>1, LenProperties, RatesAssumption DEF Thinned, Typed
  <2>3. seen \in Nat
    BY <1>1, <2>1 DEF Thinned, Typed
  <2> QED
    BY <1>1, <2>1, <2>2, <2>3, RoundedIsCeiling DEF Thinned
<1> QED
  BY ReaderInvariant, <1>1, PTL

\* For every frame rate and target rate extractFrames keeps at least the frames
\* asked for, or all there are, and at most twice as many; a target of 0 or an
\* unknown rate keeps all of them or one of INT_MAX.
THEOREM TargetRateIsReached == Spec => []TargetRateReached
<1>1. ASSUME LadderInv, Typed, IntervalSet, Thinned PROVE TargetRateReached
  <2> DEFINE asked == rate.den * targetFps
  <2>1. SUFFICES ASSUME reader = "extractFrames", outcome # "bad_alloc"
        PROVE  /\ asked > 0 =>
                    /\ Len(frames) * rate.num >=
                         seen * (IF asked < rate.num THEN asked ELSE rate.num)
                    /\ (Len(frames) - 1) * rate.num <= 2 * seen * asked
               /\ asked = 0 => Len(frames) \in {seen, (seen + INT_MAX - 1) \div INT_MAX}
    BY DEF TargetRateReached
  <2>2. /\ Rounded(seen, interval, Len(frames)) /\ Len(frames) \in Nat /\ seen \in Nat
        /\ interval \in Nat \ {0} /\ Len(received) \in Nat
        /\ rate.num \in Nat /\ rate.den \in Nat /\ targetFps \in Int /\ INT_MAX \in Nat \ {0}
    BY <1>1, <2>1, LenProperties, RatesAssumption DEF Thinned, Typed
  <2>3. asked \in Int
    BY <2>2
  <2>4. seen = 0 \/ interval \in FrameInterval
    <3>1. seen # 0 => received # <<>>
      BY <1>1, <2>2, EmptySeq DEF seen, Typed
    <3> QED
      BY <1>1, <2>1, <3>1 DEF IntervalSet
  <2> HIDE DEF asked
  <2>5. CASE asked > 0
    <3>1. asked \in Nat \ {0}
      BY <2>3, <2>5
    <3>2. seen = 0 \/ interval = IF rate.num < asked THEN 1 ELSE rate.num \div asked
      BY <2>3, <2>4, <2>5 DEF FrameInterval, asked
    <3>3. /\ Len(frames) * rate.num >= seen * (IF asked < rate.num THEN asked ELSE rate.num)
          /\ (Len(frames) - 1) * rate.num <= 2 * seen * asked
      BY <2>2, <3>1, <3>2, RateReached
    <3> QED
      BY <2>5, <3>3
  <2>6. CASE asked = 0
    <3>1. seen = 0 \/ interval \in {1, INT_MAX}
      BY <2>4, <2>6 DEF FrameInterval, asked
    <3>2. Len(frames) = (seen + interval - 1) \div interval
      BY <2>2, RoundedIsCeiling
    <3>3. seen = 0 => Len(frames) = 0
      <4>1. SUFFICES ASSUME seen = 0, Len(frames) >= 1 PROVE FALSE
        BY <2>2
      <4>2. (Len(frames) - 1) * interval >= 0
        BY <2>2, <4>1
      <4> QED
        BY <2>2, <4>1, <4>2 DEF Rounded
    <3>4. interval = 1 => Len(frames) = seen
      BY <2>2 DEF Rounded
    <3> QED
      BY <2>6, <3>1, <3>2, <3>3, <3>4
  <2> QED
    BY <2>5, <2>6
<1> QED
  BY ReaderInvariant, <1>1, PTL

-----------------------------------------------------------------------------
(***************************************************************************)
(* Nothing is lost but the tail.  FramesOf is a recursive function: that   *)
(* there is one follows from the least-number principle, stated for a set. *)
(***************************************************************************)

\* The least-number principle.
LEMMA LeastElement ==
  ASSUME NEW T \in SUBSET Nat, T # {}
  PROVE  \E m \in T : \A k \in T : ~(k < m)
<1> DEFINE R == OpToRel(<, Nat)
<1>1. IsWellFoundedOn(R, Nat)
  BY NatLessThanWellFounded
<1>2. \E m \in T : \A k \in T : ~(<<k, m>> \in R)
  <2> HIDE DEF R
  <2> QED
    BY <1>1, WFMin, Zenon
<1>3. \A k \in Nat, m \in Nat : k < m => <<k, m>> \in R
  BY DEF OpToRel
<1> QED
  BY <1>2, <1>3

\* The frames of stream w in packet n.
Part(packets, w, n) == IF packets[n].stream = w THEN packets[n].frames ELSE <<>>

\* f is upTo of FramesOf, for k packets.
Gathers(f, packets, w, k) ==
  f = [n \in 0..k |-> IF n = 0 THEN <<>> ELSE f[n - 1] \o Part(packets, w, n)]

UpTo(packets, w) == CHOOSE f : Gathers(f, packets, w, Len(packets))

\* There are such functions for all numbers of packets.
LEMMA GatheringExists ==
  ASSUME NEW packets, NEW w, NEW N \in Nat
  PROVE  \E f : Gathers(f, packets, w, N)
<1> DEFINE T == {k \in Nat : ~\E f : Gathers(f, packets, w, k)}
<1> SUFFICES ASSUME T # {} PROVE FALSE
  BY Zenon
<1>1. PICK m \in T : \A k \in T : ~(k < m)
  BY LeastElement
<1>2. CASE m = 0
  <2> DEFINE f == [n \in 0..0 |-> <<>>]
  <2>1. \A n \in 0..0 : n = 0
    OBVIOUS
  <2>2. Gathers(f, packets, w, 0)
    BY <2>1 DEF Gathers
  <2> QED
    BY <1>2, <2>2, Zenon
<1>3. CASE m # 0
  <2>1. m - 1 \in Nat /\ m - 1 < m /\ m \in Nat
    BY <1>3
  <2>2. PICK f : Gathers(f, packets, w, m - 1)
    BY <1>1, <2>1, Zenon
  <2> DEFINE g == [n \in 0..m |-> IF n = m THEN f[m - 1] \o Part(packets, w, m) ELSE f[n]]
  <2>3. ASSUME NEW n \in 0..m
        PROVE  g[n] = IF n = 0 THEN <<>> ELSE g[n - 1] \o Part(packets, w, n)
    <3>1. CASE n = m
      <4>1. m - 1 \in 0..m /\ m - 1 # m
        BY <2>1
      <4> QED
        BY <1>3, <3>1, <4>1, Zenon
    <3>2. CASE n # m
      <4>1. n \in 0..(m - 1)
        BY <2>1, <3>2
      <4>2. f[n] = IF n = 0 THEN <<>> ELSE f[n - 1] \o Part(packets, w, n)
        BY <2>2, <4>1, Zenon DEF Gathers
      <4>3. n # 0 => n - 1 \in 0..m /\ n - 1 # m
        BY <2>1, <4>1
      <4> QED
        BY <3>2, <4>2, <4>3, Zenon
    <3> QED
      BY <3>1, <3>2
  <2>4. Gathers(g, packets, w, m)
    <3>1. g = [n \in 0..m |-> g[n]]
      OBVIOUS
    <3> HIDE DEF g
    <3> QED
      BY <2>3, <3>1, Zenon DEF Gathers
  <2> QED
    BY <2>1, <2>4, Zenon
<1> QED
  BY <1>2, <1>3

\* What the recursive function gathers, one packet after another.
LEMMA Gathered ==
  ASSUME NEW packets, NEW w, Len(packets) \in Nat
  PROVE  /\ UpTo(packets, w)[0] = <<>>
         /\ \A n \in 1..Len(packets) :
              UpTo(packets, w)[n] = UpTo(packets, w)[n - 1] \o Part(packets, w, n)
<1> DEFINE f == UpTo(packets, w)
<1>1. Gathers(f, packets, w, Len(packets))
  BY GatheringExists, Zenon DEF UpTo
<1> HIDE DEF f
<1>2. \A n \in 0..Len(packets) : f[n] = IF n = 0 THEN <<>> ELSE f[n - 1] \o Part(packets, w, n)
  BY <1>1, Zenon DEF Gathers
<1>3. 0 \in 0..Len(packets) /\ \A n \in 1..Len(packets) : n \in 0..Len(packets) /\ n # 0
  OBVIOUS
<1> QED
  BY <1>2, <1>3, Zenon DEF f

\* The frames of all packets are those gathered up to the last one.
LEMMA FramesOfIsUpTo ==
  ASSUME NEW packets
  PROVE  FramesOf(packets) = UpTo(packets, Wanted)[Len(packets)]
BY Zenon DEF FramesOf, UpTo, Gathers, Part


Returned == pc = "over" /\ outcome = "ok"

\* The decoder delivered or still holds all frames of the packets sent to it.
TailInv ==
  ~damaged /\ Wanted \in file.streams =>
    LET sofar == UpTo(file.packets, Wanted) IN
    /\ pc \in Early => next = 0 /\ received = <<>> /\ queue = <<>>
    /\ pc \in Loop \ {"send"} \/ Returned => received \o queue = sofar[next]
    /\ pc = "send" => /\ received \o queue = sofar[next - 1]
                      /\ file.packets[next].stream = Wanted
    /\ pc \in {"read", "send", "unref", "free"} \/ Returned => Len(queue) <= Delay
    /\ pc = "free" \/ Returned => next = Len(file.packets)

\* A step that leaves the loop's variables alone.
LEMMA SameTail ==
  ASSUME TailInv, UNCHANGED <<reader, file, loopVars>>,
         pc' \in Early => pc \in Early,
         pc' \in Loop \ {"send"} \/ Returned' =>
           pc \in Early \cup (Loop \ {"send"}),
         pc' # "send", pc' \in {"read", "unref", "free"} \/ Returned' =>
           pc \in Early \cup {"read", "unref", "free"},
         pc' = "free" \/ Returned' => pc = "free",
         Len(file.packets) \in Nat
  PROVE  TailInv'
<1> SUFFICES ASSUME ~damaged, Wanted \in file.streams
             PROVE  TailInv'
  BY Zenon DEF TailInv, loopVars, Wanted
<1> DEFINE sofar == UpTo(file.packets, Wanted)
<1>1. Wanted' = Wanted /\ next' = next /\ received' = received /\ queue' = queue /\ file' = file
  BY DEF loopVars, Wanted
<1>2. sofar[0] = <<>> /\ <<>> \o <<>> = <<>> /\ Len(<<>>) <= Delay
  <2>1. <<>> \o <<>> = <<>> /\ Len(<<>>) <= Delay
    BY DelayAssumption
  <2> QED
    BY <2>1, Gathered, Zenon
<1>3. pc \in Early => received \o queue = sofar[next] /\ Len(queue) <= Delay
  BY <1>2, Zenon DEF TailInv
<1>4. pc' \in Early => next = 0 /\ received = <<>> /\ queue = <<>>
  BY Zenon DEF TailInv
<1>5. pc' \in Loop \ {"send"} \/ Returned' => received \o queue = sofar[next]
  BY <1>3, Zenon DEF TailInv
<1>6. pc' \in {"read", "send", "unref", "free"} \/ Returned' => Len(queue) <= Delay
  BY <1>3, Zenon DEF TailInv
<1>7. pc' = "free" \/ Returned' => next = Len(file.packets)
  BY Zenon DEF TailInv
<1> QED
  BY <1>1, <1>4, <1>5, <1>6, <1>7, Zenon DEF TailInv

\* A frame moves from the decoder to the result.
LEMMA FrameMoves ==
  ASSUME NEW s \in Seq(Frame), NEW q \in Seq(Frame), q # <<>>
  PROVE  Append(s, Head(q)) \o Tail(q) = s \o q
<1>1. Head(q) \in Frame /\ Tail(q) \in Seq(Frame) /\ Len(q) \in Nat \ {0} /\ Len(Tail(q)) = Len(q) - 1
  BY HeadTailProperties, EmptySeq, LenProperties
<1>2. Append(s, Head(q)) = s \o <<Head(q)>>
  BY <1>1
<1>3. q = <<Head(q)>> \o Tail(q)
  BY <1>1
<1>4. <<Head(q)>> \in Seq(Frame)
  BY <1>1
<1>5. (s \o <<Head(q)>>) \o Tail(q) = s \o (<<Head(q)>> \o Tail(q))
  BY <1>1, <1>4, ConcatAssociative
<1> QED
  BY <1>2, <1>3, <1>5

\* Every step keeps the frames together.
LEMMA TailKept ==
  ASSUME LadderInv, Typed, TailInv, [Next]_vars
  PROVE  TailInv'
<1> DEFINE packets == file.packets
           sofar == UpTo(packets, Wanted)
<1>0. Len(packets) \in Nat /\ packets \in Seq(Packet)
  BY FilesAssumption, LenProperties DEF Typed
<1>00. /\ sofar[0] = <<>>
       /\ \A n \in 1..Len(packets) : sofar[n] = sofar[n - 1] \o Part(packets, Wanted, n)
  BY <1>0, Gathered, Zenon
<1> HIDE DEF sofar
<1>1. CASE UNCHANGED vars
  BY <1>1, Zenon DEF vars, TailInv, Returned, Wanted
<1>2. CASE Rung
  BY <1>0, <1>2, SameTail
     DEF Rung, Climb, Fall, NextRung, Early, Ladder, Loop, Returned, constants, parameters
<1>3. CASE FindStream
  <2>1. CASE Wanted \in file.streams
    BY <1>0, <1>3, <2>1, SameTail
       DEF FindStream, Climb, NextRung, Early, Ladder, Loop, Returned, constants, parameters
  <2>2. CASE Wanted \notin file.streams
    BY <1>3, <2>2, Zenon
       DEF FindStream, Fall, TailInv, Wanted, constants, parameters
  <2> QED
    BY <2>1, <2>2
<1>4. CASE AllocBuffers
  BY <1>0, <1>4, SameTail
     DEF AllocBuffers, NextRung, Early, Ladder, Loop, Returned, constants, parameters
<1>5. CASE RgbBuffer
  BY <1>0, <1>5, SameTail
     DEF RgbBuffer, BadAlloc, Early, Ladder, Loop, Returned, constants, parameters
<1>6. CASE UnrefPacket
  BY <1>0, <1>6, SameTail
     DEF UnrefPacket, Early, Ladder, Loop, Returned, constants, parameters
<1>7. CASE FreeAll
  BY <1>0, <1>7, SameTail
     DEF FreeAll, Early, Ladder, Loop, Returned, constants, parameters
<1>8. CASE KeepFrame
  <2>1. /\ pc = "keep" /\ UNCHANGED <<reader, file, next, queue, received, damaged>>
        /\ pc' = "receive" \/ (pc' = "over" /\ outcome' = "bad_alloc")
    BY <1>8 DEF KeepFrame, BadAlloc, constants, parameters, loopVars
  <2> QED
    BY <2>1 DEF TailInv, Wanted, Returned, Early, Ladder, Loop
<1>9. CASE ReadFrame \/ SendPacket \/ ReceiveFrame \/ ReceiveStops
  <2>1. reader' = reader /\ file' = file /\ Wanted' = Wanted /\ (~damaged' => ~damaged)
        /\ outcome' = "running"
    BY <1>9
       DEF ReadFrame, SendPacket, ReceiveFrame, ReceiveStops, constants, parameters, Wanted,
           Typed, LadderInv
  <2>2. sofar' = sofar
    BY <2>1, Zenon DEF sofar
  <2> SUFFICES ASSUME ~damaged', Wanted \in file.streams
               PROVE  TailInv'
    BY <2>1, Zenon DEF TailInv
  <2>3. /\ received \in Seq(Frame) /\ queue \in Seq(Frame) /\ next \in 0..Len(packets)
        /\ received \o queue \in Seq(Frame)
    BY ConcatProperties DEF Typed
  <2>4. CASE ReadFrame
    <3>1. /\ pc = "read" /\ received \o queue = sofar[next] /\ Len(queue) <= Delay
          /\ received' = received /\ queue' = queue
      BY <2>1, <2>4 DEF TailInv, ReadFrame, Loop, sofar
    <3>2. CASE next < Len(packets) /\ next' = next + 1
      <4>1. next + 1 \in 1..Len(packets) /\ (next + 1) - 1 = next
        BY <1>0, <2>3, <3>2
      <4>2. sofar[next + 1] = sofar[next] \o Part(packets, Wanted, next + 1)
        BY <1>00, <4>1
      <4>3. CASE packets[next + 1].stream = Wanted
        <5>1. pc' = "send"
          BY <2>4, <3>2, <4>3, <2>3, <1>0 DEF ReadFrame
        <5> QED
          BY <2>1, <2>2, <3>1, <3>2, <4>1, <4>3, <5>1
             DEF TailInv, Returned, Early, Ladder, Loop, sofar
      <4>4. CASE packets[next + 1].stream # Wanted
        <5>1. pc' = "unref"
          BY <2>4, <3>2, <4>4, <2>3, <1>0 DEF ReadFrame
        <5>2. sofar[next + 1] = received \o queue
          <6>1. Part(packets, Wanted, next + 1) = <<>>
            BY <4>4, Zenon DEF Part
          <6>2. (received \o queue) \o <<>> = received \o queue
            BY <2>3, ConcatEmptySeq
          <6> QED
            BY <3>1, <4>2, <6>1, <6>2, Zenon
        <5> QED
          BY <2>1, <2>2, <3>1, <3>2, <5>1, <5>2
             DEF TailInv, Returned, Early, Ladder, Loop, sofar
      <4> QED
        BY <4>3, <4>4
    <3>3. CASE pc' = "free" /\ damaged' = (damaged \/ next < Len(packets)) /\ next' = next
      <4>1. next = Len(packets)
        <5>1. ~(next < Len(packets))
          BY <3>3, Zenon
        <5> QED
          BY <1>0, <2>3, <5>1
      <4> QED
        BY <2>1, <2>2, <3>1, <3>3, <4>1
           DEF TailInv, Returned, Early, Ladder, Loop, sofar
    <3> QED
      BY <2>4, <3>2, <3>3, Zenon DEF ReadFrame
  <2>5. CASE SendPacket
    <3>1. /\ pc = "send" /\ received \o queue = sofar[next - 1]
          /\ packets[next].stream = Wanted /\ next \in 1..Len(packets)
          /\ received' = received /\ next' = next /\ pc' = "receive"
          /\ queue' = queue \o packets[next].frames
      BY <2>1, <2>5 DEF TailInv, SendPacket, sofar, Typed
    <3>2. packets[next].frames \in Seq(Frame)
      <4>1. packets[next] \in Packet
        BY <1>0, <3>1, ElementOfSeq
      <4> QED
        BY <4>1 DEF Packet
    <3>3. received' \o queue' = sofar[next]
      <4>1. sofar[next] = sofar[next - 1] \o packets[next].frames
        BY <1>00, <3>1, Zenon DEF Part
      <4>2. received \o (queue \o packets[next].frames)
            = (received \o queue) \o packets[next].frames
        <5>1. \A a, b, c \in Seq(Frame) : a \o (b \o c) = (a \o b) \o c
          BY ConcatAssociative
        <5> QED
          BY <2>3, <3>2, <5>1, Zenon
      <4> QED
        BY <3>1, <4>1, <4>2, Zenon
    <3> QED
      BY <2>1, <2>2, <3>1, <3>3 DEF TailInv, Returned, Early, Ladder, Loop, sofar
  <2>6. CASE ReceiveFrame
    <3>1. /\ pc = "receive" /\ received \o queue = sofar[next]
          /\ queue' = Tail(queue) /\ received' = Append(received, Head(queue))
          /\ next' = next /\ pc' = "keep" /\ Len(queue) > Delay
      BY <2>1, <2>6 DEF TailInv, ReceiveFrame, sofar, Loop
    <3>2. queue # <<>>
      BY <2>3, <3>1, DelayAssumption, EmptySeq, LenProperties
    <3>3. received' \o queue' = sofar[next]
      BY <2>3, <3>1, <3>2, FrameMoves
    <3> QED
      BY <2>1, <2>2, <3>1, <3>3 DEF TailInv, Returned, Early, Ladder, Loop, sofar
  <2>7. CASE ReceiveStops
    <3>1. /\ pc = "receive" /\ received \o queue = sofar[next]
          /\ queue' = queue /\ received' = received
          /\ next' = next /\ pc' = "unref" /\ Len(queue) <= Delay
      BY <2>1, <2>7 DEF TailInv, ReceiveStops, sofar, Loop
    <3> QED
      BY <2>1, <2>2, <3>1 DEF TailInv, Returned, Early, Ladder, Loop, sofar
  <2> QED
    BY <1>9, <2>4, <2>5, <2>6, <2>7
<1> QED
  BY <1>1, <1>2, <1>3, <1>4, <1>5, <1>6, <1>7, <1>8, <1>9 DEF Next, Finished

\* Of an undamaged file a reader that returns has delivered every frame of the
\* stream, in the order of the packets, but the at most Delay frames that the
\* decoder, never drained, still keeps.
THEOREM OnlyDelayedTailIsLost == Spec => []LossIsTheDelayedTail
<1>1. ASSUME Init PROVE TailInv
  BY <1>1 DEF Init, TailInv, Returned, Early, Ladder, Loop
<1>2. ASSUME LadderInv, TailInv PROVE LossIsTheDelayedTail
  <2> SUFFICES ASSUME outcome = "ok", ~damaged, Wanted \in file.streams
               PROVE  received \o queue = FramesOf(file.packets) /\ Len(queue) <= Delay
    BY DEF LossIsTheDelayedTail
  <2>1. Returned
    BY <1>2 DEF LadderInv, Returned
  <2> QED
    BY <1>2, <2>1, FramesOfIsUpTo, Zenon DEF TailInv
<1> QED
  BY ReaderInvariant, <1>1, <1>2, TailKept, PTL DEF Spec

=============================================================================
