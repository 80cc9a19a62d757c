------------------------------ MODULE MediaReader ------------------------------
(***************************************************************************)
(* The three readers over FFmpeg: extractFrames() and extractAudio() of    *)
(* src/core/video and readAudio() of src/core/audio.  They share one       *)
(* shape: a ladder of FFmpeg objects, each step of which may fail and then *)
(* frees what the steps before it acquired; a loop that demuxes packets,   *)
(* sends those of one stream to the decoder and collects its frames; and   *)
(* the release of everything.  One behaviour is one call.                  *)
(*                                                                         *)
(* pc is a rung of the ladder, a place in the loop ("read", "send",        *)
(* "receive", "keep", "unref"), "free" after the loop, or "over".          *)
(***************************************************************************)
EXTENDS Integers, Sequences, FiniteSets

CONSTANTS Files,      \* media files: streams and packets
          Delay,      \* frames the decoder keeps back until it is drained
          Rates,      \* r_frame_rate of the video stream, as [num, den]
          Targets,    \* values of targetFps
          INT_MAX,    \* the largest int
          Frame       \* decoded frames

Stream == {"video", "audio"}
Packet == [stream : Stream, frames : Seq(Frame)]

ASSUME FilesAssumption ==
  Files \subseteq [streams : SUBSET Stream, packets : Seq(Packet)]
ASSUME DelayAssumption == Delay \in Nat
ASSUME RatesAssumption ==
  /\ INT_MAX \in Nat \ {0}
  /\ Rates \subseteq [num : 0..INT_MAX, den : 0..INT_MAX]
  /\ Targets \subseteq Int

VARIABLES
  reader,      \* which of the three functions
  file,
  rate, targetFps,
  interval,    \* frameInterval (stays 1 in the audio readers)
  pc,
  held,        \* FFmpeg objects that are allocated
  next,        \* packets read so far
  queue,       \* frames inside the decoder
  frame,       \* the frame avcodec_receive_frame delivered
  frameCount,
  frames,      \* the result: frames, or the samples of each frame
  outcome,     \* "running", "ok", "DhtError" or "bad_alloc"
  received,    \* history: all frames the decoder delivered
  damaged      \* history: av_read_frame or the decoder reported an error

vars == <<reader, file, rate, targetFps, interval, pc, held, next, queue, frame, frameCount,
          frames, outcome, received, damaged>>
parameters == <<reader, file, rate, targetFps>>
constants == <<parameters, interval>>
loopVars == <<next, queue, frame, frameCount, frames, received, damaged>>

Readers == {"extractFrames", "extractAudio", "readAudio"}
Wanted == IF reader = "extractFrames" THEN "video" ELSE "audio"

\* What av_packet_alloc and av_frame_alloc are asked for.
Buffers == {"packet", "frame"} \cup (IF reader = "extractFrames" THEN {"rgbFrame"} ELSE {})

Init ==
  /\ reader \in Readers
  /\ file \in Files
  /\ rate \in Rates /\ targetFps \in Targets
  /\ interval = 1
  /\ pc = "avformat_open_input"
  /\ held = {}
  /\ next = 0 /\ queue = <<>> /\ frame = <<>>
  /\ frameCount = 0 /\ frames = <<>>
  /\ outcome = "running"
  /\ received = <<>> /\ damaged = FALSE

-----------------------------------------------------------------------------
\* The rung after rung r.
NextRung(r) ==
  CASE r = "avformat_open_input"           -> "avformat_find_stream_info"
    [] r = "avformat_find_stream_info"     -> "find_stream"
    [] r = "find_stream"                   -> "avcodec_find_decoder"
    [] r = "avcodec_find_decoder"          -> "avcodec_alloc_context3"
    [] r = "avcodec_alloc_context3"        -> "avcodec_parameters_to_context"
    [] r = "avcodec_parameters_to_context" -> "avcodec_open2"
    [] r = "avcodec_open2" -> IF reader = "extractFrames" THEN "sws_getContext" ELSE "alloc"
    [] r = "sws_getContext"                -> "alloc"
    [] r = "alloc" -> IF reader = "extractFrames" THEN "rgbBuffer" ELSE "read"

Acquired(r) ==
  CASE r = "avformat_open_input"    -> {"formatCtx"}
    [] r = "avcodec_alloc_context3" -> {"codecCtx"}
    [] r = "sws_getContext"         -> {"swsCtx"}
    [] OTHER                        -> {}

\* A faulty variant: a failed sws_getContext leaves the codec context.
FreedNoCodec(r) ==
  CASE r = "avformat_open_input" -> {}
    [] r \in {"avformat_find_stream_info", "find_stream", "avcodec_find_decoder",
              "avcodec_alloc_context3", "sws_getContext"} -> {"formatCtx"}
    [] r \in {"avcodec_parameters_to_context", "avcodec_open2"} -> {"codecCtx", "formatCtx"}
    [] r = "alloc" -> {"swsCtx", "packet", "frame", "rgbFrame", "codecCtx", "formatCtx"}

\* What the error path of rung r frees before it throws.
Freed(r) ==
  CASE r = "avformat_open_input" -> {}
    [] r \in {"avformat_find_stream_info", "find_stream", "avcodec_find_decoder",
              "avcodec_alloc_context3"} -> {"formatCtx"}
    [] r \in {"avcodec_parameters_to_context", "avcodec_open2", "sws_getContext"} ->
         {"codecCtx", "formatCtx"}
    [] r = "alloc" -> {"swsCtx", "packet", "frame", "rgbFrame", "codecCtx", "formatCtx"}

Climb(r) ==
  /\ held' = held \cup Acquired(r)
  /\ pc' = NextRung(r)
  /\ UNCHANGED <<constants, loopVars, outcome>>

\* The error path of rung r; the call ends with o.
Fall(r, o) ==
  /\ held' = held \ Freed(r)
  /\ pc' = "over" /\ outcome' = o
  /\ UNCHANGED <<constants, loopVars>>

\* The rungs that are one FFmpeg call which succeeds or fails.
Rung ==
  /\ pc \in {"avformat_open_input", "avformat_find_stream_info", "avcodec_find_decoder",
             "avcodec_alloc_context3", "avcodec_parameters_to_context", "avcodec_open2",
             "sws_getContext"}
  /\ Climb(pc) \/ Fall(pc, "DhtError")

\* The first stream of the wanted type; extractAudio returns no samples when
\* there is none, the other two throw.
FindStream ==
  /\ pc = "find_stream"
  /\ IF Wanted \in file.streams
     THEN Climb(pc)
     ELSE Fall(pc, IF reader = "extractAudio" THEN "ok" ELSE "DhtError")

\* All of the packet and frame allocations are made, then tested.
AllocBuffers ==
  /\ pc = "alloc"
  /\ \E got \in SUBSET Buffers :
       IF got = Buffers
       THEN /\ held' = held \cup got
            /\ pc' = NextRung("alloc")
            /\ UNCHANGED outcome
       ELSE /\ held' = (held \cup got) \ Freed("alloc")
            /\ pc' = "over" /\ outcome' = "DhtError"
  /\ UNCHANGED <<constants, loopVars>>

\* An allocation of the C++ library throws: no one frees the FFmpeg objects.
BadAlloc ==
  /\ pc' = "over" /\ outcome' = "bad_alloc"
  /\ UNCHANGED <<constants, loopVars, held>>

\* A faulty variant: the quotient is rounded up.
FrameIntervalRoundedUp ==
  LET d == rate.den * targetFps IN
  IF d = 0 THEN {1, INT_MAX}
  ELSE IF d < 0 \/ rate.num = 0 THEN {1}
  ELSE {(rate.num + d - 1) \div d}

\* (int)(fps / targetFps), at least 1.  An infinity or a NaN has no int value:
\* the conversion gives the least int or 0, which become 1, or INT_MAX.  The
\* doubles are precise enough for the quotient of 32 bit numbers to be
\* truncated like the exact one.
FrameInterval ==
  LET d == rate.den * targetFps IN
  IF d = 0 THEN {1, INT_MAX}
  ELSE IF d < 0 \/ rate.num < d THEN {1}
  ELSE {rate.num \div d}

\* std::vector<uint8_t> rgbBuffer(bufferSize), which also fails when bufferSize
\* is a negative error code; then frameInterval.
RgbBuffer ==
  /\ pc = "rgbBuffer"
  /\ \/ /\ interval' \in FrameInterval
        /\ pc' = "read"
        /\ UNCHANGED <<parameters, loopVars, held, outcome>>
     \/ BadAlloc

-----------------------------------------------------------------------------
\* av_read_frame(): the next packet, or an end that may be a read error.
ReadFrame ==
  /\ pc = "read"
  /\ \/ /\ next < Len(file.packets)
        /\ next' = next + 1
        /\ held' = held \cup {"packetData"}
        /\ pc' = IF file.packets[next + 1].stream = Wanted THEN "send" ELSE "unref"
        /\ UNCHANGED damaged
     \/ /\ pc' = "free"
        /\ damaged' = (damaged \/ next < Len(file.packets))
        /\ UNCHANGED <<next, held>>
  /\ UNCHANGED <<constants, queue, frame, frameCount, frames, outcome, received>>

\* avcodec_send_packet(): a packet the decoder refuses is passed over.
SendPacket ==
  /\ pc = "send"
  /\ \/ /\ queue' = queue \o file.packets[next].frames
        /\ pc' = "receive"
        /\ UNCHANGED damaged
     \/ /\ damaged' = TRUE
        /\ pc' = "unref"
        /\ UNCHANGED queue
  /\ UNCHANGED <<constants, held, next, frame, frameCount, frames, outcome, received>>

\* avcodec_receive_frame() delivers a frame; the decoder keeps Delay frames
\* back as long as it is not drained.
ReceiveFrame ==
  /\ pc = "receive" /\ Len(queue) > Delay
  /\ frame' = <<Head(queue)>>
  /\ queue' = Tail(queue)
  /\ received' = Append(received, Head(queue))
  /\ pc' = "keep"
  /\ UNCHANGED <<constants, held, next, frameCount, frames, outcome, damaged>>

\* AVERROR(EAGAIN), or a frame that cannot be decoded: both end the loop.
ReceiveStops ==
  /\ pc = "receive"
  /\ \/ Len(queue) <= Delay /\ UNCHANGED <<queue, damaged>>
     \/ Len(queue) > Delay /\ queue' = Tail(queue) /\ damaged' = TRUE
  /\ pc' = "unref"
  /\ UNCHANGED <<constants, held, next, frame, frameCount, frames, outcome, received>>

\* A faulty variant: only kept frames are counted.
KeepFrameCountsKept ==
  /\ pc = "keep"
  /\ \/ /\ IF frameCount % interval = 0
           THEN frames' = frames \o frame /\ frameCount' = frameCount + 1
           ELSE UNCHANGED <<frames, frameCount>>
        /\ pc' = "receive"
        /\ UNCHANGED <<constants, held, next, queue, frame, outcome, received, damaged>>
     \/ BadAlloc

\* A faulty variant: one frame is received for each packet.
KeepFrameOnce ==
  /\ pc = "keep"
  /\ \/ /\ frames' = IF frameCount % interval = 0 THEN frames \o frame ELSE frames
        /\ frameCount' = frameCount + 1
        /\ pc' = "unref"
        /\ UNCHANGED <<constants, held, next, queue, frame, outcome, received, damaged>>
     \/ BadAlloc

\* Every interval-th frame is converted and appended.
KeepFrame ==
  /\ pc = "keep"
  /\ \/ /\ frames' = IF frameCount % interval = 0 THEN frames \o frame ELSE frames
        /\ frameCount' = frameCount + 1
        /\ pc' = "receive"
        /\ UNCHANGED <<constants, held, next, queue, frame, outcome, received, damaged>>
     \/ BadAlloc

UnrefPacket ==
  /\ pc = "unref"
  /\ held' = held \ {"packetData"}
  /\ pc' = "read"
  /\ UNCHANGED <<constants, loopVars, outcome>>

\* After the loop everything is freed (av_packet_free drops the packet's data
\* too) and the result returned.
FreeAll ==
  /\ pc = "free"
  /\ held' = held \ {"swsCtx", "packet", "packetData", "frame", "rgbFrame",
                     "codecCtx", "formatCtx"}
  /\ pc' = "over" /\ outcome' = "ok"
  /\ UNCHANGED <<constants, loopVars>>

-----------------------------------------------------------------------------
\* The caller has its result.
Finished == pc = "over" /\ UNCHANGED vars

Next ==
  \/ Rung \/ FindStream \/ AllocBuffers \/ RgbBuffer
  \/ ReadFrame \/ SendPacket \/ ReceiveFrame \/ ReceiveStops \/ KeepFrame
  \/ UnrefPacket \/ FreeAll
  \/ Finished

Spec == Init /\ [][Next]_vars

-----------------------------------------------------------------------------
(***************************************************************************)
(* Properties                                                              *)
(***************************************************************************)

Objects == {"formatCtx", "codecCtx", "swsCtx", "packet", "frame", "rgbFrame", "packetData"}

TypeOK ==
  /\ reader \in Readers /\ file \in Files /\ interval \in 1..INT_MAX
  /\ rate \in Rates /\ targetFps \in Targets
  /\ pc \in {"avformat_open_input", "avformat_find_stream_info", "find_stream",
             "avcodec_find_decoder", "avcodec_alloc_context3",
             "avcodec_parameters_to_context", "avcodec_open2", "sws_getContext",
             "alloc", "rgbBuffer", "read", "send", "receive", "keep", "unref",
             "free", "over"}
  /\ held \subseteq Objects
  /\ next \in 0..Len(file.packets)
  /\ queue \in Seq(Frame) /\ received \in Seq(Frame) /\ frames \in Seq(Frame)
  /\ frame \in Seq(Frame)
  /\ frameCount \in Nat
  /\ outcome \in {"running", "ok", "DhtError", "bad_alloc"}
  /\ damaged \in BOOLEAN

\* No packet is overwritten while it still holds data.
PacketReleasedBeforeRead == pc = "read" => "packetData" \notin held

\* However far up the ladder or into the loop a call came, it leaves no
\* FFmpeg object allocated when it returns or throws a DhtError, and it never
\* reads a packet over one that still has its data; only an exception of the
\* C++ library leaks (frame_extractor.cpp:19-88).
NothingLeaks ==
  /\ pc = "over" /\ outcome # "bad_alloc" => held = {}
  /\ PacketReleasedBeforeRead

\* Frames that are behind the loop that thins them out.
seen == IF pc = "keep" THEN Len(received) - 1 ELSE Len(received)

\* The result is every interval-th of the frames the decoder delivered,
\* counted across packets, in order and without repetition.
EveryNthFrameKept ==
  outcome # "bad_alloc" =>
    /\ Len(frames) = (seen + interval - 1) \div interval
    /\ \A i \in DOMAIN frames : frames[i] = received[(i - 1) * interval + 1]

\* Thinning out keeps at least targetFps frames of a second, or all there are,
\* and at most twice as many.  A target of 0 or an unknown rate, which turn
\* an infinity or a NaN into the interval (frame_extractor.cpp:92), keeps all
\* frames or one of INT_MAX.
TargetRateReached ==
  LET asked == rate.den * targetFps IN
  reader = "extractFrames" /\ outcome # "bad_alloc" =>
    /\ asked > 0 =>
         /\ Len(frames) * rate.num >= seen * (IF asked < rate.num THEN asked ELSE rate.num)
         /\ (Len(frames) - 1) * rate.num <= 2 * seen * asked
    /\ asked = 0 => Len(frames) \in {seen, (seen + INT_MAX - 1) \div INT_MAX}

\* Frames of the wanted stream, in the order of their packets.
FramesOf(packets) ==
  LET upTo[n \in 0..Len(packets)] ==
        IF n = 0 THEN <<>>
        ELSE upTo[n - 1] \o (IF packets[n].stream = Wanted THEN packets[n].frames ELSE <<>>)
  IN  upTo[Len(packets)]

\* An undamaged file loses nothing but the frames the decoder still keeps
\* back at the end, which are at most Delay.
LossIsTheDelayedTail ==
  outcome = "ok" /\ ~damaged /\ Wanted \in file.streams =>
    /\ received \o queue = FramesOf(file.packets)
    /\ Len(queue) <= Delay

\* The decoding API asks for the decoder to be drained at the end, so that
\* an undamaged file is delivered whole.
WholeFileDelivered ==
  outcome = "ok" /\ ~damaged /\ Wanted \in file.streams => received = FramesOf(file.packets)

=============================================================================
