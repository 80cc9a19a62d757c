----------------------------- MODULE MemoryStream -----------------------------
(***************************************************************************)
(* The class MemoryStream: a vector of bytes written at its end and read   *)
(* at a position, with size_t arithmetic of Width bits.                    *)
(***************************************************************************)
EXTENDS Naturals, Sequences

CONSTANTS Octet,
          Buffers,   \* what is written
          Width,     \* bits of a size_t
          MaxData    \* bound on the bytes written

\* No object, and so no buffer of a read, is larger than PTRDIFF_MAX.
Limit == 2^Width
Sizes == 0..(2^(Width - 1) - 1)

ASSUME BuffersAssumption == Buffers \subseteq Seq(Octet)
ASSUME WidthAssumption ==
  /\ Width \in Nat \ {0} /\ Limit \in Nat /\ 2^(Width - 1) \in Nat
  /\ Limit = 2 * 2^(Width - 1)
ASSUME MaxDataAssumption ==
  MaxData \in Sizes /\ \A b \in Buffers : Len(b) <= MaxData

VARIABLES
  data_, position_,
  asked,     \* the size of the last read
  buffer,    \* what it delivered, or the last one that delivered
  ended      \* how the last operation ended

streamVars == <<data_, position_, asked, buffer, ended>>

StreamInit ==
  /\ data_ \in {<<>>} \cup Buffers
  /\ position_ = 0 /\ asked = 0 /\ buffer = <<>> /\ ended = "ok"

-----------------------------------------------------------------------------
Write(b) ==
  \/ /\ Len(data_) + Len(b) <= MaxData
     /\ data_' = data_ \o b
     /\ ended' = "ok"
     /\ UNCHANGED <<position_, asked, buffer>>
  \/ /\ ended' = "bad_alloc"
     /\ UNCHANGED <<data_, position_, asked, buffer>>

\* position_ + size, as a size_t.
EndOf(size) == (position_ + size) % Limit

\* memcpy from data_.data() + position_: defined only inside of the vector.
Copy(size) ==
  \/ /\ position_ + size <= Len(data_)
     /\ buffer' = SubSeq(data_, position_ + 1, position_ + size)
     /\ position_' = EndOf(size)
     /\ ended' = "ok"
     /\ UNCHANGED data_
  \/ /\ position_ + size > Len(data_)
     /\ ended' = "undefined"
     /\ UNCHANGED <<data_, position_, buffer>>

\* A faulty variant: the last byte cannot be read.
ReadOffByOne(size) ==
  /\ asked' = size
  /\ \/ /\ EndOf(size) >= Len(data_)
        /\ ended' = "out_of_range"
        /\ UNCHANGED <<data_, position_, buffer>>
     \/ EndOf(size) < Len(data_) /\ Copy(size)

Read(size) ==
  /\ asked' = size
  /\ \/ /\ EndOf(size) > Len(data_)
        /\ ended' = "out_of_range"
        /\ UNCHANGED <<data_, position_, buffer>>
     \/ EndOf(size) <= Len(data_) /\ Copy(size)

Seek(pos) ==
  /\ position_' = pos
  /\ ended' = "ok"
  /\ UNCHANGED <<data_, asked, buffer>>

\* After a read with no defined effect nothing is known.
Undefined == ended = "undefined" /\ UNCHANGED streamVars

StreamNext ==
  \/ /\ ended # "undefined"
     /\ \/ \E b \in Buffers : Write(b)
        \/ \E size \in Sizes : Read(size)
        \/ \E pos \in 0..(Limit - 1) : Seek(pos)
  \/ Undefined

StreamSpec == StreamInit /\ [][StreamNext]_streamVars

-----------------------------------------------------------------------------
(***************************************************************************)
(* Properties                                                              *)
(***************************************************************************)

StreamTypeOK ==
  /\ data_ \in Seq(Octet) /\ Len(data_) <= MaxData
  /\ position_ \in 0..(Limit - 1) /\ asked \in Sizes
  /\ buffer \in Seq(Octet)
  /\ ended \in {"ok", "out_of_range", "bad_alloc", "undefined"}

\* MemoryStream keeps the promise of ByteStream: reads deliver consecutive
\* bytes however writes, seeks and reads that threw come in between, and the
\* bounds check with its wrapping sum decides as the exact one would, unless
\* seek() went beyond the end and the sum reaches 2^Width
\* (memory_stream.cpp:8-28).
Stream == INSTANCE ByteStream WITH content <- data_, cursor <- position_, outcome <- ended
KeepsByteStream == Stream!Spec

=============================================================================
