------------------------------ MODULE ByteStream ------------------------------
(***************************************************************************)
(* What MemoryStream promises: a byte sequence that only grows, and a      *)
(* cursor.  A read delivers exactly the bytes behind the cursor and moves  *)
(* it past them, or throws and changes nothing.  Nothing is promised only  *)
(* where the cursor is behind the end and the read would pass the last     *)
(* position a size_t can name, Limit - 1.                                  *)
(***************************************************************************)
EXTENDS Naturals, Sequences

CONSTANTS Buffers,  \* what is written
          Sizes,    \* sizes of reads
          Limit     \* 2^Width

VARIABLES content, cursor,
          asked,    \* the size of the last read
          buffer,   \* what the last read delivered
          outcome   \* how the last operation ended

svars == <<content, cursor, asked, buffer, outcome>>

Init ==
  /\ content \in {<<>>} \cup Buffers
  /\ cursor = 0 /\ asked = 0 /\ buffer = <<>> /\ outcome = "ok"

Write(b) ==
  /\ content' = content \o b
  /\ outcome' = "ok" /\ UNCHANGED <<cursor, asked, buffer>>

Seek(pos) == cursor' = pos /\ outcome' = "ok" /\ UNCHANGED <<content, asked, buffer>>

Read(n) ==
  /\ asked' = n /\ cursor + n <= Len(content)
  /\ buffer' = SubSeq(content, cursor + 1, cursor + n)
  /\ cursor' = cursor + n
  /\ outcome' = "ok" /\ UNCHANGED content

OutOfRange(n) ==
  /\ asked' = n /\ cursor + n > Len(content)
  /\ outcome' = "out_of_range" /\ UNCHANGED <<content, cursor, buffer>>

\* The allocation of a write fails.
BadAlloc == outcome' = "bad_alloc" /\ UNCHANGED <<content, cursor, asked, buffer>>

Beyond(n) ==
  /\ asked' = n /\ cursor > Len(content) /\ cursor + n >= Limit
  /\ outcome' = "undefined" /\ UNCHANGED <<content, cursor, buffer>>

Next ==
  /\ outcome # "undefined"
  /\ \/ \E b \in Buffers : Write(b)
     \/ \E n \in Sizes : Read(n) \/ OutOfRange(n) \/ Beyond(n)
     \/ \E pos \in 0..(Limit - 1) : Seek(pos)
     \/ BadAlloc

Spec == Init /\ [][Next]_svars
=============================================================================
