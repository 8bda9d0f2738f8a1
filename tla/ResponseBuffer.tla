--------------------------- MODULE ResponseBuffer ---------------------------
(***************************************************************************)
(* The buffers the replies to A04 and A06 are collected in, and the        *)
(* arithmetic that sizes them: parse() reallocates to the exact length     *)
(* after each read(), read_subjects() doubles an int when the text comes   *)
(* close to it.  The bytes are left out; what counts is where the two      *)
(* loops write, how much is allocated there, and whether the result is a   *)
(* string.                                                                 *)
(***************************************************************************)
EXTENDS Integers

CONSTANTS
  BufferSize,  \* BUFFER_SIZE, and one more than the most a read() returns
  IntMax,      \* INT_MAX
  MaxReply     \* the longest reply of the server

BufferAssumption ==
  /\ BufferSize \in Nat /\ BufferSize >= 2
  /\ IntMax \in Nat /\ IntMax >= BufferSize
  /\ MaxReply \in Nat

ASSUME BufferAssumption

VARIABLES
  reader,      \* "parse" or "read_subjects"
  pc,          \* "read"; "return" with the buffer, "null" without one
  reply,       \* the length of what the server will send before it stops
  size,        \* bytes allocated at dynamic_buffer
  buffer_len,  \* int: what read_subjects() believes size to be
  total_bytes, \* bytes of the reply in the buffer
  extent,      \* one more than the highest offset ever written
  terminated   \* the byte at total_bytes is a NUL the loop wrote

vars == <<reader, pc, reply, size, buffer_len, total_bytes, extent, terminated>>

TypeOK ==
  /\ reader \in {"parse", "read_subjects"}
  /\ pc \in {"read", "return", "null"}
  /\ reply \in 0 .. MaxReply
  /\ size \in Nat
  /\ buffer_len \in -(IntMax + 1) .. IntMax
  /\ total_bytes \in 0 .. MaxReply
  /\ extent \in Nat
  /\ terminated \in BOOLEAN

\* malloc(), and the NUL that parse() puts at the front of its buffer.
Init ==
  /\ reader \in {"parse", "read_subjects"}
  /\ pc = "read"
  /\ reply \in 0 .. MaxReply
  /\ size = IF reader = "parse" THEN BufferSize \div 2 ELSE BufferSize
  /\ buffer_len = BufferSize
  /\ total_bytes = 0
  /\ extent = IF reader = "parse" THEN 1 ELSE 0
  /\ terminated = (reader = "parse")

-----------------------------------------------------------------------------
\* An int that overflows, here only buffer_len, wraps (the code is built without -ftrapv).
Wrap(x) == IF x > IntMax THEN x - 2 * (IntMax + 1) ELSE x

\* Seeded fault: the NUL after the text is counted as text.
FillCountingNul(n) ==
  /\ total_bytes' = total_bytes + n + 1
  /\ extent' = total_bytes + n + 1
  /\ terminated' = TRUE

\* memcpy() to the end of the text, the NUL after it, and the new length.
Fill(n) ==
  /\ total_bytes' = total_bytes + n
  /\ extent' = total_bytes + n + 1
  /\ terminated' = TRUE

\* The tests after a read() of the loops: go on, or stop at a marker.
Continue == pc' \in {"read", "return"}

\* parse(): realloc() to the exact size, copy the chunk and its NUL.
ParseRead(n) ==
  /\ reader = "parse"
  /\ size' = total_bytes + n + 1
  /\ Fill(n)
  /\ Continue
  /\ UNCHANGED buffer_len

\* Seeded fault: the buffer grows only when the text no longer fits.
GrowsLate(n) == total_bytes + n > buffer_len

\* read_subjects(): the chunk comes close to the end of the buffer.
MustGrow(n) == total_bytes + n >= buffer_len - 1

\* read_subjects(): the buffer is large enough for the chunk.
Keep(n) ==
  /\ reader = "read_subjects"
  /\ ~MustGrow(n)
  /\ Fill(n)
  /\ Continue
  /\ UNCHANGED <<size, buffer_len>>

\* Seeded fault: realloc() is called before the length is doubled.
GrowInWrongOrder(n) ==
  /\ reader = "read_subjects"
  /\ MustGrow(n)
  /\ buffer_len' = Wrap(2 * buffer_len)
  /\ size' = buffer_len
  /\ Fill(n)
  /\ Continue

\* read_subjects(): the buffer is doubled, once.  A negative length is a huge
\* size_t, which realloc() refuses.
Grow(n) ==
  /\ reader = "read_subjects"
  /\ MustGrow(n)
  /\ buffer_len' = Wrap(2 * buffer_len)
  /\ buffer_len' > 0
  /\ size' = buffer_len'
  /\ Fill(n)
  /\ Continue

\* read_subjects(): realloc() fails, and the buffer is freed.
GrowFails(n) ==
  /\ reader = "read_subjects"
  /\ MustGrow(n)
  /\ buffer_len' = Wrap(2 * buffer_len)
  /\ pc' = "null"
  /\ size' = 0
  /\ UNCHANGED <<total_bytes, extent, terminated>>

\* One turn of a loop whose read() returned n bytes.
Read(n) == ParseRead(n) \/ Keep(n) \/ Grow(n) \/ GrowFails(n)

\* read() returned 0: the reply, and the connection, are at their end.
EndOfReply ==
  /\ total_bytes = reply
  /\ pc' = "return"
  /\ UNCHANGED <<size, buffer_len, total_bytes, extent, terminated>>

\* read() failed: parse() exits, read_subjects() frees and returns NULL.
ReadFails ==
  /\ pc' = "null"
  /\ size' = 0
  /\ UNCHANGED <<buffer_len, total_bytes, extent, terminated>>

Next ==
  /\ pc = "read"
  /\ \/ \E n \in 1 .. BufferSize - 1 : total_bytes + n <= reply /\ Read(n)
     \/ EndOfReply
     \/ ReadFails
  /\ UNCHANGED <<reader, reply>>

Spec == Init /\ [][Next]_vars

-----------------------------------------------------------------------------
\* No loop writes past the memory it has: memcpy() and the NUL after it stay
\* inside dynamic_buffer however long the reply is and however it is cut.
InBounds == pc # "null" => extent <= size

\* The doubling of buffer_len never wraps into a length the loop goes on with:
\* an int overflow ends in a failed realloc().
NoWrappedLength ==
  pc # "null" => buffer_len >= BufferSize /\ (reader = "read_subjects" => size = buffer_len)
=============================================================================
