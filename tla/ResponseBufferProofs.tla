------------------------ MODULE ResponseBufferProofs ------------------------
(***************************************************************************)
(* The bounds of ResponseBuffer, for every BUFFER_SIZE of at least 2, every *)
(* INT_MAX and every length of reply.                                      *)
(***************************************************************************)
EXTENDS ResponseBuffer, TLAPS

\* Between two reads: parse() has exactly the text and its NUL, read_subjects()
\* has room for one byte more than that.
Room ==
  pc # "null" =>
    /\ buffer_len >= BufferSize
    /\ reader = "parse" => size >= extent
    /\ reader = "read_subjects" =>
          /\ size = buffer_len
          /\ total_bytes <= buffer_len - 2
          /\ extent <= total_bytes + 1

Inv == TypeOK /\ Room

LEMMA InitInv == Init => Inv
<1> SUFFICES ASSUME Init PROVE Inv
  OBVIOUS
<1>1. BufferSize \div 2 \in Nat /\ BufferSize \div 2 >= 1
  BY BufferAssumption DEF BufferAssumption
<1>2. TypeOK
  BY <1>1, BufferAssumption DEF Init, TypeOK, BufferAssumption
<1>3. Room
  BY <1>1, BufferAssumption DEF Init, Room, BufferAssumption
<1> QED BY <1>2, <1>3 DEF Inv

\* Doubling a length that fits gives a length that fits, or nothing positive.
LEMMA WrapDouble ==
  ASSUME NEW len \in 1 .. IntMax, IntMax \in Nat
  PROVE  /\ Wrap(2 * len) \in -(IntMax + 1) .. IntMax
         /\ Wrap(2 * len) > 0 => Wrap(2 * len) = 2 * len
BY DEF Wrap

LEMMA NextInv == ASSUME Inv, [Next]_vars PROVE Inv'
<1> USE BufferAssumption DEF BufferAssumption
<1>1. CASE UNCHANGED vars
  BY <1>1 DEF vars, Inv, TypeOK, Room
<1>2. ASSUME pc = "read", UNCHANGED <<reader, reply>>, NEW n \in 1 .. BufferSize - 1,
             total_bytes + n <= reply, Read(n)
      PROVE  Inv'
  <2>1. /\ total_bytes \in Nat /\ extent \in Nat /\ size \in Nat /\ buffer_len \in Int
        /\ reply \in 0 .. MaxReply /\ reader \in {"parse", "read_subjects"}
        /\ buffer_len >= BufferSize /\ buffer_len <= IntMax
    BY <1>2 DEF Inv, TypeOK, Room
  <2>2. total_bytes + n \in 0 .. MaxReply /\ n \in Nat
    BY <1>2, <2>1
  <2>3. CASE ParseRead(n)
    <3>1. TypeOK'
      BY <1>2, <2>1, <2>2, <2>3 DEF ParseRead, Fill, Continue, TypeOK, Inv
    <3>2. Room'
      BY <1>2, <2>1, <2>2, <2>3 DEF ParseRead, Fill, Continue, Room, Inv
    <3> QED BY <3>1, <3>2 DEF Inv
  <2>4. CASE Keep(n)
    <3>1. TypeOK'
      BY <1>2, <2>1, <2>2, <2>4 DEF Keep, Fill, Continue, TypeOK, Inv
    <3>2. Room'
      BY <1>2, <2>1, <2>2, <2>4 DEF Keep, MustGrow, Fill, Continue, Room, Inv
    <3> QED BY <3>1, <3>2 DEF Inv
  <2>5. CASE Grow(n)
    <3>1. buffer_len' = 2 * buffer_len /\ buffer_len' \in 1 .. IntMax /\ size' = buffer_len'
      BY <2>1, <2>5, WrapDouble DEF Grow
    <3>2. TypeOK'
      BY <1>2, <2>1, <2>2, <2>5, <3>1 DEF Grow, Fill, Continue, TypeOK, Inv
    <3>3. total_bytes + n <= 2 * buffer_len - 2
      BY <1>2, <2>1, <2>5 DEF Grow, Room, Inv
    <3>4. Room'
      BY <1>2, <2>1, <2>2, <2>5, <3>1, <3>3 DEF Grow, Fill, Continue, Room, Inv
    <3> QED BY <3>2, <3>4 DEF Inv
  <2>6. CASE GrowFails(n)
    <3>1. buffer_len' \in -(IntMax + 1) .. IntMax
      BY <2>1, <2>6, WrapDouble DEF GrowFails
    <3> QED BY <1>2, <2>1, <2>6, <3>1 DEF GrowFails, Room, TypeOK, Inv
  <2> QED BY <1>2, <2>3, <2>4, <2>5, <2>6 DEF Read
<1>3. CASE (EndOfReply \/ ReadFails) /\ pc = "read" /\ UNCHANGED <<reader, reply>>
  BY <1>3 DEF EndOfReply, ReadFails, Inv, TypeOK, Room
<1> QED BY <1>1, <1>2, <1>3 DEF Next

LEMMA Invariance == Spec => []Inv
<1> QED BY InitInv, NextInv, PTL DEF Spec

\* The variables keep their types: among them, buffer_len is an int.
THEOREM TypeCorrect == Spec => []TypeOK
<1>1. Inv => TypeOK
  BY DEF Inv
<1> QED BY <1>1, Invariance, PTL

\* Neither loop ever writes outside its buffer.
THEOREM Bounded == Spec => []InBounds
<1>1. Inv => InBounds
  BY DEF Inv, TypeOK, Room, InBounds
<1> QED BY <1>1, Invariance, PTL

\* No loop goes on with a length that overflowed.
THEOREM LengthIsSize == Spec => []NoWrappedLength
<1>1. Inv => NoWrappedLength
  BY DEF Inv, TypeOK, Room, NoWrappedLength
<1> QED BY <1>1, Invariance, PTL
=============================================================================
