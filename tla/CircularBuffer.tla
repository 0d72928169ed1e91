--------------------------- MODULE CircularBuffer ---------------------------
(***************************************************************************)
(* ccxx::CircularBuffer of elements of one byte, as Connection and the     *)
(* stream data readers and writers use it: a ring of _size elements with a *)
(* read, a write and a peek position.  `ring' holds the members of the     *)
(* object; an operation that the code calls from others is an operator     *)
(* from ring to ring.  Elements never come in parts, so _readShift and     *)
(* _writeShift stay 0.                                                     *)
(***************************************************************************)
EXTENDS Integers, Sequences

CONSTANTS Elements, Zero,  \* what an element can be; what memset(0) leaves
          Sizes,           \* sizes of a buffer (a bound)
          MaxCount,        \* the longest array or stream (a bound)
          Word             \* 2^w for the w bits of a size_t

ASSUME BufferAssumption ==
  /\ Zero \in Elements /\ Sizes \subseteq Nat \ {0}
  /\ MaxCount \in Nat /\ Word \in Nat /\ \A n \in Sizes : n < Word

VARIABLES ring,   \* the buffer
          last    \* the last call: what it was to move, and what it moved

vars == <<ring, last>>

Least(m, n) == IF m <= n THEN m ELSE n

\* clear(), and setSize(), which allocates new data and calls it
Cleared(n) == [data |-> [i \in 0 .. (n - 1) |-> Zero], size |-> n, readPos |-> 0,
               writePos |-> 0, peekPos |-> 0, avail |-> 0, peekAvail |-> 0]

Called(op, asked, moved) == [op |-> op, asked |-> asked, moved |-> moved]

Init == \E n \in Sizes : ring = Cleared(n) /\ last = Called("clear", 0, << >>)

Free(b) == b.size - b.avail

\* position p after n steps; only one turn is undone
Wrap(b, p, n) == IF p + n >= b.size THEN p + n - b.size ELSE p + n

\* Mutant of AdvanceReadPos: it stops only beyond the end.
AdvanceReadPosLate(b, n) ==
  IF n <= b.avail
    THEN [b EXCEPT !.readPos = IF @ + n > b.size THEN @ + n - b.size ELSE @ + n,
                   !.avail = @ - n]
    ELSE b

AdvanceReadPos(b, n) ==
  LET readPos == Wrap(b, b.readPos, n)
      avail   == b.avail - n
      overtakes == b.peekAvail > avail
  IN IF n <= b.avail
       THEN [b EXCEPT !.readPos = readPos, !.avail = avail,
                      !.peekAvail = IF overtakes THEN avail ELSE @,
                      !.peekPos   = IF overtakes THEN readPos ELSE @]
       ELSE b

AdvanceWritePos(b, n) ==
  IF n <= Free(b)
    THEN [b EXCEPT !.writePos = Wrap(b, @, n), !.avail = @ + n,
                   !.peekAvail = (@ + n) % Word]
    ELSE b

\* memcpy() of s to position p
Copy(b, p, s) ==
  [b EXCEPT !.data = [i \in DOMAIN @ |-> IF i \in p .. (p + Len(s) - 1)
                                           THEN s[i - p + 1] ELSE @[i]]]

\* n elements from position p
From(b, p, n) == [i \in 1 .. n |-> b.data[p + i - 1]]

-----------------------------------------------------------------------------
(* The operations                                                          *)

Clear == ring' = Cleared(ring.size) /\ last' = Called("clear", 0, << >>)

SetSize(n) == ring' = Cleared(n) /\ last' = Called("clear", 0, << >>)

\* write(buf, len), write(Buffer)
Write(s) ==
  LET n1 == IF ring.writePos > ring.readPos \/ ring.avail = 0
              THEN Least(Len(s), ring.size - ring.writePos) ELSE 0
      b1 == AdvanceWritePos(Copy(ring, ring.writePos, SubSeq(s, 1, n1)), n1)
      n2 == Least(Len(s) - n1, (b1.readPos - b1.writePos) % Word)
      b2 == AdvanceWritePos(Copy(b1, b1.writePos, SubSeq(s, n1 + 1, n1 + n2)), n2)
  IN /\ ring' = b2
     /\ last' = Called("put", Len(s), SubSeq(s, 1, n1 + n2))

\* write(Stream, count), when the stream has s to give: two blocks are filled
WriteStream(s, count) ==
  LET want == IF count = 0 \/ count > Free(ring) THEN Free(ring) ELSE count
      n1 == IF ring.writePos < ring.readPos
              THEN Least(want, ring.readPos - ring.writePos)
              ELSE Least(want, ring.size - ring.writePos)
      n2 == IF ring.writePos < ring.readPos THEN 0 ELSE Least(want - n1, ring.readPos)
      w  == Least(Len(s), n1 + n2)
      k  == Least(w, n1)
      b  == Copy(Copy(ring, ring.writePos, SubSeq(s, 1, k)), 0, SubSeq(s, k + 1, w))
  IN /\ want > 0 /\ w > 0
     /\ ring' = AdvanceWritePos(b, w)
     /\ last' = Called("put", w, SubSeq(s, 1, w))

\* fill(value, count)
Fill(v, count) ==
  LET n == Least(count, Free(ring))
      FillFrom == [i \in DOMAIN ring.data |->
                     IF \E k \in 0 .. (n - 1) : i = Wrap(ring, ring.writePos, k)
                       THEN v ELSE ring.data[i]]
  IN /\ ring' = AdvanceWritePos([ring EXCEPT !.data = FillFrom], n)
     /\ last' = Called("put", count, [i \in 1 .. n |-> v])

\* read(buf, count)
Read(count) ==
  LET n1 == IF ring.readPos > ring.writePos \/ ring.avail = ring.size
              THEN Least(count, ring.size - ring.readPos) ELSE 0
      b1 == AdvanceReadPos(ring, n1)
      n2 == Least(count - n1, (b1.writePos - b1.readPos) % Word)
  IN /\ ring' = AdvanceReadPos(b1, n2)
     /\ last' = Called("take", count, From(ring, ring.readPos, n1) \o From(b1, b1.readPos, n2))

\* read(Stream): everything, in two blocks, of which the stream accepts k
ReadStream(k) ==
  LET n1 == IF ring.readPos < ring.writePos
              THEN ring.writePos - ring.readPos ELSE ring.size - ring.readPos
      n2 == IF ring.readPos < ring.writePos THEN 0
              ELSE Least((ring.avail - n1) % Word, ring.writePos)
  IN /\ ring.avail > 0 /\ k <= n1 + n2
     /\ ring' = AdvanceReadPos(ring, k)
     /\ last' = Called("take", k, SubSeq(From(ring, ring.readPos, n1) \o From(ring, 0, n2), 1, k))

ReadExtent(b) ==
  CASE b.readPos > b.writePos \/ (b.readPos = b.writePos /\ b.avail > 0)
                                -> b.size - b.readPos
    [] b.readPos < b.writePos   -> b.writePos - b.readPos
    [] OTHER                    -> 0

WriteExtent(b) ==
  CASE b.writePos > b.readPos \/ (b.writePos = b.readPos /\ b.avail = 0)
                                -> b.size - b.writePos
    [] b.writePos < b.readPos   -> b.readPos - b.writePos
    [] OTHER                    -> 0

\* The caller takes what is at getReadPos() and calls advanceReadPos().
TakeExtent ==
  LET n == ReadExtent(ring) IN
  /\ ring' = AdvanceReadPos(ring, n)
  /\ last' = Called("take", n, From(ring, ring.readPos, n))

\* The caller puts s at getWritePos() and calls advanceWritePos(n).
PutExtent(s) ==
  /\ Len(s) <= WriteExtent(ring)
  /\ ring' = AdvanceWritePos(Copy(ring, ring.writePos, s), Len(s))
  /\ last' = Called("put", Len(s), s)

\* Mutant of Around: a full buffer is not seen as one that wraps around.
NotAround(b, p) == p <= b.writePos

Around(b, p) == p < b.writePos

\* The places that peek() looks at from p on, in their order: to the write
\* position, or to the end and then from the beginning.
Visited(b, p) ==
  IF Around(b, p) THEN [i \in 1 .. (b.writePos - p) |-> p + i - 1]
    ELSE [i \in 1 .. (b.size - p + b.writePos) |-> Wrap(b, p, i - 1)]

\* How many of them: until the value, or maxlen and one more, for the limit is
\* tested after an element has been counted.
Scanned(b, p, v, maxlen) ==
  LET places == Visited(b, p)
      most   == Least(maxlen + 1, Len(places))
      at     == {i \in 1 .. most : b.data[places[i]] = v}
  IN IF at = {} THEN most ELSE CHOOSE i \in at : \A j \in at : i <= j

\* the buffer after peek(): not changed if it is empty
Peeked(b, v, maxlen, resetPeek) ==
  LET p      == IF resetPeek THEN b.readPos ELSE b.peekPos
      places == Visited(b, p)
      count  == Scanned(b, p, v, maxlen)
      stays  == count > maxlen \/ (count > 0 /\ b.data[places[count]] = v)
  IN IF b.avail = 0 THEN b
       ELSE [b EXCEPT !.peekPos = IF stays THEN places[count] ELSE b.writePos,
                      !.peekAvail = (@ - count) % Word]

\* peek(v, maxlen, found, resetPeek)
Peek(v, maxlen, resetPeek) ==
  /\ ring' = Peeked(ring, v, maxlen, resetPeek)
  /\ UNCHANGED last

\* Two peek()s from the read position take _peekAvail below 0, and then any n
\* passes the check: the caller is one that never asks for more than the size.
AdvancePeekPos(n) ==
  /\ n <= ring.peekAvail /\ n <= ring.size
  /\ ring' = [ring EXCEPT !.peekPos = Wrap(ring, @, n), !.peekAvail = @ - n]
  /\ UNCHANGED last

ResetPeekPos ==
  /\ ring' = [ring EXCEPT !.peekPos = ring.readPos, !.peekAvail = ring.avail]
  /\ UNCHANGED last

\* Connection::readLine() of at most maxlen: peek(), then what it counted, in up
\* to two blocks
ReadLine(v, maxlen) ==
  LET b   == Peeked(ring, v, maxlen, TRUE)
      len == IF b.avail = 0 THEN 0 ELSE Scanned(b, b.readPos, v, maxlen)
      n1  == IF len > ReadExtent(b) THEN ReadExtent(b) ELSE 0
      b1  == AdvanceReadPos(b, n1)
  IN /\ ring' = AdvanceReadPos(b1, len - n1)
     /\ last' = Called("line", maxlen, From(b, b.readPos, n1) \o From(b1, b1.readPos, len - n1))

Arrays == UNION {[1 .. n -> Elements] : n \in 0 .. MaxCount}

Next ==
  \/ Clear \/ TakeExtent \/ ResetPeekPos
  \/ \E n \in Sizes : SetSize(n)
  \/ \E s \in Arrays : Write(s) \/ PutExtent(s) \/ \E n \in 0 .. MaxCount : WriteStream(s, n)
  \/ \E n \in 0 .. MaxCount : Read(n) \/ ReadStream(n) \/ AdvancePeekPos(n)
  \/ \E v \in Elements, n \in 0 .. MaxCount :
       \/ Fill(v, n) \/ ReadLine(v, n)
       \/ \E resetPeek \in BOOLEAN : Peek(v, n, resetPeek)

Spec == Init /\ [][Next]_vars

-----------------------------------------------------------------------------
(* Properties                                                              *)

Buffers(n) == [data : [0 .. (n - 1) -> Elements], size : {n}, readPos : 0 .. (n - 1),
               writePos : 0 .. (n - 1), peekPos : 0 .. (n - 1), avail : 0 .. n,
               peekAvail : 0 .. (Word - 1)]

\* Every member has its type: the three positions are places of the data.
TypeOK ==
  /\ \E n \in Sizes : ring \in Buffers(n)
  /\ last \in [op : {"clear", "put", "take", "line"}, asked : Nat, moved : Seq(Elements)]

\* The two positions and the count, which every operation changes on its own,
\* agree: the write position is where the elements end, so a full buffer and an
\* empty one, whose positions are equal, are told apart by the count alone.
PositionsAgree == ring.writePos = Wrap(ring, ring.readPos, ring.avail)

contents == [i \in 1 .. ring.avail |-> ring.data[Wrap(ring, ring.readPos, i - 1)]]

Sequence == INSTANCE BoundedSequence WITH size <- ring.size

\* Whatever operations are mixed, and wherever the ring wraps around: elements
\* come out once, in the order they went in, none is overwritten, and as many are
\* moved as fit or as there are.  readLine(maxLen) takes a line and nothing after
\* it; without an end of line within maxLen + 1 elements it takes maxLen + 1, one
\* more than it was asked for, which is what peek() does and not what is documented.
IsBoundedSequence == Sequence!Spec
=============================================================================
