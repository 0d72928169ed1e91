--------------------------- MODULE BoundedSequence ---------------------------
(***************************************************************************)
(* What a CircularBuffer promises: a sequence of at most `size' elements.  *)
(* Elements are put at its end, as many of those asked for as fit, and     *)
(* taken from its front, as many as there are.  `last' tells of the last   *)
(* call: what it was to do, with how many elements, and those it moved.    *)
(***************************************************************************)
EXTENDS Naturals, Sequences

CONSTANTS Elements, Sizes

VARIABLES size, contents, last

Least(m, n) == IF m <= n THEN m ELSE n

Called(op, asked, moved) == [op |-> op, asked |-> asked, moved |-> moved]

Init == size \in Sizes /\ contents = << >> /\ last = Called("clear", 0, << >>)

Clear == size' \in Sizes /\ contents' = << >> /\ last' = Called("clear", 0, << >>)

Put == /\ last' = Called("put", last'.asked, last'.moved)
       /\ last'.asked \in Nat /\ last'.moved \in Seq(Elements)
       /\ Len(last'.moved) = Least(last'.asked, size - Len(contents))
       /\ contents' = contents \o last'.moved
       /\ UNCHANGED size

TakeSome(op, n) == /\ last' = Called(op, last'.asked, SubSeq(contents, 1, n))
                   /\ last'.asked \in Nat
                   /\ contents' = SubSeq(contents, n + 1, Len(contents))
                   /\ UNCHANGED size

Take == TakeSome("take", Least(last'.asked, Len(contents)))

\* Takes everything through the first v.  The search is given up late, after one
\* more than was asked for.
TakeThrough(v) ==
  LET most   == Least(last'.asked + 1, Len(contents))
      places == {i \in 1 .. most : contents[i] = v}
  IN \/ places = {} /\ TakeSome("line", most)
     \/ \E k \in places : (\A i \in places : k <= i) /\ TakeSome("line", k)

Next == Clear \/ Put \/ Take \/ \E v \in Elements : TakeThrough(v)

Spec == Init /\ [][Next]_<<size, contents, last>>
=============================================================================
