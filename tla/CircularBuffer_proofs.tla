------------------------ MODULE CircularBuffer_proofs ------------------------
(***************************************************************************)
(* Proofs about CircularBuffer for buffers of any size: the positions      *)
(* agree, and the ring is a bounded sequence.  Each operation is put       *)
(* together from blocks that do not wrap around, and a block that is put   *)
(* down or taken is a piece of the sequence.                               *)
(***************************************************************************)
EXTENDS CircularBuffer, SequenceTheorems, WellFoundedInduction, TLAPS

\* What the ring holds, in order
Content(b) == [i \in 1 .. b.avail |-> b.data[Wrap(b, b.readPos, i - 1)]]

\* The place k steps behind place p of n
At(n, p, k) == IF p + k >= n THEN p + k - n ELSE p + k

\* A buffer of size n whose positions agree
Sound(b, n) == b \in Buffers(n) /\ b.writePos = Wrap(b, b.readPos, b.avail)

\* Sizes and the values of a size_t
LEMMA SizesAreSmall == \A n \in Sizes : n \in Nat \ {0} /\ n < Word /\ Word \in Nat \ {0}
BY BufferAssumption DEF BufferAssumption

\* A number modulo w is below w, and one below w stays as it is.
LEMMA Modulo ==
  ASSUME NEW w \in Nat \ {0}
  PROVE  /\ \A x \in Int : x % w \in 0 .. (w - 1)
         /\ \A x \in 0 .. (w - 1) : x % w = x
<1>1. \A x \in Int : x % w \in 0 .. (w - 1)
  OBVIOUS
<1>2. \A x \in 0 .. (w - 1) : x % w = x
  OBVIOUS
<1> QED
  BY <1>1, <1>2

\* The members of a buffer of size n whose positions agree
LEMMA Fields ==
  ASSUME NEW n \in Sizes, NEW b, Sound(b, n)
  PROVE  /\ n \in Nat \ {0} /\ n < Word /\ Word \in Nat \ {0} /\ n \in Nat /\ Word \in Nat
         /\ b.size = n /\ b.data \in [0 .. (n - 1) -> Elements]
         /\ b.readPos \in 0 .. (n - 1) /\ b.writePos \in 0 .. (n - 1)
         /\ b.peekPos \in 0 .. (n - 1)
         /\ b.avail \in 0 .. n /\ b.peekAvail \in 0 .. (Word - 1)
         /\ b.writePos = At(n, b.readPos, b.avail)
<1>1. n \in Nat \ {0} /\ n < Word /\ Word \in Nat \ {0}
  BY SizesAreSmall
<1>2. b \in Buffers(n) /\ b.writePos = Wrap(b, b.readPos, b.avail)
  BY DEF Sound
<1>3. /\ b.size = n /\ b.data \in [0 .. (n - 1) -> Elements]
      /\ b.readPos \in 0 .. (n - 1) /\ b.writePos \in 0 .. (n - 1)
      /\ b.peekPos \in 0 .. (n - 1)
      /\ b.avail \in 0 .. n /\ b.peekAvail \in 0 .. (Word - 1)
  BY <1>2 DEF Buffers
<1>4. b.writePos = At(n, b.readPos, b.avail)
  BY <1>2, <1>3 DEF Wrap, At
<1> QED
  BY <1>1, <1>3, <1>4

\* Wrap() in a buffer of size n
LEMMA WrapIs ==
  ASSUME NEW n, NEW b, b.size = n
  PROVE  \A p, k : Wrap(b, p, k) = At(n, p, k)
BY DEF Wrap, At

\* No place but those of the ring, and none twice in one turn
LEMMA AtIsPlace ==
  ASSUME NEW n \in Nat \ {0}, NEW p \in 0 .. (n - 1)
  PROVE  /\ \A k \in 0 .. n : At(n, p, k) \in 0 .. (n - 1)
         /\ \A j, k \in Nat : j + k <= n => At(n, At(n, p, j), k) = At(n, p, j + k)
         /\ \A k \in Nat : p + k < n => At(n, p, k) = p + k
<1>1. \A k \in 0 .. n : At(n, p, k) \in 0 .. (n - 1)
  BY DEF At
<1>2. ASSUME NEW j \in Nat, NEW k \in Nat, j + k <= n
      PROVE  At(n, At(n, p, j), k) = At(n, p, j + k)
  <2>1. CASE p + j >= n
    BY <1>2, <2>1 DEF At
  <2>2. CASE p + j < n
    BY <1>2, <2>2 DEF At
  <2> QED
    BY <2>1, <2>2
<1> QED
  BY <1>1, <1>2 DEF At

-----------------------------------------------------------------------------
(* Blocks                                                                  *)

\* The contents are a sequence, whose i-th element is i places behind.
LEMMA ContentIsSeq ==
  ASSUME NEW n \in Sizes, NEW b, Sound(b, n)
  PROVE  /\ Content(b) \in Seq(Elements) /\ Len(Content(b)) = b.avail
         /\ \A i \in 1 .. b.avail : Content(b)[i] = b.data[At(n, b.readPos, i - 1)]
<1> DEFINE m == b.avail
           p == b.readPos
           f == [i \in 1 .. m |-> b.data[At(n, p, i - 1)]]
<1>0. /\ n \in Nat \ {0} /\ b.size = n /\ m \in 0 .. n /\ p \in 0 .. (n - 1)
      /\ b.data \in [0 .. (n - 1) -> Elements]
  BY Fields
<1>1. Content(b) = f
  BY <1>0, WrapIs DEF Content
<1> HIDE DEF m, p
<1>2. ASSUME NEW i \in 1 .. m
      PROVE  At(n, p, i - 1) \in 0 .. (n - 1)
  <2>1. i - 1 \in 0 .. n
    BY <1>0
  <2> QED
    BY <1>0, <2>1, AtIsPlace
<1>3. m \in Nat /\ \A i \in 1 .. m : b.data[At(n, p, i - 1)] \in Elements
  BY <1>0, <1>2
<1>4. f \in Seq(Elements) /\ Len(f) = m
  BY <1>3
<1> QED
  BY <1>1, <1>4 DEF m, p

\* A sequence behind another
LEMMA Behind ==
  ASSUME NEW S, NEW s \in Seq(S), NEW t \in Seq(S)
  PROVE  /\ s \o t \in Seq(S) /\ Len(s \o t) = Len(s) + Len(t)
         /\ \A i \in 1 .. (Len(s) + Len(t)) : 
              (s \o t)[i] = IF i <= Len(s) THEN s[i] ELSE t[i - Len(s)]
OBVIOUS

\* Elements behind the last one are at the end of the sequence.
LEMMA Grown ==
  ASSUME NEW n \in Sizes, NEW b, Sound(b, n), NEW c, Sound(c, n), NEW s \in Seq(Elements),
         c.readPos = b.readPos, c.avail = b.avail + Len(s),
         \A i \in 1 .. b.avail :
            c.data[At(n, b.readPos, i - 1)] = b.data[At(n, b.readPos, i - 1)],
         \A i \in 1 .. Len(s) : c.data[At(n, b.writePos, i - 1)] = s[i]
  PROVE  Content(c) = Content(b) \o s
<1> DEFINE m == b.avail
           k == Len(s)
           p == b.readPos
<1>0. /\ m \in Nat /\ k \in Nat /\ m + k <= n /\ n \in Nat \ {0} /\ p \in 0 .. (n - 1)
      /\ b.writePos = At(n, p, m)
  <2>1. k \in Nat
    OBVIOUS
  <2>2. /\ n \in Nat \ {0} /\ m \in 0 .. n /\ c.avail \in 0 .. n /\ c.avail = m + k
        /\ p \in 0 .. (n - 1) /\ b.writePos = At(n, p, m)
    BY Fields
  <2> QED
    BY <2>1, <2>2
<1>1. /\ Content(b) \in Seq(Elements) /\ Len(Content(b)) = m
      /\ \A i \in 1 .. m : Content(b)[i] = b.data[At(n, p, i - 1)]
  BY ContentIsSeq
<1>2. /\ Content(c) \in Seq(Elements) /\ Len(Content(c)) = m + k
      /\ \A i \in 1 .. (m + k) : Content(c)[i] = c.data[At(n, p, i - 1)]
  BY ContentIsSeq
<1>3. /\ \A i \in 1 .. m : c.data[At(n, p, i - 1)] = b.data[At(n, p, i - 1)]
      /\ \A i \in 1 .. k : c.data[At(n, At(n, p, m), i - 1)] = s[i]
  BY <1>0
<1> HIDE DEF m, k, p
<1>4. /\ Content(b) \o s \in Seq(Elements) /\ Len(Content(b) \o s) = m + k
      /\ \A i \in 1 .. (m + k) : (Content(b) \o s)[i] = IF i <= m THEN Content(b)[i] ELSE s[i - m]
  BY <1>1, Behind DEF k
<1>5. ASSUME NEW i \in 1 .. (m + k)
      PROVE  Content(c)[i] = (Content(b) \o s)[i]
  <2>1. CASE i <= m
    <3>1. i \in 1 .. m
      BY <1>0, <2>1
    <3>2. Content(c)[i] = Content(b)[i]
      BY <1>1, <1>2, <1>3, <3>1
    <3> QED
      BY <1>4, <2>1, <3>2
  <2>2. CASE i > m
    <3>1. /\ i - m \in 1 .. k /\ (i - m) - 1 \in Nat /\ m + ((i - m) - 1) <= n
          /\ m + ((i - m) - 1) = i - 1 /\ ~(i <= m)
      BY <1>0, <2>2
    <3>2. At(n, At(n, p, m), (i - m) - 1) = At(n, p, i - 1)
      BY <1>0, <3>1, AtIsPlace
    <3>3. Content(c)[i] = s[i - m]
      BY <1>2, <1>3, <3>1, <3>2
    <3> QED
      BY <1>4, <3>1, <3>3
  <2>3. i <= m \/ i > m
    BY <1>0
  <2> QED
    BY <2>1, <2>2, <2>3
<1> QED
  BY <1>2, <1>4, <1>5, SeqEqual

\* memcpy() changes the places of the block.
LEMMA CopyBlock ==
  ASSUME NEW n \in Sizes, NEW b \in Buffers(n), NEW s \in Seq(Elements),
         NEW p \in 0 .. (n - 1)
  PROVE  LET c == Copy(b, p, s) IN
         /\ c \in Buffers(n)
         /\ c.size = b.size /\ c.readPos = b.readPos /\ c.writePos = b.writePos
         /\ c.peekPos = b.peekPos /\ c.avail = b.avail /\ c.peekAvail = b.peekAvail
         /\ \A i \in 0 .. (n - 1) : c.data[i] = IF i \in p .. (p + Len(s) - 1)
                                                  THEN s[i - p + 1] ELSE b.data[i]
<1> DEFINE c == Copy(b, p, s)
           d == [i \in 0 .. (n - 1) |-> IF i \in p .. (p + Len(s) - 1) THEN s[i - p + 1] ELSE b.data[i]]
<1>0. b.data \in [0 .. (n - 1) -> Elements] /\ n \in Nat \ {0}
  BY SizesAreSmall DEF Buffers
<1>1. c = [b EXCEPT !.data = d]
  BY <1>0 DEF Copy
<1>2. d \in [0 .. (n - 1) -> Elements]
  <2>1. ASSUME NEW i \in 0 .. (n - 1)
        PROVE  (IF i \in p .. (p + Len(s) - 1) THEN s[i - p + 1] ELSE b.data[i]) \in Elements
    <3>1. i \in p .. (p + Len(s) - 1) => i - p + 1 \in 1 .. Len(s)
      BY <1>0
    <3>2. b.data[i] \in Elements
      BY <1>0
    <3> QED
      BY <3>1, <3>2
  <2> QED
    BY <2>1
<1>3. \A i \in 0 .. (n - 1) : d[i] = IF i \in p .. (p + Len(s) - 1) THEN s[i - p + 1] ELSE b.data[i]
  OBVIOUS
<1> HIDE DEF d
<1>4. c \in Buffers(n) /\ c.data = d
  BY <1>1, <1>2 DEF Buffers
<1>5. /\ c.size = b.size /\ c.readPos = b.readPos /\ c.writePos = b.writePos
      /\ c.peekPos = b.peekPos /\ c.avail = b.avail /\ c.peekAvail = b.peekAvail
  BY <1>1 DEF Buffers
<1> QED
  BY <1>3, <1>4, <1>5

\* advanceWritePos() over n places at most
LEMMA AdvanceWrite ==
  ASSUME NEW n \in Sizes, NEW b, Sound(b, n), NEW k \in Nat, b.avail + k <= n
  PROVE  LET c == AdvanceWritePos(b, k) IN
         /\ Sound(c, n)
         /\ c.data = b.data /\ c.readPos = b.readPos /\ c.avail = b.avail + k
         /\ c.writePos = At(n, b.writePos, k)
<1> DEFINE c == AdvanceWritePos(b, k)
           w == At(n, b.writePos, k)
           a == b.avail + k
           q == (b.peekAvail + k) % Word
<1>0. /\ n \in Nat \ {0} /\ Word \in Nat \ {0} /\ b.size = n
      /\ b.readPos \in 0 .. (n - 1) /\ b.writePos \in 0 .. (n - 1)
      /\ b.avail \in 0 .. n /\ b.peekAvail \in 0 .. (Word - 1)
      /\ b.writePos = At(n, b.readPos, b.avail)
  BY Fields
<1>1. k <= Free(b) /\ Wrap(b, b.writePos, k) = w
  BY <1>0, WrapIs DEF Free
<1>2. c = [b EXCEPT !.writePos = w, !.avail = a, !.peekAvail = q]
  BY <1>1 DEF AdvanceWritePos
<1>3. q \in 0 .. (Word - 1)
  <2>1. b.peekAvail + k \in Int
    BY <1>0
  <2> QED
    BY <1>0, <2>1, Modulo
<1>4. w \in 0 .. (n - 1) /\ a \in 0 .. n /\ w = At(n, b.readPos, a)
  <2>1. a \in 0 .. n /\ k \in 0 .. n /\ b.avail \in Nat
    BY <1>0
  <2>2. w \in 0 .. (n - 1)
    BY <1>0, <2>1, AtIsPlace
  <2>3. At(n, At(n, b.readPos, b.avail), k) = At(n, b.readPos, b.avail + k)
    BY <1>0, <2>1 DEF At
  <2> QED
    BY <1>0, <2>1, <2>2, <2>3
<1> HIDE DEF w, a, q
<1>5. /\ c \in Buffers(n) /\ c.data = b.data /\ c.readPos = b.readPos /\ c.avail = a
      /\ c.writePos = w /\ c.size = n
  BY <1>0, <1>2, <1>3, <1>4 DEF Sound, Buffers
<1> HIDE DEF c
<1>6. c.writePos = Wrap(c, c.readPos, c.avail)
  BY <1>4, <1>5, WrapIs
<1> QED
  BY <1>5, <1>6 DEF Sound, c, w, a

\* The same Buffer, with other data: the positions agree as before.
LEMMA OtherData ==
  ASSUME NEW n \in Sizes, NEW b, Sound(b, n), NEW d \in Buffers(n),
         d.readPos = b.readPos, d.writePos = b.writePos, d.avail = b.avail
  PROVE  Sound(d, n)
<1>1. b.size = n /\ d.size = n /\ b.writePos = Wrap(b, b.readPos, b.avail)
  BY Fields DEF Sound, Buffers
<1>2. d.writePos = Wrap(d, d.readPos, d.avail)
  BY <1>1, WrapIs
<1> QED
  BY <1>2 DEF Sound

\* A block put down at the write position, where it does not wrap around
LEMMA PutBlock ==
  ASSUME NEW n \in Sizes, NEW b, Sound(b, n), NEW s \in Seq(Elements),
         b.avail + Len(s) <= n, b.writePos + Len(s) <= n
  PROVE  LET c == AdvanceWritePos(Copy(b, b.writePos, s), Len(s)) IN
         /\ Sound(c, n) /\ Content(c) = Content(b) \o s
         /\ c.readPos = b.readPos /\ c.avail = b.avail + Len(s)
         /\ c.writePos = At(n, b.writePos, Len(s))
<1> DEFINE d == Copy(b, b.writePos, s)
           c == AdvanceWritePos(d, Len(s))
           k == Len(s)
           w == b.writePos
           p == b.readPos
           m == b.avail
<1>0. /\ n \in Nat \ {0} /\ m \in 0 .. n
      /\ p \in 0 .. (n - 1) /\ w \in 0 .. (n - 1) /\ w = At(n, p, m)
  BY Fields
<1>0a. k \in Nat /\ m + k <= n /\ w + k <= n
  OBVIOUS
<1>1. /\ d \in Buffers(n) /\ d.readPos = p /\ d.writePos = w /\ d.avail = m
      /\ \A i \in 0 .. (n - 1) : d.data[i] = IF i \in w .. (w + k - 1)
                                               THEN s[i - w + 1] ELSE b.data[i]
  BY <1>0, CopyBlock, SMTT(60) DEF Sound
<1>2. Sound(d, n)
  BY <1>1, OtherData
<1> HIDE DEF d
<1>3. /\ Sound(c, n) /\ c.data = d.data /\ c.readPos = p /\ c.avail = m + k
      /\ c.writePos = At(n, w, k)
  BY <1>0a, <1>1, <1>2, AdvanceWrite
<1> HIDE DEF c, k, w, p, m
<1>4. ASSUME NEW i \in 1 .. m
      PROVE  c.data[At(n, p, i - 1)] = b.data[At(n, p, i - 1)]
  <2>1. At(n, p, i - 1) \in 0 .. (n - 1) /\ At(n, p, i - 1) \notin w .. (w + k - 1)
    BY <1>0, <1>0a DEF At
  <2> QED
    BY <1>1, <1>3, <2>1
<1>5. ASSUME NEW i \in 1 .. k
      PROVE  c.data[At(n, w, i - 1)] = s[i]
  <2>1. /\ At(n, w, i - 1) = w + i - 1
        /\ w + i - 1 \in w .. (w + k - 1)
        /\ w + i - 1 \in 0 .. (n - 1)
        /\ (w + i - 1) - w + 1 = i
    BY <1>0, <1>0a DEF At
  <2> QED
    BY <1>1, <1>3, <2>1
<1>6. Content(c) = Content(b) \o s
  BY <1>3, <1>4, <1>5, Grown, ZenonT(120) DEF k, w, p, m
<1> QED
  BY <1>3, <1>6 DEF c, d, k, w, p, m

\* advanceReadPos() over the elements that are there, and what they are
LEMMA TakeBlock ==
  ASSUME NEW n \in Sizes, NEW b, Sound(b, n), NEW k \in Nat, k <= b.avail
  PROVE  LET c == AdvanceReadPos(b, k) IN
         /\ Sound(c, n) /\ Content(c) = SubSeq(Content(b), k + 1, b.avail)
         /\ c.readPos = At(n, b.readPos, k) /\ c.avail = b.avail - k
         /\ c.writePos = b.writePos /\ c.data = b.data
<1> DEFINE c == AdvanceReadPos(b, k)
           m == b.avail
           p == b.readPos
           r == At(n, p, k)
           over == b.peekAvail > m - k
<1>0. /\ n \in Nat \ {0} /\ m \in 0 .. n /\ b.size = n /\ Word \in Nat \ {0} /\ n < Word
      /\ p \in 0 .. (n - 1) /\ b.writePos \in 0 .. (n - 1) /\ b.writePos = At(n, p, m)
  BY Fields
<1>0a. Wrap(b, b.readPos, k) = r /\ k <= m
  BY <1>0, WrapIs
<1>1. c = [b EXCEPT !.readPos = r, !.avail = m - k,
                    !.peekAvail = IF over THEN m - k ELSE @,
                    !.peekPos = IF over THEN r ELSE @]
  BY <1>0a DEF AdvanceReadPos
<1>2. r \in 0 .. (n - 1) /\ m - k \in 0 .. n /\ m - k \in 0 .. (Word - 1)
  <2>1. k \in 0 .. n /\ m - k \in 0 .. n /\ m - k \in 0 .. (Word - 1)
    BY <1>0, <1>0a
  <2> QED
    BY <1>0, <2>1, AtIsPlace
<1> HIDE DEF r, over
<1>3. /\ c \in Buffers(n) /\ c.data = b.data /\ c.writePos = b.writePos /\ c.size = n
      /\ c.readPos = r /\ c.avail = m - k
  BY <1>0, <1>1, <1>2 DEF Sound, Buffers
<1> HIDE DEF c, m, p
<1>4. b.writePos = At(n, r, m - k)
  <2>1. m - k \in Nat /\ k + (m - k) = m /\ m <= n
    BY <1>0, <1>0a DEF m
  <2> QED
    BY <1>0, <2>1, AtIsPlace DEF r
<1>5. Sound(c, n)
  BY <1>3, <1>4, WrapIs DEF Sound
<1>6. /\ Content(b) \in Seq(Elements) /\ Len(Content(b)) = m
      /\ \A i \in 1 .. m : Content(b)[i] = b.data[At(n, p, i - 1)]
  BY ContentIsSeq DEF m, p
<1>7. /\ Content(c) \in Seq(Elements) /\ Len(Content(c)) = m - k
      /\ \A i \in 1 .. (m - k) : Content(c)[i] = b.data[At(n, r, i - 1)]
  BY <1>3, <1>5, ContentIsSeq
<1> DEFINE t == SubSeq(Content(b), k + 1, m)
<1>8. t \in Seq(Elements) /\ Len(t) = m - k /\ \A i \in 1 .. (m - k) : t[i] = Content(b)[k + i]
  BY <1>0, <1>0a, <1>6
<1>9. ASSUME NEW i \in 1 .. (m - k)
      PROVE  Content(c)[i] = t[i]
  <2>1. k + i \in 1 .. m /\ i - 1 \in Nat /\ k + (i - 1) <= n /\ k + (i - 1) = (k + i) - 1
    BY <1>0, <1>0a
  <2>2. At(n, r, i - 1) = At(n, p, (k + i) - 1)
    BY <1>0, <2>1, AtIsPlace DEF r
  <2> QED
    BY <1>6, <1>7, <1>8, <2>1, <2>2
<1> HIDE DEF t
<1>10. Content(c) = t
  BY <1>7, <1>8, <1>9, SeqEqual
<1> QED
  BY <1>3, <1>5, <1>10 DEF c, t, m, p, r

\* The elements from the read position on, where they do not wrap around
LEMMA BlockIsFront ==
  ASSUME NEW n \in Sizes, NEW b, Sound(b, n), NEW k \in Nat, k <= b.avail, b.readPos + k <= n
  PROVE  From(b, b.readPos, k) = SubSeq(Content(b), 1, k)
<1> DEFINE p == b.readPos
           m == b.avail
           f == From(b, p, k)
           t == SubSeq(Content(b), 1, k)
<1>0. /\ n \in Nat \ {0} /\ m \in 0 .. n /\ p \in 0 .. (n - 1)
      /\ b.data \in [0 .. (n - 1) -> Elements]
  BY Fields
<1>1. /\ Content(b) \in Seq(Elements) /\ Len(Content(b)) = m
      /\ \A i \in 1 .. m : Content(b)[i] = b.data[At(n, p, i - 1)]
  BY ContentIsSeq
<1>2. ASSUME NEW i \in 1 .. k
      PROVE  /\ i \in 1 .. m /\ At(n, p, i - 1) = p + i - 1 /\ p + i - 1 \in 0 .. (n - 1)
  BY <1>0 DEF At
<1>3. \A i \in 1 .. k : b.data[p + i - 1] \in Elements
  BY <1>0, <1>2
<1>4. f \in Seq(Elements) /\ Len(f) = k /\ \A i \in 1 .. k : f[i] = b.data[p + i - 1]
  BY <1>3 DEF From
<1>5. t \in Seq(Elements) /\ Len(t) = k /\ \A i \in 1 .. k : t[i] = Content(b)[i]
  BY <1>0, <1>1
<1> HIDE DEF f, t
<1>6. \A i \in 1 .. k : f[i] = t[i]
  BY <1>1, <1>2, <1>4, <1>5
<1>7. f = t
  BY <1>4, <1>5, <1>6, SeqEqual
<1> QED
  BY <1>7 DEF f, t

-----------------------------------------------------------------------------
(* Two blocks                                                              *)

\* Pieces of a sequence
LEMMA Pieces ==
  ASSUME NEW S, NEW s \in Seq(S), NEW j \in Nat, NEW k \in Nat, j + k <= Len(s)
  PROVE  /\ SubSeq(s, 1, j) \in Seq(S) /\ Len(SubSeq(s, 1, j)) = j
         /\ \A i \in 1 .. j : SubSeq(s, 1, j)[i] = s[i]
         /\ SubSeq(s, j + 1, j + k) \in Seq(S) /\ Len(SubSeq(s, j + 1, j + k)) = k
         /\ \A i \in 1 .. k : SubSeq(s, j + 1, j + k)[i] = s[j + i]
<1>1. \A i \in 1 .. j : s[i] \in S
  OBVIOUS
<1>2. \A i \in (j + 1) .. (j + k) : s[i] \in S
  OBVIOUS
<1>3. /\ SubSeq(s, 1, j) \in Seq(S) /\ Len(SubSeq(s, 1, j)) = j
      /\ \A i \in 1 .. j : SubSeq(s, 1, j)[i] = s[i]
  BY <1>1
<1>4. SubSeq(s, j + 1, j + k) \in Seq(S) /\ Len(SubSeq(s, j + 1, j + k)) = k
  BY <1>2
<1>5. \A i \in 1 .. k : SubSeq(s, j + 1, j + k)[i] = s[j + i]
  OBVIOUS
<1> QED
  BY <1>3, <1>4, <1>5

\* Two pieces that meet
LEMMA Joined ==
  ASSUME NEW S, NEW s \in Seq(S), NEW j \in Nat, NEW k \in Nat, j + k <= Len(s)
  PROVE  SubSeq(s, 1, j) \o SubSeq(s, j + 1, j + k) = SubSeq(s, 1, j + k)
<1> DEFINE t == SubSeq(s, 1, j)
           u == SubSeq(s, j + 1, j + k)
           v == SubSeq(s, 1, j + k)
<1>1. /\ t \in Seq(S) /\ Len(t) = j /\ \A i \in 1 .. j : t[i] = s[i]
      /\ u \in Seq(S) /\ Len(u) = k /\ \A i \in 1 .. k : u[i] = s[j + i]
  <2>1. t \in Seq(S) /\ Len(t) = j /\ \A i \in 1 .. j : t[i] = s[i]
    BY Pieces
  <2>2. u \in Seq(S) /\ Len(u) = k /\ \A i \in 1 .. k : u[i] = s[j + i]
    BY Pieces
  <2> HIDE DEF t, u
  <2> QED
    BY <2>1, <2>2
<1>2. v \in Seq(S) /\ Len(v) = j + k /\ \A i \in 1 .. (j + k) : v[i] = s[i]
  OBVIOUS
<1> HIDE DEF t, u, v
<1>3. /\ t \o u \in Seq(S) /\ Len(t \o u) = j + k
      /\ \A i \in 1 .. (j + k) : (t \o u)[i] = IF i <= j THEN t[i] ELSE u[i - j]
  BY <1>1, Behind, ZenonT(60)
<1>4. ASSUME NEW i \in 1 .. (j + k)
      PROVE  (t \o u)[i] = v[i]
  <2>1. CASE i <= j
    <3>1. i \in 1 .. j
      BY <2>1
    <3>2. t[i] = s[i]
      BY <1>1, <3>1
    <3> QED
      BY <1>2, <1>3, <2>1, <3>2
  <2>2. CASE i > j
    <3>1. i - j \in 1 .. k /\ ~(i <= j) /\ j + (i - j) = i
      BY <2>2
    <3>2. u[i - j] = s[j + (i - j)]
      BY <1>1, <3>1
    <3> QED
      BY <1>2, <1>3, <3>1, <3>2
  <2>3. i <= j \/ i > j
    OBVIOUS
  <2> QED
    BY <2>1, <2>2, <2>3
<1>5. t \o u = v
  BY <1>2, <1>3, <1>4, SeqEqual
<1> QED
  BY <1>5 DEF t, u, v

\* Pieces of what is behind the first j elements
LEMMA PiecesBehind ==
  ASSUME NEW S, NEW s \in Seq(S), NEW j \in Nat, NEW k \in Nat, j + k <= Len(s)
  PROVE  LET t == SubSeq(s, j + 1, Len(s)) IN
         /\ SubSeq(t, 1, k) = SubSeq(s, j + 1, j + k)
         /\ SubSeq(t, k + 1, Len(s) - j) = SubSeq(s, j + k + 1, Len(s))
<1> DEFINE m == Len(s)
           t == SubSeq(s, j + 1, m)
           u == SubSeq(t, 1, k)
           v == SubSeq(t, k + 1, m - j)
           x == SubSeq(s, j + 1, j + k)
           y == SubSeq(s, j + k + 1, m)
<1>0. m \in Nat /\ j + k <= m
  OBVIOUS
<1>1. t \in Seq(S) /\ Len(t) = m - j /\ \A i \in 1 .. (m - j) : t[i] = s[j + i]
  OBVIOUS
<1>2. x \in Seq(S) /\ Len(x) = k /\ \A i \in 1 .. k : x[i] = s[j + i]
  OBVIOUS
<1>3. /\ y \in Seq(S) /\ Len(y) = m - (j + k)
      /\ \A i \in 1 .. (m - (j + k)) : y[i] = s[(j + k) + i]
  OBVIOUS
<1> HIDE DEF t, x, y, m
<1>4. u \in Seq(S) /\ Len(u) = k /\ \A i \in 1 .. k : u[i] = t[i]
  BY <1>0, <1>1
<1>5. /\ v \in Seq(S) /\ Len(v) = m - (j + k)
      /\ \A i \in 1 .. (m - (j + k)) : v[i] = t[k + i]
  BY <1>0, <1>1
<1> HIDE DEF u, v
<1>6. \A i \in 1 .. k : u[i] = x[i]
  BY <1>0, <1>1, <1>2, <1>4
<1>7. ASSUME NEW i \in 1 .. (m - (j + k))
      PROVE  v[i] = y[i]
  <2>1. k + i \in 1 .. (m - j) /\ j + (k + i) = (j + k) + i
    BY <1>0
  <2>2. v[i] = t[k + i]
    BY <1>5
  <2>3. t[k + i] = s[(j + k) + i]
    BY <1>1, <2>1
  <2>4. y[i] = s[(j + k) + i]
    BY <1>3
  <2> QED
    BY <2>2, <2>3, <2>4
<1>8. u = x /\ v = y
  BY <1>2, <1>3, <1>4, <1>5, <1>6, <1>7, SeqEqual
<1> QED
  BY <1>8 DEF u, v, x, y, t, m

\* Two blocks from the front, of which neither wraps around
LEMMA TakeTwo ==
  ASSUME NEW n \in Sizes, NEW b, Sound(b, n), NEW j \in Nat, NEW k \in Nat,
         j + k <= b.avail, b.readPos + j <= n, At(n, b.readPos, j) + k <= n
  PROVE  LET b1 == AdvanceReadPos(b, j)
             b2 == AdvanceReadPos(b1, k)
         IN /\ Sound(b2, n)
            /\ Content(b2) = SubSeq(Content(b), j + k + 1, b.avail)
            /\ From(b, b.readPos, j) \o From(b1, b1.readPos, k) = SubSeq(Content(b), 1, j + k)
<1> DEFINE b1 == AdvanceReadPos(b, j)
           b2 == AdvanceReadPos(b1, k)
           s  == Content(b)
           m  == b.avail
<1>0. m \in Nat /\ j + k <= m /\ s \in Seq(Elements) /\ Len(s) = m
  BY Fields, ContentIsSeq
<1>1. /\ Sound(b1, n) /\ Content(b1) = SubSeq(s, j + 1, m)
      /\ b1.readPos = At(n, b.readPos, j) /\ b1.avail = m - j
  BY <1>0, TakeBlock
<1> HIDE DEF b1
<1>2. /\ Sound(b2, n)
      /\ Content(b2) = SubSeq(Content(b1), k + 1, m - j)
  <2>1. k <= b1.avail
    BY <1>0, <1>1
  <2> QED
    BY <1>1, <2>1, TakeBlock, ZenonT(60)
<1>3. /\ From(b, b.readPos, j) = SubSeq(s, 1, j)
      /\ From(b1, b1.readPos, k) = SubSeq(Content(b1), 1, k)
  <2>1. j <= b.avail /\ k <= b1.avail /\ b1.readPos + k <= n
    BY <1>0, <1>1
  <2>2. From(b, b.readPos, j) = SubSeq(s, 1, j)
    BY <2>1, BlockIsFront
  <2>3. From(b1, b1.readPos, k) = SubSeq(Content(b1), 1, k)
    BY <1>1, <2>1, BlockIsFront
  <2> QED
    BY <2>2, <2>3
<1> HIDE DEF b2, s, m
<1>4. /\ SubSeq(Content(b1), 1, k) = SubSeq(s, j + 1, j + k)
      /\ SubSeq(Content(b1), k + 1, m - j) = SubSeq(s, j + k + 1, m)
  BY <1>0, <1>1, PiecesBehind
<1>5. SubSeq(s, 1, j) \o SubSeq(s, j + 1, j + k) = SubSeq(s, 1, j + k)
  BY <1>0, Joined
<1> QED
  BY <1>2, <1>3, <1>4, <1>5 DEF b1, b2, s, m

\* Two blocks at the end, of which neither wraps around
LEMMA PutTwo ==
  ASSUME NEW n \in Sizes, NEW b, Sound(b, n), NEW s \in Seq(Elements),
         NEW j \in Nat, NEW k \in Nat, j + k <= Len(s),
         b.avail + (j + k) <= n, b.writePos + j <= n, At(n, b.writePos, j) + k <= n
  PROVE  LET b1 == AdvanceWritePos(Copy(b, b.writePos, SubSeq(s, 1, j)), j)
             b2 == AdvanceWritePos(Copy(b1, b1.writePos, SubSeq(s, j + 1, j + k)), k)
         IN /\ Sound(b2, n) /\ Content(b2) = Content(b) \o SubSeq(s, 1, j + k)
            /\ b1.readPos = b.readPos /\ b1.writePos = At(n, b.writePos, j)
<1> DEFINE t  == SubSeq(s, 1, j)
           u  == SubSeq(s, j + 1, j + k)
           b1 == AdvanceWritePos(Copy(b, b.writePos, t), j)
           b2 == AdvanceWritePos(Copy(b1, b1.writePos, u), k)
           m  == b.avail
<1>0. m \in Nat /\ m + (j + k) <= n /\ n \in Nat /\ Content(b) \in Seq(Elements)
  BY Fields, ContentIsSeq
<1>1. t \in Seq(Elements) /\ Len(t) = j /\ u \in Seq(Elements) /\ Len(u) = k
  BY Pieces, SMTT(60)
<1>2. t \o u = SubSeq(s, 1, j + k)
  BY Joined
<1> HIDE DEF t, u
<1>3. /\ Sound(b1, n) /\ Content(b1) = Content(b) \o t
      /\ b1.readPos = b.readPos /\ b1.avail = m + j /\ b1.writePos = At(n, b.writePos, j)
  <2>1. b.avail + Len(t) <= n /\ b.writePos + Len(t) <= n
    BY <1>0, <1>1
  <2> QED
    BY <1>1, <2>1, PutBlock
<1> HIDE DEF b1
<1>4. Sound(b2, n) /\ Content(b2) = Content(b1) \o u
  <2>1. b1.avail + Len(u) <= n /\ b1.writePos + Len(u) <= n
    BY <1>0, <1>1, <1>3
  <2> QED
    BY <1>1, <1>3, <2>1, PutBlock
<1>5. Content(b2) = Content(b) \o (t \o u)
  <2>1. ASSUME NEW x \in Seq(Elements), NEW y \in Seq(Elements), NEW z \in Seq(Elements)
        PROVE  (x \o y) \o z = x \o (y \o z)
    BY ConcatAssociative, SMTT(30)
  <2>2. (Content(b) \o t) \o u = Content(b) \o (t \o u)
    BY <1>0, <1>1, <2>1, Zenon
  <2> QED
    BY <1>3, <1>4, <2>2
<1> HIDE DEF b2
<1> QED
  BY <1>2, <1>3, <1>4, <1>5 DEF b1, b2, t, u

-----------------------------------------------------------------------------
(* The operations                                                          *)

\* Of a elements asked for, those of t, as many as fit, are put at the end.
Puts(n, a, t) ==
  /\ Sound(ring', n) /\ a \in Nat /\ t \in Seq(Elements)
  /\ Len(t) = Least(a, n - ring.avail)
  /\ Content(ring') = Content(ring) \o t
  /\ last' = Called("put", a, t)

\* k elements, of a asked for, are taken from the front.
Takes(n, op, a, k) ==
  /\ Sound(ring', n) /\ a \in Nat /\ k \in 0 .. ring.avail
  /\ Content(ring') = SubSeq(Content(ring), k + 1, ring.avail)
  /\ last' = Called(op, a, SubSeq(Content(ring), 1, k))

\* write() fills up to the end, then from the beginning to the read position.
LEMMA WritePuts ==
  ASSUME NEW n \in Sizes, Sound(ring, n), NEW s \in Seq(Elements), Write(s)
  PROVE  \E t : Puts(n, Len(s), t)
<1> DEFINE a  == Len(s)
           r  == ring.readPos
           w  == ring.writePos
           m  == ring.avail
           n1 == IF w > r \/ m = 0 THEN Least(a, n - w) ELSE 0
           b1 == AdvanceWritePos(Copy(ring, w, SubSeq(s, 1, n1)), n1)
           n2 == Least(a - n1, (b1.readPos - b1.writePos) % Word)
           b2 == AdvanceWritePos(Copy(b1, b1.writePos, SubSeq(s, n1 + 1, n1 + n2)), n2)
           w1 == At(n, w, n1)
<1>0. /\ n \in Nat \ {0} /\ n < Word /\ Word \in Nat \ {0} /\ ring.size = n
      /\ r \in 0 .. (n - 1) /\ w \in 0 .. (n - 1) /\ m \in 0 .. n /\ w = At(n, r, m)
      /\ a \in Nat
  BY Fields
<1>1. ring' = b2 /\ last' = Called("put", a, SubSeq(s, 1, n1 + n2))
  BY <1>0 DEF Write
<1> HIDE DEF a, r, w, m, b1, b2
<1>2. n1 \in Nat /\ n1 <= a /\ w + n1 <= n /\ m + n1 <= n /\ w1 \in 0 .. (n - 1)
  BY <1>0 DEF Least, At
<1>3. b1.readPos = r /\ b1.writePos = w1
  <2> DEFINE s1 == SubSeq(s, 1, n1)
  <2>1. s1 \in Seq(Elements) /\ Len(s1) = n1
    BY <1>2 DEF a
  <2> HIDE DEF s1
  <2>2. m + Len(s1) <= n /\ w + Len(s1) <= n
    BY <1>2, <2>1
  <2>3. LET c == AdvanceWritePos(Copy(ring, w, s1), Len(s1))
        IN  c.readPos = r /\ c.writePos = At(n, w, Len(s1))
    BY <2>1, <2>2, PutBlock DEF r, w, m
  <2> QED
    BY <2>1, <2>3 DEF b1, s1
<1>4. n1 < a => r - w1 = n - (m + n1)
  BY <1>0 DEF Least, At
<1> HIDE DEF n1, w1
<1>5. (r - w1) % Word \in Nat /\ (r - w1 \in 0 .. n => (r - w1) % Word = r - w1)
  <2>1. r - w1 \in Int /\ (r - w1 \in 0 .. n => r - w1 \in 0 .. (Word - 1))
    BY <1>0, <1>2
  <2>2. (r - w1) % Word \in 0 .. (Word - 1)
    BY <1>0, <2>1, Modulo
  <2>3. r - w1 \in 0 .. (Word - 1) => (r - w1) % Word = r - w1
    BY <1>0, Modulo
  <2> QED
    BY <1>0, <2>1, <2>2, <2>3
<1> DEFINE f == n - (m + n1)
<1>6. n2 = IF n1 < a THEN Least(a - n1, f) ELSE 0
  <2>1. CASE n1 < a
    <3>1. r - w1 = f /\ f \in 0 .. n
      BY <1>0, <1>2, <1>4, <2>1
    <3>2. (b1.readPos - b1.writePos) % Word = f
      BY <1>3, <1>5, <3>1
    <3> QED
      BY <2>1, <3>2
  <2>2. CASE ~(n1 < a)
    BY <1>0, <1>2, <1>3, <1>5, <2>2 DEF Least
  <2> QED
    BY <2>1, <2>2
<1> HIDE DEF n2
<1>7. /\ n2 \in Nat /\ n1 + n2 <= a /\ m + (n1 + n2) <= n /\ w1 + n2 <= n
      /\ n1 + n2 = Least(a, n - m)
  <2>1. CASE n1 < a
    <3>1. n2 = Least(a - n1, f) /\ f \in Nat /\ w1 + f = r /\ m + n1 + f = n
      BY <1>0, <1>2, <1>4, <1>6, <2>1
    <3> HIDE DEF f
    <3>2. n2 \in Nat /\ n2 <= a - n1 /\ n2 <= f /\ (n2 = a - n1 \/ n2 = f)
      BY <1>0, <1>2, <2>1, <3>1 DEF Least
    <3> QED
      BY <1>0, <1>2, <3>1, <3>2 DEF Least
  <2>2. CASE ~(n1 < a)
    BY <1>0, <1>2, <1>6, <2>2 DEF Least
  <2> QED
    BY <2>1, <2>2
<1> DEFINE t == SubSeq(s, 1, n1 + n2)
<1>8. Sound(b2, n) /\ Content(b2) = Content(ring) \o t
  BY <1>2, <1>7, PutTwo DEF a, w, m, b2, b1, w1
<1>9. t \in Seq(Elements) /\ Len(t) = n1 + n2
  BY <1>2, <1>7 DEF a
<1> HIDE DEF t
<1>10. Puts(n, a, t)
  BY <1>0, <1>1, <1>7, <1>8, <1>9 DEF Puts, m, t
<1> QED
  BY <1>10 DEF a

\* read() takes what is there up to the end, then from the beginning on.
LEMMA ReadTakes ==
  ASSUME NEW n \in Sizes, Sound(ring, n), NEW a \in Nat, Read(a)
  PROVE  Takes(n, "take", a, Least(a, ring.avail))
<1> DEFINE r  == ring.readPos
           w  == ring.writePos
           m  == ring.avail
           n1 == IF r > w \/ m = n THEN Least(a, n - r) ELSE 0
           b1 == AdvanceReadPos(ring, n1)
           n2 == Least(a - n1, (b1.writePos - b1.readPos) % Word)
           b2 == AdvanceReadPos(b1, n2)
           r1 == At(n, r, n1)
<1>0. /\ n \in Nat \ {0} /\ n < Word /\ Word \in Nat \ {0} /\ ring.size = n
      /\ r \in 0 .. (n - 1) /\ w \in 0 .. (n - 1) /\ m \in 0 .. n /\ w = At(n, r, m)
  BY Fields
<1>1. ring' = b2 /\ last' = Called("take", a, From(ring, r, n1) \o From(b1, b1.readPos, n2))
  BY <1>0 DEF Read
<1> HIDE DEF r, w, m, b1, b2
<1>2. n1 \in Nat /\ n1 <= a /\ r + n1 <= n /\ n1 <= m /\ r1 \in 0 .. (n - 1)
  BY <1>0 DEF Least, At
<1>3. b1.readPos = r1 /\ b1.writePos = w
  BY <1>2, TakeBlock DEF b1, r, w, m
<1>4. n1 < a => w - r1 = m - n1
  BY <1>0 DEF Least, At
<1> HIDE DEF n1, r1
<1>5. (w - r1) % Word \in Nat /\ (w - r1 \in 0 .. n => (w - r1) % Word = w - r1)
  <2>1. w - r1 \in Int /\ (w - r1 \in 0 .. n => w - r1 \in 0 .. (Word - 1))
    BY <1>0, <1>2
  <2>2. (w - r1) % Word \in 0 .. (Word - 1)
    BY <1>0, <2>1, Modulo
  <2>3. w - r1 \in 0 .. (Word - 1) => (w - r1) % Word = w - r1
    BY <1>0, Modulo
  <2> QED
    BY <1>0, <2>1, <2>2, <2>3
<1> DEFINE f == m - n1
<1>6. n2 = IF n1 < a THEN Least(a - n1, f) ELSE 0
  <2>1. CASE n1 < a
    <3>1. (b1.writePos - b1.readPos) % Word = f
      BY <1>0, <1>2, <1>3, <1>4, <1>5, <2>1
    <3> QED
      BY <2>1, <3>1
  <2>2. CASE ~(n1 < a)
    BY <1>0, <1>2, <1>3, <1>5, <2>2 DEF Least
  <2> QED
    BY <2>1, <2>2
<1> HIDE DEF n2
<1>7. n2 \in Nat /\ n1 + n2 <= m /\ r1 + n2 <= n /\ n1 + n2 = Least(a, m)
  <2>1. CASE n1 < a
    <3>1. n2 = Least(a - n1, f) /\ f = w - r1 /\ w - r1 \in Int
      BY <1>0, <1>2, <1>4, <1>6, <2>1
    <3> QED
      BY <1>0, <1>2, <2>1, <3>1 DEF Least
  <2>2. CASE ~(n1 < a)
    BY <1>0, <1>2, <1>6, <2>2 DEF Least
  <2> QED
    BY <2>1, <2>2
<1>8. /\ Sound(b2, n) /\ Content(b2) = SubSeq(Content(ring), n1 + n2 + 1, m)
      /\ From(ring, r, n1) \o From(b1, b1.readPos, n2) = SubSeq(Content(ring), 1, n1 + n2)
  BY <1>2, <1>7, TakeTwo DEF r, m, b2, b1, r1
<1>9. Least(a, m) \in 0 .. m
  BY <1>0 DEF Least
<1> QED
  BY <1>1, <1>7, <1>8, <1>9 DEF Takes, m

\* write(Stream) puts what came, in the two blocks it gave to readv().
LEMMA WriteStreamPuts ==
  ASSUME NEW n \in Sizes, Sound(ring, n), NEW s \in Seq(Elements), NEW count \in Nat,
         WriteStream(s, count)
  PROVE  \E a, t : Puts(n, a, t)
<1> DEFINE r  == ring.readPos
           p  == ring.writePos
           m  == ring.avail
           want == IF count = 0 \/ count > n - m THEN n - m ELSE count
           n1 == IF p < r THEN Least(want, r - p) ELSE Least(want, n - p)
           n2 == IF p < r THEN 0 ELSE Least(want - n1, r)
           w  == Least(Len(s), n1 + n2)
           k  == Least(w, n1)
           t  == SubSeq(s, 1, k)
           u  == SubSeq(s, k + 1, w)
           d1 == Copy(ring, p, t)
           d2 == Copy(d1, 0, u)
           c  == AdvanceWritePos(d2, w)
<1>0. /\ n \in Nat \ {0} /\ ring.size = n /\ Len(s) \in Nat
      /\ r \in 0 .. (n - 1) /\ p \in 0 .. (n - 1) /\ m \in 0 .. n /\ p = At(n, r, m)
  BY Fields
<1>1. /\ want > 0 /\ w > 0 /\ ring' = c /\ last' = Called("put", w, SubSeq(s, 1, w))
  BY <1>0 DEF WriteStream, Free
<1> HIDE DEF r, p, m, c, d1, d2, t, u
<1>2. want \in Nat /\ want <= n - m
  BY <1>0
<1> HIDE DEF want
<1>3. /\ n1 \in Nat /\ n2 \in Nat /\ n1 + n2 = want
      /\ p + n1 <= n /\ (n2 > 0 => p + n1 = n /\ n2 <= r /\ p >= r)
  BY <1>0, <1>1, <1>2 DEF Least, At
<1> HIDE DEF n1, n2
<1>4. /\ w \in Nat /\ k \in Nat /\ k <= w /\ w <= Len(s) /\ m + w <= n /\ p + k <= n
      /\ w = Least(w, n - m)
      /\ (k < w => p + k = n /\ w - k <= r /\ p >= r)
  BY <1>0, <1>2, <1>3, SMTT(60) DEF Least
<1>5. k < w => \A i \in 1 .. m : At(n, r, i - 1) >= r
  BY <1>0, <1>1, <1>4 DEF At
<1> HIDE DEF w, k
<1>6. /\ t \in Seq(Elements) /\ Len(t) = k /\ \A i \in 1 .. k : t[i] = s[i]
      /\ u \in Seq(Elements) /\ Len(u) = w - k /\ \A i \in 1 .. (w - k) : u[i] = s[k + i]
  <2>1. w - k \in Nat /\ k + (w - k) = w
    BY <1>4
  <2> QED
    BY <1>4, <2>1, Pieces DEF t, u
<1>7. /\ SubSeq(s, 1, w) \in Seq(Elements) /\ Len(SubSeq(s, 1, w)) = w
      /\ \A i \in 1 .. w : SubSeq(s, 1, w)[i] = s[i]
  BY <1>4
<1>8. /\ d1 \in Buffers(n) /\ d1.readPos = r /\ d1.writePos = p /\ d1.avail = m
      /\ \A i \in 0 .. (n - 1) : d1.data[i] = IF i \in p .. (p + k - 1)
                                                THEN t[i - p + 1] ELSE ring.data[i]
  <2>1. ring \in Buffers(n) /\ p \in 0 .. (n - 1) /\ t \in Seq(Elements)
    BY <1>0, <1>6 DEF Sound
  <2>2. /\ d1 \in Buffers(n) /\ d1.readPos = ring.readPos
        /\ d1.writePos = ring.writePos /\ d1.avail = ring.avail
        /\ \A i \in 0 .. (n - 1) : d1.data[i] = IF i \in p .. (p + Len(t) - 1)
                                                  THEN t[i - p + 1] ELSE ring.data[i]
    BY <2>1, CopyBlock DEF d1
  <2> QED
    BY <1>6, <2>2 DEF r, p, m
<1>9. /\ d2 \in Buffers(n) /\ d2.readPos = r /\ d2.writePos = p /\ d2.avail = m
      /\ \A i \in 0 .. (n - 1) : d2.data[i] = IF i \in 0 .. (w - k - 1)
                                                THEN u[i + 1] ELSE d1.data[i]
  <2>1. 0 \in 0 .. (n - 1)
    BY <1>0
  <2>2. /\ d2 \in Buffers(n) /\ d2.readPos = r /\ d2.writePos = p /\ d2.avail = m
        /\ \A i \in 0 .. (n - 1) : d2.data[i] = IF i \in 0 .. (0 + Len(u) - 1)
                                                  THEN u[i - 0 + 1] ELSE d1.data[i]
    BY <1>6, <1>8, <2>1, CopyBlock, SMTT(60) DEF d2
  <2>3. \A i \in 0 .. (n - 1) : i - 0 + 1 = i + 1
    OBVIOUS
  <2>4. 0 + Len(u) - 1 = w - k - 1
    BY <1>4, <1>6
  <2> QED
    BY <2>2, <2>3, <2>4
<1>10. Sound(d2, n)
  BY <1>9, OtherData DEF r, p, m
<1>11. Sound(c, n) /\ c.data = d2.data /\ c.readPos = r /\ c.avail = m + w
  BY <1>4, <1>9, <1>10, AdvanceWrite DEF c
<1>12. ASSUME NEW i \in 1 .. m
       PROVE  c.data[At(n, r, i - 1)] = ring.data[At(n, r, i - 1)]
  <2> DEFINE q == At(n, r, i - 1)
  <2>1. q \in 0 .. (n - 1) /\ q \notin p .. (p + k - 1)
    BY <1>0, <1>4 DEF At
  <2>2. q \notin 0 .. (w - k - 1)
    BY <1>0, <1>4, <1>5, <2>1, SMTT(60)
  <2> HIDE DEF q
  <2>3. c.data[q] = ring.data[q]
    BY <1>8, <1>9, <1>11, <2>1, <2>2
  <2> QED
    BY <2>3 DEF q
<1>13. ASSUME NEW i \in 1 .. w
       PROVE  c.data[At(n, p, i - 1)] = s[i]
  <2>1. CASE i <= k
    <3>1. /\ At(n, p, i - 1) = p + i - 1 /\ p + i - 1 \in 0 .. (n - 1)
          /\ p + i - 1 \in p .. (p + k - 1) /\ p + i - 1 \notin 0 .. (w - k - 1)
          /\ (p + i - 1) - p + 1 = i /\ i \in 1 .. k
      BY <1>0, <1>4, <2>1 DEF At
    <3> QED
      BY <1>6, <1>8, <1>9, <1>11, <3>1, SMTT(60)
  <2>2. CASE ~(i <= k)
    <3>1. /\ At(n, p, i - 1) = i - k - 1 /\ i - k - 1 \in 0 .. (n - 1)
          /\ i - k - 1 \in 0 .. (w - k - 1)
          /\ (i - k - 1) + 1 = i - k /\ i - k \in 1 .. (w - k) /\ k + (i - k) = i
      BY <1>0, <1>4, <2>2 DEF At
    <3>2. c.data[i - k - 1] = u[i - k]
      BY <1>9, <1>11, <3>1
    <3>3. u[i - k] = s[k + (i - k)]
      BY <1>6, <3>1
    <3> QED
      BY <3>1, <3>2, <3>3
  <2> QED
    BY <2>1, <2>2
<1>14. Content(c) = Content(ring) \o SubSeq(s, 1, w)
  <2> DEFINE x == SubSeq(s, 1, w)
  <2>1. \A i \in 1 .. w : c.data[At(n, p, i - 1)] = x[i]
    BY <1>7, <1>13
  <2>2. x \in Seq(Elements) /\ Len(x) = w
    BY <1>7
  <2> HIDE DEF x
  <2>3. /\ c.readPos = ring.readPos /\ c.avail = ring.avail + Len(x)
        /\ \A i \in 1 .. ring.avail :
              c.data[At(n, ring.readPos, i - 1)] = ring.data[At(n, ring.readPos, i - 1)]
        /\ \A i \in 1 .. Len(x) : c.data[At(n, ring.writePos, i - 1)] = x[i]
    BY <1>11, <1>12, <2>1, <2>2 DEF r, p, m
  <2>4. Content(c) = Content(ring) \o x
    BY <1>11, <2>2, <2>3, Grown, ZenonT(120)
  <2> QED
    BY <2>4 DEF x
<1>15. Puts(n, w, SubSeq(s, 1, w))
  BY <1>1, <1>4, <1>7, <1>11, <1>14 DEF Puts, m
<1> QED
  BY <1>15

\* fill() puts the same value down as often as it fits.
LEMMA FillPuts ==
  ASSUME NEW n \in Sizes, Sound(ring, n), NEW v \in Elements, NEW a \in Nat, Fill(v, a)
  PROVE  \E t : Puts(n, a, t)
<1> DEFINE r  == ring.readPos
           p  == ring.writePos
           m  == ring.avail
           k  == Least(a, Free(ring))
           f  == [i \in DOMAIN ring.data |-> IF \E j \in 0 .. (k - 1) : i = Wrap(ring, p, j)
                                               THEN v ELSE ring.data[i]]
           d  == [ring EXCEPT !.data = f]
           c  == AdvanceWritePos(d, k)
           t  == [i \in 1 .. k |-> v]
<1>0. /\ n \in Nat \ {0} /\ ring.size = n /\ ring.data \in [0 .. (n - 1) -> Elements]
      /\ r \in 0 .. (n - 1) /\ p \in 0 .. (n - 1) /\ m \in 0 .. n /\ p = At(n, r, m)
  BY Fields
<1>1. ring' = c /\ last' = Called("put", a, t)
  BY DEF Fill
<1> HIDE DEF r, p, m
<1>2. k \in Nat /\ m + k <= n /\ k = Least(a, n - m)
  BY <1>0 DEF Least, Free, m
<1> HIDE DEF k
<1>3. /\ f \in [0 .. (n - 1) -> Elements]
      /\ \A i \in 0 .. (n - 1) : f[i] = IF \E j \in 0 .. (k - 1) : i = At(n, p, j)
                                          THEN v ELSE ring.data[i]
  <2>1. \A j : Wrap(ring, p, j) = At(n, p, j)
    BY <1>0, WrapIs
  <2>2. f \in [0 .. (n - 1) -> Elements]
    BY <1>0
  <2>3. \A i \in 0 .. (n - 1) : f[i] = IF \E j \in 0 .. (k - 1) : i = Wrap(ring, p, j)
                                          THEN v ELSE ring.data[i]
    BY <1>0
  <2> HIDE DEF f
  <2> QED
    BY <2>1, <2>2, <2>3
<1> HIDE DEF f
<1>4. d \in Buffers(n) /\ d.readPos = r /\ d.writePos = p /\ d.avail = m /\ d.data = f
  BY <1>0, <1>3 DEF Sound, Buffers, r, p, m
<1> HIDE DEF d
<1>5. Sound(d, n)
  BY <1>4, OtherData DEF r, p, m
<1>6. Sound(c, n) /\ c.data = f /\ c.readPos = r /\ c.avail = m + k
  BY <1>2, <1>4, <1>5, AdvanceWrite
<1> HIDE DEF c
<1>7. t \in Seq(Elements) /\ Len(t) = k /\ \A i \in 1 .. k : t[i] = v
  BY <1>2
<1> HIDE DEF t
<1>8. ASSUME NEW i \in 1 .. m
      PROVE  c.data[At(n, r, i - 1)] = ring.data[At(n, r, i - 1)]
  <2>1. /\ At(n, r, i - 1) \in 0 .. (n - 1)
        /\ \A j \in 0 .. (k - 1) : At(n, r, i - 1) # At(n, p, j)
    BY <1>0, <1>2 DEF At
  <2> QED
    BY <1>3, <1>6, <2>1
<1>9. ASSUME NEW i \in 1 .. k
      PROVE  c.data[At(n, p, i - 1)] = t[i]
  <2>1. i - 1 \in 0 .. (k - 1) /\ At(n, p, i - 1) \in 0 .. (n - 1)
    BY <1>0, <1>2 DEF At
  <2> QED
    BY <1>3, <1>6, <1>7, <2>1
<1>10. Content(c) = Content(ring) \o t
  BY <1>6, <1>7, <1>8, <1>9, Grown, SMTT(60) DEF r, p, m
<1>11. Puts(n, a, t)
  BY <1>1, <1>2, <1>6, <1>7, <1>10 DEF Puts, m
<1> QED
  BY <1>11

\* read(Stream) takes as much as writev() has accepted of the two blocks.
LEMMA ReadStreamTakes ==
  ASSUME NEW n \in Sizes, Sound(ring, n), NEW k \in Nat, ReadStream(k)
  PROVE  k <= ring.avail /\ Takes(n, "take", k, k)
<1> DEFINE r  == ring.readPos
           w  == ring.writePos
           m  == ring.avail
           n1 == IF r < w THEN w - r ELSE n - r
           n2 == IF r < w THEN 0 ELSE Least((m - n1) % Word, w)
           f  == From(ring, r, n1)
           g  == From(ring, 0, n2)
           c  == AdvanceReadPos(ring, k)
<1>0. /\ n \in Nat \ {0} /\ n < Word /\ Word \in Nat \ {0} /\ ring.size = n
      /\ r \in 0 .. (n - 1) /\ w \in 0 .. (n - 1) /\ m \in 0 .. n /\ w = At(n, r, m)
      /\ ring.data \in [0 .. (n - 1) -> Elements]
  BY Fields
<1>1. m > 0 /\ k <= n1 + n2 /\ ring' = c /\ last' = Called("take", k, SubSeq(f \o g, 1, k))
  BY <1>0 DEF ReadStream
<1> HIDE DEF r, w, m, f, g, c
<1>2. n1 \in Nat /\ n2 \in Nat /\ n1 + n2 = m /\ r + n1 <= n /\ n2 <= r /\ (n2 > 0 => r + n1 = n)
  <2>1. CASE r < w
    BY <1>0, <1>1, <2>1 DEF At
  <2>2. CASE ~(r < w)
    <3>1. m - n1 = w /\ w \in 0 .. (Word - 1)
      BY <1>0, <1>1, <2>2 DEF At
    <3>2. (m - n1) % Word = w
      BY <1>0, <3>1, Modulo
    <3>3. n2 = w
      BY <1>0, <2>2, <3>2 DEF Least
    <3> QED
      BY <1>0, <1>1, <2>2, <3>1, <3>3 DEF At
  <2> QED
    BY <2>1, <2>2
<1> HIDE DEF n1, n2
<1>3. /\ f \in Seq(Elements) /\ Len(f) = n1 /\ \A i \in 1 .. n1 : f[i] = ring.data[r + i - 1]
      /\ g \in Seq(Elements) /\ Len(g) = n2 /\ \A i \in 1 .. n2 : g[i] = ring.data[0 + i - 1]
  <2>1. \A i \in 1 .. n1 : ring.data[r + i - 1] \in Elements
    BY <1>0, <1>2
  <2>2. \A i \in 1 .. n2 : ring.data[0 + i - 1] \in Elements
    BY <1>0, <1>2
  <2> QED
    BY <1>2, <2>1, <2>2 DEF f, g, From
<1>4. /\ f \o g \in Seq(Elements) /\ Len(f \o g) = m
      /\ \A i \in 1 .. m : (f \o g)[i] = IF i <= n1 THEN f[i] ELSE g[i - n1]
  BY <1>2, <1>3, Behind, ZenonT(60)
<1>5. /\ Content(ring) \in Seq(Elements) /\ Len(Content(ring)) = m
      /\ \A i \in 1 .. m : Content(ring)[i] = ring.data[At(n, r, i - 1)]
  BY ContentIsSeq DEF r, m
<1>6. ASSUME NEW i \in 1 .. m
      PROVE  (f \o g)[i] = Content(ring)[i]
  <2>1. CASE i <= n1
    <3>1. At(n, r, i - 1) = r + i - 1 /\ i \in 1 .. n1
      BY <1>0, <1>2, <2>1 DEF At
    <3> QED
      BY <1>3, <1>4, <1>5, <2>1, <3>1
  <2>2. CASE ~(i <= n1)
    <3>1. At(n, r, i - 1) = 0 + (i - n1) - 1 /\ i - n1 \in 1 .. n2
      BY <1>0, <1>2, <2>2 DEF At
    <3>2. g[i - n1] = ring.data[0 + (i - n1) - 1]
      BY <1>3, <3>1
    <3> QED
      BY <1>4, <1>5, <2>2, <3>1, <3>2
  <2> QED
    BY <2>1, <2>2
<1>7. f \o g = Content(ring)
  BY <1>4, <1>5, <1>6, SeqEqual
<1>8. k <= m
  BY <1>1, <1>2
<1>9. Sound(c, n) /\ Content(c) = SubSeq(Content(ring), k + 1, m)
  BY <1>8, TakeBlock DEF c, m
<1> QED
  BY <1>0, <1>1, <1>7, <1>8, <1>9 DEF Takes, m

\* What is at the read position does not wrap around, and if it is not
\* everything, it ends where the data ends.
LEMMA ReadExtentIs ==
  ASSUME NEW n \in Sizes, NEW b, Sound(b, n)
  PROVE  /\ ReadExtent(b) \in Nat /\ ReadExtent(b) <= b.avail /\ b.readPos + ReadExtent(b) <= n
         /\ ReadExtent(b) < b.avail => b.readPos + ReadExtent(b) = n
<1> DEFINE r == b.readPos
           w == b.writePos
           m == b.avail
<1>0. /\ n \in Nat \ {0} /\ b.size = n
      /\ r \in 0 .. (n - 1) /\ w \in 0 .. (n - 1) /\ m \in 0 .. n /\ w = At(n, r, m)
  BY Fields
<1>1. ReadExtent(b) = IF r > w \/ (r = w /\ m > 0) THEN n - r ELSE w - r
  BY <1>0 DEF ReadExtent
<1> HIDE DEF r, w, m
<1>2. /\ ReadExtent(b) \in Nat /\ ReadExtent(b) <= m /\ r + ReadExtent(b) <= n
      /\ ReadExtent(b) < m => r + ReadExtent(b) = n
  BY <1>0, <1>1 DEF At
<1> QED
  BY <1>2 DEF r, m

\* A caller of getReadPos() takes the first block.
LEMMA TakeExtentTakes ==
  ASSUME NEW n \in Sizes, Sound(ring, n), TakeExtent
  PROVE  \E k \in Nat : k <= ring.avail /\ Takes(n, "take", k, k)
<1> DEFINE k == ReadExtent(ring)
           m == ring.avail
<1>1. k \in Nat /\ k <= m /\ ring.readPos + k <= n
  BY ReadExtentIs
<1>2. /\ ring' = AdvanceReadPos(ring, k)
      /\ last' = Called("take", k, From(ring, ring.readPos, k))
  BY DEF TakeExtent
<1> HIDE DEF k
<1>3. Sound(ring', n) /\ Content(ring') = SubSeq(Content(ring), k + 1, ring.avail)
  BY <1>1, <1>2, TakeBlock
<1>4. From(ring, ring.readPos, k) = SubSeq(Content(ring), 1, k)
  BY <1>1, BlockIsFront
<1>5. m \in Nat
  BY Fields
<1> QED
  BY <1>1, <1>2, <1>3, <1>4, <1>5 DEF Takes

\* A caller of getWritePos() puts no more than the block has room for.
LEMMA PutExtentPuts ==
  ASSUME NEW n \in Sizes, Sound(ring, n), NEW s \in Seq(Elements), PutExtent(s)
  PROVE  Puts(n, Len(s), s)
<1> DEFINE r == ring.readPos
           w == ring.writePos
           m == ring.avail
<1>0. /\ n \in Nat \ {0} /\ ring.size = n /\ Len(s) \in Nat
      /\ r \in 0 .. (n - 1) /\ w \in 0 .. (n - 1) /\ m \in 0 .. n /\ w = At(n, r, m)
  BY Fields
<1>1. WriteExtent(ring) = IF w > r \/ (w = r /\ m = 0) THEN n - w ELSE r - w
  BY <1>0 DEF WriteExtent
<1>2. /\ Len(s) <= WriteExtent(ring)
      /\ ring' = AdvanceWritePos(Copy(ring, w, s), Len(s))
      /\ last' = Called("put", Len(s), s)
  BY DEF PutExtent
<1> HIDE DEF r, w, m
<1>3. m + Len(s) <= n /\ w + Len(s) <= n /\ Len(s) = Least(Len(s), n - m)
  BY <1>0, <1>1, <1>2 DEF At, Least
<1>4. Sound(ring', n) /\ Content(ring') = Content(ring) \o s
  BY <1>2, <1>3, PutBlock DEF w, m
<1> QED
  BY <1>0, <1>2, <1>3, <1>4 DEF Puts, m

-----------------------------------------------------------------------------
(* Peeking                                                                 *)

\* Does c have the elements and the positions of b?
Alike(b, c) == /\ c.data = b.data /\ c.readPos = b.readPos /\ c.writePos = b.writePos
               /\ c.avail = b.avail /\ c.size = b.size /\ Content(c) = Content(b)

\* The peek position and its count are nothing to the contents.
LEMMA PeekPosIsApart ==
  ASSUME NEW n \in Sizes, NEW b, Sound(b, n),
         NEW x \in 0 .. (n - 1), NEW y \in 0 .. (Word - 1)
  PROVE  LET c == [b EXCEPT !.peekPos = x, !.peekAvail = y]
         IN  Sound(c, n) /\ Alike(b, c)
<1> DEFINE c == [b EXCEPT !.peekPos = x, !.peekAvail = y]
<1>1. /\ c \in Buffers(n) /\ c.data = b.data /\ c.readPos = b.readPos
      /\ c.writePos = b.writePos /\ c.avail = b.avail /\ c.size = b.size
  BY DEF Sound, Buffers
<1> HIDE DEF c
<1>2. Sound(c, n)
  BY <1>1, OtherData
<1>3. Content(c) = Content(b)
  BY <1>1 DEF Content, Wrap
<1> QED
  BY <1>1, <1>2, <1>3 DEF Alike, c

\* The least of a set of numbers: that < is well-founded says that there is one.
LEMMA LeastOf ==
  ASSUME NEW T \in SUBSET Nat, T # {}
  PROVE  \E x \in T : \A y \in T : x <= y
<1>1. PICK x \in T : \A y \in T : ~ (<<y, x>> \in OpToRel(<, Nat))
  BY NatLessThanWellFounded, WFMin
<1>2. \A y \in T : ~ (y < x)
  BY <1>1 DEF OpToRel
<1> QED
  BY <1>2

\* peek() looks at places of the ring, and from the read position on at those
\* of the contents.
LEMMA VisitedIs ==
  ASSUME NEW n \in Sizes, NEW b, Sound(b, n), NEW p \in 0 .. (n - 1)
  PROVE  /\ Len(Visited(b, p)) \in Nat
         /\ \A i \in 1 .. Len(Visited(b, p)) : Visited(b, p)[i] \in 0 .. (n - 1)
         /\ b.avail > 0 /\ p = b.readPos =>
              /\ Len(Visited(b, p)) = b.avail
              /\ \A i \in 1 .. b.avail : Visited(b, p)[i] = At(n, p, i - 1)
<1> DEFINE w == b.writePos
           k == IF p < w THEN w - p ELSE n - p + w
           q(i) == At(n, p, i - 1)
           f == [i \in 1 .. k |-> q(i)]
<1>0. /\ n \in Nat \ {0} /\ b.size = n /\ w \in 0 .. (n - 1) /\ b.avail \in 0 .. n
      /\ b.readPos \in 0 .. (n - 1) /\ w = At(n, b.readPos, b.avail)
  BY Fields
<1>1. Visited(b, p) = f
  <2>1. CASE p < w
    <3>1. \A i \in 1 .. (w - p) : p + i - 1 = q(i)
      BY <1>0 DEF At
    <3> QED
      BY <2>1, <3>1 DEF Visited, Around
  <2>2. CASE ~(p < w)
    <3>1. \A i : Wrap(b, p, i - 1) = q(i)
      BY <1>0, WrapIs
    <3> QED
      BY <1>0, <2>2, <3>1 DEF Visited, Around
  <2> QED
    BY <2>1, <2>2
<1>2. k \in Nat /\ \A i \in 1 .. k : q(i) \in 0 .. (n - 1)
  BY <1>0 DEF At
<1>3. b.avail > 0 /\ p = b.readPos => k = b.avail
  BY <1>0 DEF At
<1> HIDE DEF k, q
<1>4. f \in Seq(0 .. (n - 1)) /\ Len(f) = k /\ \A i \in 1 .. k : f[i] = q(i)
  BY <1>2
<1> HIDE DEF f
<1> QED
  BY <1>1, <1>2, <1>3, <1>4 DEF q

\* peek() stops at the first place with the value, or after so many.
LEMMA ScannedIs ==
  ASSUME NEW n \in Sizes, NEW b, Sound(b, n), NEW p \in 0 .. (n - 1), NEW v,
         NEW maxlen \in Nat
  PROVE  LET most == Least(maxlen + 1, Len(Visited(b, p)))
             at   == {i \in 1 .. most : b.data[Visited(b, p)[i]] = v}
             k    == Scanned(b, p, v, maxlen)
         IN /\ most \in Nat /\ k \in 0 .. most
            /\ \/ at = {} /\ k = most
               \/ k \in at /\ \A i \in at : k <= i
<1> DEFINE most == Least(maxlen + 1, Len(Visited(b, p)))
           at   == {i \in 1 .. most : b.data[Visited(b, p)[i]] = v}
           k    == Scanned(b, p, v, maxlen)
<1>1. most \in Nat
  BY VisitedIs DEF Least
<1>2. at \in SUBSET (1 .. most)
  OBVIOUS
<1>3. k = IF at = {} THEN most ELSE CHOOSE i \in at : \A j \in at : i <= j
  BY DEF Scanned
<1> HIDE DEF at, most, k
<1>4. CASE at = {}
  BY <1>1, <1>3, <1>4 DEF at, most, k
<1>5. CASE at # {}
  <2>1. at \in SUBSET Nat
    BY <1>1, <1>2
  <2>2. \E i \in at : \A j \in at : i <= j
    BY <1>5, <2>1, LeastOf
  <2>3. k \in at /\ \A j \in at : k <= j
    BY <1>3, <1>5, <2>2
  <2>4. k \in 0 .. most
    BY <1>1, <1>2, <2>3
  <2> QED
    BY <1>1, <2>3, <2>4 DEF at, most, k
<1> QED
  BY <1>4, <1>5

\* peek() takes nothing, and leaves the peek position within the ring.
LEMMA PeekedIsAlike ==
  ASSUME NEW n \in Sizes, NEW b, Sound(b, n), NEW v, NEW maxlen \in Nat, NEW reset
  PROVE  Sound(Peeked(b, v, maxlen, reset), n) /\ Alike(b, Peeked(b, v, maxlen, reset))
<1> DEFINE p == IF reset THEN b.readPos ELSE b.peekPos
           k == Scanned(b, p, v, maxlen)
           stays == k > maxlen \/ (k > 0 /\ b.data[Visited(b, p)[k]] = v)
           x == IF stays THEN Visited(b, p)[k] ELSE b.writePos
           y == (b.peekAvail - k) % Word
<1>1. CASE b.avail = 0
  BY <1>1 DEF Peeked, Alike
<1>2. CASE b.avail # 0
  <2>1. Peeked(b, v, maxlen, reset) = [b EXCEPT !.peekPos = x, !.peekAvail = y]
    BY <1>2 DEF Peeked
  <2>2. /\ p \in 0 .. (n - 1) /\ b.writePos \in 0 .. (n - 1)
        /\ b.peekAvail \in 0 .. (Word - 1) /\ Word \in Nat \ {0}
    BY Fields
  <2> HIDE DEF p
  <2>3. k \in Nat /\ k <= Len(Visited(b, p)) /\ Len(Visited(b, p)) \in Nat
    <3>1. Len(Visited(b, p)) \in Nat
      BY <2>2, VisitedIs
    <3>2. k \in 0 .. Least(maxlen + 1, Len(Visited(b, p)))
      BY <2>2, ScannedIs
    <3> HIDE DEF k
    <3> QED
      BY <3>1, <3>2 DEF Least
  <2> HIDE DEF k
  <2>4. x \in 0 .. (n - 1)
    <3>1. stays => k \in 1 .. Len(Visited(b, p))
      BY <2>3
    <3> QED
      BY <2>2, <3>1, VisitedIs
  <2>5. y \in 0 .. (Word - 1)
    <3>1. b.peekAvail - k \in Int
      BY <2>2, <2>3
    <3> QED
      BY <2>2, <3>1, Modulo
  <2> HIDE DEF x, y
  <2> DEFINE c == [b EXCEPT !.peekPos = x, !.peekAvail = y]
  <2>6. Sound(c, n) /\ Alike(b, c)
    BY <2>4, <2>5, PeekPosIsApart
  <2>7. Peeked(b, v, maxlen, reset) = c
    BY <2>1
  <2> HIDE DEF c
  <2> QED
    BY <2>6, <2>7
<1> QED
  BY <1>1, <1>2

\* k is through the first v among the first a + 1 elements, one more than were
\* asked for; or a + 1, or as many as there are, if v is not among them.
TakesLine(n, v, a, k) ==
  LET most   == Least(a + 1, ring.avail)
      places == {i \in 1 .. most : Content(ring)[i] = v}
  IN /\ Takes(n, "line", a, k)
     /\ (places = {} /\ k = most) \/ (k \in places /\ \A i \in places : k <= i)

\* readLine() takes what peek() has counted, in one block or two.
LEMMA ReadLineTakes ==
  ASSUME NEW n \in Sizes, Sound(ring, n), NEW v \in Elements, NEW maxlen \in Nat,
         ReadLine(v, maxlen)
  PROVE  \E k : TakesLine(n, v, maxlen, k)
<1> DEFINE b   == Peeked(ring, v, maxlen, TRUE)
           r   == b.readPos
           len == IF b.avail = 0 THEN 0 ELSE Scanned(b, r, v, maxlen)
           x   == ReadExtent(b)
           n1  == IF len > x THEN x ELSE 0
           n2  == len - n1
           b1  == AdvanceReadPos(b, n1)
           b2  == AdvanceReadPos(b1, n2)
           a   == maxlen + 1
           m   == ring.avail
           C   == Content(ring)
           most   == Least(a, m)
           places == {i \in 1 .. most : C[i] = v}
<1>1. ring' = b2 /\ last' = Called("line", maxlen, From(b, r, n1) \o From(b1, b1.readPos, n2))
  BY DEF ReadLine
<1>2. Sound(b, n) /\ b.avail = m /\ Content(b) = C
  <2>1. Sound(b, n) /\ Alike(ring, b)
    BY PeekedIsAlike, Zenon
  <2> HIDE DEF b
  <2> QED
    BY <2>1 DEF Alike
<1>3. /\ n \in Nat \ {0} /\ r \in 0 .. (n - 1) /\ m \in 0 .. n /\ a \in Nat
      /\ C \in Seq(Elements) /\ Len(C) = m /\ \A i \in 1 .. m : C[i] = b.data[At(n, r, i - 1)]
  <2>1. a \in Nat
    OBVIOUS
  <2> HIDE DEF b, C, m
  <2>2. n \in Nat \ {0} /\ r \in 0 .. (n - 1) /\ m \in 0 .. n
    BY <1>2, Fields
  <2>3. /\ Content(b) \in Seq(Elements) /\ Len(Content(b)) = b.avail
        /\ \A i \in 1 .. b.avail : Content(b)[i] = b.data[At(n, r, i - 1)]
    BY <1>2, ContentIsSeq
  <2> QED
    BY <1>2, <2>1, <2>2, <2>3
<1>4. x \in Nat /\ x <= m /\ r + x <= n /\ (x < m => r + x = n)
  BY <1>2, ReadExtentIs
<1> HIDE DEF b, C, m, r, a, x
<1>5. /\ len \in 0 .. most /\ most \in Nat /\ most <= m
      /\ (places = {} /\ len = most) \/ (len \in places /\ \A i \in places : len <= i)
  <2>1. CASE m = 0
    <3>1. len = 0 /\ most = 0
      BY <1>2, <1>3, <2>1 DEF Least
    <3> QED
      BY <2>1, <3>1
  <2>2. CASE m # 0
    <3> DEFINE l  == Least(a, Len(Visited(b, r)))
               at == {i \in 1 .. l : b.data[Visited(b, r)[i]] = v}
    <3>1. /\ Len(Visited(b, r)) = m
          /\ \A i \in 1 .. m : Visited(b, r)[i] = At(n, r, i - 1)
      BY <1>2, <1>3, <2>2, VisitedIs, SMTT(60) DEF r
    <3>2. l = most /\ most \in Nat /\ most <= m
      BY <1>3, <3>1 DEF Least
    <3>3. at = places
      BY <1>3, <3>1, <3>2
    <3>4. /\ l \in Nat /\ Scanned(b, r, v, maxlen) \in 0 .. l
          /\ \/ at = {} /\ Scanned(b, r, v, maxlen) = l
             \/ Scanned(b, r, v, maxlen) \in at /\ \A i \in at : Scanned(b, r, v, maxlen) <= i
      BY <1>2, <1>3, ScannedIs DEF a
    <3>5. len = Scanned(b, r, v, maxlen)
      BY <1>2, <2>2
    <3> HIDE DEF at, l, places, len, most
    <3> QED
      BY <3>2, <3>3, <3>4, <3>5
  <2> QED
    BY <2>1, <2>2
<1> HIDE DEF len, most, places
<1>6. /\ n1 \in Nat /\ n2 \in Nat /\ n1 + n2 = len /\ n1 + n2 <= m /\ r + n1 <= n
      /\ At(n, r, n1) + n2 <= n
  BY <1>3, <1>4, <1>5 DEF At
<1> HIDE DEF n1, n2
<1>7. /\ Sound(b2, n) /\ Content(b2) = SubSeq(C, len + 1, m)
      /\ From(b, r, n1) \o From(b1, b1.readPos, n2) = SubSeq(C, 1, len)
  BY <1>2, <1>6, TakeTwo, SMTT(60) DEF r
<1> HIDE DEF b1, b2
<1>8. Takes(n, "line", maxlen, len)
  BY <1>1, <1>3, <1>5, <1>7 DEF Takes, C, m
<1>9. TakesLine(n, v, maxlen, len)
  BY <1>5, <1>8 DEF TakesLine, most, places, C, m, a
<1> QED
  BY <1>9

\* The peek position is moved within the ring, and nothing else.
LEMMA PeeksTakeNothing ==
  ASSUME NEW n \in Sizes, Sound(ring, n),
         \/ ResetPeekPos
         \/ \E k \in 0 .. MaxCount : AdvancePeekPos(k)
         \/ \E v \in Elements, k \in 0 .. MaxCount : \E resetPeek \in BOOLEAN :
              Peek(v, k, resetPeek)
  PROVE  Sound(ring', n) /\ Alike(ring, ring') /\ last' = last
<1>0. /\ n \in Nat \ {0} /\ n < Word /\ ring.size = n /\ ring.readPos \in 0 .. (n - 1)
      /\ ring.peekPos \in 0 .. (n - 1) /\ ring.avail \in 0 .. n
      /\ ring.peekAvail \in 0 .. (Word - 1) /\ Word \in Nat /\ MaxCount \in Nat
  BY Fields, BufferAssumption DEF BufferAssumption
<1>1. ASSUME NEW x \in 0 .. (n - 1), NEW y \in 0 .. (Word - 1),
             ring' = [ring EXCEPT !.peekPos = x, !.peekAvail = y]
      PROVE  Sound(ring', n) /\ Alike(ring, ring')
  BY <1>1, PeekPosIsApart
<1>2. CASE ResetPeekPos
  <2>1. ring.avail \in 0 .. (Word - 1)
    BY <1>0
  <2> QED
    BY <1>0, <1>1, <1>2, <2>1 DEF ResetPeekPos
<1>3. CASE \E k \in 0 .. MaxCount : AdvancePeekPos(k)
  <2>1. PICK k \in 0 .. MaxCount : AdvancePeekPos(k)
    BY <1>3
  <2>2. k \in Nat /\ k <= n /\ k <= ring.peekAvail
    <3>1. k <= ring.peekAvail /\ k <= ring.size
      BY <2>1 DEF AdvancePeekPos
    <3> QED
      BY <1>0, <3>1
  <2>3. Wrap(ring, ring.peekPos, k) = At(n, ring.peekPos, k)
    BY <1>0, WrapIs
  <2>4. At(n, ring.peekPos, k) \in 0 .. (n - 1) /\ ring.peekAvail - k \in 0 .. (Word - 1)
    BY <1>0, <2>2 DEF At
  <2> QED
    BY <1>1, <2>1, <2>3, <2>4 DEF AdvancePeekPos
<1>4. CASE \E v \in Elements, k \in 0 .. MaxCount : \E resetPeek \in BOOLEAN :
             Peek(v, k, resetPeek)
  <2>1. PICK v \in Elements, k \in 0 .. MaxCount, resetPeek \in BOOLEAN : Peek(v, k, resetPeek)
    BY <1>4
  <2>2. k \in Nat
    BY <1>0
  <2>3. ring' = Peeked(ring, v, k, resetPeek) /\ last' = last
    BY <2>1 DEF Peek
  <2> QED
    BY <2>2, <2>3, PeekedIsAlike
<1> QED
  BY <1>2, <1>3, <1>4

\* A new or cleared buffer is empty.
LEMMA ClearedIsEmpty ==
  ASSUME NEW n \in Sizes
  PROVE  Sound(Cleared(n), n) /\ Content(Cleared(n)) = << >> /\ Cleared(n).size = n
<1> DEFINE c == Cleared(n)
           d == [i \in 0 .. (n - 1) |-> Zero]
<1>0. n \in Nat \ {0} /\ Word \in Nat \ {0} /\ Zero \in Elements
  BY SizesAreSmall, BufferAssumption DEF BufferAssumption
<1>1. d \in [0 .. (n - 1) -> Elements]
  BY <1>0
<1>2. /\ c.data = d /\ c.size = n /\ c.readPos = 0 /\ c.writePos = 0
      /\ c.peekPos = 0 /\ c.avail = 0 /\ c.peekAvail = 0
  BY DEF Cleared
<1> HIDE DEF d
<1>3. c \in Buffers(n)
  BY <1>0, <1>1 DEF Cleared, Buffers, d
<1> HIDE DEF c
<1>4. Sound(c, n)
  BY <1>0, <1>2, <1>3 DEF Sound, Wrap
<1>5. Content(c) \in Seq(Elements) /\ Len(Content(c)) = 0
  BY <1>2, <1>4, ContentIsSeq
<1>6. Content(c) = << >>
  BY <1>5
<1> QED
  BY <1>2, <1>4, <1>6 DEF c

-----------------------------------------------------------------------------
(* The theorems                                                            *)

IInv == TypeOK /\ PositionsAgree

Calls == [op : {"clear", "put", "take", "line"}, asked : Nat, moved : Seq(Elements)]

\* The invariant, in terms of the size
LEMMA IInvIs == IInv <=> last \in Calls /\ \E n \in Sizes : Sound(ring, n)
BY DEF IInv, TypeOK, PositionsAgree, Sound, Calls

\* What every operation does to the contents, one way of the five
LEMMA StepKinds ==
  ASSUME NEW n \in Sizes, Sound(ring, n), Next
  PROVE  \/ \E m \in Sizes : /\ Sound(ring', m) /\ Content(ring') = << >>
                             /\ last' = Called("clear", 0, << >>)
         \/ \E a, t : Puts(n, a, t)
         \/ \E a : Takes(n, "take", a, Least(a, ring.avail))
         \/ \E v \in Elements : \E a, k : TakesLine(n, v, a, k)
         \/ Sound(ring', n) /\ Alike(ring, ring') /\ last' = last
<1>0. MaxCount \in Nat /\ ring.size = n /\ ring.avail \in Nat
  BY Fields, BufferAssumption DEF BufferAssumption
<1>1. Arrays \subseteq Seq(Elements)
  <2>1. ASSUME NEW s \in Arrays
        PROVE  s \in Seq(Elements)
    <3>1. PICK k \in 0 .. MaxCount : s \in [1 .. k -> Elements]
      BY DEF Arrays
    <3> QED
      BY <1>0, <3>1
  <2> QED
    BY <2>1
<1>2. \A k \in 0 .. MaxCount : k \in Nat
  BY <1>0
<1>3. \A k \in Nat : k <= ring.avail => k = Least(k, ring.avail)
  BY DEF Least
<1>4. CASE Clear \/ \E m \in Sizes : SetSize(m)
  <2>1. PICK m \in Sizes : ring' = Cleared(m) /\ last' = Called("clear", 0, << >>)
    BY <1>0, <1>4 DEF Clear, SetSize
  <2> QED
    BY <2>1, ClearedIsEmpty
<1>5. CASE \E s \in Arrays : Write(s) \/ PutExtent(s) \/ \E k \in 0 .. MaxCount : WriteStream(s, k)
  <2>1. PICK s \in Seq(Elements) : Write(s) \/ PutExtent(s) \/ \E k \in Nat : WriteStream(s, k)
    BY <1>1, <1>2, <1>5
  <2> QED
    BY <2>1, WritePuts, PutExtentPuts, WriteStreamPuts
<1>6. CASE \E v \in Elements, k \in 0 .. MaxCount : Fill(v, k)
  <2>1. PICK v \in Elements, k \in Nat : Fill(v, k)
    BY <1>2, <1>6
  <2> QED
    BY <2>1, FillPuts
<1>7. CASE TakeExtent \/ \E k \in 0 .. MaxCount : Read(k) \/ ReadStream(k)
  <2>1. CASE TakeExtent
    BY <1>3, <2>1, TakeExtentTakes
  <2>2. CASE \E k \in Nat : Read(k)
    BY <2>2, ReadTakes
  <2>3. CASE \E k \in Nat : ReadStream(k)
    BY <1>3, <2>3, ReadStreamTakes
  <2> QED
    BY <1>2, <1>7, <2>1, <2>2, <2>3
<1>8. CASE \E v \in Elements, k \in 0 .. MaxCount : ReadLine(v, k)
  <2>1. PICK v \in Elements, k \in Nat : ReadLine(v, k)
    BY <1>2, <1>8
  <2> QED
    BY <2>1, ReadLineTakes
<1>9. CASE \/ ResetPeekPos
           \/ \E k \in 0 .. MaxCount : AdvancePeekPos(k)
           \/ \E v \in Elements, k \in 0 .. MaxCount : \E resetPeek \in BOOLEAN :
                Peek(v, k, resetPeek)
  BY <1>9, PeeksTakeNothing
<1> QED
  BY <1>4, <1>5, <1>6, <1>7, <1>8, <1>9, Zenon DEF Next

\* Every operation keeps the positions within the data and in agreement.
LEMMA NextIInv ==
  ASSUME IInv, [Next]_vars
  PROVE  IInv'
<1>0. PICK n \in Sizes : Sound(ring, n) /\ last \in Calls
  BY IInvIs
<1>1. IInv' <=> last' \in Calls /\ \E m \in Sizes : Sound(ring', m)
  BY DEF IInv, TypeOK, PositionsAgree, Sound, Calls
<1>2. CASE UNCHANGED vars
  BY <1>0, <1>1, <1>2 DEF vars
<1>3. CASE Next
  <2>1. Content(ring) \in Seq(Elements) /\ Len(Content(ring)) = ring.avail
    BY <1>0, ContentIsSeq
  <2>2. \A k \in 0 .. ring.avail : SubSeq(Content(ring), 1, k) \in Seq(Elements)
    BY <2>1
  <2>3. /\ \A a \in Nat, t \in Seq(Elements) : Called("put", a, t) \in Calls
        /\ \A a \in Nat, t \in Seq(Elements) : Called("take", a, t) \in Calls
        /\ \A a \in Nat, t \in Seq(Elements) : Called("line", a, t) \in Calls
        /\ Called("clear", 0, << >>) \in Calls
    BY DEF Called, Calls
  <2>4. last' \in Calls /\ \E m \in Sizes : Sound(ring', m)
    <3>1. CASE \E m \in Sizes : /\ Sound(ring', m) /\ Content(ring') = << >>
                                /\ last' = Called("clear", 0, << >>)
      BY <2>3, <3>1
    <3>2. CASE \E a, t : Puts(n, a, t)
      BY <2>3, <3>2 DEF Puts
    <3>3. CASE \E a : Takes(n, "take", a, Least(a, ring.avail))
      BY <2>2, <2>3, <3>3 DEF Takes
    <3>4. CASE \E v \in Elements : \E a, k : TakesLine(n, v, a, k)
      <4>1. PICK a, k : Takes(n, "line", a, k)
        BY <3>4 DEF TakesLine
      <4> QED
        BY <2>2, <2>3, <4>1 DEF Takes
    <3>5. CASE Sound(ring', n) /\ Alike(ring, ring') /\ last' = last
      BY <1>0, <3>5
    <3> QED
      BY <1>0, <1>3, <3>1, <3>2, <3>3, <3>4, <3>5, StepKinds
  <2> QED
    BY <1>1, <2>4
<1> QED
  BY <1>2, <1>3

\* A new buffer is empty.
LEMMA InitIInv == Init => IInv
<1> SUFFICES ASSUME Init
             PROVE  IInv
  OBVIOUS
<1>1. PICK n \in Sizes : ring = Cleared(n) /\ last = Called("clear", 0, << >>)
  BY DEF Init
<1>2. last \in Calls
  BY <1>1 DEF Called, Calls
<1> QED
  BY <1>1, <1>2, ClearedIsEmpty, IInvIs

\* The invariant holds whatever the sizes, the elements and the calls are.
THEOREM Inductive == Spec => []IInv
BY InitIInv, NextIInv, PTL DEF Spec

\* Every position is a place of the data, and no count is more than the size:
\* no operation copies from or to anywhere else.
THEOREM TypeCorrect == Spec => []TypeOK
<1>1. IInv => TypeOK
  BY DEF IInv
<1> QED
  BY <1>1, Inductive, PTL

\* The write position is where the elements end, however often either has
\* wrapped around: _availRead alone tells a full buffer from an empty one.
THEOREM PositionsDoAgree == Spec => []PositionsAgree
<1>1. IInv => PositionsAgree
  BY DEF IInv
<1> QED
  BY <1>1, Inductive, PTL

\* A step of the ring is a step of the sequence, or none.
LEMMA StepIsSequenceStep ==
  ASSUME IInv, [Next]_vars
  PROVE  [Sequence!Next]_<<ring.size, contents, last>>
<1>0. PICK n \in Sizes : Sound(ring, n)
  BY IInvIs
<1>1. contents = Content(ring) /\ contents' = Content(ring')
  BY DEF contents, Content
<1>2. ring.size = n /\ \A m \in Sizes : Sound(ring', m) => ring'.size = m
  BY <1>0, Fields
<1>3. Content(ring) \in Seq(Elements) /\ Len(Content(ring)) = ring.avail /\ ring.avail \in Nat
  BY <1>0, ContentIsSeq, Fields
<1>4. CASE UNCHANGED vars
  BY <1>1, <1>4 DEF vars
<1>5. CASE Next
  <2>1. CASE \E m \in Sizes : /\ Sound(ring', m) /\ Content(ring') = << >>
                              /\ last' = Called("clear", 0, << >>)
    BY <1>1, <1>2, <2>1 DEF Sequence!Next, Sequence!Clear, Sequence!Called, Called
  <2>2. CASE \E a, t : Puts(n, a, t)
    <3>1. PICK a, t : Puts(n, a, t)
      BY <2>2
    <3>2. /\ last'.op = "put" /\ last'.asked = a /\ last'.moved = t
          /\ last' = [op |-> "put", asked |-> a, moved |-> t]
      BY <3>1 DEF Puts, Called
    <3>3. ring'.size = ring.size
      BY <1>2, <3>1 DEF Puts
    <3>4. Sequence!Put
      BY <1>1, <1>2, <1>3, <3>1, <3>2, <3>3
         DEF Puts, Sequence!Put, Sequence!Called, Sequence!Least, Least
    <3> QED
      BY <3>4 DEF Sequence!Next
  <2>3. CASE \E a : Takes(n, "take", a, Least(a, ring.avail))
    <3>1. PICK a : Takes(n, "take", a, Least(a, ring.avail))
      BY <2>3
    <3> DEFINE k == Least(a, ring.avail)
    <3>2. /\ last'.asked = a /\ a \in Nat
          /\ last' = [op |-> "take", asked |-> a, moved |-> SubSeq(Content(ring), 1, k)]
      BY <3>1 DEF Takes, Called
    <3>3. ring'.size = ring.size /\ Content(ring') = SubSeq(Content(ring), k + 1, ring.avail)
      BY <1>2, <3>1 DEF Takes
    <3>4. k = Sequence!Least(last'.asked, Len(contents))
      BY <1>1, <1>3, <3>2 DEF Least, Sequence!Least
    <3> HIDE DEF k
    <3>5. Sequence!TakeSome("take", k)
      BY <1>1, <1>3, <3>2, <3>3 DEF Sequence!TakeSome, Sequence!Called
    <3> QED
      BY <3>4, <3>5 DEF Sequence!Next, Sequence!Take
  <2>4. CASE \E v \in Elements : \E a, k : TakesLine(n, v, a, k)
    <3>0. PICK v \in Elements : \E a, k : TakesLine(n, v, a, k)
      BY <2>4
    <3>1. PICK a, k : TakesLine(n, v, a, k)
      BY <3>0
    <3> DEFINE most   == Least(a + 1, ring.avail)
               places == {i \in 1 .. most : Content(ring)[i] = v}
    <3>2. /\ Takes(n, "line", a, k)
          /\ (places = {} /\ k = most) \/ (k \in places /\ \A i \in places : k <= i)
      BY <3>1 DEF TakesLine
    <3>3. /\ last'.asked = a /\ a \in Nat
          /\ last' = [op |-> "line", asked |-> a, moved |-> SubSeq(Content(ring), 1, k)]
      BY <3>2 DEF Takes, Called
    <3>4. ring'.size = ring.size /\ Content(ring') = SubSeq(Content(ring), k + 1, ring.avail)
      BY <1>2, <3>2 DEF Takes
    <3>5. Sequence!TakeSome("line", k)
      BY <1>1, <1>3, <3>3, <3>4 DEF Sequence!TakeSome, Sequence!Called
    <3>6. most = Sequence!Least(last'.asked + 1, Len(contents))
      BY <1>1, <1>3, <3>3 DEF Least, Sequence!Least
    <3>7. Sequence!TakeThrough(v)
      BY <1>1, <3>2, <3>5, <3>6 DEF Sequence!TakeThrough
    <3> QED
      BY <3>7 DEF Sequence!Next
  <2>5. CASE Sound(ring', n) /\ Alike(ring, ring') /\ last' = last
    BY <1>1, <2>5 DEF Alike
  <2> QED
    BY <1>0, <1>5, <2>1, <2>2, <2>3, <2>4, <2>5, StepKinds
<1> QED
  BY <1>4, <1>5

\* Elements come out once, in the order they went in, and none is overwritten,
\* for rings of every size, arrays of every length and all mixes of the calls.
\* readLine(maxLen) takes nothing after the end of line, but up to maxLen + 1
\* elements: the bound that holds of the code is one above the documented one.
THEOREM IsASequence == Spec => IsBoundedSequence
<1>1. Init => Sequence!Init
  <2> SUFFICES ASSUME Init
               PROVE  Sequence!Init
    OBVIOUS
  <2>1. PICK n \in Sizes : ring = Cleared(n) /\ last = Called("clear", 0, << >>)
    BY DEF Init
  <2>2. contents = << >> /\ ring.size = n
    BY <2>1, ClearedIsEmpty DEF contents, Content
  <2> QED
    BY <2>1, <2>2 DEF Sequence!Init, Sequence!Called, Called
<1> QED
  BY <1>1, Inductive, StepIsSequenceStep, PTL DEF Spec, IsBoundedSequence, Sequence!Spec
=============================================================================
