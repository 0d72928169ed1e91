------------------------- MODULE SocketMuxer_proofs -------------------------
(***************************************************************************)
(* Proofs about SocketMuxer for any number of sockets and connections and  *)
(* any sizes: every place of the pool is free, listed once or lost, no     *)
(* lock of a listed connection is left entered by another than the muxer,  *)
(* and writeAll() only touches a connection that is listed.  The inductive *)
(* invariant adds to the checked ones who has _mutex, that the list holds  *)
(* no connection twice, and what a free socket and a listed connection     *)
(* are.  A step is first put under one of six kinds, by what it does to    *)
(* the places, the locks and the list; each part of the invariant is then  *)
(* shown to be kept kind by kind.                                          *)
(***************************************************************************)
EXTENDS SocketMuxer, FiniteSetTheorems, SequenceTheorems, TLAPS

-----------------------------------------------------------------------------
(* The descriptors and the pool                                            *)

\* A set of naturals that is not empty has a least element.
LEMMA LeastElement ==
  ASSUME NEW S \in SUBSET Nat, S # {}
  PROVE  \E n \in S : \A k \in S : n <= k
<1>1. PICK n \in S : \A k \in S : ~ (<<k, n>> \in OpToRel(<, Nat))
  BY NatLessThanWellFounded, WFMin
<1>2. \A k \in S : ~ (k < n)
  BY <1>1 DEF OpToRel
<1> QED
  BY <1>2

\* accept() always finds a descriptor, when some socket has none: one that no
\* socket has.
LEMMA FreeFdExists ==
  ASSUME IsFiniteSet(Sockets), NEW s \in Sockets, net[s].fd = 0,
         net \in [Sockets -> [fd : 0 .. Cardinality(Sockets), in : 0 .. BufferSize,
                              room : 0 .. Room, peer : {"open", "fin", "reset"}]]
  PROVE  FreeFd \in 1 .. Cardinality(Sockets) /\ \A t \in Sockets : net[t].fd # FreeFd
<1> DEFINE N == Cardinality(Sockets)
           Used == {n \in 1 .. N : \E t \in Sockets : net[t].fd = n}
           Others == Sockets \ {s}
           Unused == (1 .. N) \ Used
<1>1. N \in Nat
  BY FS_CardinalityType
<1>2. IsFiniteSet(Others) /\ Cardinality(Others) = N - 1
  BY FS_RemoveElement
<1>3. Unused # {}
  <2> SUFFICES ASSUME Unused = {} PROVE FALSE
    OBVIOUS
  <2> DEFINE who == [n \in 1 .. N |-> CHOOSE t \in Sockets : net[t].fd = n]
  <2>1. \A n \in 1 .. N : who[n] \in Others /\ net[who[n]].fd = n
    OBVIOUS
  <2>2. who \in [1 .. N -> Others]
    BY <2>1
  <2>3. IsFiniteSet(1 .. N) /\ Cardinality(1 .. N) = N
    BY <1>1, FS_Interval
  <2>4. \E x, y \in 1 .. N : x # y /\ who[x] = who[y]
    <3> DEFINE I == 1 .. N
    <3>1. Cardinality(Others) < Cardinality(I) /\ IsFiniteSet(I) /\ who \in [I -> Others]
      BY <1>1, <1>2, <2>2, <2>3
    <3> HIDE DEF who, Others, I
    <3>2. \E x, y \in I : x # y /\ who[x] = who[y]
      BY <1>2, <3>1, FS_PigeonHole
    <3> QED
      BY <3>2 DEF I
  <2> QED
    BY <2>1, <2>4
<1>4. PICK n \in Unused : \A k \in Unused : n <= k
  <2> Unused \in SUBSET Nat
    BY <1>1
  <2> HIDE DEF Unused
  <2> QED
    BY <1>3, LeastElement
<1>5. /\ n \in 1 .. N
      /\ \A t \in Sockets : net[t].fd # n
      /\ \A k \in 1 .. (n - 1) : \E t \in Sockets : net[t].fd = k
  BY <1>1, <1>4
<1> QED
  BY <1>5 DEF FreeFd

\* The first free list has every place once.
LEMMA FullPool ==
  ASSUME IsFiniteSet(Sockets), PoolInit
  PROVE  free \in Seq(Sockets) /\ IsInjective(free) /\ ToSet(free) = Sockets
<1> DEFINE N == Cardinality(Sockets)
<1>1. N \in Nat /\ ExistsBijection(1 .. N, Sockets)
  BY FS_CardinalityType
<1>2. PICK f : f \in Bijection(1 .. N, Sockets)
  BY <1>1 DEF ExistsBijection
<1>3. f \in [1 .. N -> Sockets] /\ IsInjective(f)
  BY <1>2 DEF Bijection, Injection, IsInjective
<1>4. free \in [1 .. N -> Sockets] /\ IsInjective(free)
  BY <1>3 DEF PoolInit, SetToSeq
<1>5. free \in Injection(1 .. N, Sockets)
  BY <1>4 DEF Injection, IsInjective
<1>6. IsFiniteSet(1 .. N) /\ Cardinality(1 .. N) = N
  BY <1>1, FS_Interval
<1>7. free \in Surjection(1 .. N, Sockets)
  <2> HIDE DEF N
  <2> QED BY <1>5, <1>6, FS_Injection DEF N
<1>8. free \in Seq(Sockets)
  BY <1>1, <1>4
<1> QED
  BY <1>4, <1>7, <1>8 DEF Surjection, ToSet

-----------------------------------------------------------------------------
(* The inductive invariant                                                 *)

Busy == {"next", "reading", "writing", "check"}

\* The muxer has _mutex while it goes through the list, and only then.
MuxerHasMutex == mutex = "muxer" <=> pc \in Busy

\* No connection is listed twice.
ListedOnce == \A i, j \in DOMAIN list : list[i] = list[j] => i = j

\* A listed connection is live, or it was reported closed in this pass.
JustEnded(c) == pc = "check" /\ c = list[pos] /\ fate[c] = "gone" /\ ~IsOpen(c)
ListedAreKnown ==
  \A c \in Listed : conn[c].sock \in Sockets /\ (fate[c] = "live" \/ JustEnded(c))

\* Nothing is left of the connection that had a free socket.
FreeAreClosed == \A s \in ToSet(free) : net[s] = Closed

\* The muxer has entered one lock of a connection at a time.
OneLock ==
  /\ pc = "reading" => ~conn[list[pos]].writeLock
  /\ pc = "writing" => ~conn[list[pos]].readLock

\* writeAll() is at a listed connection as long as it has _mutex.
WriterIsAtListed == IF mutex = "writer" THEN next \in Listed ELSE next = NoConn

IInv ==
  /\ TypeOK /\ MuxerHasMutex /\ ListedOnce /\ ListedAreKnown /\ FreeAreClosed
  /\ OneLock /\ WriterIsAtListed /\ SlotsAccountedFor /\ ListedLocksAreFree

ConnRec == [sock : Sockets \cup {NoSocket}, readBuf : 0 .. BufferSize,
            writeBuf : 0 .. BufferSize, pending : BOOLEAN,
            readLock : BOOLEAN, writeLock : BOOLEAN]
NetRec == [fd : 0 .. Cardinality(Sockets), in : 0 .. BufferSize,
           room : 0 .. Room, peer : {"open", "fin", "reset"}]

\* The records that new connections and closed sockets start from
LEMMA FreshRecords ==
  /\ Closed \in NetRec
  /\ \A s \in Sockets \cup {NoSocket} : New(s) \in ConnRec
BY MuxerAssumption, FS_CardinalityType DEF MuxerAssumption, Closed, New, NetRec, ConnRec

\* The muxer starts with an empty list, a full pool and every socket closed.
LEMMA InitIInv == Init => IInv
<1> SUFFICES ASSUME Init PROVE IInv
  OBVIOUS
<1>1. free \in Seq(Sockets) /\ IsInjective(free) /\ ToSet(free) = Sockets
  BY FullPool, MuxerAssumption DEF MuxerAssumption, Init
<1>2. ToSet(list) = {} /\ DOMAIN list = {} /\ list \in Seq(Conns)
  BY DEF Init, ToSet
<1>3. TypeOK
  <2>1. net \in [Sockets -> NetRec] /\ conn \in [Conns -> ConnRec]
    BY FreshRecords DEF Init
  <2>2. fds \in [{"read", "write"} -> SUBSET (1 .. Cardinality(Sockets))]
    BY DEF Init, NoSets
  <2>3. left \in 0 .. BufferSize
    BY MuxerAssumption DEF MuxerAssumption, Init
  <2> QED
    BY <1>1, <1>2, <2>1, <2>2, <2>3 DEF Init, TypeOK, NetRec, ConnRec
<1>4. SlotsAccountedFor
  BY <1>1, <1>2 DEF SlotsAccountedFor, Init, Holds, Missing
<1> QED
  BY <1>1, <1>2, <1>3, <1>4 DEF IInv, Init, MuxerHasMutex, ListedOnce, ListedAreKnown, Listed,
     FreeAreClosed, OneLock, WriterIsAtListed, ListedLocksAreFree, Busy

-----------------------------------------------------------------------------
(* Types                                                                   *)

\* What a change of one field of one connection, or one socket, gives
LEMMA ConnUpdates ==
  ASSUME NEW f \in [Conns -> ConnRec], NEW c \in Conns, NEW n \in 0 .. BufferSize
  PROVE  /\ [f EXCEPT ![c].readBuf = n] \in [Conns -> ConnRec]
         /\ [f EXCEPT ![c].writeBuf = n] \in [Conns -> ConnRec]
         /\ [f EXCEPT ![c].readBuf = n, ![c].readLock = FALSE] \in [Conns -> ConnRec]
         /\ [f EXCEPT ![c].writeBuf = n, ![c].writeLock = FALSE] \in [Conns -> ConnRec]
<1>1. /\ [f EXCEPT ![c].readBuf = n] \in [Conns -> ConnRec]
      /\ [f EXCEPT ![c].writeBuf = n] \in [Conns -> ConnRec]
  BY DEF ConnRec
<1>2. [f EXCEPT ![c].readBuf = n, ![c].readLock = FALSE] \in [Conns -> ConnRec]
  BY DEF ConnRec
<1>3. [f EXCEPT ![c].writeBuf = n, ![c].writeLock = FALSE] \in [Conns -> ConnRec]
  BY DEF ConnRec
<1> QED
  BY <1>1, <1>2, <1>3

\* What the calls on a socket set keeps its record one.
LEMMA NetUpdates ==
  ASSUME NEW f \in [Sockets -> NetRec], NEW s \in Sockets
  PROVE  /\ \A n \in 0 .. Cardinality(Sockets) : [f EXCEPT ![s].fd = n] \in [Sockets -> NetRec]
         /\ \A n \in 0 .. BufferSize : [f EXCEPT ![s].in = n] \in [Sockets -> NetRec]
         /\ \A n \in 0 .. Room : [f EXCEPT ![s].room = n] \in [Sockets -> NetRec]
BY DEF NetRec

\* What reserve() takes off the free list
LEMMA HeadIsFree ==
  ASSUME free \in Seq(Sockets), NEW s, Reserve(s)
  PROVE  /\ s \in ToSet(free) /\ free' \in Seq(Sockets) /\ Len(free') = Len(free) - 1
         /\ s = free[1] /\ Len(free) \in Nat \ {0}
         /\ \A i \in 1 .. Len(free') : free'[i] = free[i + 1]
<1>1. free # << >> /\ s = Head(free) /\ free' = Tail(free)
  BY DEF Reserve, PoolIsEmpty
<1>2. Len(free) \in Nat \ {0} /\ DOMAIN free = 1 .. Len(free) /\ Head(free) = free[1]
  BY <1>1
<1>3. s \in ToSet(free)
  BY <1>1, <1>2 DEF ToSet
<1> QED
  BY <1>1, <1>2, <1>3, HeadTailProperties

\* The lesser of two numbers, as Min of the community modules defines it
LEMMA MinOfTwo ==
  ASSUME NEW m \in Nat, NEW n \in Nat
  PROVE  Min({m, n}) = IF m <= n THEN m ELSE n
<1> DEFINE k == IF m <= n THEN m ELSE n
<1>1. k \in {m, n} /\ \A y \in {m, n} : k <= y
  OBVIOUS
<1>2. \A x \in {m, n} : (\A y \in {m, n} : x <= y) => x = k
  OBVIOUS
<1> QED
  BY <1>1, <1>2 DEF Min

\* What is left of a sequence when one place is removed, in the same order
LEMMA WithoutOne ==
  ASSUME NEW S, NEW s \in Seq(S), NEW p \in 1 .. Len(s)
  PROVE  /\ RemoveAt(s, p) \in Seq(S)
         /\ Len(RemoveAt(s, p)) = Len(s) - 1
         /\ \A i \in 1 .. (Len(s) - 1) :
              RemoveAt(s, p)[i] = IF i < p THEN s[i] ELSE s[i + 1]
<1> DEFINE a == SubSeq(s, 1, p - 1)
           b == SubSeq(s, p + 1, Len(s))
<1>1. /\ a \in Seq(S) /\ Len(a) = p - 1
      /\ \A i \in 1 .. (p - 1) : a[i] = s[i]
  OBVIOUS
<1>2. /\ b \in Seq(S) /\ Len(b) = Len(s) - p
      /\ \A i \in 1 .. (Len(s) - p) : b[i] = s[p + i]
  OBVIOUS
<1> HIDE DEF a, b
<1>3. RemoveAt(s, p) = a \o b
  BY DEF RemoveAt, a, b
<1>4. Len(s) \in Nat /\ (p - 1) + (Len(s) - p) = Len(s) - 1
  OBVIOUS
<1>5. /\ a \o b \in Seq(S) /\ Len(a \o b) = Len(s) - 1
      /\ \A i \in 1 .. (Len(s) - 1) : (a \o b)[i] = IF i <= p - 1 THEN a[i] ELSE b[i - (p - 1)]
  <2>1. /\ a \o b \in Seq(S) /\ Len(a \o b) = Len(a) + Len(b)
        /\ \A i \in 1 .. (Len(a) + Len(b)) :
             (a \o b)[i] = IF i <= Len(a) THEN a[i] ELSE b[i - Len(a)]
    BY <1>1, <1>2, ConcatProperties
  <2>2. Len(a) + Len(b) = Len(s) - 1
    BY <1>1, <1>2, <1>4
  <2>3. Len(a) = p - 1
    BY <1>1
  <2> QED
    BY <2>1, <2>2, <2>3
<1>6. \A i \in 1 .. (Len(s) - 1) : (a \o b)[i] = IF i < p THEN s[i] ELSE s[i + 1]
  <2> SUFFICES ASSUME NEW i \in 1 .. (Len(s) - 1)
               PROVE  (a \o b)[i] = IF i < p THEN s[i] ELSE s[i + 1]
    OBVIOUS
  <2>1. CASE i < p
    BY <1>1, <1>5, <2>1
  <2>2. CASE ~(i < p)
    <3>1. (i - (p - 1)) \in 1 .. (Len(s) - p) /\ p + (i - (p - 1)) = i + 1
      BY <1>1, <2>2
    <3>2. ~(i <= p - 1)
      BY <2>2
    <3> QED
      BY <1>2, <1>5, <2>2, <3>1, <3>2
  <2> QED
    BY <2>1, <2>2
<1> QED
  BY <1>3, <1>5, <1>6

\* A sequence turned around has the same elements.
LEMMA ReverseIsSeq ==
  ASSUME NEW S, NEW s \in Seq(S)
  PROVE  /\ Reverse(s) \in Seq(S) /\ Len(Reverse(s)) = Len(s)
         /\ \A i \in 1 .. Len(s) : Reverse(s)[i] = s[(Len(s) - i) + 1]
<1>1. Len(s) \in Nat /\ \A i \in 1 .. Len(s) : (Len(s) - i) + 1 \in 1 .. Len(s)
  OBVIOUS
<1>2. \A i \in 1 .. Len(s) : s[(Len(s) - i) + 1] \in S
  BY <1>1
<1> QED
  BY <1>1, <1>2 DEF Reverse

\* Two sequences without a common element are joined to one without repetition.
LEMMA Joined ==
  ASSUME NEW S, NEW s \in Seq(S), NEW t \in Seq(S)
  PROVE  /\ s \o t \in Seq(S) /\ ToSet(s \o t) = ToSet(s) \cup ToSet(t)
         /\ IsInjective(s) /\ IsInjective(t) /\ ToSet(s) \cap ToSet(t) = {} => IsInjective(s \o t)
<1> DEFINE m == Len(s)
           n == Len(t)
           u == s \o t
<1>1. /\ u \in Seq(S) /\ Len(u) = m + n
      /\ \A i \in 1 .. (m + n) : u[i] = IF i <= m THEN s[i] ELSE t[i - m]
  BY ConcatProperties
<1>2. /\ DOMAIN s = 1 .. m /\ DOMAIN t = 1 .. n /\ DOMAIN u = 1 .. (m + n)
      /\ m \in Nat /\ n \in Nat
  BY <1>1
<1> HIDE DEF m, n, u
<1>3. ToSet(u) = ToSet(s) \cup ToSet(t)
  <2>1. \A i \in 1 .. m : i \in 1 .. (m + n) /\ u[i] = s[i]
    BY <1>1, <1>2
  <2>2. \A i \in 1 .. n : m + i \in 1 .. (m + n) /\ u[m + i] = t[i]
    BY <1>1, <1>2
  <2>3. \A i \in 1 .. (m + n) : i \in 1 .. m \/ (i - m \in 1 .. n /\ u[i] = t[i - m])
    BY <1>1, <1>2
  <2>4. ToSet(s) = {s[i] : i \in 1 .. m} /\ ToSet(t) = {t[i] : i \in 1 .. n}
          /\ ToSet(u) = {u[i] : i \in 1 .. (m + n)}
    BY <1>2 DEF ToSet
  <2>5. ToSet(s) \subseteq ToSet(u)
    BY <2>1, <2>4
  <2>6. ToSet(t) \subseteq ToSet(u)
    BY <2>2, <2>4
  <2>7. ASSUME NEW i \in 1 .. (m + n)
        PROVE  u[i] \in ToSet(s) \cup ToSet(t)
    BY <2>1, <2>3, <2>4
  <2> QED
    BY <2>4, <2>5, <2>6, <2>7
<1>4. ASSUME IsInjective(s), IsInjective(t), ToSet(s) \cap ToSet(t) = {}
      PROVE  IsInjective(u)
  <2> SUFFICES ASSUME NEW i \in 1 .. (m + n), NEW j \in 1 .. (m + n), u[i] = u[j]
               PROVE  i = j
    BY <1>2 DEF IsInjective
  <2>1. CASE i <= m /\ j <= m
    BY <1>1, <1>2, <1>4, <2>1 DEF IsInjective
  <2>2. CASE i > m /\ j > m
    <3>1. i - m \in 1 .. n /\ j - m \in 1 .. n /\ t[i - m] = t[j - m]
      BY <1>1, <1>2, <2>2
    <3>2. i - m = j - m
      BY <1>2, <1>4, <3>1 DEF IsInjective
    <3> QED
      BY <1>2, <3>2
  <2>3. CASE i <= m /\ j > m
    <3>1. i \in 1 .. m /\ j - m \in 1 .. n /\ s[i] = t[j - m]
      BY <1>1, <1>2, <2>3
    <3>2. s[i] \in ToSet(s) /\ t[j - m] \in ToSet(t)
      BY <1>2, <3>1 DEF ToSet
    <3> QED
      BY <1>4, <3>1, <3>2
  <2>4. CASE i > m /\ j <= m
    <3>1. j \in 1 .. m /\ i - m \in 1 .. n /\ s[j] = t[i - m]
      BY <1>1, <1>2, <2>4
    <3>2. s[j] \in ToSet(s) /\ t[i - m] \in ToSet(t)
      BY <1>2, <3>1 DEF ToSet
    <3> QED
      BY <1>4, <3>1, <3>2
  <2> QED
    BY <1>2, <2>1, <2>2, <2>3, <2>4
<1> QED
  BY <1>1, <1>3, <1>4 DEF u

\* A sequence in reverse has the same elements, as often.
LEMMA Reversed ==
  ASSUME NEW S, NEW s \in Seq(S)
  PROVE  ToSet(Reverse(s)) = ToSet(s) /\ (IsInjective(s) => IsInjective(Reverse(s)))
<1> DEFINE n == Len(s)
           r == Reverse(s)
<1>1. /\ n \in Nat /\ DOMAIN s = 1 .. n /\ DOMAIN r = 1 .. n
      /\ \A i \in 1 .. n : r[i] = s[(n - i) + 1]
  BY ReverseIsSeq
<1> HIDE DEF n, r
<1>2. \A i \in 1 .. n : (n - i) + 1 \in 1 .. n /\ (n - ((n - i) + 1)) + 1 = i
  BY <1>1
<1>3. \A i \in 1 .. n : s[i] = r[(n - i) + 1]
  BY <1>1, <1>2
<1>4. ToSet(r) = ToSet(s)
  BY <1>1, <1>2, <1>3 DEF ToSet
<1>5. ASSUME IsInjective(s), NEW i \in 1 .. n, NEW j \in 1 .. n, r[i] = r[j]
      PROVE  i = j
  <2>1. (n - i) + 1 = (n - j) + 1
    BY <1>1, <1>2, <1>5 DEF IsInjective
  <2> QED
    BY <1>1, <2>1
<1> QED
  BY <1>1, <1>4, <1>5 DEF IsInjective, r

\* The list of the connections that a pass accepts begins with one.
LEMMA OneElement ==
  ASSUME NEW S, NEW e \in S
  PROVE  <<e>> \in Seq(S) /\ ToSet(<<e>>) = {e} /\ IsInjective(<<e>>)
<1>1. <<e>> \in Seq(S) /\ DOMAIN <<e>> = 1 .. 1 /\ <<e>>[1] = e
  OBVIOUS
<1> QED
  BY <1>1 DEF ToSet, IsInjective

-----------------------------------------------------------------------------
(* The steps, by what they do to the places, the locks and the list        *)

\* A connection keeps its socket and its locks.
KeepsLocks(c) == /\ conn'[c].sock = conn[c].sock
                 /\ conn'[c].readLock = conn[c].readLock
                 /\ conn'[c].writeLock = conn[c].writeLock

\* A socket stays as open as it is, or is closed.
StaysOrCloses(s) ==
  net'[s] = net[s] \/ net'[s] = Closed \/ (net[s].fd # 0 /\ net'[s].fd = net[s].fd)

\* A step that moves bytes, or nothing
Quiet == /\ UNCHANGED <<free, list, fate>>
         /\ \A c \in Conns : KeepsLocks(c)
         /\ \A s \in Sockets : StaysOrCloses(s)

\* A step of the muxer at the connection c: its socket s is closed, and perhaps
\* released, or c is left with no lock but the one the muxer is waiting with.
HandleStep(c, s) ==
  /\ c \in Listed /\ At(c) /\ s = conn[c].sock /\ s \in Sockets
  /\ pc \in {"next", "reading", "writing"} /\ pc' \in {"reading", "writing", "check"}
  /\ UNCHANGED <<list, pos, mutex, next>>
  /\ conn'[c].sock = s /\ \A d \in Conns \ {c} : conn'[d] = conn[d]
  /\ \A t \in Sockets \ {s} : net'[t] = net[t]
  /\ \/ UNCHANGED <<free, fate>>
     \/ pc' = "check" /\ Release(s) /\ fate' = [fate EXCEPT ![c] = "gone"] /\ net'[s] = Closed
  /\ pc' = "reading" => ~conn'[c].writeLock
  /\ pc' = "writing" => ~conn'[c].readLock
  /\ pc' = "check" => net'[s].fd = 0 \/ (~conn'[c].readLock /\ ~conn'[c].writeLock)

\* A connection is listed if it has a place in the list.
LEMMA ListedAre ==
  ASSUME TypeOK
  PROVE  /\ Listed \subseteq Conns /\ DOMAIN list = 1 .. Len(list) /\ Len(list) \in Nat
         /\ \A j \in 1 .. Len(list) : list[j] \in Listed
         /\ \A c \in Listed : \E j \in 1 .. Len(list) : list[j] = c
BY DEF TypeOK, Listed, ToSet

Listing == TypeOK /\ ListedAreKnown /\ MuxerHasMutex /\ OneLock /\ ListedLocksAreFree

\* Everything the muxer does at a connection is a HandleStep.
LEMMA HandlesKind ==
  ASSUME Listing, NEW c \in Conns, Handles(c)
  PROVE  HandleStep(c, conn[c].sock)
<1> USE DEF Listing
<1> DEFINE s == conn[c].sock
<1>0. conn \in [Conns -> ConnRec] /\ net \in [Sockets -> NetRec]
  BY DEF TypeOK, ConnRec, NetRec
<1>1. At(c)
  BY DEF Handles, ClosesAsAsked, PassesBy, ReadsOOB, BeginsRead, ReadsData, ReadsEnd,
       ReadFails, BeginsWrite, Hands, WriteDone, WriteFails
<1>2. c \in Listed /\ pos \in DOMAIN list /\ c = list[pos] /\ s \in Sockets
  BY <1>1 DEF At, TypeOK, Listed, ToSet, ListedAreKnown
<1>3. /\ pc \in {"next", "reading", "writing"} /\ pc' \in {"reading", "writing", "check"}
      /\ UNCHANGED <<list, pos, mutex, next>>
  BY DEF Handles, ClosesAsAsked, PassesBy, ReadsOOB, BeginsRead, ReadsData, ReadsEnd,
       ReadFails, BeginsWrite, Hands, WriteDone, WriteFails, Ends, Fails, cvars, wvars, Goto
<1>4. conn'[c].sock = s /\ \A d \in Conns \ {c} : conn'[d] = conn[d]
  BY <1>0 DEF Handles, ClosesAsAsked, PassesBy, ReadsOOB, BeginsRead, ReadsData, ReadsEnd,
       ReadFails, BeginsWrite, Hands, WriteDone, WriteFails, cvars, ConnRec
<1>5. \A t \in Sockets \ {s} : net'[t] = net[t]
  BY <1>0 DEF Handles, ClosesAsAsked, PassesBy, ReadsOOB, BeginsRead, ReadsData, ReadsEnd,
       ReadFails, BeginsWrite, Hands, WriteDone, WriteFails, Ends, Fails
<1>6. \/ UNCHANGED <<free, fate>>
      \/ pc' = "check" /\ Release(s) /\ fate' = [fate EXCEPT ![c] = "gone"] /\ net'[s] = Closed
  <2>1. ASSUME Ends(c)
        PROVE  pc' = "check" /\ Release(s) /\ fate' = [fate EXCEPT ![c] = "gone"] /\ net'[s] = Closed
    BY <1>0, <1>2, <2>1 DEF Ends, Goto
  <2> QED
    BY <2>1 DEF Handles, ClosesAsAsked, PassesBy, ReadsOOB, BeginsRead, ReadsData, ReadsEnd,
       ReadFails, BeginsWrite, Hands, WriteDone, WriteFails, Fails, cvars
<1>7. pc = "next" => ~conn[c].readLock /\ ~conn[c].writeLock
  BY <1>2 DEF ListedLocksAreFree
<1>8. /\ pc' = "reading" => ~conn'[c].writeLock
      /\ pc' = "writing" => ~conn'[c].readLock
      /\ pc' = "check" => net'[s].fd = 0 \/ (~conn'[c].readLock /\ ~conn'[c].writeLock)
  <2>1. ASSUME Fails(c) \/ Ends(c)
        PROVE  pc' = "check" /\ net'[s].fd = 0
    BY <1>0, <1>2, <2>1 DEF Ends, Fails, Closed, Goto
  <2>2. CASE ClosesAsAsked(c) \/ ReadsEnd(c) \/ ReadFails(c) \/ WriteFails(c)
    BY <2>1, <2>2 DEF ClosesAsAsked, ReadsEnd, ReadFails, WriteFails
  <2>3. CASE PassesBy(c) \/ ReadsOOB(c)
    BY <1>7, <2>1, <2>3 DEF PassesBy, ReadsOOB, Goto
  <2>4. CASE BeginsRead(c)
    BY <1>0, <1>7, <2>1, <2>4 DEF BeginsRead, Goto, ConnRec
  <2>5. CASE BeginsWrite(c)
    BY <1>0, <1>7, <2>1, <2>5 DEF BeginsWrite, Goto, ConnRec
  <2>6. CASE ReadsData(c)
    <3>1. pc' = "check" /\ ~conn'[c].readLock /\ conn'[c].writeLock = conn[c].writeLock
      BY <1>0, <2>6 DEF ReadsData, Goto, ConnRec
    <3> QED
      BY <1>2, <2>6, <3>1 DEF OneLock, ReadsData
  <2>7. CASE WriteDone(c)
    <3>1. pc' = "check" /\ ~conn'[c].writeLock /\ conn'[c].readLock = conn[c].readLock
      BY <1>0, <2>7 DEF WriteDone, Goto, ConnRec
    <3> QED
      BY <1>2, <2>7, <3>1 DEF OneLock, WriteDone
  <2>8. CASE Hands(c)
    BY <1>2, <2>8 DEF Hands, OneLock, cvars
  <2> QED
    BY <2>2, <2>3, <2>4, <2>5, <2>6, <2>7, <2>8 DEF Handles
<1> QED
  BY <1>1, <1>2, <1>3, <1>4, <1>5, <1>6, <1>8 DEF HandleStep

\* The control of a quiet step
QuietControl ==
  \/ UNCHANGED <<pc, pos, mutex, next>>
  \/ pc \in {"select", "accept"} /\ pc' \in {"accept", "scan", "cleanup"} /\ UNCHANGED wvars
  \/ /\ pc \in {"accept", "scan"} /\ pc' = "next" /\ mutex = "none" /\ mutex' = "muxer"
     /\ UNCHANGED next
  \/ pc = "next" /\ pc' = "select" /\ mutex' = "none" /\ UNCHANGED next
  \/ UNCHANGED <<pc, pos>> /\ mutex = "none" /\ mutex' = "writer" /\ next' \in Listed
  \/ /\ UNCHANGED <<pc, pos>> /\ mutex = "writer"
     /\ \/ mutex' = "writer" /\ next' \in Listed
        \/ mutex' = "none" /\ next' = NoConn

\* The other threads, and the steps of the muxer between connections, leave
\* the places, the list and the locks alone.
LEMMA QuietKind ==
  ASSUME Listing, WriterIsAtListed,
         \/ Selects \/ SelectFails \/ Stops \/ Refuses \/ Locks \/ PassDone
         \/ Application \/ Peers \/ UNCHANGED vars
  PROVE  Quiet /\ QuietControl
<1>0. conn \in [Conns -> ConnRec] /\ net \in [Sockets -> NetRec]
  BY DEF Listing, TypeOK, ConnRec, NetRec
<1>1. CASE Selects \/ SelectFails \/ Stops \/ Refuses \/ Locks \/ PassDone \/ UNCHANGED vars
  <2>1. Quiet
    BY <1>1 DEF Selects, SelectFails, Stops, Refuses, Locks, PassDone, vars, cvars,
         Quiet, KeepsLocks, StaysOrCloses
  <2>2. QuietControl
    BY <1>1 DEF Selects, SelectFails, Stops, Refuses, Locks, PassDone, vars, wvars, mvars,
         Goto, QuietControl
  <2> QED
    BY <2>1, <2>2
<1>2. ASSUME NEW c \in Conns, Writes(c) \/ Reads(c) \/ Closes(c) \/ ClosesAtOnce(c)
      PROVE  Quiet /\ QuietControl
  <2>1. UNCHANGED <<free, list, fate, pc, pos, mutex, next>>
    BY <1>2 DEF Writes, Reads, Closes, ClosesAtOnce, Uses, mvars, wvars
  <2>2. \A d \in Conns : KeepsLocks(d)
    BY <1>0, <1>2 DEF Writes, Reads, Closes, ClosesAtOnce, KeepsLocks, ConnRec
  <2>3. \A s \in Sockets : StaysOrCloses(s)
    BY <1>0, <1>2 DEF Writes, Reads, Closes, ClosesAtOnce, StaysOrCloses
  <2> QED
    BY <2>1, <2>2, <2>3 DEF Quiet, QuietControl
<1>3. CASE BeginsWriteAll
  <2>1. next' \in Listed
    BY <1>3 DEF BeginsWriteAll, Listing, TypeOK, Listed, ToSet
  <2> QED
    BY <1>3, <2>1 DEF BeginsWriteAll, Quiet, QuietControl, KeepsLocks, StaysOrCloses, cvars, mvars
<1>4. CASE WritesNext
  <2> DEFINE i == CHOOSE j \in DOMAIN list : list[j] = next
  <2>0. next \in Listed /\ next \in Conns /\ i \in 1 .. Len(list)
    <3>1. next \in Listed
      BY <1>4 DEF WritesNext
    <3> QED
      BY <3>1, ListedAre DEF Listing, TypeOK
  <2>1. mutex = "writer"
    BY <2>0, MuxerAssumption DEF WriterIsAtListed, MuxerAssumption
  <2>2. \/ next' = list[i + 1] /\ i < Len(list) /\ mutex' = mutex
        \/ next' = NoConn /\ mutex' = "none"
    BY <1>4 DEF WritesNext
  <2>3. i < Len(list) => list[i + 1] \in Listed
    <3>1. i < Len(list) => (i + 1) \in 1 .. Len(list)
      BY <2>0, SMTT(60) DEF Listing, TypeOK
    <3> QED
      BY <3>1, ListedAre DEF Listing
  <2>4. UNCHANGED <<free, net, list, fate, pc, pos>>
    BY <1>4 DEF WritesNext, mvars
  <2>5. \A d \in Conns : KeepsLocks(d)
    BY <1>0, <1>4, <2>0 DEF WritesNext, KeepsLocks, ConnRec
  <2> QED
    BY <2>1, <2>2, <2>3, <2>4, <2>5 DEF Quiet, QuietControl, StaysOrCloses
<1>5. ASSUME NEW s \in Sockets, PeerSends(s) \/ PeerTakes(s) \/ PeerEnds(s) \/ PeerResets(s)
      PROVE  Quiet /\ QuietControl
  <2>1. UNCHANGED <<free, conn, list, fate, pc, pos, mutex, next>>
    BY <1>5 DEF PeerSends, PeerTakes, PeerEnds, PeerResets, Peer, cvars, mvars, wvars
  <2>2. \A t \in Sockets : StaysOrCloses(t)
    <3>1. net[s].fd # 0 /\ net'[s].fd = net[s].fd
      BY <1>0, <1>5 DEF PeerSends, PeerTakes, PeerEnds, PeerResets, Peer, NetRec
    <3>2. \A t \in Sockets \ {s} : net'[t] = net[t]
      BY <1>0, <1>5 DEF PeerSends, PeerTakes, PeerEnds, PeerResets, Peer
    <3> QED
      BY <3>1, <3>2 DEF StaysOrCloses
  <2> QED
    BY <2>1, <2>2 DEF Quiet, QuietControl, KeepsLocks
<1> QED
  BY <1>1, <1>2, <1>3, <1>4, <1>5 DEF Application, Peers

-----------------------------------------------------------------------------
(* Each part of the invariant is kept                                      *)

\* The buffers of a connection hold no more than their size.
LEMMA ConnsAreTyped ==
  ASSUME Listing, Next
  PROVE  conn' \in [Conns -> ConnRec]
<1>0. conn \in [Conns -> ConnRec] /\ left \in 0 .. BufferSize /\ BufferSize \in Nat
  BY MuxerAssumption DEF Listing, TypeOK, ConnRec, MuxerAssumption
<1>1. ASSUME NEW c \in Conns
      PROVE  conn[c].readBuf \in 0 .. BufferSize /\ conn[c].writeBuf \in 0 .. BufferSize
  BY <1>0 DEF ConnRec
<1>2. CASE UNCHANGED conn
  BY <1>0, <1>2
<1>3. ASSUME NEW c \in Conns, Handles(c)
      PROVE  conn' \in [Conns -> ConnRec]
  <2>1. CASE ReadsData(c)
    <3> DEFINE s == conn[c].sock
               k == Min({net[s].in, BufferSize - conn[c].readBuf})
    <3>1. s \in Sockets /\ net[s].in \in 0 .. BufferSize
      BY <2>1, ListedAre DEF ReadsData, At, Listing, ListedAreKnown, TypeOK
    <3>2. k \in 0 .. (BufferSize - conn[c].readBuf)
      BY <1>0, <1>1, <3>1, MinOfTwo
    <3>3. conn[c].readBuf + k \in 0 .. BufferSize
      BY <1>0, <1>1, <3>2
    <3>4. conn' = [conn EXCEPT ![c].readBuf = conn[c].readBuf + k, ![c].readLock = FALSE]
      BY <2>1 DEF ReadsData
    <3> QED
      BY <1>0, <3>3, <3>4, ConnUpdates
  <2>2. CASE WriteDone(c)
    BY <1>0, <2>2, ConnUpdates DEF WriteDone
  <2>3. CASE UNCHANGED conn \/ conn' = [conn EXCEPT ![c].readLock = TRUE]
                \/ conn' = [conn EXCEPT ![c].writeLock = TRUE]
    BY <1>0, <2>3, ZenonT(60) DEF ConnRec
  <2> QED
    BY <1>3, <2>1, <2>2, <2>3 DEF Handles, ClosesAsAsked, PassesBy, ReadsOOB, BeginsRead, ReadsEnd,
       ReadFails, BeginsWrite, Hands, WriteFails, cvars
<1>4. ASSUME NEW c \in Conns, Accepts(c)
      PROVE  conn' \in [Conns -> ConnRec]
  BY <1>0, <1>4, FreshRecords DEF Accepts
<1>5. CASE Checks
  <2>1. UNCHANGED conn \/ conn' = [conn EXCEPT ![list[pos]] = New(NoSocket)]
    BY <1>0, <1>5 DEF Checks
  <2> QED
    BY <1>0, <2>1, FreshRecords
<1>6. CASE Cleanup
  BY <1>0, <1>6, FreshRecords DEF Cleanup
<1>7. ASSUME NEW c \in Conns, Writes(c) \/ Reads(c) \/ Closes(c) \/ ClosesAtOnce(c)
      PROVE  conn' \in [Conns -> ConnRec]
  <2>1. CASE Writes(c)
    <3>1. conn[c].writeBuf + 1 \in 0 .. BufferSize
      BY <1>0, <1>1, <2>1 DEF Writes
    <3> QED
      BY <1>0, <2>1, <3>1, ConnUpdates DEF Writes
  <2>2. CASE Reads(c)
    <3>1. conn' = [conn EXCEPT ![c].readBuf = 0] /\ 0 \in 0 .. BufferSize
      BY <1>0, <2>2 DEF Reads
    <3> QED
      BY <1>0, <3>1, ConnUpdates
  <2>3. CASE Closes(c) \/ ClosesAtOnce(c)
    <3>1. UNCHANGED conn \/ conn' = [conn EXCEPT ![c].pending = TRUE]
      BY <2>3 DEF Closes, ClosesAtOnce
    <3> QED
      BY <1>0, <3>1, ZenonT(60) DEF ConnRec
  <2> QED
    BY <1>7, <2>1, <2>2, <2>3
<1>8. CASE WritesNext
  <2>1. next \in Conns
    BY <1>8, ListedAre DEF WritesNext, Listing
  <2>2. (IF conn[next].writeBuf < BufferSize THEN conn[next].writeBuf + 1 ELSE conn[next].writeBuf)
           \in 0 .. BufferSize
    BY <1>0, <1>1, <2>1
  <2> QED
    BY <1>0, <1>8, <2>1, <2>2, ConnUpdates DEF WritesNext
<1> QED
  BY <1>2, <1>3, <1>4, <1>5, <1>6, <1>7, <1>8 DEF Next, Runs, Application, Peers, Selects, SelectFails, Stops,
     Refuses, AcceptTimesOut, Locks, PassDone, BeginsWriteAll, PeerSends, PeerTakes, PeerEnds, PeerResets,
     Peer, cvars

\* What a socket has to give and has room for stays within its bounds.
LEMMA NetIsTyped ==
  ASSUME Listing, FreeAreClosed, Next
  PROVE  net' \in [Sockets -> NetRec]
<1>0. /\ net \in [Sockets -> NetRec] /\ Closed \in NetRec
      /\ {BufferSize, Room} \subseteq Nat
      /\ Cardinality(Sockets) \in Nat
  BY MuxerAssumption, FreshRecords, FS_CardinalityType DEF Listing, TypeOK, NetRec, MuxerAssumption
<1>1. ASSUME NEW s \in Sockets
      PROVE  net[s].in \in 0 .. BufferSize /\ net[s].room \in 0 .. Room
  BY <1>0 DEF NetRec
<1>2. CASE UNCHANGED net
  BY <1>0, <1>2
<1>3. ASSUME NEW c \in Conns, Handles(c)
      PROVE  net' \in [Sockets -> NetRec]
  <2> DEFINE s == conn[c].sock
  <2>0. s \in Sockets
    BY <1>3, HandlesKind DEF HandleStep
  <2>1. CASE ReadsData(c)
    <3> DEFINE k == Min({net[s].in, BufferSize - conn[c].readBuf})
    <3>1. k \in 0 .. net[s].in
      <4>1. conn[c].readBuf \in 0 .. BufferSize
        BY DEF Listing, TypeOK
      <4> QED
        BY <1>0, <1>1, <2>0, <4>1, MinOfTwo
    <3>2. net[s].in - k \in 0 .. BufferSize
      BY <1>0, <1>1, <2>0, <3>1
    <3>3. net' = [net EXCEPT ![s].in = net[s].in - k]
      BY <2>1 DEF ReadsData
    <3> QED
      BY <1>0, <2>0, <3>2, <3>3, NetUpdates
  <2>2. CASE Hands(c)
    <3>1. net[s].room - 1 \in 0 .. Room
      BY <1>0, <1>1, <2>0, <2>2 DEF Hands
    <3> QED
      BY <1>0, <2>0, <2>2, <3>1, NetUpdates DEF Hands
  <2>3. CASE net' = [net EXCEPT ![s] = Closed]
    BY <1>0, <2>3
  <2> QED
    BY <1>2, <1>3, <2>1, <2>2, <2>3 DEF Handles, ClosesAsAsked, PassesBy, ReadsOOB, BeginsRead, ReadsEnd,
       ReadFails, BeginsWrite, WriteDone, WriteFails, Ends, Fails
<1>4. ASSUME NEW c \in Conns, Accepts(c)
      PROVE  net' \in [Sockets -> NetRec]
  <2>1. PICK s \in Sockets : Reserve(s) /\ net' = [net EXCEPT ![s].fd = FreeFd]
    BY <1>4 DEF Accepts
  <2>2. net[s].fd = 0
    BY <2>1, HeadIsFree DEF FreeAreClosed, Closed, Listing, TypeOK
  <2>3. FreeFd \in 1 .. Cardinality(Sockets)
    BY <1>0, <2>2, FreeFdExists, MuxerAssumption DEF MuxerAssumption, NetRec
  <2>4. FreeFd \in 0 .. Cardinality(Sockets)
    BY <1>0, <2>3
  <2> QED
    BY <1>0, <2>1, <2>4, NetUpdates
<1>5. CASE Cleanup
  BY <1>0, <1>5 DEF Cleanup
<1>6. ASSUME NEW c \in Conns, ClosesAtOnce(c)
      PROVE  net' \in [Sockets -> NetRec]
  BY <1>0, <1>6 DEF ClosesAtOnce
<1>7. CASE Peers
  <2>1. PICK s \in Sockets : PeerSends(s) \/ PeerTakes(s) \/ PeerEnds(s) \/ PeerResets(s)
    BY <1>7 DEF Peers
  <2>2. CASE PeerSends(s)
    BY <1>0, <1>1, <2>2 DEF PeerSends, Peer, NetRec
  <2>3. CASE PeerTakes(s)
    BY <1>0, <2>3 DEF PeerTakes, Peer, NetRec
  <2>4. CASE PeerEnds(s)
    BY <1>0, <2>4 DEF PeerEnds, Peer, NetRec
  <2>5. CASE PeerResets(s)
    <3>1. net' = [net EXCEPT ![s] = [net[s] EXCEPT !.peer = "reset", !.in = 0]]
      BY <2>5 DEF PeerResets, Peer
    <3>2. [net[s] EXCEPT !.peer = "reset", !.in = 0] \in NetRec
      <4>1. net[s] \in NetRec /\ 0 \in 0 .. BufferSize
        BY <1>0
      <4> DEFINE r == net[s]
      <4> HIDE DEF r
      <4>2. r \in NetRec => [[r EXCEPT !.peer = "reset"] EXCEPT !.in = 0] \in NetRec
        BY <4>1 DEF NetRec
      <4> QED
        BY <4>1, <4>2 DEF r
    <3> QED
      BY <1>0, <3>1, <3>2
  <2> QED
    BY <2>1, <2>2, <2>3, <2>4, <2>5
<1> QED
  BY <1>2, <1>3, <1>4, <1>5, <1>6, <1>7 DEF Next, Runs, Application, Selects, SelectFails, Stops,
     Refuses, AcceptTimesOut, Locks, PassDone, Checks, Writes, Reads, Closes, BeginsWriteAll, WritesNext

\* The control of each kind of step, and the list
LEMMA ListIsTyped ==
  ASSUME Listing, Next
  PROVE  /\ list' \in Seq(Conns) /\ fate' \in [Conns -> {"gone", "live", "lost"}]
         /\ pos' \in Nat \ {0} /\ left' \in 0 .. BufferSize
         /\ next' \in Conns \cup {NoConn} /\ mutex' \in {"none", "muxer", "writer"}
         /\ pc' \in {"select", "accept", "scan", "next", "reading", "writing", "check",
                     "cleanup", "ended"}
         /\ pc' \in {"reading", "writing", "check"} => pos' \in DOMAIN list'
<1> USE DEF Listing
<1>0. left \in 0 .. BufferSize /\ BufferSize \in Nat
  BY MuxerAssumption DEF TypeOK, MuxerAssumption
<1>1. ASSUME NEW c \in Conns, Handles(c)
      PROVE  /\ list' = list /\ pos' = pos /\ mutex' = mutex /\ next' = next
             /\ fate' \in [Conns -> {"gone", "live", "lost"}]
             /\ left' \in 0 .. BufferSize
             /\ pc' \in {"reading", "writing", "check"} /\ pos \in DOMAIN list
  <2>1. /\ UNCHANGED <<list, pos, mutex, next>> /\ pc' \in {"reading", "writing", "check"}
        /\ fate' \in [Conns -> {"gone", "live", "lost"}]
        /\ pos \in DOMAIN list
    <3>1. HandleStep(c, conn[c].sock)
      BY <1>1, HandlesKind
    <3>2. fate \in [Conns -> {"gone", "live", "lost"}] /\ DOMAIN list = 1 .. Len(list) /\ pos \in Nat \ {0}
      BY DEF TypeOK
    <3> QED
      BY <3>1, <3>2 DEF HandleStep, At
  <2>2. conn[c].writeBuf \in 0 .. BufferSize
    BY DEF TypeOK
  <2>3. \/ left' \in {left, 0, conn[c].writeBuf}
        \/ left' = left - 1 /\ left > 0
    BY <1>1 DEF Handles, ClosesAsAsked, PassesBy, ReadsOOB, BeginsRead, ReadsData, ReadsEnd,
         ReadFails, BeginsWrite, Hands, WriteDone, WriteFails
  <2> QED
    BY <1>0, <2>1, <2>2, <2>3
<1>2. ASSUME NEW c \in Conns, Accepts(c)
      PROVE  /\ list' \in Seq(Conns) /\ fate' \in [Conns -> {"gone", "live", "lost"}]
             /\ pc' = "scan" /\ UNCHANGED <<pos, left, mutex, next>>
  BY <1>2 DEF Accepts, TypeOK, Goto, wvars
<1>3. CASE Checks
  <2>1. pos \in 1 .. Len(list) /\ list[pos] \in Conns
    BY <1>3 DEF Checks, TypeOK
  <2>2. RemoveAt(list, pos) \in Seq(Conns)
    BY <2>1, WithoutOne DEF TypeOK
  <2>3. pos' \in Nat \ {0} /\ list' \in Seq(Conns)
    BY <1>3, <2>1, <2>2 DEF Checks, TypeOK
  <2>4. fate' \in [Conns -> {"gone", "live", "lost"}]
    BY <1>3, <2>1 DEF Checks, TypeOK
  <2> QED
    BY <1>3, <2>3, <2>4 DEF Checks, TypeOK, Goto, wvars
<1>4. CASE Cleanup
  BY <1>4 DEF Cleanup, TypeOK, Goto, wvars
<1>5. CASE Selects \/ SelectFails \/ Stops \/ Refuses \/ AcceptTimesOut \/ Locks \/ PassDone
  BY <1>5 DEF Selects, SelectFails, Stops, Refuses, AcceptTimesOut, Locks, PassDone, TypeOK, Goto,
     cvars, wvars
<1>6. CASE Application
  <2>1. CASE WritesNext
    <3> DEFINE i == CHOOSE j \in DOMAIN list : list[j] = next
    <3>1. i \in 1 .. Len(list)
      BY <2>1, ListedAre DEF WritesNext
    <3>2. next' \in Conns \cup {NoConn} /\ mutex' \in {mutex, "none"}
      <4>1. \/ next' = list[i + 1] /\ i < Len(list) /\ mutex' = mutex
            \/ next' = NoConn /\ mutex' = "none"
        BY <2>1 DEF WritesNext
      <4>2. i < Len(list) => list[i + 1] \in Conns
        BY <3>1 DEF TypeOK
      <4> QED
        BY <4>1, <4>2
    <3> QED
      BY <2>1, <3>2 DEF WritesNext, TypeOK, mvars
  <2>2. CASE BeginsWriteAll
    <3>1. Head(list) \in Conns
      BY <2>2 DEF BeginsWriteAll, TypeOK
    <3> QED
      BY <2>2, <3>1 DEF BeginsWriteAll, TypeOK, cvars, mvars
  <2>3. ASSUME NEW c \in Conns, Writes(c) \/ Reads(c) \/ Closes(c) \/ ClosesAtOnce(c)
        PROVE  UNCHANGED <<list, fate, pos, left, next, mutex, pc>>
    BY <2>3 DEF Writes, Reads, Closes, ClosesAtOnce, Uses, mvars, wvars
  <2>4. CASE UNCHANGED <<list, fate, pos, left, next, mutex, pc>>
    BY <2>4 DEF TypeOK
  <2> QED
    BY <1>6, <2>1, <2>2, <2>3, <2>4 DEF Application
<1>7. CASE Peers
  BY <1>7 DEF Peers, PeerSends, PeerTakes, PeerEnds, PeerResets, Peer, TypeOK, cvars, mvars, wvars
<1> QED
  BY <1>1, <1>2, <1>3, <1>4, <1>5, <1>6, <1>7 DEF Next, Runs, TypeOK

\* Every step keeps the types.
LEMMA TypeStep ==
  ASSUME Listing, FreeAreClosed, Next
  PROVE  TypeOK'
<1> USE DEF Listing
<1>1. conn' \in [Conns -> ConnRec] /\ net' \in [Sockets -> NetRec]
  BY ConnsAreTyped, NetIsTyped
<1>2. free' \in Seq(Sockets)
  <2>1. ASSUME NEW c \in Conns, Handles(c)
        PROVE  free' \in Seq(Sockets)
    <3> DEFINE s == conn[c].sock
    <3>1. HandleStep(c, s)
      BY <2>1, HandlesKind
    <3>2. s \in Sockets /\ (free' = free \/ free' = <<s>> \o free)
      BY <3>1 DEF HandleStep, Release
    <3>3. <<s>> \in Seq(Sockets) /\ free \in Seq(Sockets)
      BY <3>2 DEF TypeOK
    <3> QED
      BY <3>2, <3>3, ConcatProperties
  <2>2. CASE Cleanup
    <3> DEFINE ss == [i \in DOMAIN list |-> conn[list[i]].sock]
    <3>1. \A i \in 1 .. Len(list) : conn[list[i]].sock \in Sockets
      BY ListedAre DEF ListedAreKnown
    <3>2. ss \in Seq(Sockets)
      BY <3>1, ListedAre
    <3>3. Reverse(ss) \in Seq(Sockets)
      BY <3>2, ReverseIsSeq
    <3> QED
      BY <2>2, <3>3 DEF Cleanup, ReleaseAll, TypeOK
  <2>3. ASSUME NEW c \in Conns, Accepts(c)
        PROVE  free' \in Seq(Sockets)
    BY <2>3, HeadIsFree DEF Accepts, TypeOK
  <2>4. CASE AcceptTimesOut
    BY <2>4, HeadIsFree DEF AcceptTimesOut, TypeOK
  <2> QED
    BY <2>1, <2>2, <2>3, <2>4 DEF Next, Runs, Application, Selects, SelectFails, Stops, Refuses, Locks,
       PassDone, Checks, Writes, Reads, Closes, ClosesAtOnce, Uses, BeginsWriteAll, WritesNext, Peers,
       PeerSends, PeerTakes, PeerEnds, PeerResets, Peer, TypeOK
<1>3. fds' \in [{"read", "write"} -> SUBSET (1 .. Cardinality(Sockets))]
  <2>1. CASE Selects
    <3>1. \A c \in Listed : IsOpen(c) => Fd(c) \in 1 .. Cardinality(Sockets)
      BY FS_CardinalityType, MuxerAssumption DEF MuxerAssumption, ListedAreKnown, IsOpen, Fd, TypeOK
    <3> QED
      BY <2>1, <3>1 DEF Selects
  <2>2. CASE UNCHANGED fds \/ fds' = NoSets
    BY <2>2 DEF TypeOK, NoSets
  <2> QED
    BY <2>1, <2>2 DEF Next, Runs, Handles, ClosesAsAsked, PassesBy, ReadsOOB, BeginsRead, ReadsData,
       ReadsEnd, ReadFails, BeginsWrite, Hands, WriteDone, WriteFails, Accepts, Application, SelectFails,
       Stops, Refuses, AcceptTimesOut, Locks, PassDone, Checks, Cleanup, Writes, Reads, Closes,
       ClosesAtOnce, Uses, BeginsWriteAll, WritesNext, Peers, PeerSends, PeerTakes, PeerEnds, PeerResets, Peer, mvars
<1> QED
  BY <1>1, <1>2, <1>3, ListIsTyped DEF TypeOK, ConnRec, NetRec

\* s, the first free place, is taken off the free list.
TakesFirst(s) ==
  /\ s \in ToSet(free) /\ s = free[1]
  /\ Len(free') = Len(free) - 1 /\ \A i \in 1 .. Len(free') : free'[i] = free[i + 1]

\* A place is reserved, and that is all.
ForgetStep(s) ==
  /\ pc = "accept" /\ pc' = "cleanup" /\ TakesFirst(s)
  /\ UNCHANGED <<net, conn, list, fate, mutex, next>>

\* An accept() that times out leaves the loop with a place in its hands.
LEMMA TimesOutKind ==
  ASSUME TypeOK, AcceptTimesOut
  PROVE  \E s \in Sockets : ForgetStep(s)
<1>1. PICK s \in Sockets : Reserve(s)
  BY DEF AcceptTimesOut
<1>2. TakesFirst(s)
  BY <1>1, HeadIsFree DEF TypeOK, TakesFirst
<1> QED
  BY <1>2 DEF AcceptTimesOut, ForgetStep, Goto, cvars, wvars

\* A new connection with the first free socket, at the end of the list
AcceptStep(c, s) ==
  /\ pc = "accept" /\ pc' = "scan" /\ UNCHANGED <<mutex, next>>
  /\ fate[c] = "gone" /\ c \notin Listed /\ fate' = [fate EXCEPT ![c] = "live"]
  /\ TakesFirst(s)
  /\ \A t \in Sockets \ {s} : net'[t] = net[t]
  /\ conn'[c] = New(s) /\ \A d \in Conns \ {c} : conn'[d] = conn[d]
  /\ Len(list') = Len(list) + 1 /\ list'[Len(list')] = c
  /\ \A j \in 1 .. Len(list) : list'[j] = list[j]

\* accept() takes the first free place and opens its socket.
LEMMA AcceptsKind ==
  ASSUME TypeOK, NEW c \in Conns, Accepts(c)
  PROVE  \E s \in Sockets : AcceptStep(c, s)
<1>0. conn \in [Conns -> ConnRec] /\ net \in [Sockets -> NetRec]
  BY DEF TypeOK, ConnRec, NetRec
<1>1. PICK s \in Sockets : /\ Reserve(s) /\ net' = [net EXCEPT ![s].fd = FreeFd]
                           /\ conn' = [conn EXCEPT ![c] = New(s)]
  BY DEF Accepts
<1>2. TakesFirst(s)
  BY <1>1, HeadIsFree DEF TypeOK, TakesFirst
<1>3. /\ \A t \in Sockets \ {s} : net'[t] = net[t]
      /\ conn'[c] = New(s) /\ \A d \in Conns \ {c} : conn'[d] = conn[d]
  BY <1>0, <1>1
<1>4. /\ Len(list') = Len(list) + 1 /\ list'[Len(list')] = c
      /\ \A j \in 1 .. Len(list) : list'[j] = list[j]
  BY AppendProperties DEF Accepts, TypeOK
<1> QED
  BY <1>2, <1>3, <1>4 DEF Accepts, AcceptStep, Goto, wvars

\* A connection whose socket is closed leaves the list.
DropStep(c) ==
  /\ pc = "check" /\ pc' = "next" /\ UNCHANGED <<free, net, mutex, next>>
  /\ pos \in 1 .. Len(list) /\ c = list[pos] /\ ~IsOpen(c)
  /\ Len(list') = Len(list) - 1
  /\ \A j \in 1 .. (Len(list) - 1) : list'[j] = IF j < pos THEN list[j] ELSE list[j + 1]
  /\ \A d \in Conns \ {c} : conn'[d] = conn[d]
  /\ fate[c] = "gone" \/ conn'[c].sock = conn[c].sock
  /\ fate' = [fate EXCEPT ![c] = IF fate[c] = "gone" THEN "gone" ELSE "lost"]

\* A connection that is open stays listed; one that is closed leaves the list.
LEMMA ChecksKind ==
  ASSUME TypeOK, Checks
  PROVE  \/ /\ UNCHANGED <<free, net, conn, list, fate, mutex, next>>
            /\ pc = "check" /\ pc' = "next" /\ IsOpen(list[pos])
         \/ \E c \in Conns : DropStep(c)
<1>1. pos \in 1 .. Len(list) /\ list[pos] \in Conns
  BY DEF Checks, TypeOK
<1> DEFINE c == list[pos]
<1>2. CASE IsOpen(c)
  BY <1>2 DEF Checks, Goto, wvars
<1>3. CASE ~IsOpen(c)
  <2>1. /\ list' = RemoveAt(list, pos)
        /\ conn' = [conn EXCEPT ![c] = IF fate[c] = "gone" THEN New(NoSocket) ELSE conn[c]]
        /\ fate' = [fate EXCEPT ![c] = IF fate[c] = "gone" THEN "gone" ELSE "lost"]
        /\ pc = "check" /\ pc' = "next" /\ UNCHANGED <<free, net, mutex, next>>
    BY <1>3 DEF Checks, Goto, wvars
  <2>2. /\ Len(list') = Len(list) - 1
        /\ \A j \in 1 .. (Len(list) - 1) : list'[j] = IF j < pos THEN list[j] ELSE list[j + 1]
    <3>1. list \in Seq(Conns)
      BY DEF TypeOK
    <3> QED
      BY <1>1, <2>1, <3>1, WithoutOne
  <2>3. /\ \A d \in Conns \ {c} : conn'[d] = conn[d]
        /\ fate[c] = "gone" \/ conn'[c].sock = conn[c].sock
    BY <1>1, <2>1 DEF TypeOK
  <2>4. DropStep(c)
    BY <1>1, <1>3, <2>1, <2>2, <2>3 DEF DropStep
  <2> QED
    BY <1>1, <2>4
<1> QED
  BY <1>2, <1>3

\* Every step is one of seven kinds.
LEMMA StepKinds ==
  ASSUME Listing, WriterIsAtListed, [Next]_vars
  PROVE  \/ Quiet /\ QuietControl
         \/ \E c \in Conns : HandleStep(c, conn[c].sock)
         \/ \E c \in Conns, s \in Sockets : AcceptStep(c, s)
         \/ /\ UNCHANGED <<free, net, conn, list, fate, mutex, next>>
            /\ pc = "check" /\ pc' = "next" /\ IsOpen(list[pos])
         \/ \E c \in Conns : DropStep(c)
         \/ \E s \in Sockets : ForgetStep(s)
         \/ Cleanup
BY QuietKind, HandlesKind, AcceptsKind, ChecksKind, TimesOutKind DEF Next, Runs, Listing

\* What each kind of step makes of the listed connections
LEMMA ListedSteps ==
  ASSUME TypeOK, TypeOK', ListedOnce
  PROVE  /\ \A c \in Conns, s \in Sockets : AcceptStep(c, s) => Listed' = Listed \cup {c}
         /\ \A c \in Conns : DropStep(c) => Listed' = Listed \ {c}
         /\ list' = list => Listed' = Listed
<1>0. /\ DOMAIN list = 1 .. Len(list) /\ Len(list) \in Nat
      /\ DOMAIN list' = 1 .. Len(list') /\ Len(list') \in Nat
  BY DEF TypeOK
<1>1. ASSUME NEW c \in Conns, NEW s \in Sockets, AcceptStep(c, s)
      PROVE  Listed' = Listed \cup {c}
  <2>1. 1 .. Len(list') = (1 .. Len(list)) \cup {Len(list')}
    BY <1>0, <1>1 DEF AcceptStep
  <2> QED
    BY <1>0, <1>1, <2>1 DEF AcceptStep, Listed, ToSet
<1>2. ASSUME NEW c \in Conns, DropStep(c)
      PROVE  Listed' = Listed \ {c}
  <2>1. ASSUME NEW d \in Listed'
        PROVE  d \in Listed \ {c}
    <3>1. PICK j \in 1 .. (Len(list) - 1) : d = list'[j]
      BY <1>0, <1>2, <2>1 DEF DropStep, Listed, ToSet
    <3>2. PICK k \in 1 .. Len(list) : k # pos /\ d = list[k]
      BY <1>0, <1>2, <3>1 DEF DropStep
    <3> QED
      BY <1>0, <1>2, <3>2 DEF DropStep, Listed, ToSet, ListedOnce
  <2>2. ASSUME NEW d \in Listed \ {c}
        PROVE  d \in Listed'
    <3>1. PICK k \in 1 .. Len(list) : d = list[k] /\ k # pos
      BY <1>0, <1>2, <2>2 DEF DropStep, Listed, ToSet
    <3>2. PICK j \in 1 .. (Len(list) - 1) : d = list'[j]
      <4>1. CASE k < pos
        BY <1>0, <1>2, <3>1, <4>1 DEF DropStep
      <4>2. CASE k > pos
        <5>1. k - 1 \in 1 .. (Len(list) - 1) /\ ~(k - 1 < pos) /\ (k - 1) + 1 = k
          BY <1>0, <1>2, <4>2 DEF DropStep
        <5> QED
          BY <1>2, <3>1, <5>1 DEF DropStep
      <4> QED
        BY <1>0, <1>2, <3>1, <4>1, <4>2 DEF DropStep
    <3> QED
      BY <1>0, <1>2, <3>2 DEF DropStep, Listed, ToSet
  <2> QED
    BY <2>1, <2>2
<1> QED
  BY <1>1, <1>2 DEF Listed

\* What reserve() leaves of the free list
LEMMA Taken ==
  ASSUME TypeOK, TypeOK', IsInjective(free), NEW s \in Sockets, TakesFirst(s)
  PROVE  IsInjective(free') /\ ToSet(free') = ToSet(free) \ {s}
<1>0. /\ DOMAIN free = 1 .. Len(free) /\ Len(free) \in Nat
      /\ DOMAIN free' = 1 .. Len(free') /\ Len(free') \in Nat
  <2>1. free \in Seq(Sockets) /\ free' \in Seq(Sockets)
    BY DEF TypeOK
  <2> QED
    BY <2>1
<1>1. IsInjective(free')
  <2> SUFFICES ASSUME NEW i \in 1 .. Len(free'), NEW j \in 1 .. Len(free'), free'[i] = free'[j]
               PROVE  i = j
    BY <1>0 DEF IsInjective
  <2>1. i + 1 \in 1 .. Len(free) /\ j + 1 \in 1 .. Len(free) /\ free[i + 1] = free[j + 1]
    BY <1>0 DEF TakesFirst
  <2>2. i + 1 = j + 1
    BY <1>0, <2>1 DEF IsInjective
  <2> QED
    BY <2>2
<1>2. ToSet(free') \subseteq ToSet(free) \ {s}
  BY <1>0 DEF TakesFirst, ToSet, IsInjective
<1>3. ASSUME NEW t \in ToSet(free), t # s
      PROVE  t \in ToSet(free')
  <2>1. PICK i \in 1 .. Len(free) : t = free[i] /\ i # 1
    BY <1>0, <1>3 DEF TakesFirst, ToSet
  <2>2. i - 1 \in 1 .. Len(free') /\ (i - 1) + 1 = i
    BY <1>0, <2>1 DEF TakesFirst
  <2>3. free'[i - 1] = t
    BY <2>1, <2>2 DEF TakesFirst
  <2> QED
    BY <1>0, <2>2, <2>3 DEF ToSet
<1> QED
  BY <1>1, <1>2, <1>3

\* What release() makes of the free list
LEMMA Released ==
  ASSUME TypeOK, IsInjective(free), NEW s \in Sockets \ ToSet(free), Release(s)
  PROVE  IsInjective(free') /\ ToSet(free') = ToSet(free) \cup {s}
<1> DEFINE t == <<s>>
<1>1. t \in Seq(Sockets) /\ ToSet(t) = {s} /\ IsInjective(t)
  BY OneElement
<1>2. free \in Seq(Sockets) /\ free' = t \o free
  BY DEF Release, TypeOK
<1> HIDE DEF t
<1> QED
  BY <1>1, <1>2, Joined

\* Every step keeps what ties _mutex, the position and the list together.
LEMMA ControlStep ==
  ASSUME IInv, TypeOK', [Next]_vars
  PROVE  MuxerHasMutex' /\ WriterIsAtListed' /\ ListedOnce'
<1> USE DEF IInv
<1>0. Listing /\ DOMAIN list = 1 .. Len(list) /\ Len(list) \in Nat /\ DOMAIN list' = 1 .. Len(list')
  <2>1. Listing /\ list \in Seq(Conns) /\ list' \in Seq(Conns)
    BY DEF Listing, TypeOK
  <2> QED
    BY <2>1
<1>1. CASE Quiet /\ QuietControl
  BY <1>1 DEF Quiet, QuietControl, MuxerHasMutex, Busy, WriterIsAtListed, Listed, ListedOnce, wvars
<1>2. ASSUME NEW c \in Conns, HandleStep(c, conn[c].sock)
      PROVE  MuxerHasMutex' /\ WriterIsAtListed' /\ ListedOnce'
  BY <1>2 DEF HandleStep, MuxerHasMutex, Busy, WriterIsAtListed, Listed, ListedOnce
<1>3. ASSUME NEW c \in Conns, NEW s \in Sockets, AcceptStep(c, s)
      PROVE  MuxerHasMutex' /\ WriterIsAtListed' /\ ListedOnce'
  <2>1. MuxerHasMutex' /\ WriterIsAtListed'
    BY <1>3, ListedSteps DEF AcceptStep, MuxerHasMutex, Busy, WriterIsAtListed
  <2>2. \A j \in 1 .. Len(list) : list[j] # c
    BY <1>0, <1>3 DEF AcceptStep, Listed, ToSet
  <2>3. ListedOnce'
    BY <1>0, <1>3, <2>2 DEF AcceptStep, ListedOnce
  <2> QED
    BY <2>1, <2>3
<1>4. CASE /\ UNCHANGED <<free, net, conn, list, fate, mutex, next>>
           /\ pc = "check" /\ pc' = "next" /\ IsOpen(list[pos])
  BY <1>4 DEF MuxerHasMutex, Busy, WriterIsAtListed, Listed, ListedOnce
<1>5. ASSUME NEW c \in Conns, DropStep(c)
      PROVE  MuxerHasMutex' /\ WriterIsAtListed' /\ ListedOnce'
  <2>1. MuxerHasMutex' /\ WriterIsAtListed'
    BY <1>5 DEF DropStep, MuxerHasMutex, Busy, WriterIsAtListed
  <2>2. ASSUME NEW i \in 1 .. Len(list'), NEW j \in 1 .. Len(list'), list'[i] = list'[j]
        PROVE  i = j
    BY <1>0, <1>5, <2>2 DEF DropStep, ListedOnce
  <2> QED
    BY <1>0, <2>1, <2>2 DEF ListedOnce
<1>6. CASE Cleanup
  BY <1>6 DEF Cleanup, MuxerHasMutex, Busy, WriterIsAtListed, ListedOnce, Goto, wvars
<1>7. ASSUME NEW s \in Sockets, ForgetStep(s)
      PROVE  MuxerHasMutex' /\ WriterIsAtListed' /\ ListedOnce'
  BY <1>7 DEF ForgetStep, MuxerHasMutex, Busy, WriterIsAtListed, Listed, ListedOnce
<1> QED
  BY <1>0, <1>1, <1>2, <1>3, <1>4, <1>5, <1>6, <1>7, StepKinds

\* Every step keeps the listed connections live and the free sockets closed.
LEMMA ListedStep ==
  ASSUME IInv, TypeOK', [Next]_vars
  PROVE  ListedAreKnown' /\ FreeAreClosed'
<1> USE DEF IInv
<1>0. /\ Listing /\ Listed \subseteq Conns /\ Listed' \subseteq Conns
      /\ fate \in [Conns -> {"gone", "live", "lost"}]
      /\ DOMAIN free = 1 .. Len(free) /\ Len(free) \in Nat /\ ToSet(free) \subseteq Sockets
      /\ DOMAIN free' = 1 .. Len(free') /\ ToSet(free') \subseteq Sockets
  <2>1. /\ Listing /\ list \in Seq(Conns) /\ list' \in Seq(Conns)
        /\ free \in Seq(Sockets) /\ free' \in Seq(Sockets)
        /\ fate \in [Conns -> {"gone", "live", "lost"}]
    BY DEF Listing, TypeOK
  <2> QED
    BY <2>1 DEF Listed, ToSet
<1>1. CASE Quiet /\ QuietControl
  <2>1. \A s \in Sockets : net[s].fd = 0 => net'[s].fd = 0
    BY <1>1 DEF Quiet, StaysOrCloses, Closed
  <2>2. \A c \in Listed : JustEnded(c) => JustEnded(c)'
    BY <1>0, <1>1, <2>1 DEF Quiet, KeepsLocks, QuietControl, JustEnded, ListedAreKnown, IsOpen, Fd
  <2>3. Listed' = Listed
    BY <1>1 DEF Quiet, Listed
  <2>4. ListedAreKnown'
    BY <1>0, <1>1, <2>2, <2>3 DEF Quiet, KeepsLocks, ListedAreKnown
  <2>5. FreeAreClosed'
    BY <1>0, <1>1 DEF Quiet, StaysOrCloses, FreeAreClosed, Closed
  <2> QED
    BY <2>4, <2>5
<1>2. ASSUME NEW c \in Conns, HandleStep(c, conn[c].sock)
      PROVE  ListedAreKnown' /\ FreeAreClosed'
  <2> DEFINE s == conn[c].sock
  <2>1. Listed' = Listed /\ c \in Listed /\ c = list[pos] /\ \A d \in Listed : fate[d] = "live"
    BY <1>2 DEF HandleStep, Listed, ListedAreKnown, JustEnded, At
  <2>2. \A d \in Listed : conn'[d].sock = conn[d].sock /\ conn[d].sock \in Sockets
    BY <1>0, <1>2, <2>1 DEF HandleStep, ListedAreKnown
  <2>3. ASSUME UNCHANGED <<free, fate>>
        PROVE  ListedAreKnown' /\ FreeAreClosed'
    <3>1. s \notin ToSet(free)
      BY <2>1 DEF SlotsAccountedFor, Holds
    <3> QED
      BY <1>0, <1>2, <2>1, <2>2, <2>3, <3>1 DEF HandleStep, ListedAreKnown, FreeAreClosed
  <2>4. ASSUME pc' = "check", Release(s), fate' = [fate EXCEPT ![c] = "gone"], net'[s] = Closed
        PROVE  ListedAreKnown' /\ FreeAreClosed'
    <3>1. JustEnded(c)'
      BY <1>0, <1>2, <2>1, <2>4 DEF HandleStep, JustEnded, IsOpen, Fd, Closed
    <3>2. ToSet(free') \subseteq ToSet(free) \cup {s}
      <4>1. s \in Sockets \ ToSet(free)
        BY <2>1, <2>2 DEF SlotsAccountedFor, Holds
      <4> QED
        BY <2>4, <4>1, Released DEF SlotsAccountedFor
    <3> QED
      BY <1>0, <1>2, <2>1, <2>2, <2>4, <3>1, <3>2 DEF HandleStep, ListedAreKnown, FreeAreClosed
  <2> QED
    BY <1>2, <2>3, <2>4 DEF HandleStep
<1>3. ASSUME NEW c \in Conns, NEW s \in Sockets, AcceptStep(c, s)
      PROVE  ListedAreKnown' /\ FreeAreClosed'
  <2>1. Listed' = Listed \cup {c} /\ \A d \in Listed : fate[d] = "live"
    BY <1>3, ListedSteps DEF AcceptStep, ListedAreKnown, JustEnded
  <2>2. ListedAreKnown'
    BY <1>0, <1>3, <2>1 DEF AcceptStep, ListedAreKnown, New
  <2>3. ToSet(free') \subseteq ToSet(free) \ {s}
    BY <1>0, <1>3, Taken DEF AcceptStep, SlotsAccountedFor, Listing
  <2> QED
    BY <1>0, <1>3, <2>2, <2>3 DEF AcceptStep, FreeAreClosed
<1>4. CASE /\ UNCHANGED <<free, net, conn, list, fate, mutex, next>>
           /\ pc = "check" /\ pc' = "next" /\ IsOpen(list[pos])
  BY <1>4 DEF ListedAreKnown, JustEnded, Listed, FreeAreClosed
<1>5. ASSUME NEW c \in Conns, DropStep(c)
      PROVE  ListedAreKnown' /\ FreeAreClosed'
  <2>1. Listed' = Listed \ {c} /\ \A d \in Listed \ {c} : fate[d] = "live"
    BY <1>5, ListedSteps DEF DropStep, ListedAreKnown, JustEnded
  <2> QED
    BY <1>0, <1>5, <2>1 DEF DropStep, ListedAreKnown, FreeAreClosed
<1>6. CASE Cleanup
  <2>1. Listed' = {}
    BY <1>6 DEF Cleanup, Listed, ToSet
  <2> QED
    BY <1>0, <1>6, <2>1 DEF Cleanup, ListedAreKnown, FreeAreClosed
<1>7. ASSUME NEW s \in Sockets, ForgetStep(s)
      PROVE  ListedAreKnown' /\ FreeAreClosed'
  <2>1. ToSet(free') = ToSet(free) \ {s}
    BY <1>0, <1>7, Taken DEF ForgetStep, SlotsAccountedFor, Listing
  <2> QED
    BY <1>7, <2>1 DEF ForgetStep, ListedAreKnown, JustEnded, Listed, FreeAreClosed
<1> QED
  BY <1>0, <1>1, <1>2, <1>3, <1>4, <1>5, <1>6, <1>7, StepKinds

\* Every step leaves the locks free but the one the muxer is waiting with.
LEMMA LocksStep ==
  ASSUME IInv, TypeOK', [Next]_vars
  PROVE  OneLock' /\ ListedLocksAreFree'
<1> USE DEF IInv
<1>0. /\ Listing /\ Listed \subseteq Conns
      /\ pc \in {"reading", "writing", "check"} => list[pos] \in Listed
  BY SMTT(60) DEF Listing, TypeOK, Listed, ToSet
<1>1. CASE Quiet /\ QuietControl
  <2>1. UNCHANGED <<pc, pos>> \/ pc' \notin {"reading", "writing", "check"}
    BY <1>1 DEF QuietControl
  <2>2. Listed' = Listed /\ UNCHANGED list
    BY <1>1 DEF Quiet, Listed
  <2>3. \A s \in Sockets : net[s].fd = 0 => net'[s].fd = 0
    BY <1>1 DEF Quiet, StaysOrCloses, Closed
  <2>4. OneLock'
    BY <1>0, <1>1, <2>1, <2>2 DEF Quiet, KeepsLocks, OneLock
  <2>5. \A c \in Listed : /\ conn'[c].readLock = conn[c].readLock /\ conn'[c].writeLock = conn[c].writeLock
                          /\ ~IsOpen(c) => ~IsOpen(c)'
    BY <1>0, <1>1, <2>3 DEF Quiet, KeepsLocks, ListedAreKnown, IsOpen, Fd
  <2>6. pc \in {"reading", "writing", "check"} => UNCHANGED pc
    BY <1>1 DEF QuietControl
  <2> QED
    BY <2>1, <2>2, <2>4, <2>5, <2>6 DEF ListedLocksAreFree
<1>2. ASSUME NEW c \in Conns, HandleStep(c, conn[c].sock)
      PROVE  OneLock' /\ ListedLocksAreFree'
  <2>1. Listed' = Listed /\ c = list[pos] /\ UNCHANGED <<list, pos>>
    BY <1>2 DEF HandleStep, Listed, At
  <2>2. OneLock'
    BY <1>2, <2>1 DEF HandleStep, OneLock
  <2>3. \A d \in Listed \ {c} : ~conn'[d].readLock /\ ~conn'[d].writeLock
    BY <1>0, <1>2, <2>1 DEF HandleStep, ListedLocksAreFree
  <2>4. pc' = "check" => (~conn'[c].readLock /\ ~conn'[c].writeLock) \/ ~IsOpen(c)'
    BY <1>2 DEF HandleStep, IsOpen, Fd
  <2>5. pc' \in {"reading", "writing", "check"}
    BY <1>2 DEF HandleStep
  <2> QED
    BY <2>1, <2>2, <2>3, <2>4, <2>5 DEF ListedLocksAreFree
<1>3. ASSUME NEW c \in Conns, NEW s \in Sockets, AcceptStep(c, s)
      PROVE  OneLock' /\ ListedLocksAreFree'
  <2>1. Listed' = Listed \cup {c}
    BY <1>3, ListedSteps
  <2>2. \A d \in Listed \cup {c} : ~conn'[d].readLock /\ ~conn'[d].writeLock
    BY <1>0, <1>3 DEF AcceptStep, New, ListedLocksAreFree
  <2> QED
    BY <1>3, <2>1, <2>2 DEF AcceptStep, OneLock, ListedLocksAreFree
<1>4. CASE /\ UNCHANGED <<free, net, conn, list, fate, mutex, next>>
           /\ pc = "check" /\ pc' = "next" /\ IsOpen(list[pos])
  BY <1>4 DEF OneLock, ListedLocksAreFree, Listed
<1>5. ASSUME NEW c \in Conns, DropStep(c)
      PROVE  OneLock' /\ ListedLocksAreFree'
  <2>1. Listed' = Listed \ {c} /\ c = list[pos]
    BY <1>5, ListedSteps DEF DropStep
  <2>2. \A d \in Listed \ {c} : ~conn'[d].readLock /\ ~conn'[d].writeLock
    BY <1>0, <1>5, <2>1 DEF DropStep, ListedLocksAreFree
  <2> QED
    BY <1>5, <2>1, <2>2 DEF DropStep, OneLock, ListedLocksAreFree
<1>6. CASE Cleanup
  <2>1. Listed' = {}
    BY <1>6 DEF Cleanup, Listed, ToSet
  <2> QED
    BY <1>6, <2>1 DEF Cleanup, Goto, OneLock, ListedLocksAreFree
<1>7. ASSUME NEW s \in Sockets, ForgetStep(s)
      PROVE  OneLock' /\ ListedLocksAreFree'
  BY <1>7 DEF ForgetStep, OneLock, ListedLocksAreFree, Listed
<1> QED
  BY <1>0, <1>1, <1>2, <1>3, <1>4, <1>5, <1>6, <1>7, StepKinds

\* Every step keeps each place of the pool free, listed once, or lost, but for
\* the one an accept() that timed out has taken.
LEMMA SlotsStep ==
  ASSUME IInv, TypeOK', [Next]_vars
  PROVE  SlotsAccountedFor'
<1> USE DEF IInv
<1>0. /\ Listing /\ Listed \subseteq Conns /\ Listed' \subseteq Conns
      /\ fate \in [Conns -> {"gone", "live", "lost"}]
      /\ DOMAIN free = 1 .. Len(free) /\ Len(free) \in Nat /\ ToSet(free) \subseteq Sockets
      /\ DOMAIN free' = 1 .. Len(free')
  <2>1. /\ Listing /\ list \in Seq(Conns) /\ list' \in Seq(Conns)
        /\ free \in Seq(Sockets) /\ free' \in Seq(Sockets)
        /\ fate \in [Conns -> {"gone", "live", "lost"}]
    BY DEF Listing, TypeOK
  <2> QED
    BY <2>1 DEF Listed, ToSet
<1>1. CASE Quiet /\ QuietControl
  <2>1. Listed' = Listed /\ (pc' = "ended" => pc = "ended")
    BY <1>1 DEF Quiet, Listed, QuietControl
  <2>2. pc \in {"cleanup", "ended"} => pc' \in {"cleanup", "ended"}
    BY <1>1 DEF QuietControl
  <2>3. Missing' = Missing
    BY <1>1 DEF Quiet, KeepsLocks, Missing, Holds
  <2> QED
    BY <1>1, <2>1, <2>2, <2>3 DEF Quiet, KeepsLocks, SlotsAccountedFor, Holds
<1>2. ASSUME NEW c \in Conns, HandleStep(c, conn[c].sock)
      PROVE  SlotsAccountedFor'
  <2> DEFINE s == conn[c].sock
  <2>1. Listed' = Listed /\ c \in Listed /\ fate[c] = "live" /\ pc' # "ended" /\ s \in Sockets
    BY <1>2 DEF HandleStep, Listed, ListedAreKnown, JustEnded
  <2>2. \A d \in Conns : conn'[d].sock = conn[d].sock
    BY <1>2 DEF HandleStep
  <2>5. Missing = {}
    BY <1>2 DEF HandleStep, SlotsAccountedFor
  <2>3. CASE UNCHANGED <<free, fate>>
    <3>1. Missing' = {}
      BY <2>2, <2>3, <2>5 DEF Missing, Holds
    <3> QED
      BY <2>1, <2>2, <2>3, <3>1 DEF SlotsAccountedFor, Holds
  <2>4. CASE Release(s) /\ fate' = [fate EXCEPT ![c] = "gone"]
    <3>1. s \in Sockets \ ToSet(free)
      BY <2>1 DEF SlotsAccountedFor, Holds
    <3>2. IsInjective(free') /\ ToSet(free') = ToSet(free) \cup {s}
      BY <2>4, <3>1, Released DEF SlotsAccountedFor
    <3>3. \A d \in Conns : Holds(d)' <=> Holds(d) /\ d # c
      BY <1>0, <2>4 DEF Holds
    <3>4. \A d \in Conns : fate'[d] = "live" => fate[d] = "live"
      BY <1>0, <2>4
    <3>5. Holds(c)
      BY <2>1 DEF Holds
    <3> HIDE DEF s
    <3>6. \A d \in Conns : Holds(d) /\ d # c => conn[d].sock # s
      BY <3>5 DEF SlotsAccountedFor, s
    <3>7. Missing' = {}
      BY <2>2, <2>5, <3>2, <3>3 DEF Missing, s
    <3> QED
      BY <2>1, <2>2, <3>1, <3>2, <3>3, <3>4, <3>5, <3>6, <3>7 DEF SlotsAccountedFor, s
  <2> QED
    BY <1>2, <2>3, <2>4 DEF HandleStep
<1>3. ASSUME NEW c \in Conns, NEW s \in Sockets, AcceptStep(c, s)
      PROVE  SlotsAccountedFor'
  <2>1. Listed' = Listed \cup {c} /\ pc' # "ended" /\ ~Holds(c) /\ s \in ToSet(free)
    BY <1>3, ListedSteps DEF AcceptStep, TakesFirst, Holds
  <2>2. \A d \in Conns : Holds(d)' <=> Holds(d) \/ d = c
    BY <1>0, <1>3 DEF AcceptStep, Holds
  <2>3. conn'[c].sock = s /\ \A d \in Conns \ {c} : conn'[d] = conn[d]
    BY <1>3 DEF AcceptStep, New
  <2>4. IsInjective(free') /\ ToSet(free') = ToSet(free) \ {s}
    BY <1>0, <1>3, Taken DEF AcceptStep, SlotsAccountedFor, Listing
  <2>5. Missing' = {}
    <3>1. Missing = {}
      BY <1>3 DEF AcceptStep, SlotsAccountedFor
    <3> QED
      BY <1>0, <2>1, <2>2, <2>3, <2>4, <3>1 DEF Missing
  <2>6. \A d \in Conns : fate'[d] = "live" => fate[d] = "live" \/ d = c
    BY <1>0, <1>3 DEF AcceptStep
  <2>7. \A d \in Conns : Holds(d) => conn[d].sock \in Sockets \ ToSet(free)
    BY DEF SlotsAccountedFor
  <2> QED
    BY <2>1, <2>2, <2>3, <2>4, <2>5, <2>6, <2>7 DEF SlotsAccountedFor
<1>4. CASE /\ UNCHANGED <<free, net, conn, list, fate, mutex, next>>
           /\ pc = "check" /\ pc' = "next" /\ IsOpen(list[pos])
  <2>1. Missing = {} /\ Missing' = Missing
    BY <1>4 DEF SlotsAccountedFor, Missing, Holds
  <2> QED
    BY <1>4, <2>1 DEF SlotsAccountedFor, Holds, Listed
<1>5. ASSUME NEW c \in Conns, DropStep(c)
      PROVE  SlotsAccountedFor'
  <2>1. Listed' = Listed \ {c} /\ pc' # "ended" /\ UNCHANGED free
    BY <1>5, ListedSteps DEF DropStep
  <2>2. \A d \in Conns : Holds(d)' <=> Holds(d)
    BY <1>0, <1>5 DEF DropStep, Holds
  <2>3. \A d \in Conns : Holds(d) => conn'[d].sock = conn[d].sock
    BY <1>5 DEF DropStep, Holds
  <2>4. \A d \in Conns : fate'[d] = "live" => fate[d] = "live" /\ d # c
    BY <1>0, <1>5 DEF DropStep
  <2>5. Missing' = {}
    <3>1. Missing = {}
      BY <1>5 DEF DropStep, SlotsAccountedFor
    <3> QED
      BY <2>1, <2>2, <2>3, <3>1 DEF Missing
  <2> QED
    BY <2>1, <2>2, <2>3, <2>4, <2>5 DEF SlotsAccountedFor
<1>6. CASE Cleanup
  <2> DEFINE ss == [i \in DOMAIN list |-> conn[list[i]].sock]
  <2>1. /\ free' = Reverse(ss) \o free /\ list' = << >>
        /\ conn' = [c \in Conns |-> IF c \in Listed THEN New(NoSocket) ELSE conn[c]]
        /\ fate' = [c \in Conns |-> IF c \in Listed THEN "gone" ELSE fate[c]]
    BY <1>6 DEF Cleanup, ReleaseAll
  <2>2. /\ \A i \in 1 .. Len(list) : list[i] \in Listed
        /\ \A c \in Listed : \E i \in 1 .. Len(list) : list[i] = c
        /\ DOMAIN list = 1 .. Len(list) /\ Len(list) \in Nat
    BY ListedAre
  <2>3. \A c \in Listed : Holds(c) /\ conn[c].sock \in Sockets \ ToSet(free)
    BY <1>0, <1>6 DEF Cleanup, ListedAreKnown, JustEnded, Holds, SlotsAccountedFor
  <2>4. ss \in Seq(Sockets) /\ DOMAIN ss = 1 .. Len(list)
    BY <2>2, <2>3
  <2>5. ToSet(ss) = {conn[c].sock : c \in Listed}
    BY <2>2 DEF ToSet
  <2>6. IsInjective(ss)
    <3> SUFFICES ASSUME NEW i \in 1 .. Len(list), NEW j \in 1 .. Len(list),
                        conn[list[i]].sock = conn[list[j]].sock
                 PROVE  i = j
      BY <2>2 DEF IsInjective
    <3>1. list[i] = list[j]
      BY <1>0, <2>2, <2>3 DEF SlotsAccountedFor
    <3> QED
      BY <2>2, <3>1 DEF ListedOnce
  <2> HIDE DEF ss
  <2>7. Reverse(ss) \in Seq(Sockets) /\ ToSet(Reverse(ss)) = ToSet(ss) /\ IsInjective(Reverse(ss))
    BY <2>4, <2>6, ReverseIsSeq, Reversed
  <2>8. ToSet(ss) \cap ToSet(free) = {} /\ free \in Seq(Sockets)
    BY <2>3, <2>5, SMTT(60) DEF TypeOK
  <2>9. IsInjective(free') /\ ToSet(free') = ToSet(ss) \cup ToSet(free)
    BY <2>1, <2>7, <2>8, Joined DEF SlotsAccountedFor
  <2>10. \A c \in Conns : Holds(c)' <=> Holds(c) /\ c \notin Listed
    BY <2>1, <2>3 DEF Holds
  <2>11. \A c \in Conns : c \notin Listed => conn'[c] = conn[c]
    BY <2>1
  <2>12. \A c \in Conns : fate'[c] # "live"
    BY <2>1 DEF SlotsAccountedFor
  <2>13. \A c \in Conns : Holds(c) /\ c \notin Listed => conn[c].sock \notin ToSet(free')
    BY <1>0, <2>3, <2>5, <2>9 DEF SlotsAccountedFor
  <2>14. Missing' \subseteq Missing
    BY <2>5, <2>9, <2>10, <2>11 DEF Missing
  <2>15. \A s, t \in Missing' : s = t /\ pc' \in {"cleanup", "ended"}
    BY <1>6, <2>14 DEF Cleanup, Goto, SlotsAccountedFor
  <2> QED
    BY <1>0, <2>1, <2>3, <2>5, <2>9, <2>10, <2>11, <2>12, <2>13, <2>15 DEF SlotsAccountedFor
<1>7. ASSUME NEW s \in Sockets, ForgetStep(s)
      PROVE  SlotsAccountedFor'
  <2>1. IsInjective(free') /\ ToSet(free') = ToSet(free) \ {s}
    BY <1>0, <1>7, Taken DEF ForgetStep, SlotsAccountedFor, Listing
  <2>2. Missing' \subseteq {s}
    <3>1. Missing = {}
      BY <1>7 DEF ForgetStep, SlotsAccountedFor
    <3> QED
      BY <1>7, <2>1, <3>1 DEF ForgetStep, Missing, Holds
  <2> QED
    BY <1>7, <2>1, <2>2 DEF ForgetStep, SlotsAccountedFor, Holds, Listed
<1> QED
  BY <1>0, <1>1, <1>2, <1>3, <1>4, <1>5, <1>6, <1>7, StepKinds

-----------------------------------------------------------------------------
(* The theorems                                                            *)

\* Every step keeps the invariant, part by part.
LEMMA NextIInv ==
  ASSUME IInv, [Next]_vars
  PROVE  IInv'
<1>1. TypeOK'
  <2>1. CASE Next
    BY <2>1, TypeStep DEF IInv, Listing
  <2>2. CASE UNCHANGED vars
    BY <2>2 DEF IInv, TypeOK, vars, cvars, mvars, wvars
  <2> QED
    BY <2>1, <2>2
<1> QED
  BY <1>1, ControlStep, ListedStep, LocksStep, SlotsStep DEF IInv

\* The invariant holds for every pool, list and size of the buffers.
THEOREM Inductive == Spec => []IInv
<1>1. Init => IInv
  BY InitIInv
<1>2. IInv /\ [Next]_vars => IInv'
  BY NextIInv
<1> QED
  BY <1>1, <1>2, PTL DEF Spec

\* Every variable keeps its type; accept() always finds a free descriptor.
THEOREM TypeCorrect == Spec => []TypeOK
<1>1. IInv => TypeOK
  BY DEF IInv
<1> QED
  BY <1>1, Inductive, PTL

\* For pools and lists of any size: every place of the pool is free, once, or
\* the socket of one connection, and connections are listed until they end.
THEOREM NoPlaceIsForgotten == Spec => []SlotsAccountedFor
<1>1. IInv => SlotsAccountedFor
  BY DEF IInv
<1> QED
  BY <1>1, Inductive, PTL

\* run() leaves no lock of a listed connection behind, though what is thrown
\* skips the leave().
THEOREM NoLockIsLeftBehind == Spec => []ListedLocksAreFree
<1>1. IInv => ListedLocksAreFree
  BY DEF IInv
<1> QED
  BY <1>1, Inductive, PTL

\* writeAll() never holds a connection that the muxer has reported closed, and
\* never waits for the lock of one: run() has none while it is without _mutex.
THEOREM WriteAllIsSafe == Spec => []WriteAllHoldsAConnection
<1>1. ASSUME IInv, mutex = "writer"
      PROVE  next \in Listed /\ fate[next] = "live" /\ ~conn[next].writeLock
  <2>1. WriterIsAtListed /\ MuxerHasMutex /\ ListedAreKnown /\ ListedLocksAreFree
    BY <1>1 DEF IInv
  <2>2. next \in Listed /\ pc \notin Busy
    BY <1>1, <2>1 DEF WriterIsAtListed, MuxerHasMutex
  <2>3. fate[next] = "live"
    BY <2>1, <2>2 DEF ListedAreKnown, JustEnded, Busy
  <2>4. ~conn[next].writeLock
    BY <2>1, <2>2 DEF ListedLocksAreFree, Busy
  <2> QED
    BY <2>2, <2>3, <2>4
<1>2. IInv => WriteAllHoldsAConnection
  BY <1>1 DEF WriteAllHoldsAConnection
<1> QED
  BY <1>2, Inductive, PTL

\* The places of the list that writeAll() has passed, and those it has before
\* it, stay what they are until it is done.
THEOREM WriteAllSeesEveryone == Spec => ListIsSteadyForWriteAll
<1>1. ASSUME IInv, IInv', [Next]_vars, mutex = "writer", NEW i \in DOMAIN list
      PROVE  i \in DOMAIN list' /\ list'[i] = list[i]
  <2>1. Listing /\ WriterIsAtListed /\ MuxerHasMutex /\ list \in Seq(Conns) /\ list' \in Seq(Conns)
    BY <1>1 DEF Listing, IInv, TypeOK
  <2>2. /\ DOMAIN list = 1 .. Len(list) /\ DOMAIN list' = 1 .. Len(list')
        /\ Len(list) \in Nat /\ Len(list') \in Nat
    BY <2>1
  <2>3. CASE list' = list
    BY <1>1, <2>3
  <2>4. ASSUME NEW c \in Conns, NEW s \in Sockets, AcceptStep(c, s)
        PROVE  i \in DOMAIN list' /\ list'[i] = list[i]
    BY <1>1, <2>2, <2>4 DEF AcceptStep
  <2>5. ASSUME NEW c \in Conns, DropStep(c)
        PROVE  FALSE
    BY <1>1, <2>1, <2>5 DEF DropStep, MuxerHasMutex, Busy
  <2>6. ~Cleanup
    BY <1>1 DEF Cleanup
  <2>7. Quiet \/ (\E c \in Conns : HandleStep(c, conn[c].sock)) \/ (\E s \in Sockets : ForgetStep(s))
          => list' = list
    BY DEF Quiet, HandleStep, ForgetStep
  <2> QED
    BY <1>1, <2>1, <2>3, <2>4, <2>5, <2>6, <2>7, StepKinds
<1>2. IInv /\ IInv' /\ [Next]_vars
        => [mutex = "writer" =>
              \A i \in DOMAIN list : i \in DOMAIN list' /\ list'[i] = list[i]]_vars
  BY <1>1
<1> QED
  BY <1>2, Inductive, PTL DEF Spec, ListIsSteadyForWriteAll

\* A request to close a connection is forgotten only with the connection.
LEMMA PendingStays ==
  ASSUME IInv, Next, NEW d \in Conns, fate[d] = "live", conn[d].pending, fate'[d] = "live"
  PROVE  conn'[d].pending
<1>0. Listing /\ conn \in [Conns -> ConnRec] /\ fate \in [Conns -> {"gone", "live", "lost"}]
  BY DEF IInv, Listing, TypeOK, ConnRec
<1>1. CASE UNCHANGED conn
  BY <1>1
<1>2. ASSUME NEW c \in Conns, Handles(c)
      PROVE  conn'[d].pending
  <2>1. CASE ReadsData(c)
    BY <1>0, <2>1 DEF ReadsData, ConnRec
  <2>2. CASE WriteDone(c)
    BY <1>0, <2>2 DEF WriteDone, ConnRec
  <2>3. CASE UNCHANGED conn \/ conn' = [conn EXCEPT ![c].readLock = TRUE]
                \/ conn' = [conn EXCEPT ![c].writeLock = TRUE]
    BY <1>0, <2>3 DEF ConnRec
  <2> QED
    BY <1>2, <2>1, <2>2, <2>3 DEF Handles, ClosesAsAsked, PassesBy, ReadsOOB, BeginsRead, ReadsEnd,
       ReadFails, BeginsWrite, Hands, WriteFails, cvars
<1>3. ASSUME NEW c \in Conns, Accepts(c)
      PROVE  conn'[d].pending
  BY <1>0, <1>3 DEF Accepts
<1>4. CASE Checks
  <2>1. ~IsOpen(list[pos]) => fate' = [fate EXCEPT ![list[pos]] =
                                 IF fate[list[pos]] = "gone" THEN "gone" ELSE "lost"]
    BY <1>4 DEF Checks
  <2>2. UNCHANGED conn \/ (~IsOpen(list[pos]) /\ \A c \in Conns \ {list[pos]} : conn'[c] = conn[c])
    BY <1>0, <1>4 DEF Checks
  <2> QED
    BY <1>0, <2>1, <2>2
<1>5. CASE Cleanup
  BY <1>0, <1>5 DEF Cleanup
<1>6. ASSUME NEW c \in Conns, Writes(c) \/ Reads(c) \/ Closes(c) \/ ClosesAtOnce(c)
      PROVE  conn'[d].pending
  BY <1>0, <1>6 DEF Writes, Reads, Closes, ClosesAtOnce, ConnRec
<1>7. CASE WritesNext
  <2>1. next \in Conns
    BY <1>0, <1>7, ListedAre DEF WritesNext, Listing
  <2> QED
    BY <1>0, <1>7, <2>1 DEF WritesNext, ConnRec
<1> QED
  BY <1>1, <1>2, <1>3, <1>4, <1>5, <1>6, <1>7 DEF Next, Runs, Application, Peers, Selects, SelectFails,
     Stops, Refuses, AcceptTimesOut, Locks, PassDone, BeginsWriteAll, PeerSends, PeerTakes, PeerEnds,
     PeerResets, Peer, cvars

\* The muxer does not go on behind a connection that it can close as asked.
LEMMA PendingIsHandled ==
  ASSUME IInv, Next, NEW d \in Conns, conn[d].pending, conn[d].writeBuf = 0,
         pc = "next", At(d), pc' # "next"
  PROVE  fate'[d] # "live"
<1>0. Listing /\ pos \in Nat /\ fate \in [Conns -> {"gone", "live", "lost"}] /\ Len(list) \in Nat
  BY DEF IInv, Listing, TypeOK
<1>1. IsClosePending(d) /\ pos <= Len(list) /\ d = list[pos]
  BY DEF IsClosePending, At
<1>2. ASSUME NEW c \in Conns, Handles(c)
      PROVE  ClosesAsAsked(d)
  BY <1>1, <1>2 DEF Handles, ClosesAsAsked, PassesBy, ReadsOOB, BeginsRead, ReadsData, ReadsEnd,
     ReadFails, BeginsWrite, Hands, WriteDone, WriteFails, At
<1>3. \E c \in Conns : Handles(c)
  <2>1. ~PassDone
    BY <1>0, <1>1 DEF PassDone
  <2>2. ~Application /\ ~Peers
    BY DEF Application, BeginsWriteAll, WritesNext, Writes, Reads, Closes, ClosesAtOnce, Uses,
           Peers, PeerSends, PeerTakes, PeerEnds, PeerResets, Peer, mvars
  <2>3. \A c \in Conns : ~Accepts(c)
    BY DEF Accepts
  <2> QED
    BY <2>1, <2>2, <2>3 DEF Next, Runs, Selects, SelectFails, Stops, Refuses, AcceptTimesOut, Locks,
       Checks, Cleanup
<1> QED
  BY <1>0, <1>2, <1>3 DEF ClosesAsAsked, Ends

\* A pending close stays pending as long as the connection is live, and the
\* muxer that finds nothing to write there ends the connection.
THEOREM PendingClosesStand == Spec => PendingCloseStands
<1>1. IInv /\ [Next]_vars
        => [\A c \in Conns : fate[c] = "live" /\ conn[c].pending /\ fate'[c] = "live"
              => /\ conn'[c].pending
                 /\ pc = "next" /\ At(c) /\ conn[c].writeBuf = 0 => pc' = "next"]_vars
  BY PendingStays, PendingIsHandled
<1> QED
  BY <1>1, Inductive, PTL DEF Spec, PendingCloseStands

-----------------------------------------------------------------------------
(* Reading: what select() has found is true until the muxer comes to it     *)

\* There is something to read at a socket.
Ready(s) == net[s].in > 0 \/ net[s].peer # "open"

\* No two sockets have the same descriptor.
FdsAreDistinct ==
  \A s, t \in Sockets : net[s].fd # 0 /\ net[s].fd = net[t].fd => s = t

\* What select() found is a listed connection's until accept() is done.
SetsAreCurrent ==
  pc = "accept" => \A n \in fds.read : \E c \in Listed : Fd(c) = n

\* The muxer has not come to, or is reading from, the i-th connection.
IsAhead(i) ==
  /\ i \in DOMAIN list
  /\ \/ i > pos \/ pc \in {"accept", "scan"}
     \/ i = pos /\ pc \in {"next", "reading"}

\* What select() found to be ready is ready, as long as the muxer has not come to it.
ReadyAhead ==
  pc \in {"accept", "scan"} \cup Busy =>
    \A i \in DOMAIN list :
      IsAhead(i) /\ Fd(list[i]) \in fds.read => Ready(conn[list[i]].sock)

\* The muxer reads from a connection that select() has found.
ReadsFound ==
  pc = "reading" => IsSet(list[pos], fds.read)

\* What ReadDoesNotBlock rests on, beside IInv
RInv == FdsAreDistinct /\ SetsAreCurrent /\ ReadyAhead /\ ReadsFound

\* A socket that is not closed keeps its descriptor and what there is to read.
StillReady(s) ==
  net'[s].fd = 0 \/ (net'[s].fd = net[s].fd /\ (Ready(s) => Ready(s)'))

\* A number in the sets of select() is no closed socket's.
LEMMA SetsHaveFds == TypeOK => 0 \notin fds.read /\ fds.read \subseteq 1 .. Cardinality(Sockets)
<1>1. Cardinality(Sockets) \in Nat
  BY FS_CardinalityType, MuxerAssumption DEF MuxerAssumption
<1> QED
  BY <1>1 DEF TypeOK

\* What the muxer does at a connection, to the sockets: it takes what there is to
\* read from that connection's only, and is done with it then.
LEMMA HandlesDrift ==
  ASSUME IInv, NEW c \in Conns, Handles(c)
  PROVE  /\ pos \in DOMAIN list /\ c = list[pos] /\ UNCHANGED <<list, pos, fds>>
         /\ \A d \in Conns : conn'[d].sock = conn[d].sock
         /\ pc \in {"next", "reading", "writing"} /\ pc' \in {"reading", "writing", "check"}
         /\ \A s \in Sockets :
              \/ StillReady(s)
              \/ s = conn[c].sock /\ pc' = "check" /\ net'[s].fd = net[s].fd
         /\ pc' = "reading" => IsSet(c, fds.read) /\ net' = net /\ pc = "next"
<1>0. conn \in [Conns -> ConnRec] /\ net \in [Sockets -> NetRec]
  BY DEF IInv, TypeOK, ConnRec, NetRec
<1>1. HandleStep(c, conn[c].sock)
  BY HandlesKind DEF IInv, Listing
<1>2. /\ pos \in DOMAIN list /\ c = list[pos] /\ UNCHANGED <<list, pos>>
      /\ pc \in {"next", "reading", "writing"} /\ pc' \in {"reading", "writing", "check"}
      /\ conn[c].sock \in Sockets /\ \A d \in Conns : conn'[d].sock = conn[d].sock
  <2>1. /\ c = list[pos] /\ UNCHANGED <<list, pos>> /\ conn[c].sock \in Sockets
        /\ pc \in {"next", "reading", "writing"} /\ pc' \in {"reading", "writing", "check"}
        /\ pos <= Len(list) /\ conn'[c].sock = conn[c].sock
        /\ \A d \in Conns \ {c} : conn'[d] = conn[d]
    BY <1>1 DEF HandleStep, At
  <2>2. pos \in DOMAIN list
    BY <2>1 DEF IInv, TypeOK
  <2> QED
    BY <2>1, <2>2
<1>3. UNCHANGED fds
  BY DEF Handles, ClosesAsAsked, PassesBy, ReadsOOB, BeginsRead, ReadsData, ReadsEnd,
       ReadFails, BeginsWrite, Hands, WriteDone, WriteFails
<1>4. \/ net' = net
      \/ net' = [net EXCEPT ![conn[c].sock] = Closed]
      \/ net' = [net EXCEPT ![conn[c].sock].room = @ - 1]
      \/ pc' = "check" /\ \E k \in Int : net' = [net EXCEPT ![conn[c].sock].in = @ - k]
  <2>1. CASE ReadsData(c)
    <3> DEFINE k == Min({net[conn[c].sock].in, BufferSize - conn[c].readBuf})
    <3>1. net[conn[c].sock].in \in Nat /\ BufferSize - conn[c].readBuf \in Nat
      BY <1>0, <1>2, MuxerAssumption DEF ConnRec, NetRec, MuxerAssumption
    <3>2. k \in Int
      BY <3>1, MinOfTwo
    <3> QED
      BY <2>1, <3>2 DEF ReadsData, Goto
  <2> QED
    BY <2>1 DEF Handles, ClosesAsAsked, PassesBy, ReadsOOB, BeginsRead, ReadsEnd,
         ReadFails, BeginsWrite, Hands, WriteDone, WriteFails, Ends, Fails
<1>5. \A s \in Sockets :
        \/ StillReady(s)
        \/ s = conn[c].sock /\ pc' = "check" /\ net'[s].fd = net[s].fd
  <2>1. CASE net' = net
    BY <2>1 DEF StillReady, Ready
  <2>2. CASE net' = [net EXCEPT ![conn[c].sock] = Closed]
    BY <1>0, <1>2, <2>2 DEF StillReady, Ready, Closed
  <2>3. CASE net' = [net EXCEPT ![conn[c].sock].room = @ - 1]
    BY <1>0, <1>2, <2>3 DEF StillReady, Ready, NetRec
  <2>4. ASSUME pc' = "check", NEW k \in Int, net' = [net EXCEPT ![conn[c].sock].in = @ - k]
        PROVE  \A s \in Sockets : \/ StillReady(s)
                                  \/ s = conn[c].sock /\ pc' = "check" /\ net'[s].fd = net[s].fd
    BY <1>0, <1>2, <2>4 DEF StillReady, Ready, NetRec
  <2> QED
    BY <1>4, <2>1, <2>2, <2>3, <2>4
<1>6. pc' = "reading" => IsSet(c, fds.read) /\ net' = net /\ pc = "next"
  BY DEF Handles, ClosesAsAsked, PassesBy, ReadsOOB, BeginsRead, ReadsData, ReadsEnd,
       ReadFails, BeginsWrite, Hands, WriteDone, WriteFails, Ends, Fails, Goto
<1> QED
  BY <1>2, <1>3, <1>5, <1>6

\* Nobody else takes what there is to read, or closes a socket.
LEMMA OthersDrift ==
  ASSUME IInv, ~ClosesNow,
         Application \/ Peers \/ SelectFails \/ Stops \/ Refuses \/ Locks \/ UNCHANGED vars
  PROVE  /\ UNCHANGED <<list, pos, fds>>
         /\ \A d \in Conns : conn'[d].sock = conn[d].sock
         /\ \A s \in Sockets : StillReady(s) /\ net'[s].fd = net[s].fd
         /\ \/ pc' = pc \/ pc' = "cleanup"
            \/ pc \in {"accept", "scan"} /\ pc' \in {"scan", "next"}
<1>0. net \in [Sockets -> NetRec]
  BY DEF IInv, TypeOK, NetRec
<1>1. Quiet
  BY QuietKind DEF IInv, Listing
<1>2. UNCHANGED list /\ \A d \in Conns : conn'[d].sock = conn[d].sock
  BY <1>1 DEF Quiet, KeepsLocks
<1>3. UNCHANGED <<pos, fds>>
  BY DEF Application, Writes, Reads, Closes, ClosesAtOnce, Uses, BeginsWriteAll, WritesNext,
       Peers, PeerSends, PeerTakes, PeerEnds, PeerResets, Peer, SelectFails, Stops, Refuses,
       Locks, mvars, vars
<1>4. \/ pc' = pc \/ pc' = "cleanup"
      \/ pc \in {"accept", "scan"} /\ pc' \in {"scan", "next"}
  BY DEF Application, Writes, Reads, Closes, ClosesAtOnce, Uses, BeginsWriteAll, WritesNext,
       Peers, PeerSends, PeerTakes, PeerEnds, PeerResets, Peer, SelectFails, Stops, Refuses,
       Locks, Goto, mvars, vars
<1>5. ASSUME NEW s \in Sockets
      PROVE  StillReady(s) /\ net'[s].fd = net[s].fd
  <2>1. CASE Peers
    <3>1. PICK t \in Sockets : PeerSends(t) \/ PeerTakes(t) \/ PeerEnds(t) \/ PeerResets(t)
      BY <2>1 DEF Peers
    <3>2. net[s] \in NetRec /\ (s # t => net'[s] = net[s])
      BY <1>0, <3>1 DEF PeerSends, PeerTakes, PeerEnds, PeerResets, Peer
    <3>3. CASE s = t
      <4>1. CASE PeerSends(t)
        <5>1. net'[s] = [net[s] EXCEPT !.in = @ + 1]
          BY <1>0, <3>3, <4>1 DEF PeerSends, Peer
        <5>2. net'[s].fd = net[s].fd /\ net'[s].in > 0
          BY <3>2, <5>1 DEF NetRec
        <5> QED
          BY <5>2 DEF StillReady, Ready
      <4>2. CASE PeerTakes(t)
        BY <1>0, <3>2, <3>3, <4>2 DEF PeerTakes, Peer, StillReady, Ready, NetRec
      <4>3. CASE PeerEnds(t) \/ PeerResets(t)
        <5>1. \/ net'[s] = [net[s] EXCEPT !.peer = "fin"]
              \/ net'[s] = [net[s] EXCEPT !.peer = "reset", !.in = 0]
          BY <1>0, <3>3, <4>3 DEF PeerEnds, PeerResets, Peer
        <5>2. net'[s].fd = net[s].fd /\ net'[s].peer # "open"
          BY <3>2, <5>1 DEF NetRec
        <5> QED
          BY <5>2 DEF StillReady, Ready
      <4> QED
        BY <3>1, <4>1, <4>2, <4>3
    <3> QED
      BY <3>2, <3>3 DEF StillReady, Ready
  <2>2. CASE ~Peers
    <3>1. net' = net
      BY <2>2 DEF Application, Writes, Reads, Closes, ClosesAtOnce, Uses, BeginsWriteAll,
           WritesNext, SelectFails, Stops, Refuses, Locks, vars
    <3> QED
      BY <3>1 DEF StillReady, Ready
  <2> QED
    BY <2>1, <2>2
<1> QED
  BY <1>2, <1>3, <1>4, <1>5

\* Two connections that are listed, the first of them live, have not one socket.
LEMMA SocketsAreOwn ==
  ASSUME IInv, NEW i \in DOMAIN list, NEW j \in DOMAIN list, i # j, pc # "check",
         conn[list[i]].sock = conn[list[j]].sock
  PROVE  FALSE
<1>1. list[i] \in Listed /\ list[j] \in Listed /\ list[i] \in Conns /\ list[j] \in Conns
  BY SMTT(60) DEF IInv, TypeOK, Listed, ToSet
<1>2. fate[list[i]] = "live" /\ fate[list[j]] = "live"
  BY <1>1 DEF IInv, ListedAreKnown, JustEnded
<1>3. list[i] = list[j]
  BY <1>1, <1>2 DEF IInv, SlotsAccountedFor, Holds
<1> QED
  BY <1>3 DEF IInv, ListedOnce

\* No step gives two sockets one descriptor.
LEMMA DescriptorsStep ==
  ASSUME IInv, FdsAreDistinct, [Next]_vars
  PROVE  FdsAreDistinct'
<1>0. net \in [Sockets -> NetRec] /\ IsFiniteSet(Sockets)
  BY MuxerAssumption DEF IInv, TypeOK, NetRec, MuxerAssumption
<1>1. CASE \A s \in Sockets : net'[s].fd = 0 \/ net'[s].fd = net[s].fd
  BY <1>1 DEF FdsAreDistinct
<1>2. ASSUME NEW c \in Conns, Accepts(c) PROVE FdsAreDistinct'
  <2>1. PICK s \in Sockets : Reserve(s) /\ net' = [net EXCEPT ![s].fd = FreeFd]
    BY <1>2 DEF Accepts
  <2>2. net[s].fd = 0
    BY <2>1, HeadIsFree DEF IInv, TypeOK, FreeAreClosed, Closed
  <2>3. \A t \in Sockets : net[t].fd # FreeFd
    BY <1>0, <2>2, FreeFdExists DEF NetRec
  <2>4. net'[s].fd = FreeFd /\ \A t \in Sockets \ {s} : net'[t] = net[t]
    BY <1>0, <2>1 DEF NetRec
  <2> QED
    BY <2>3, <2>4 DEF FdsAreDistinct
<1>3. ASSUME NEW c \in Conns, Handles(c)
      PROVE  \A s \in Sockets : net'[s].fd = 0 \/ net'[s].fd = net[s].fd
  BY <1>3, HandlesDrift DEF StillReady
<1>4. CASE \/ Selects \/ SelectFails \/ Stops \/ Refuses \/ Locks \/ PassDone
           \/ Application \/ Peers \/ UNCHANGED vars
  <2>1. Quiet
    BY <1>4, QuietKind DEF IInv, Listing
  <2> QED
    BY <1>1, <2>1 DEF Quiet, StaysOrCloses, Closed
<1>5. CASE Checks \/ Cleanup \/ AcceptTimesOut
  BY <1>1, <1>5 DEF Checks, Cleanup, AcceptTimesOut, Closed
<1> QED
  BY <1>1, <1>2, <1>3, <1>4, <1>5 DEF Next, Runs

\* What select() found stays ready until the muxer comes to it.
LEMMA ReadyStep ==
  ASSUME IInv, ~ClosesNow, RInv, [Next]_vars
  PROVE  SetsAreCurrent' /\ ReadyAhead' /\ ReadsFound'
<1>0. /\ conn \in [Conns -> ConnRec] /\ net \in [Sockets -> NetRec] /\ list \in Seq(Conns)
      /\ 0 \notin fds.read /\ \A c \in Listed : conn[c].sock \in Sockets /\ c \in Conns
      /\ \A i \in DOMAIN list : list[i] \in Listed
  BY SetsHaveFds, SMTT(60) DEF IInv, TypeOK, ConnRec, NetRec, ListedAreKnown, Listed, ToSet
<1>1. ASSUME NEW c \in Conns, Handles(c)
      PROVE  SetsAreCurrent' /\ ReadyAhead' /\ ReadsFound'
  <2>1. /\ pos \in DOMAIN list /\ c = list[pos] /\ UNCHANGED <<list, pos, fds>>
        /\ \A d \in Conns : conn'[d].sock = conn[d].sock
        /\ pc \in {"next", "reading", "writing"} /\ pc' \in {"reading", "writing", "check"}
        /\ \A s \in Sockets :
             \/ StillReady(s)
             \/ s = conn[c].sock /\ pc' = "check" /\ net'[s].fd = net[s].fd
        /\ pc' = "reading" => IsSet(c, fds.read) /\ net' = net /\ pc = "next"
    BY <1>1, HandlesDrift
  <2>2. ASSUME NEW i \in DOMAIN list, IsAhead(i)', Fd(list[i])' \in fds.read
        PROVE  Ready(conn[list[i]].sock)'
    <3> DEFINE s == conn[list[i]].sock
    <3>1. s \in Sockets /\ s' = s /\ net'[s].fd # 0
      BY <1>0, <2>1, <2>2 DEF Fd
    <3>2. IsAhead(i) /\ (pc' = "check" => i # pos)
      BY <2>1, <2>2 DEF IsAhead, IInv, TypeOK
    <3>3. pc' = "check" => s # conn[c].sock
      BY <2>1, <3>2, SocketsAreOwn
    <3>4. StillReady(s) /\ net'[s].fd = net[s].fd
      BY <2>1, <3>1, <3>3 DEF StillReady
    <3>5. Ready(s)
      BY <2>1, <2>2, <3>1, <3>2, <3>4 DEF RInv, ReadyAhead, Fd, Busy
    <3> QED
      BY <3>1, <3>4, <3>5 DEF StillReady, Ready
  <2>3. SetsAreCurrent'
    BY <2>1 DEF SetsAreCurrent
  <2>4. ReadyAhead'
    BY <2>1, <2>2 DEF ReadyAhead
  <2>5. ReadsFound'
    BY <1>0, <2>1 DEF ReadsFound, IsSet, IsOpen, Fd
  <2> QED
    BY <2>3, <2>4, <2>5
<1>2. CASE Application \/ Peers \/ SelectFails \/ Stops \/ Refuses \/ Locks \/ UNCHANGED vars
  <2>1. /\ UNCHANGED <<list, pos, fds>>
        /\ \A d \in Conns : conn'[d].sock = conn[d].sock
        /\ \A s \in Sockets : StillReady(s) /\ net'[s].fd = net[s].fd
        /\ \/ pc' = pc \/ pc' = "cleanup"
           \/ pc \in {"accept", "scan"} /\ pc' \in {"scan", "next"}
    BY <1>2, OthersDrift
  <2>2. \A c \in Listed : Fd(c)' = Fd(c) /\ conn'[c].sock = conn[c].sock
    BY <1>0, <2>1 DEF Fd
  <2>3. SetsAreCurrent'
    BY <2>1, <2>2 DEF SetsAreCurrent, RInv, Listed
  <2>4. ReadyAhead'
    <3>1. ASSUME NEW i \in DOMAIN list, IsAhead(i)', Fd(list[i])' \in fds.read,
                 pc' \in {"accept", "scan"} \cup Busy
          PROVE  Ready(conn[list[i]].sock)'
      <4>1. IsAhead(i) /\ pc \in {"accept", "scan"} \cup Busy
        BY <2>1, <3>1 DEF IsAhead, Busy
      <4>2. Ready(conn[list[i]].sock)
        BY <1>0, <2>1, <3>1, <4>1 DEF RInv, ReadyAhead, Fd
      <4>3. conn[list[i]].sock \in Sockets /\ conn'[list[i]].sock = conn[list[i]].sock
            /\ net'[conn[list[i]].sock].fd # 0
        BY <1>0, <2>1, <3>1 DEF Fd
      <4> QED
        BY <2>1, <4>2, <4>3 DEF StillReady, Ready
    <3> QED
      BY <2>1, <3>1 DEF ReadyAhead
  <2>5. ReadsFound'
    BY <1>0, <2>1, <2>2 DEF ReadsFound, RInv, IsSet, IsOpen, IInv, TypeOK
  <2> QED
    BY <2>3, <2>4, <2>5
<1>3. CASE Selects
  <2>1. /\ pc' = "accept" /\ UNCHANGED <<net, conn, list, pos>>
        /\ \A n \in fds'.read : \E d \in Listed : Fd(d) = n /\ IsOpen(d) /\ Ready(conn[d].sock)
    BY <1>3 DEF Selects, Goto, cvars, Ready
  <2>2. SetsAreCurrent'
    BY <2>1 DEF SetsAreCurrent, Listed, Fd
  <2>3. ASSUME NEW i \in DOMAIN list, Fd(list[i]) \in fds'.read
        PROVE  Ready(conn[list[i]].sock)
    <3>1. PICK d \in Listed : Fd(d) = Fd(list[i]) /\ IsOpen(d) /\ Ready(conn[d].sock)
      BY <2>1, <2>3
    <3>2. conn[d].sock = conn[list[i]].sock
      BY <1>0, <3>1 DEF RInv, FdsAreDistinct, Fd, IsOpen
    <3> QED
      BY <3>1, <3>2
  <2>4. ReadyAhead'
    BY <2>1, <2>3 DEF ReadyAhead, Fd, Ready
  <2>5. ReadsFound'
    BY <2>1 DEF ReadsFound
  <2> QED
    BY <2>2, <2>4, <2>5
<1>4. ASSUME NEW c \in Conns, Accepts(c)
      PROVE  SetsAreCurrent' /\ ReadyAhead' /\ ReadsFound'
  <2>1. PICK s \in Sockets : Reserve(s) /\ net' = [net EXCEPT ![s].fd = FreeFd]
                             /\ conn' = [conn EXCEPT ![c] = New(s)]
    BY <1>4 DEF Accepts
  <2>2. net[s].fd = 0 /\ s \in ToSet(free)
    BY <2>1, HeadIsFree DEF IInv, TypeOK, FreeAreClosed, Closed
  <2>3. FreeFd \notin fds.read
    <3>1. \A t \in Sockets : net[t].fd # FreeFd
      BY <1>0, <2>2, FreeFdExists, MuxerAssumption DEF NetRec, MuxerAssumption
    <3> QED
      BY <1>0, <1>4, <3>1 DEF RInv, SetsAreCurrent, Accepts, Fd
  <2>4. /\ net'[s].fd = FreeFd /\ \A t \in Sockets \ {s} : net'[t] = net[t]
        /\ conn'[c].sock = s /\ \A d \in Conns \ {c} : conn'[d] = conn[d]
    BY <1>0, <2>1 DEF NetRec, New
  <2>5. /\ pc = "accept" /\ pc' = "scan" /\ c \notin Listed /\ UNCHANGED <<pos, fds>>
        /\ Len(list') = Len(list) + 1 /\ list'[Len(list) + 1] = c
        /\ \A j \in 1 .. Len(list) : list'[j] = list[j]
        /\ DOMAIN list' = 1 .. (Len(list) + 1) /\ DOMAIN list = 1 .. Len(list) /\ Len(list) \in Nat
    BY <1>0, <1>4, AppendProperties DEF Accepts, Goto
  <2>6. ASSUME NEW i \in DOMAIN list', Fd(list[i])' \in fds.read
        PROVE  Ready(conn[list[i]].sock)'
    <3>1. CASE i = Len(list) + 1
      BY <2>3, <2>4, <2>5, <2>6, <3>1 DEF Fd
    <3>2. CASE i \in DOMAIN list
      <4>1. /\ list'[i] = list[i] /\ list[i] # c /\ list[i] \in Conns
            /\ conn'[list[i]] = conn[list[i]] /\ conn[list[i]].sock \in Sockets
        BY <1>0, <2>4, <2>5, <3>2
      <4>2. conn[list[i]].sock # s
        BY <2>3, <2>4, <2>6, <4>1 DEF Fd
      <4>3. Fd(list[i]) \in fds.read /\ IsAhead(i)
        BY <2>4, <2>5, <2>6, <3>2, <4>1, <4>2 DEF Fd, IsAhead
      <4>4. Ready(conn[list[i]].sock)
        BY <2>5, <3>2, <4>3 DEF RInv, ReadyAhead
      <4> QED
        BY <2>4, <4>1, <4>2, <4>4 DEF Ready
    <3> QED
      BY <2>5, <3>1, <3>2
  <2> QED
    BY <2>5, <2>6 DEF SetsAreCurrent, ReadyAhead, ReadsFound
<1>5. CASE PassDone
  BY <1>5 DEF PassDone, Goto, SetsAreCurrent, ReadyAhead, ReadsFound, Busy
<1>6. CASE Checks
  <2>1. pos \in 1 .. Len(list) /\ DOMAIN list = 1 .. Len(list) /\ Len(list) \in Nat
    BY <1>0, <1>6, SMTT(60) DEF Checks, IInv, TypeOK
  <2>2. CASE IsOpen(list[pos])
    <3>1. /\ pc = "check" /\ pc' = "next" /\ pos' = pos + 1
          /\ UNCHANGED <<net, conn, list, fds>>
      BY <1>6, <2>2 DEF Checks, Goto
    <3>2. \A i \in DOMAIN list : IsAhead(i)' => IsAhead(i)
      BY <2>1, <3>1 DEF IsAhead
    <3> QED
      BY <3>1, <3>2 DEF RInv, SetsAreCurrent, ReadyAhead, ReadsFound, Busy, Fd, Ready
  <2>3. CASE ~IsOpen(list[pos])
    <3> DEFINE c == list[pos]
    <3>1. /\ pc = "check" /\ pc' = "next" /\ UNCHANGED <<net, pos, fds>>
          /\ list' = RemoveAt(list, pos)
          /\ conn' = [conn EXCEPT ![c] = IF fate[c] = "gone" THEN New(NoSocket) ELSE conn[c]]
      BY <1>6, <2>3 DEF Checks, Goto
    <3>2. /\ Len(list') = Len(list) - 1 /\ list' \in Seq(Conns)
          /\ \A j \in 1 .. (Len(list) - 1) : list'[j] = IF j < pos THEN list[j] ELSE list[j + 1]
      BY <1>0, <2>1, <3>1, WithoutOne
    <3>3. ASSUME NEW i \in DOMAIN list', IsAhead(i)', Fd(list[i])' \in fds.read
          PROVE  Ready(conn[list[i]].sock)'
      <4>1. i \in 1 .. (Len(list) - 1) /\ i >= pos /\ i + 1 \in DOMAIN list /\ list'[i] = list[i + 1]
        BY <2>1, <3>1, <3>2, <3>3 DEF IsAhead
      <4>2. list[i + 1] # c
        BY <2>1, <4>1 DEF IInv, ListedOnce
      <4>3. conn'[list[i + 1]] = conn[list[i + 1]]
        BY <1>0, <3>1, <4>1, <4>2
      <4>4. IsAhead(i + 1) /\ Fd(list[i + 1]) \in fds.read
        BY <2>1, <3>1, <3>3, <4>1, <4>3 DEF IsAhead, Fd
      <4>5. Ready(conn[list[i + 1]].sock)
        BY <3>1, <4>1, <4>4 DEF RInv, ReadyAhead, Busy
      <4> QED
        BY <3>1, <4>1, <4>3, <4>5 DEF Ready
    <3> QED
      BY <3>1, <3>3 DEF SetsAreCurrent, ReadyAhead, ReadsFound
  <2> QED
    BY <2>2, <2>3
<1>7. CASE Cleanup \/ AcceptTimesOut
  BY <1>7 DEF Cleanup, AcceptTimesOut, Goto, SetsAreCurrent, ReadyAhead, ReadsFound, Busy
<1> QED
  BY <1>1, <1>2, <1>3, <1>4, <1>5, <1>6, <1>7 DEF Next, Runs

\* The muxer reads where there is something to read, for any number of
\* connections, as long as nobody calls close(true).
THEOREM ReadingNeverBlocks == Spec => []ReadDoesNotBlock
<1>1. Init => (~ClosesNow => RInv)
  BY DEF Init, RInv, FdsAreDistinct, SetsAreCurrent, ReadyAhead, ReadsFound, Busy, Closed
<1>2. IInv /\ (~ClosesNow => RInv) /\ [Next]_vars => (~ClosesNow => RInv)'
  BY DescriptorsStep, ReadyStep DEF RInv
<1>3. IInv /\ (~ClosesNow => RInv) => ReadDoesNotBlock
  <2> SUFFICES ASSUME IInv, RInv, pc = "reading", IsOpen(list[pos])
               PROVE  Ready(conn[list[pos]].sock)
    BY DEF ReadDoesNotBlock, Ready
  <2>1. pos \in DOMAIN list /\ IsAhead(pos) /\ Fd(list[pos]) \in fds.read
    BY DEF IInv, TypeOK, IsAhead, RInv, ReadsFound, IsSet
  <2> QED
    BY <2>1 DEF RInv, ReadyAhead, Busy
<1> QED
  BY <1>1, <1>2, <1>3, Inductive, PTL DEF Spec
=============================================================================
