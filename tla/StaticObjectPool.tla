-------------------------- MODULE StaticObjectPool --------------------------
(***************************************************************************)
(* ccxx::StaticObjectPool: places of one block of memory, linked into a    *)
(* free list.  reserve() takes the first place of the list and constructs  *)
(* an object in it; release() destroys the object and puts its place first.*)
(* The pool trusts its caller: it does not look at what is released.       *)
(***************************************************************************)
EXTENDS SequencesExt

CONSTANTS Sockets,      \* the places of the pool, with their objects
          NoSocket      \* not a place

VARIABLE free           \* _freeList

PoolInit == free = SetToSeq(Sockets)

PoolIsEmpty == free = << >>

\* reserve(), when the pool is not empty, returns s.
Reserve(s) == /\ ~PoolIsEmpty
              /\ s = Head(free)
              /\ free' = Tail(free)

\* Mutant of Release: the place is forgotten.
ReleaseForgets(s) == s \in Sockets /\ UNCHANGED free

Release(s) == free' = <<s>> \o free

\* release() of the sockets of a sequence, one after the other
ReleaseAll(ss) == free' = Reverse(ss) \o free
=============================================================================
