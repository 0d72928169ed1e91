----------------------- MODULE CriticalSection_proofs -----------------------
(***************************************************************************)
(* Proofs about CriticalSection for any set of threads and any depth of    *)
(* nesting.  TypeOK and LockIsHeldByOne are inductive together; mutual     *)
(* exclusion and the refinement follow from them.                          *)
(***************************************************************************)
EXTENDS CriticalSection, TLAPS

IInv == TypeOK /\ LockIsHeldByOne

LEMMA IInvInit == Init => IInv
BY LockAssumption DEF Init, IInv, TypeOK, LockIsHeldByOne, Holds, Inside

\* The word is set by the one thread that finds it free, and freed by the one
\* thread that holds it.
LEMMA IInvNext == IInv /\ [Next]_vars => IInv'
<1> SUFFICES ASSUME IInv, [Next]_vars PROVE IInv'
  OBVIOUS
<1> USE LockAssumption DEF IInv, TypeOK, LockIsHeldByOne, Holds, Inside, Goto, Counts
<1>1. ASSUME NEW t \in Threads, Reenter(t) PROVE IInv'
  BY <1>1 DEF Reenter
<1>2. ASSUME NEW t \in Threads, Enter(t) PROVE IInv'
  BY <1>2 DEF Enter
<1>3. ASSUME NEW t \in Threads, TestAndSet(t) PROVE IInv'
  <2>1. CASE lock = 0 /\ lock' = 1 /\ Counts(t, count[t] + 1) /\ Goto(t, "idle")
    <3>1. \A u \in Threads : ~Holds(u)
      BY <2>1
    <3>2. count[t] = 0
      BY <1>3 DEF TestAndSet
    <3> QED
      BY <2>1, <3>1, <3>2
  <2>2. CASE lock # 0 /\ Goto(t, "asleep") /\ UNCHANGED <<lock, count>>
    BY <1>3, <2>2 DEF TestAndSet
  <2> QED
    BY <1>3, <2>1, <2>2 DEF TestAndSet
<1>4. ASSUME NEW t \in Threads, WakesUp(t) PROVE IInv'
  BY <1>4 DEF WakesUp
<1>5. ASSUME NEW t \in Threads, TryEnter(t) PROVE IInv'
  BY <1>5 DEF TryEnter
<1>6. ASSUME NEW t \in Threads, Leave(t) PROVE IInv'
  BY <1>6 DEF Leave
<1>7. ASSUME NEW t \in Threads, Free(t) PROVE IInv'
  BY <1>7 DEF Free
<1>8. CASE UNCHANGED vars
  BY <1>8 DEF vars
<1> QED
  BY <1>1, <1>2, <1>3, <1>4, <1>5, <1>6, <1>7, <1>8 DEF Next

THEOREM Inductive == Spec => []IInv
BY IInvInit, IInvNext, PTL DEF Spec

\* Every variable always has its type, and whoever waits or is on the way out
\* has a count of zero.
THEOREM TypeCorrect == Spec => []TypeOK
BY Inductive, PTL DEF IInv

\* The word is set exactly while one thread is inside or on its way out.
THEOREM LockHeld == Spec => []LockIsHeldByOne
BY Inductive, PTL DEF IInv

\* No two threads are within the critical section at the same time.
THEOREM Exclusive == Spec => []MutualExclusion
<1>1. IInv => MutualExclusion
  BY DEF IInv, LockIsHeldByOne, MutualExclusion, Holds
<1> QED
  BY <1>1, Inductive, PTL

-----------------------------------------------------------------------------
(* The critical section is a recursive lock                                *)

\* The abstract owner, without the CHOOSE.
LEMMA OwnerInside ==
  ASSUME IInv, NEW t \in Threads, Inside(t)
  PROVE  Owner = t /\ Depth = count[t] /\ Owner # NoThread
BY LockAssumption DEF IInv, LockIsHeldByOne, Holds, Owner, Depth

LEMMA OwnerNobody ==
  ASSUME \A t \in Threads : ~Inside(t)
  PROVE  Owner = NoThread /\ Depth = 0
BY DEF Owner, Depth

LEMMA OwnerUnchanged ==
  ASSUME UNCHANGED count
  PROVE  UNCHANGED <<Owner, Depth>>
BY DEF Owner, Depth, Inside

\* The same facts about the next state.
LEMMA OwnerInsideNext ==
  ASSUME IInv', NEW t \in Threads, Inside(t)'
  PROVE  Owner' = t /\ Depth' = count'[t]
BY LockAssumption DEF IInv, LockIsHeldByOne, Holds, Inside, Owner, Depth

LEMMA OwnerNobodyNext ==
  ASSUME \A t \in Threads : ~Inside(t)'
  PROVE  Owner' = NoThread /\ Depth' = 0
BY DEF Owner, Depth, Inside

\* A step that changes a count is an Enter or a Leave of that thread.
LEMMA LockNext ==
  ASSUME IInv, IInv', [Next]_vars
  PROVE  [Recursive!Next]_Recursive!vars
<1> USE DEF Recursive!vars, Counts, Goto
<1>0. count \in [Threads -> 0..MaxDepth]
  BY DEF IInv, TypeOK
<1>1. ASSUME NEW t \in Threads, Reenter(t) PROVE Recursive!Enter(t)
  <2>1. Inside(t) /\ Inside(t)' /\ count'[t] = count[t] + 1
    BY <1>0, <1>1, LockAssumption DEF Reenter, Inside
  <2> QED
    BY <2>1, OwnerInside, OwnerInsideNext DEF Recursive!Enter
<1>2. ASSUME NEW t \in Threads,
             lock = 0, count' = [count EXCEPT ![t] = count[t] + 1]
      PROVE  Recursive!Enter(t)
  <2>1. \A u \in Threads : ~Inside(u)
    BY <1>2 DEF IInv, LockIsHeldByOne, Holds
  <2>2. count[t] = 0 /\ count'[t] = 1
    BY <1>0, <1>2, <2>1 DEF Inside
  <2> QED
    BY <2>1, <2>2, OwnerNobody, OwnerInsideNext DEF Inside, Recursive!Enter
<1>3. ASSUME NEW t \in Threads, Leave(t), ~UNCHANGED count PROVE Recursive!Leave(t)
  <2>1. CASE count[t] > 1 /\ count' = [count EXCEPT ![t] = count[t] - 1]
    <3>1. Inside(t) /\ Inside(t)' /\ count'[t] = count[t] - 1 /\ count[t] # 1
      BY <1>0, <2>1, LockAssumption DEF Inside
    <3> QED
      BY <3>1, OwnerInside, OwnerInsideNext DEF Recursive!Leave
  <2>2. CASE count[t] = 1 /\ count' = [count EXCEPT ![t] = 0]
    <3>1. Inside(t)
      BY <2>2 DEF Inside
    <3>2. \A u \in Threads : ~Inside(u)'
      BY <1>0, <2>2, <3>1 DEF IInv, LockIsHeldByOne, Holds, Inside
    <3> QED
      BY <2>2, <3>1, <3>2, OwnerInside, OwnerNobodyNext DEF Recursive!Leave
  <2> QED
    BY <1>3, <2>1, <2>2 DEF Leave
<1>4. CASE UNCHANGED count
  BY <1>4, OwnerUnchanged
<1>5. CASE ~UNCHANGED count
  <2>1. PICK t \in Threads : Reenter(t) \/ TestAndSet(t) \/ TryEnter(t) \/ Leave(t)
    BY <1>5 DEF Next, Enter, WakesUp, Free, vars
  <2>2. CASE Reenter(t)
    BY <1>1, <2>2 DEF Recursive!Next
  <2>3. CASE TestAndSet(t)
    BY <1>2, <1>5, <2>3 DEF TestAndSet, Recursive!Next
  <2>4. CASE TryEnter(t)
    BY <1>2, <1>5, <2>4 DEF TryEnter, Recursive!Next
  <2>5. CASE Leave(t)
    BY <1>3, <1>5, <2>5 DEF Recursive!Next
  <2> QED
    BY <2>1, <2>2, <2>3, <2>4, <2>5
<1> QED
  BY <1>4, <1>5

\* The critical section implements a recursive lock: a thread gets out only by
\* leaving as often as it entered, and nobody gets in before that.
THEOREM SectionIsRecursiveLock == Spec => IsRecursiveLock
<1>1. Init => Recursive!Init
  BY OwnerNobody DEF Init, Inside, Recursive!Init
<1>2. IInv /\ IInv' /\ [Next]_vars => [Recursive!Next]_Recursive!vars
  BY LockNext
<1> QED
  BY <1>1, <1>2, Inductive, PTL DEF Spec, IsRecursiveLock, Recursive!Spec
=============================================================================
