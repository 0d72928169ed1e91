-------------------------- MODULE CriticalSection --------------------------
(***************************************************************************)
(* ccxx::CriticalSection where the system has none of its own: an atomic   *)
(* word that is compared-and-set from 0 to 1, a count per thread of how    *)
(* often that thread is inside, and a random sleep between two attempts.   *)
(*                                                                         *)
(* The count is the thread's own, so a step of it is merged with the step  *)
(* on the shared word next to it, except in leave(), where the count is    *)
(* already 0 before the word is.  A thread that is not inside may call     *)
(* leave(), too; the code makes that call do nothing.                      *)
(***************************************************************************)
EXTENDS Naturals

CONSTANTS Threads,
          NoThread,     \* not a thread
          MaxDepth      \* how deep the calls of enter are nested (a bound)

ASSUME LockAssumption == NoThread \notin Threads /\ MaxDepth \in Nat \ {0}

VARIABLES lock,         \* _lock
          count,        \* *_counter, for each thread
          pc            \* where a thread is in enter() or leave()

vars == <<lock, count, pc>>

Init == /\ lock = 0
        /\ count = [t \in Threads |-> 0]
        /\ pc = [t \in Threads |-> "idle"]

Goto(t, there) == pc' = [pc EXCEPT ![t] = there]
Counts(t, n)   == count' = [count EXCEPT ![t] = n]

\* enter() and tryEnter(), by a thread that is already inside
Reenter(t) ==
  /\ pc[t] = "idle" /\ count[t] > 0 /\ count[t] < MaxDepth
  /\ Counts(t, count[t] + 1)
  /\ UNCHANGED <<lock, pc>>

\* enter(), by a thread that is not
Enter(t) ==
  /\ pc[t] = "idle" /\ count[t] = 0
  /\ Goto(t, "trying")
  /\ UNCHANGED <<lock, count>>

\* Mutant of TestAndSet: the word is read, not compared and set.
TestOnly(t) ==
  /\ pc[t] = "trying"
  /\ UNCHANGED lock
  /\ \/ lock = 0 /\ Counts(t, count[t] + 1) /\ Goto(t, "idle")
     \/ lock # 0 /\ Goto(t, "asleep") /\ UNCHANGED count

\* _lock.testAndSet(1, 0): whoever finds 0 is in, the others sleep a while.
TestAndSet(t) ==
  /\ pc[t] = "trying"
  /\ \/ lock = 0 /\ lock' = 1 /\ Counts(t, count[t] + 1) /\ Goto(t, "idle")
     \/ lock # 0 /\ Goto(t, "asleep") /\ UNCHANGED <<lock, count>>

\* Thread::sleep is over
WakesUp(t) ==
  /\ pc[t] = "asleep"
  /\ Goto(t, "trying")
  /\ UNCHANGED <<lock, count>>

\* tryEnter(), by a thread that is not inside: one attempt
TryEnter(t) ==
  /\ pc[t] = "idle" /\ count[t] = 0
  /\ \/ lock = 0 /\ lock' = 1 /\ Counts(t, 1)
     \/ lock # 0 /\ UNCHANGED <<lock, count>>
  /\ UNCHANGED pc

\* Mutant of Leave: the word is freed at the first leave of a nested section.
LeaveFreesNested(t) ==
  /\ pc[t] = "idle"
  /\ \/ count[t] = 0 /\ UNCHANGED <<count, pc>>
     \/ count[t] > 0 /\ Counts(t, count[t] - 1) /\ Goto(t, "leaving")
  /\ UNCHANGED lock

\* Mutant of Leave: the count is compared before it is decremented.
LeaveComparesFirst(t) ==
  /\ pc[t] = "idle"
  /\ IF count[t] > 0 THEN Counts(t, count[t] - 1) ELSE UNCHANGED count
  /\ IF count[t] = 0 THEN Goto(t, "leaving") ELSE UNCHANGED pc
  /\ UNCHANGED lock

\* leave(): a thread that is not inside does nothing, a nested one counts down
\* and the outermost one goes on to free the word.
Leave(t) ==
  /\ pc[t] = "idle"
  /\ \/ count[t] = 0 /\ UNCHANGED <<count, pc>>
     \/ count[t] > 1 /\ Counts(t, count[t] - 1) /\ UNCHANGED pc
     \/ count[t] = 1 /\ Counts(t, 0) /\ Goto(t, "leaving")
  /\ UNCHANGED lock

\* _lock.set(0)
Free(t) ==
  /\ pc[t] = "leaving"
  /\ lock' = 0
  /\ Goto(t, "idle")
  /\ UNCHANGED count

Next == \E t \in Threads : \/ Reenter(t) \/ Enter(t) \/ TestAndSet(t) \/ WakesUp(t)
                           \/ TryEnter(t) \/ Leave(t) \/ Free(t)

\* A thread in the middle of enter() or leave() goes on; nobody has to call.
Fairness == \A t \in Threads : WF_vars(TestAndSet(t) \/ WakesUp(t) \/ Free(t))

Spec == Init /\ [][Next]_vars /\ Fairness

-----------------------------------------------------------------------------
(* Properties                                                              *)

Inside(t) == count[t] > 0
Holds(t)  == Inside(t) \/ pc[t] = "leaving"
Waits(t)  == pc[t] \in {"trying", "asleep"}

\* Every variable has its type, and who waits or is leaving is not inside.
TypeOK ==
  /\ lock \in {0, 1}
  /\ count \in [Threads -> 0..MaxDepth]
  /\ pc \in [Threads -> {"idle", "trying", "asleep", "leaving"}]
  /\ \A t \in Threads : pc[t] # "idle" => count[t] = 0

\* Only one thread may be within a CriticalSection at any one time.
MutualExclusion ==
  \A t, u \in Threads : Inside(t) /\ Inside(u) => t = u

\* The word is set exactly while one thread is inside or on its way out: it is
\* neither freed under a thread that is inside nor left set when all are out,
\* whatever nested, failed or stray calls there were.
LockIsHeldByOne ==
  /\ \A t, u \in Threads : Holds(t) /\ Holds(u) => t = u
  /\ lock = 1 <=> \E t \in Threads : Holds(t)

\* The abstract lock is owned by the thread whose count is positive.
Owner == IF \E t \in Threads : Inside(t) THEN CHOOSE t \in Threads : Inside(t)
                                         ELSE NoThread
Depth == IF Owner = NoThread THEN 0 ELSE count[Owner]

Recursive == INSTANCE RecursiveLock WITH owner <- Owner, depth <- Depth

\* The critical section is a recursive lock: a thread gets out only by leaving
\* as often as it entered, and nobody else gets in before that.
IsRecursiveLock == Recursive!Spec

\* If no thread stays inside forever, then as long as somebody waits the
\* section keeps being entered: no call of leave() forgets to free the word.
\* (That each waiting thread gets its turn is not true: it looks at the word
\* only between two sleeps.)
SectionKeepsBeingEntered ==
  (\A t \in Threads : []<>(count[t] = 0))
    => (<>[](\E t \in Threads : Waits(t)) => []<><<lock = 0 /\ lock' = 1>>_vars)
=============================================================================
