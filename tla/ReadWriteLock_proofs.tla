------------------------ MODULE ReadWriteLock_proofs ------------------------
(***************************************************************************)
(* Proofs about ReadWriteLock and the CondVar below it, for any set of     *)
(* threads.  While no wait has timed out the mutex has one owner, wherever *)
(* that owner is in a call of the condition variable; so the counters      *)
(* change under it only, and what a thread found when it looked is still   *)
(* so when it counts itself in.  The same owner is alone with notifyAll(), *)
(* which is why every waiter that it woke leaves before it is let go.      *)
(***************************************************************************)
EXTENDS ReadWriteLock, FiniteSetTheorems, TLAPS

WaitSteps   == {"counted", "waiting", "woken", "late", "last", "relocking",
                "signalled", "timedOut"}
NotifySteps == {"notifying", "awaiting", "clearing"}

\* A thread is in wait() or in a notification exactly where the lock calls it,
\* and it asks for a lock, or has one, where the steps of its call say so.
CallsFit ==
  \A t \in Threads :
    /\ at[t] \in WaitSteps <=> pc[t] = "waiting"
    /\ at[t] \in NotifySteps => pc[t] = "notifying"
    /\ pc[t] \in {"locking", "testing", "counting", "waiting"}
         => want[t] \in Calls /\ holds[t] = "none"
    /\ pc[t] \in {"relocking", "freeing"} => holds[t] # "none"

\* _waitersCount is the number of the threads that are counted.
WaitersAreCounted == IsFiniteSet(Counted) /\ waitersCount = Cardinality(Counted)

\* The threads between getting the mutex and giving it up
Owns(t) == \/ pc[t] \in {"testing", "counting", "unlocking", "freeing", "notifying"}
           \/ pc[t] = "waiting" /\ at[t] \in {"counted", "signalled"}

\* The mutex has one owner, as long as no wait timed out.
MutexHasOneOwner ==
  /\ \A t, u \in Threads : Owns(t) /\ Owns(u) => t = u
  /\ free <=> \A t \in Threads : ~Owns(t)

\* No wait has timed out.
NobodyIsLate == \A t \in Threads : at[t] \notin {"late", "timedOut"}

\* The counters tell who holds the lock.
HoldersAreCounted ==
  /\ IsFiniteSet(Holding("read")) /\ readersReading = Cardinality(Holding("read"))
  /\ IsFiniteSet(Holding("write")) /\ writerWriting = Cardinality(Holding("write"))

\* What a thread saw of the lock is so until it has counted itself in.
LockIsStillFree == \A t \in Threads : pc[t] = "counting" => ~Blocked(t)

\* What holds until a wait times out
BeforeTimeout == NobodyIsLate /\ MutexHasOneOwner /\ HoldersAreCounted
                   /\ LockIsStillFree /\ Exclusion

IInv == TypeOK /\ CallsFit /\ WaitersAreCounted /\ (~expired => BeforeTimeout)

\* It holds at first.
LEMMA InitIInv == Init => IInv
<1> SUFFICES ASSUME Init PROVE IInv
  OBVIOUS
<1> USE DEF Init, CondVarInit
<1>1. TypeOK
  <2>1. /\ at \in [Threads -> CondSteps] /\ pc \in [Threads -> CallSteps]
        /\ want \in [Threads -> Calls \cup {NoLock}] /\ holds \in [Threads -> Modes \cup {"none"}]
    BY DEF CondSteps, CallSteps
  <2>2. sem \in 0 .. SemMax
    BY LockAssumption DEF LockAssumption
  <2> QED
    BY <2>1, <2>2 DEF TypeOK
<1>2. CallsFit /\ LockIsStillFree /\ Exclusion /\ NobodyIsLate /\ MutexHasOneOwner
  BY DEF CallsFit, WaitSteps, NotifySteps, LockIsStillFree, Exclusion, NobodyIsLate,
         MutexHasOneOwner, Owns
<1>3. WaitersAreCounted /\ HoldersAreCounted
  <2>1. Counted = {} /\ Holding("read") = {} /\ Holding("write") = {}
    BY DEF Counted, Holding
  <2> QED
    BY <2>1, FS_EmptySet DEF WaitersAreCounted, HoldersAreCounted
<1> QED
  BY <1>1, <1>2, <1>3 DEF IInv, BeforeTimeout

-----------------------------------------------------------------------------
(* The steps                                                               *)

\* The number of elements as one comes ...
LEMMA OneMore ==
  ASSUME NEW S, IsFiniteSet(S), NEW x, x \notin S
  PROVE  IsFiniteSet(S \cup {x}) /\ Cardinality(S \cup {x}) = Cardinality(S) + 1
BY FS_AddElement

\* ... and as it goes
LEMMA OneLess ==
  ASSUME NEW S, IsFiniteSet(S), NEW x, x \in S
  PROVE  /\ IsFiniteSet(S \ {x}) /\ Cardinality(S \ {x}) = Cardinality(S) - 1
         /\ Cardinality(S) \in Nat \ {0}
<1>1. IsFiniteSet(S \ {x}) /\ Cardinality(S \ {x}) = Cardinality(S) - 1
  BY FS_RemoveElement
<1>2. Cardinality(S) \in Nat /\ Cardinality(S) # 0
  BY FS_CardinalityType, FS_EmptySet
<1> QED
  BY <1>1, <1>2

\* What the condition variable's own steps do to the mutex and to where a thread is
InsideKinds(t) ==
  \/ at[t] = "counted" /\ free' = TRUE /\ Steps(t, "waiting")
  \/ UNCHANGED free /\ at[t] = "waiting" /\ Steps(t, "woken")
  \/ UNCHANGED free /\ at[t] = "late" /\ Steps(t, "timedOut")
  \/ UNCHANGED free /\ at[t] = "woken" /\ \E x \in {"last", "relocking"} : Steps(t, x)
  \/ UNCHANGED free /\ at[t] = "last" /\ Steps(t, "relocking")
  \/ at[t] = "relocking" /\ free /\ free' = FALSE /\ Steps(t, "signalled")
  \/ UNCHANGED free /\ at[t] \in {"notifying", "clearing"} /\ Steps(t, "out")
  \/ UNCHANGED free /\ at[t] = "awaiting" /\ Steps(t, "clearing")

\* They are of those kinds, and the lock's own variables stay.
LEMMA InsideIs ==
  ASSUME NEW t \in Threads, Inside(t)
  PROVE  InsideKinds(t) /\ UNCHANGED <<expired, lvars, pc>>
BY DEF Inside, CallGoesOn, WaitReleases, WaitAcquires, LateReturns, WokenLeaves,
       LastSignals, Relocks, NotifyReleases, NotifyAllWaits, NotifyAllClears, InsideKinds

\* The number of waiters follows those that are counted.
LEMMA WaitersStep ==
  ASSUME IInv, [Next]_vars
  PROVE  WaitersAreCounted' /\ waitersCount' \in Nat
<1> USE DEF IInv, Steps
<1>0. at \in [Threads -> CondSteps] /\ IsFiniteSet(Counted) /\ waitersCount = Cardinality(Counted)
      /\ waitersCount \in Nat
  BY DEF TypeOK, WaitersAreCounted
<1>1. CASE Counted' = Counted /\ waitersCount' = waitersCount
  BY <1>0, <1>1 DEF WaitersAreCounted
<1>2. ASSUME NEW t \in Threads, NEW timed, WaitCounts(t, timed)
      PROVE  WaitersAreCounted' /\ waitersCount' \in Nat
  <2>1. t \notin Counted /\ Counted' = Counted \cup {t}
    BY <1>0, <1>2 DEF WaitCounts, Counted
  <2> QED
    BY <1>0, <1>2, <2>1, OneMore DEF WaitersAreCounted, WaitCounts
<1>3. ASSUME NEW t \in Threads, LateReturns(t) \/ WokenLeaves(t)
      PROVE  WaitersAreCounted' /\ waitersCount' \in Nat
  <2>1. t \in Counted /\ Counted' = Counted \ {t}
    <3>1. t \in Counted /\ \E x : at' = [at EXCEPT ![t] = x] /\ x \notin {"counted", "waiting", "woken", "late"}
      BY <1>3 DEF LateReturns, WokenLeaves, Counted
    <3> QED
      BY <1>0, <3>1 DEF Counted
  <2>2. waitersCount' = waitersCount - 1
    BY <1>3 DEF LateReturns, WokenLeaves
  <2> QED
    BY <1>0, <2>1, <2>2, OneLess DEF WaitersAreCounted
<1>4. ASSUME NEW t \in Threads, Waits(t) PROVE WaitersAreCounted' /\ waitersCount' \in Nat
  BY <1>2, <1>4 DEF Waits
<1>5. ASSUME NEW t \in Threads, Inside(t) PROVE WaitersAreCounted' /\ waitersCount' \in Nat
  <2>1. CASE WaitReleases(t) \/ WaitAcquires(t) \/ LastSignals(t) \/ Relocks(t)
             \/ NotifyReleases(t) \/ NotifyAllWaits(t) \/ NotifyAllClears(t)
    <3>1. /\ waitersCount' = waitersCount
          /\ \E x : /\ at' = [at EXCEPT ![t] = x]
                    /\ x \in {"counted", "waiting", "woken", "late"} <=> t \in Counted
      BY <2>1 DEF WaitReleases, WaitAcquires, LastSignals, Relocks, NotifyReleases,
           NotifyAllWaits, NotifyAllClears, Counted
    <3>2. Counted' = Counted
      BY <1>0, <3>1 DEF Counted
    <3> QED
      BY <1>1, <3>1, <3>2
  <2> QED
    BY <1>3, <1>5, <2>1 DEF Inside, CallGoesOn
<1>6. ASSUME NEW t \in Threads, TimesOut(t) \/ WaitOver(t) \/ FreesRead(t) \/ FreesOther(t)
      PROVE  WaitersAreCounted' /\ waitersCount' \in Nat
  <2>1. /\ waitersCount' = waitersCount
        /\ \/ at' = at
           \/ \E x : /\ at' = [at EXCEPT ![t] = x]
                     /\ x \in {"counted", "waiting", "woken", "late"} <=> t \in Counted
    BY <1>6 DEF TimesOut, WaitTimesOut, WaitOver, FreesRead, FreesOther, NotifyLooks,
         NotifyAllLooks, cvars, Counted
  <2>2. Counted' = Counted
    BY <1>0, <2>1 DEF Counted
  <2> QED
    BY <1>1, <2>1, <2>2
<1>7. ASSUME NEW t \in Threads,
             \/ \E mode \in Modes, timed \in BOOLEAN : Call(t, mode, timed)
             \/ Locks(t) \/ TryLockFails(t) \/ Passes(t) \/ Counts(t) \/ Unlocks(t)
             \/ CallUnlock(t) \/ LocksAgain(t) \/ NotifyOver(t)
      PROVE  WaitersAreCounted' /\ waitersCount' \in Nat
  <2>1. UNCHANGED <<waitersCount, at>>
    BY <1>7 DEF Call, Locks, TryLockFails, Passes, Counts, Unlocks, CallUnlock, LocksAgain,
         NotifyOver, cvars
  <2> QED
    BY <1>1, <2>1 DEF Counted
<1>8. CASE UNCHANGED vars
  BY <1>1, <1>8 DEF vars, cvars, Counted
<1> QED
  BY <1>4, <1>5, <1>6, <1>7, <1>8 DEF Next

\* Every variable keeps its type.
LEMMA TypeStep ==
  ASSUME IInv, [Next]_vars
  PROVE  TypeOK'
<1> USE DEF IInv, TypeOK, Steps, Goto, Asks, Gets, CondSteps, CallSteps
<1>0. waitersCount' \in Nat /\ SemMax \in Nat
  BY WaitersStep, LockAssumption DEF LockAssumption
<1>1. ASSUME NEW t \in Threads, NEW mode \in Modes, NEW timed \in BOOLEAN, Call(t, mode, timed)
      PROVE  TypeOK'
  BY <1>1 DEF Call, cvars, Calls
<1>2. ASSUME NEW t \in Threads,
             \/ Locks(t) \/ TryLockFails(t) \/ Passes(t) \/ Unlocks(t)
             \/ CallUnlock(t) \/ LocksAgain(t) \/ NotifyOver(t)
      PROVE  TypeOK'
  BY <1>2 DEF Locks, TryLockFails, Passes, Unlocks, CallUnlock, LocksAgain, NotifyOver,
       cvars, lvars
<1>3. ASSUME NEW t \in Threads, Counts(t) PROVE TypeOK'
  BY <1>3 DEF Counts, cvars, Modes
<1>4. ASSUME NEW t \in Threads, Waits(t) PROVE TypeOK'
  BY <1>0, <1>4 DEF Waits, WaitCounts, lvars
<1>5. ASSUME NEW t \in Threads, WaitOver(t) PROVE TypeOK'
  BY <1>5 DEF WaitOver
<1>6. ASSUME NEW t \in Threads, FreesRead(t) PROVE TypeOK'
  BY <1>0, <1>6 DEF FreesRead, NotifyLooks, cvars
<1>7. ASSUME NEW t \in Threads, FreesOther(t) PROVE TypeOK'
  <2>1. sem' \in 0 .. SemMax
    BY <1>0, <1>7 DEF FreesOther, NotifyAllLooks, Release, cvars
  <2>2. /\ UNCHANGED <<free, done, expired, limited, readersReading, want>>
        /\ broadcast' \in BOOLEAN /\ writerWriting' = 0
        /\ at' \in [Threads -> CondSteps] /\ pc' \in [Threads -> CallSteps]
        /\ holds' \in [Threads -> Modes \cup {"none"}]
    BY <1>7 DEF FreesOther, NotifyAllLooks, cvars
  <2> QED
    BY <1>0, <2>1, <2>2
<1>8. ASSUME NEW t \in Threads, Inside(t) \/ TimesOut(t) PROVE TypeOK'
  <2>1. UNCHANGED <<lvars, pc>>
    BY <1>8 DEF Inside, TimesOut
  <2>2. at' \in [Threads -> CondSteps] /\ limited' \subseteq Threads
        /\ free' \in BOOLEAN /\ broadcast' \in BOOLEAN /\ done' \in BOOLEAN /\ expired' \in BOOLEAN
    BY <1>8 DEF Inside, TimesOut, WaitTimesOut, CallGoesOn, WaitReleases, WaitAcquires,
         LateReturns, WokenLeaves, LastSignals, Relocks, NotifyReleases, NotifyAllWaits,
         NotifyAllClears
  <2>3. sem' \in 0 .. SemMax
    BY <1>0, <1>8 DEF Inside, TimesOut, WaitTimesOut, CallGoesOn, WaitReleases, WaitAcquires,
         LateReturns, WokenLeaves, LastSignals, Relocks, NotifyReleases, NotifyAllWaits,
         NotifyAllClears, Release
  <2> QED
    BY <1>0, <2>1, <2>2, <2>3 DEF lvars
<1>9. CASE UNCHANGED vars
  BY <1>9 DEF vars, cvars, lvars
<1> QED
  BY <1>1, <1>2, <1>3, <1>4, <1>5, <1>6, <1>7, <1>8, <1>9 DEF Next

\* A call of the condition variable and the call of the lock around it go on together.
LEMMA CallsStep ==
  ASSUME IInv, [Next]_vars
  PROVE  CallsFit'
<1> USE DEF IInv, TypeOK, CallsFit, Steps, Goto, Asks, Gets, WaitSteps, NotifySteps
<1>1. ASSUME NEW t \in Threads, NEW mode \in Modes, NEW timed \in BOOLEAN, Call(t, mode, timed)
      PROVE  CallsFit'
  BY <1>1 DEF Call, cvars, Calls
<1>2. ASSUME NEW t \in Threads,
             \/ Locks(t) \/ TryLockFails(t) \/ Passes(t) \/ Unlocks(t)
             \/ CallUnlock(t) \/ LocksAgain(t) \/ NotifyOver(t)
      PROVE  CallsFit'
  BY <1>2 DEF Locks, TryLockFails, Passes, Unlocks, CallUnlock, LocksAgain, NotifyOver,
       cvars, lvars
<1>3. ASSUME NEW t \in Threads, Counts(t) \/ Waits(t) PROVE CallsFit'
  BY <1>3 DEF Counts, Waits, WaitCounts, cvars, lvars
<1>4. ASSUME NEW t \in Threads, WaitOver(t) PROVE CallsFit'
  BY <1>4 DEF WaitOver
<1>5. ASSUME NEW t \in Threads, FreesRead(t) \/ FreesOther(t) PROVE CallsFit'
  BY <1>5 DEF FreesRead, FreesOther, NotifyLooks, NotifyAllLooks, cvars
<1>6. ASSUME NEW t \in Threads, Inside(t) PROVE CallsFit'
  <2>1. InsideKinds(t) /\ UNCHANGED <<pc, want, holds>>
    BY <1>6, InsideIs DEF lvars
  <2>2. \A u \in Threads \ {t} : at'[u] = at[u]
    BY <2>1 DEF InsideKinds
  <2>3. at[t] \in WaitSteps <=> at'[t] \in WaitSteps
    BY <2>1 DEF InsideKinds
  <2>4. at'[t] \in NotifySteps => at[t] \in NotifySteps
    BY <2>1 DEF InsideKinds
  <2> HIDE DEF WaitSteps, NotifySteps
  <2> QED
    BY <2>1, <2>2, <2>3, <2>4
<1>7. ASSUME NEW t \in Threads, TimesOut(t) PROVE CallsFit'
  BY <1>7 DEF TimesOut, WaitTimesOut, lvars
<1>8. CASE UNCHANGED vars
  BY <1>8 DEF vars, cvars, lvars
<1> QED
  BY <1>1, <1>2, <1>3, <1>4, <1>5, <1>6, <1>7, <1>8 DEF Next

-----------------------------------------------------------------------------
(* Until a wait times out                                                  *)

\* How the ownership of the mutex moves: one thread gets it when it is free, one
\* that has it gives it up, or nothing changes.
LEMMA OwnersStep ==
  ASSUME MutexHasOneOwner, NEW t \in Threads,
         \A u \in Threads \ {t} : Owns(u)' <=> Owns(u),
         \/ (Owns(t)' <=> Owns(t)) /\ free' = free
         \/ free /\ free' = FALSE /\ Owns(t)'
         \/ free' = TRUE /\ Owns(t) /\ ~Owns(t)'
  PROVE  MutexHasOneOwner'
BY DEF MutexHasOneOwner

\* The mutex keeps having one owner.
LEMMA MutexStep ==
  ASSUME IInv, BeforeTimeout, [Next]_vars, ~expired'
  PROVE  NobodyIsLate' /\ MutexHasOneOwner'
<1> USE DEF IInv, TypeOK, BeforeTimeout, NobodyIsLate
<1>0. at \in [Threads -> CondSteps] /\ pc \in [Threads -> CallSteps]
  OBVIOUS
<1>1. ASSUME NEW t \in Threads,
             \/ \E mode \in Modes, timed \in BOOLEAN : Call(t, mode, timed)
             \/ Locks(t) \/ TryLockFails(t) \/ Passes(t) \/ Counts(t) \/ Unlocks(t)
             \/ CallUnlock(t) \/ LocksAgain(t) \/ NotifyOver(t)
      PROVE  NobodyIsLate' /\ MutexHasOneOwner'
  <2>1. at' = at
    BY <1>1 DEF Call, Locks, TryLockFails, Passes, Counts, Unlocks, CallUnlock, LocksAgain,
         NotifyOver, cvars
  <2>2. \A u \in Threads \ {t} : pc'[u] = pc[u]
    BY <1>1 DEF Call, Locks, TryLockFails, Passes, Counts, Unlocks, CallUnlock, LocksAgain,
         NotifyOver, Goto
  <2>3. \/ (Owns(t)' <=> Owns(t)) /\ free' = free
        \/ free /\ free' = FALSE /\ Owns(t)'
        \/ free' = TRUE /\ Owns(t) /\ ~Owns(t)'
    BY <1>1 DEF Call, Locks, TryLockFails, Passes, Counts, Unlocks, CallUnlock, LocksAgain,
         NotifyOver, Goto, Owns
  <2>4. \A u \in Threads \ {t} : Owns(u)' <=> Owns(u)
    BY <2>1, <2>2 DEF Owns
  <2>5. MutexHasOneOwner'
    BY <2>3, <2>4, OwnersStep
  <2>6. NobodyIsLate'
    BY <2>1
  <2> QED
    BY <2>5, <2>6
<1>2. ASSUME NEW t \in Threads, Waits(t) \/ WaitOver(t) \/ FreesRead(t) \/ FreesOther(t)
      PROVE  NobodyIsLate' /\ MutexHasOneOwner'
  <2>1. \A u \in Threads \ {t} : pc'[u] = pc[u] /\ at'[u] = at[u]
    BY <1>2 DEF Waits, WaitCounts, WaitOver, FreesRead, FreesOther, NotifyLooks,
         NotifyAllLooks, Goto, Steps, cvars
  <2>2. Owns(t) /\ Owns(t)' /\ free' = free /\ at'[t] \notin {"late", "timedOut"}
    BY <1>2 DEF Waits, WaitCounts, WaitOver, FreesRead, FreesOther, NotifyLooks,
         NotifyAllLooks, Goto, Steps, cvars, Owns
  <2>3. \A u \in Threads \ {t} : Owns(u)' <=> Owns(u)
    BY <2>1 DEF Owns
  <2>4. MutexHasOneOwner'
    BY <2>2, <2>3, OwnersStep
  <2>5. NobodyIsLate'
    BY <2>1, <2>2
  <2> QED
    BY <2>4, <2>5
<1>3. ASSUME NEW t \in Threads, Inside(t)
      PROVE  NobodyIsLate' /\ MutexHasOneOwner'
  <2>1. InsideKinds(t) /\ pc' = pc
    BY <1>3, InsideIs
  <2>2. \A u \in Threads \ {t} : at'[u] = at[u]
    BY <2>1 DEF InsideKinds, Steps
  <2>3. at'[t] \notin {"late", "timedOut"}
    BY <2>1 DEF InsideKinds, Steps
  <2>4. \/ (Owns(t)' <=> Owns(t)) /\ free' = free
        \/ free /\ free' = FALSE /\ Owns(t)'
        \/ free' = TRUE /\ Owns(t) /\ ~Owns(t)'
    BY <2>1 DEF InsideKinds, Steps, Owns, CallsFit, WaitSteps, NotifySteps
  <2>5. \A u \in Threads \ {t} : Owns(u)' <=> Owns(u)
    BY <2>1, <2>2 DEF Owns
  <2>6. MutexHasOneOwner'
    BY <2>4, <2>5, OwnersStep
  <2>7. NobodyIsLate'
    BY <2>2, <2>3
  <2> QED
    BY <2>6, <2>7
<1>4. ASSUME NEW t \in Threads, TimesOut(t)
      PROVE  FALSE
  BY <1>4 DEF TimesOut, WaitTimesOut
<1>5. CASE UNCHANGED vars
  BY <1>5 DEF vars, cvars, lvars, MutexHasOneOwner, Owns
<1> QED
  BY <1>1, <1>2, <1>3, <1>4, <1>5 DEF Next

\* The step of a thread that has the mutex, and counts: nobody else is counting.
LEMMA OwnerCounts ==
  ASSUME IInv, BeforeTimeout, NEW t \in Threads, pc[t] \in {"counting", "freeing"}
  PROVE  \A u \in Threads \ {t} : pc[u] \notin {"testing", "counting", "freeing"}
BY DEF BeforeTimeout, MutexHasOneOwner, Owns

\* Steps that leave the counters, the holders and what they ask for alone
LEMMA HoldersUnchanged ==
  ASSUME BeforeTimeout, UNCHANGED <<readersReading, writerWriting, holds>>
  PROVE  HoldersAreCounted' /\ Exclusion'
BY DEF BeforeTimeout, HoldersAreCounted, Holding, Exclusion

\* Nobody holds the lock when its counters are zero.
LEMMA ZeroMeansNobody ==
  ASSUME HoldersAreCounted
  PROVE  /\ readersReading = 0 <=> Holding("read") = {}
         /\ writerWriting = 0 <=> Holding("write") = {}
         /\ readersReading \in Nat /\ writerWriting \in Nat
BY FS_EmptySet, FS_CardinalityType DEF HoldersAreCounted

\* Counting in, after a look that found the lock free
LEMMA CountsStep ==
  ASSUME IInv, BeforeTimeout, NEW t \in Threads, Counts(t)
  PROVE  HoldersAreCounted' /\ Exclusion'
<1>0. holds \in [Threads -> Modes \cup {"none"}]
  BY DEF IInv, TypeOK
<1>1. /\ pc[t] = "counting" /\ want[t] \in Calls /\ holds[t] = "none" /\ ~Blocked(t)
      /\ holds' = [holds EXCEPT ![t] = want[t].mode]
  BY DEF Counts, IInv, CallsFit, BeforeTimeout, LockIsStillFree, Gets
<1>2. HoldersAreCounted /\ writerWriting = 0 /\ Holding("write") = {}
  BY <1>1, ZeroMeansNobody DEF Blocked, BeforeTimeout
<1>3. CASE want[t].mode = "read"
  <2>1. Holding("read")' = Holding("read") \cup {t} /\ Holding("write")' = Holding("write")
    BY <1>0, <1>1, <1>3 DEF Holding
  <2>2. t \notin Holding("read")
    BY <1>1 DEF Holding
  <2>3. readersReading' = readersReading + 1 /\ writerWriting' = writerWriting
    BY <1>3 DEF Counts
  <2>4. HoldersAreCounted'
    BY <1>2, <2>1, <2>2, <2>3, OneMore DEF HoldersAreCounted
  <2> QED
    BY <1>2, <2>1, <2>4 DEF Exclusion, Holding
<1>4. CASE want[t].mode = "write"
  <2>1. readersReading = 0 /\ Holding("read") = {}
    BY <1>1, <1>2, <1>4, ZeroMeansNobody DEF Blocked
  <2>2. Holding("write")' = Holding("write") \cup {t} /\ Holding("read")' = Holding("read")
    BY <1>0, <1>1, <1>4 DEF Holding
  <2>3. t \notin Holding("write")
    BY <1>2
  <2>4. readersReading' = readersReading /\ writerWriting' = writerWriting + 1
    BY <1>4 DEF Counts
  <2>5. HoldersAreCounted'
    BY <1>2, <2>2, <2>3, <2>4, OneMore DEF HoldersAreCounted
  <2>6. \A u \in Threads : u # t => holds[u] = "none"
    BY <1>0, <1>2, <2>1 DEF Holding, Modes
  <2> QED
    BY <1>0, <1>1, <2>5, <2>6 DEF Exclusion
<1> QED
  BY <1>1, <1>3, <1>4 DEF Calls, Modes

\* Counting out: the counters tell which of the two locks the caller has.
LEMMA FreesStep ==
  ASSUME IInv, BeforeTimeout, NEW t \in Threads, FreesRead(t) \/ FreesOther(t)
  PROVE  HoldersAreCounted' /\ Exclusion'
<1>0. /\ holds \in [Threads -> Modes \cup {"none"}] /\ holds[t] # "none"
      /\ HoldersAreCounted /\ Exclusion
  BY DEF IInv, TypeOK, CallsFit, FreesRead, FreesOther, BeforeTimeout
<1>1. holds' = [holds EXCEPT ![t] = "none"]
  BY DEF FreesRead, FreesOther, Gets
<1>2. Exclusion'
  BY <1>0, <1>1 DEF Exclusion
<1>3. CASE FreesRead(t)
  <2>1. Holding("read") # {} /\ readersReading' = readersReading - 1 /\ UNCHANGED writerWriting
    BY <1>0, <1>3, ZeroMeansNobody DEF FreesRead
  <2>2. holds[t] = "read"
    BY <1>0, <2>1 DEF Exclusion, Holding, Modes
  <2>3. /\ t \in Holding("read") /\ Holding("read")' = Holding("read") \ {t}
        /\ Holding("write")' = Holding("write")
    BY <1>0, <1>1, <2>2 DEF Holding
  <2> QED
    BY <1>0, <1>2, <2>1, <2>3, OneLess DEF HoldersAreCounted
<1>4. CASE FreesOther(t)
  <2>1. Holding("read") = {} /\ writerWriting' = 0 /\ UNCHANGED readersReading
    BY <1>0, <1>4, ZeroMeansNobody DEF FreesOther
  <2>2. holds[t] = "write"
    BY <1>0, <2>1 DEF Holding, Modes
  <2>3. Holding("write")' = {} /\ Holding("read")' = Holding("read")
    BY <1>0, <1>1, <2>2 DEF Holding, Exclusion
  <2> QED
    BY <1>0, <1>2, <2>1, <2>3, FS_EmptySet DEF HoldersAreCounted
<1> QED
  BY <1>3, <1>4

\* Who holds the lock, and what a thread about to hold it saw, stays true.
LEMMA LockStep ==
  ASSUME IInv, BeforeTimeout, [Next]_vars, ~expired'
  PROVE  HoldersAreCounted' /\ Exclusion' /\ LockIsStillFree'
<1>0. /\ pc \in [Threads -> CallSteps] /\ want \in [Threads -> Calls \cup {NoLock}]
      /\ LockIsStillFree
  BY DEF IInv, TypeOK, BeforeTimeout
<1>1. ASSUME NEW t \in Threads, Counts(t) \/ FreesRead(t) \/ FreesOther(t)
      PROVE  HoldersAreCounted' /\ Exclusion' /\ LockIsStillFree'
  <2>1. \A u \in Threads : pc'[u] # "counting"
    <3>1. pc[t] \in {"counting", "freeing"} /\ \E x \in {"unlocking", "notifying"} :
            pc' = [pc EXCEPT ![t] = x]
      BY <1>1 DEF Counts, FreesRead, FreesOther, Goto
    <3> QED
      BY <1>0, <3>1, OwnerCounts
  <2> QED
    BY <1>1, <2>1, CountsStep, FreesStep DEF LockIsStillFree
<1>2. ASSUME NEW t \in Threads,
             \/ \E mode \in Modes, timed \in BOOLEAN : Call(t, mode, timed)
             \/ Locks(t) \/ TryLockFails(t) \/ Waits(t) \/ Unlocks(t) \/ WaitOver(t)
             \/ CallUnlock(t) \/ LocksAgain(t) \/ NotifyOver(t)
      PROVE  HoldersAreCounted' /\ Exclusion' /\ LockIsStillFree'
  <2>1. UNCHANGED <<readersReading, writerWriting, holds>>
    BY <1>2 DEF Call, Locks, TryLockFails, Waits, Unlocks, WaitOver, CallUnlock, LocksAgain,
         NotifyOver, lvars
  <2>2. /\ \A u \in Threads \ {t} : pc'[u] = pc[u] /\ want'[u] = want[u]
        /\ pc'[t] # "counting"
    BY <1>0, <1>2 DEF Call, Locks, TryLockFails, Waits, Unlocks, WaitOver, CallUnlock,
         LocksAgain, NotifyOver, lvars, Goto, Asks
  <2> QED
    BY <1>0, <2>1, <2>2, HoldersUnchanged DEF LockIsStillFree, Blocked
<1>3. ASSUME NEW t \in Threads, Passes(t)
      PROVE  HoldersAreCounted' /\ Exclusion' /\ LockIsStillFree'
  <2>1. /\ UNCHANGED <<readersReading, writerWriting, holds, want>> /\ ~Blocked(t)
        /\ \A u \in Threads \ {t} : pc'[u] = pc[u]
    BY <1>0, <1>3 DEF Passes, lvars, Goto
  <2> QED
    BY <1>0, <2>1, HoldersUnchanged DEF LockIsStillFree, Blocked
<1>4. ASSUME NEW t \in Threads, Inside(t) \/ TimesOut(t)
      PROVE  HoldersAreCounted' /\ Exclusion' /\ LockIsStillFree'
  BY <1>0, <1>4, HoldersUnchanged DEF Inside, TimesOut, lvars, LockIsStillFree, Blocked
<1>5. CASE UNCHANGED vars
  BY <1>0, <1>5, HoldersUnchanged DEF vars, lvars, LockIsStillFree, Blocked
<1> QED
  BY <1>1, <1>2, <1>3, <1>4, <1>5 DEF Next

-----------------------------------------------------------------------------
(* Wake-ups                                                                *)

\* _broadcast is set while a notifyAll() is under way.
BroadcastFits == broadcast <=> \E t \in Threads : at[t] \in {"awaiting", "clearing"}

\* Once a notifyAll() is let go, or is about to be, no waiter is left; and it is
\* let go once.
Ended == done \/ \E t \in Threads : at[t] = "last"
EndsOnce ==
  /\ Ended => Counted = {} /\ \E t \in Threads : at[t] = "awaiting"
  /\ (\E t \in Threads : at[t] = "clearing") => Counted = {}
  /\ \A t, u \in Threads : at[t] = "last" /\ at[u] = "last" => t = u
  /\ \A t \in Threads : at[t] = "last" => ~done

\* The threads that wait, or are about to, for a lock
Awaiting(mode) == {t \in Threads : at[t] \in {"counted", "waiting"} /\ want[t].mode = mode}

\* A reader waits only for a writer, or until the notifyAll() of one is over.
ReadersWaitForWriters ==
  Awaiting("read") # {} => writerWriting > 0 \/ \E t \in Threads : at[t] = "awaiting"

\* A writer waits for somebody who has the lock, or is about to look at it or to
\* wake somebody who will, or there is a wake-up.
IsComing(t) == \/ at[t] \in {"woken", "last", "relocking", "signalled", "notifying", "awaiting"}
               \/ pc[t] \in {"testing", "counting"}
SomethingGoesOn ==
  writerWriting > 0 \/ readersReading > 0 \/ sem > 0 \/ \E t \in Threads : IsComing(t)
WritersWaitForSomebody == Awaiting("write") # {} => SomethingGoesOn

WInv == BroadcastFits /\ EndsOnce /\ ReadersWaitForWriters /\ WritersWaitForSomebody

\* The owner of the mutex is alone in the calls that need it.
LEMMA Alone ==
  ASSUME IInv, BeforeTimeout, NEW t \in Threads, Owns(t)
  PROVE  /\ ~free
         /\ \A u \in Threads \ {t} :
              /\ at[u] \notin NotifySteps \cup {"counted", "signalled"}
              /\ pc[u] \notin {"testing", "counting", "freeing", "notifying"}
BY DEF IInv, BeforeTimeout, CallsFit, MutexHasOneOwner, Owns, WaitSteps

\* Nobody is in them while the mutex is free.
LEMMA NobodyIn ==
  ASSUME IInv, BeforeTimeout, free
  PROVE  \A u \in Threads :
           /\ at[u] \notin NotifySteps \cup {"counted", "signalled"}
           /\ pc[u] \notin {"testing", "counting", "freeing", "notifying"}
BY DEF IInv, BeforeTimeout, CallsFit, MutexHasOneOwner, Owns, WaitSteps

\* Where a thread is as it takes part in a call
LEMMA PartsOfCalls ==
  ASSUME IInv, NEW t \in Threads
  PROVE  /\ pc[t] # "waiting" => at[t] \notin WaitSteps
         /\ pc[t] # "notifying" => at[t] \notin NotifySteps
         /\ at[t] \in WaitSteps => pc[t] = "waiting"
         /\ at[t] \in NotifySteps \cup {"counted", "signalled"} => Owns(t)
BY DEF IInv, CallsFit, Owns, WaitSteps, NotifySteps

\* The one waiter that is counted
LEMMA OneWaiter ==
  ASSUME IInv, NEW t \in Counted, waitersCount = 1
  PROVE  Counted = {t}
<1> DEFINE S == Counted
<1>0. IsFiniteSet(S) /\ Cardinality(S) = 1 /\ t \in S
  BY DEF IInv, WaitersAreCounted
<1> HIDE DEF S
<1>1. IsFiniteSet(S \ {t}) /\ Cardinality(S \ {t}) = 1 - 1
  BY <1>0, OneLess
<1>2. IsFiniteSet(Counted \ {t}) /\ Cardinality(Counted \ {t}) = 0
  BY <1>1 DEF S
<1>3. Counted \ {t} = {}
  BY <1>2, FS_EmptySet
<1> QED
  BY <1>3

\* Nobody is counted when the count is zero.
LEMMA NoWaiters == ASSUME IInv, waitersCount = 0 PROVE Counted = {}
BY FS_EmptySet DEF IInv, WaitersAreCounted

\* What is done within notifyAll(), and to those it wakes
LEMMA BroadcastStep ==
  ASSUME IInv, BeforeTimeout, BroadcastFits, EndsOnce, [Next]_vars, ~expired'
  PROVE  BroadcastFits' /\ EndsOnce'
<1>0. at \in [Threads -> CondSteps] /\ NobodyIsLate
  BY DEF IInv, TypeOK, BeforeTimeout
<1> USE DEF BroadcastFits, EndsOnce, Ended, Steps
<1>1. CASE UNCHANGED <<at, broadcast, done>>
  BY <1>1 DEF Counted
<1>2. ASSUME NEW t \in Threads, Waits(t) PROVE BroadcastFits' /\ EndsOnce'
  <2>1. at' = [at EXCEPT ![t] = "counted"] /\ UNCHANGED <<broadcast, done>> /\ at[t] = "out"
    BY <1>2 DEF Waits, WaitCounts
  <2>2. \A u \in Threads : at[u] \notin {"awaiting", "clearing"}
    BY <1>2, <2>1, Alone DEF Waits, Owns, NotifySteps
  <2> QED
    BY <1>0, <2>1, <2>2
<1>3. ASSUME NEW t \in Threads, NotifyLooks(t) \/ NotifyReleases(t) \/ Relocks(t)
                                \/ WaitReleases(t) \/ WaitOver(t)
      PROVE  BroadcastFits' /\ EndsOnce'
  <2>1. /\ UNCHANGED <<broadcast, done>>
        /\ \/ at' = at
           \/ \E x \in {"out", "notifying", "signalled", "waiting"} :
                /\ at' = [at EXCEPT ![t] = x]
                /\ at[t] \notin {"awaiting", "clearing", "last"}
                /\ t \in Counted <=> x = "waiting"
    BY <1>3 DEF NotifyLooks, NotifyReleases, Relocks, WaitReleases, WaitOver, Counted
  <2>2. Counted' = Counted
    BY <1>0, <2>1 DEF Counted
  <2> QED
    BY <1>0, <2>1, <2>2
<1>4. ASSUME NEW t \in Threads, WaitAcquires(t) PROVE BroadcastFits' /\ EndsOnce'
  <2>1. at' = [at EXCEPT ![t] = "woken"] /\ UNCHANGED <<broadcast, done>> /\ at[t] = "waiting"
    BY <1>4 DEF WaitAcquires
  <2>2. Counted' = Counted
    BY <1>0, <2>1 DEF Counted
  <2> QED
    BY <1>0, <2>1, <2>2
<1>5. ASSUME NEW t \in Threads, WokenLeaves(t) PROVE BroadcastFits' /\ EndsOnce'
  <2>1. /\ at[t] = "woken" /\ t \in Counted /\ UNCHANGED <<broadcast, done>>
        /\ at' = [at EXCEPT ![t] = IF broadcast /\ waitersCount = 1 THEN "last" ELSE "relocking"]
    BY <1>5 DEF WokenLeaves, Counted
  <2>2. Counted' = Counted \ {t} /\ ~Ended /\ \A u \in Threads : at[u] # "clearing"
    BY <1>0, <2>1 DEF Counted
  <2>3. CASE broadcast /\ waitersCount = 1
    <3>1. Counted' = {} /\ \E u \in Threads : at[u] = "awaiting"
      BY <2>1, <2>2, <2>3, OneWaiter
    <3> QED
      BY <1>0, <2>1, <2>2, <2>3, <3>1
  <2>4. CASE ~(broadcast /\ waitersCount = 1)
    BY <1>0, <2>1, <2>2, <2>4
  <2> QED
    BY <2>3, <2>4
<1>6. ASSUME NEW t \in Threads, LastSignals(t) PROVE BroadcastFits' /\ EndsOnce'
  <2>1. /\ at[t] = "last" /\ at' = [at EXCEPT ![t] = "relocking"]
        /\ broadcast' = broadcast /\ done' = TRUE
    BY <1>6 DEF LastSignals
  <2>2. Counted' = Counted
    BY <1>0, <2>1 DEF Counted
  <2> QED
    BY <1>0, <2>1, <2>2
<1>7. ASSUME NEW t \in Threads, NotifyAllLooks(t), pc[t] = "freeing" PROVE BroadcastFits' /\ EndsOnce'
  <2>1. at[t] = "out" /\ \A u \in Threads : at[u] \notin {"awaiting", "clearing"}
    BY <1>7, Alone DEF Owns, NotifyAllLooks, NotifySteps
  <2>2. CASE UNCHANGED <<at, broadcast>>
    BY <1>1, <1>7, <2>2 DEF NotifyAllLooks
  <2>3. CASE at' = [at EXCEPT ![t] = "awaiting"] /\ broadcast'
    BY <1>0, <1>7, <2>1, <2>3 DEF NotifyAllLooks
  <2> QED
    BY <1>7, <2>2, <2>3 DEF NotifyAllLooks
<1>8. ASSUME NEW t \in Threads, NotifyAllWaits(t) PROVE BroadcastFits' /\ EndsOnce'
  <2>1. /\ at[t] = "awaiting" /\ at' = [at EXCEPT ![t] = "clearing"] /\ done /\ done' = FALSE
        /\ broadcast' = broadcast
    BY <1>8 DEF NotifyAllWaits
  <2>2. Counted = {} /\ Counted' = Counted
    BY <1>0, <2>1 DEF Counted
  <2> QED
    BY <1>0, <2>1, <2>2
<1>9. ASSUME NEW t \in Threads, NotifyAllClears(t) PROVE BroadcastFits' /\ EndsOnce'
  <2>1. /\ at[t] = "clearing" /\ at' = [at EXCEPT ![t] = "out"] /\ done' = done
        /\ broadcast' = FALSE
    BY <1>9 DEF NotifyAllClears
  <2>2. \A u \in Threads \ {t} : at[u] \notin {"awaiting", "clearing"}
    BY <2>1, Alone, PartsOfCalls DEF NotifySteps
  <2>3. Counted' = Counted
    BY <1>0, <2>1 DEF Counted
  <2> QED
    BY <1>0, <2>1, <2>2, <2>3
<1>10. ASSUME NEW t \in Threads, Inside(t) PROVE BroadcastFits' /\ EndsOnce'
  <2>1. ~LateReturns(t)
    BY <1>0 DEF NobodyIsLate, LateReturns
  <2> QED
    BY <1>3, <1>4, <1>5, <1>6, <1>8, <1>9, <1>10, <2>1 DEF Inside, CallGoesOn
<1>11. ASSUME NEW t \in Threads, FreesRead(t) \/ FreesOther(t) PROVE BroadcastFits' /\ EndsOnce'
  BY <1>1, <1>3, <1>7, <1>11 DEF FreesRead, FreesOther, cvars
<1>12. ASSUME NEW t \in Threads,
             \/ \E mode \in Modes, timed \in BOOLEAN : Call(t, mode, timed)
             \/ Locks(t) \/ TryLockFails(t) \/ Passes(t) \/ Counts(t) \/ Unlocks(t)
             \/ CallUnlock(t) \/ LocksAgain(t) \/ NotifyOver(t)
       PROVE  BroadcastFits' /\ EndsOnce'
  <2>1. UNCHANGED <<at, broadcast, done>>
    BY <1>12 DEF Call, Locks, TryLockFails, Passes, Counts, Unlocks, CallUnlock, LocksAgain,
         NotifyOver, cvars
  <2> QED
    BY <1>1, <2>1
<1>13. ASSUME NEW t \in Threads, TimesOut(t) PROVE FALSE
  BY <1>13 DEF TimesOut, WaitTimesOut
<1>14. CASE UNCHANGED vars
  BY <1>1, <1>14 DEF vars, cvars
<1> QED
  BY <1>2, <1>3, <1>10, <1>11, <1>12, <1>13, <1>14 DEF Next

\* Nobody begins to wait, except in Waits.
LEMMA AwaitingOnly ==
  ASSUME IInv, [Next]_vars, \A t \in Threads : ~Waits(t)
  PROVE  /\ Awaiting("read")' \subseteq Awaiting("read")
         /\ Awaiting("write")' \subseteq Awaiting("write")
<1>0. /\ at \in [Threads -> CondSteps] /\ want \in [Threads -> Calls \cup {NoLock}]
      /\ CallsFit
  BY DEF IInv, TypeOK
<1>1. CASE UNCHANGED <<at, want>>
  BY <1>1 DEF Awaiting
<1>2. ASSUME NEW t \in Threads, \A u \in Threads \ {t} : at'[u] = at[u] /\ want'[u] = want[u],
             \/ at'[t] \notin {"counted", "waiting"}
             \/ at[t] \in {"counted", "waiting"} /\ want'[t] = want[t]
      PROVE  /\ Awaiting("read")' \subseteq Awaiting("read")
             /\ Awaiting("write")' \subseteq Awaiting("write")
  BY <1>2 DEF Awaiting
<1>3. ASSUME NEW t \in Threads,
             \/ \E mode \in Modes, timed \in BOOLEAN : Call(t, mode, timed)
             \/ TryLockFails(t) \/ Counts(t)
      PROVE  /\ at'[t] \notin {"counted", "waiting"}
             /\ \A u \in Threads \ {t} : at'[u] = at[u] /\ want'[u] = want[u]
  BY <1>0, <1>3 DEF Call, TryLockFails, Counts, cvars, Asks, CallsFit, WaitSteps
<1>4. ASSUME NEW t \in Threads, WaitOver(t) \/ TimesOut(t) \/ FreesRead(t) \/ FreesOther(t)
      PROVE  \/ UNCHANGED <<at, want>>
             \/ /\ at'[t] \notin {"counted", "waiting"}
                /\ \A u \in Threads \ {t} : at'[u] = at[u] /\ want'[u] = want[u]
  BY <1>0, <1>4 DEF WaitOver, TimesOut, WaitTimesOut, FreesRead, FreesOther, NotifyLooks,
       NotifyAllLooks, Steps, Asks, cvars, lvars
<1>5. ASSUME NEW t \in Threads, Inside(t)
      PROVE  /\ \A u \in Threads \ {t} : at'[u] = at[u] /\ want'[u] = want[u]
             /\ \/ at'[t] \notin {"counted", "waiting"}
                \/ at[t] \in {"counted", "waiting"} /\ want'[t] = want[t]
  <2>1. InsideKinds(t) /\ want' = want
    BY <1>5, InsideIs DEF lvars
  <2> QED
    BY <1>0, <2>1 DEF InsideKinds, Steps
<1>6. ASSUME NEW t \in Threads,
             \/ Locks(t) \/ Passes(t) \/ Unlocks(t) \/ CallUnlock(t) \/ LocksAgain(t)
             \/ NotifyOver(t)
      PROVE  UNCHANGED <<at, want>>
  BY <1>6 DEF Locks, Passes, Unlocks, CallUnlock, LocksAgain, NotifyOver, cvars, lvars
<1>7. CASE UNCHANGED vars
  BY <1>1, <1>7 DEF vars, cvars, lvars
<1> QED
  BY <1>1, <1>2, <1>3, <1>4, <1>5, <1>6, <1>7 DEF Next

\* The lock that unlock() frees is the caller's.
LEMMA FreesWhatItHas ==
  ASSUME IInv, BeforeTimeout, NEW t \in Threads, FreesOther(t)
  PROVE  writerWriting > 0 /\ readersReading = 0
<1>1. /\ holds \in [Threads -> Modes \cup {"none"}] /\ holds[t] # "none"
      /\ HoldersAreCounted /\ readersReading = 0
  BY DEF IInv, TypeOK, CallsFit, FreesOther, BeforeTimeout
<1>2. holds[t] = "write"
  BY <1>1, ZeroMeansNobody DEF Holding, Modes
<1> QED
  BY <1>1, <1>2, ZeroMeansNobody DEF Holding

\* Whoever waits is counted.
LEMMA AwaitedAreCounted ==
  ASSUME IInv, waitersCount = 0 \/ Counted = {}
  PROVE  Awaiting("read") = {} /\ Awaiting("write") = {}
BY NoWaiters DEF Awaiting, Counted

\* Each reader that waits is waiting for a writer, or the notifyAll() of one.
LEMMA ReadersStep ==
  ASSUME IInv, BeforeTimeout, EndsOnce, ReadersWaitForWriters, [Next]_vars
  PROVE  ReadersWaitForWriters'
<1>0. /\ at \in [Threads -> CondSteps] /\ want \in [Threads -> Calls \cup {NoLock}]
      /\ writerWriting \in Nat
  BY DEF IInv, TypeOK
<1>1. ASSUME NEW t \in Threads, Waits(t) PROVE ReadersWaitForWriters'
  <2>1. /\ pc[t] = "testing" /\ Blocked(t) /\ UNCHANGED <<writerWriting, want>> /\ at[t] = "out"
        /\ at' = [at EXCEPT ![t] = "counted"]
    BY <1>1 DEF Waits, WaitCounts, Steps, lvars
  <2>2. \A u \in Threads : at[u] # "awaiting"
    BY <2>1, Alone DEF Owns, NotifySteps
  <2>3. CASE writerWriting > 0
    BY <2>1, <2>3 DEF ReadersWaitForWriters
  <2>4. CASE want[t].mode = "write"
    <3>1. Awaiting("read")' \subseteq Awaiting("read")
      BY <1>0, <2>1, <2>4 DEF Awaiting
    <3> QED
      BY <2>1, <2>2, <3>1 DEF ReadersWaitForWriters
  <2> QED
    BY <2>1, <2>3, <2>4 DEF Blocked
<1>2. ASSUME NEW t \in Threads, FreesOther(t) PROVE ReadersWaitForWriters'
  <2>1. NotifyAllLooks(t) /\ ~Waits(t) /\ \A u \in Threads : ~Waits(u)
    BY <1>2, FreesWhatItHas, Alone DEF FreesOther, Waits, Owns
  <2>2. Awaiting("read")' \subseteq Awaiting("read")
    BY <2>1, AwaitingOnly
  <2>3. CASE waitersCount = 0
    BY <2>2, <2>3, AwaitedAreCounted DEF ReadersWaitForWriters
  <2>4. CASE waitersCount > 0
    BY <1>0, <2>1, <2>4 DEF NotifyAllLooks, Steps, ReadersWaitForWriters
  <2> QED
    BY <2>1, <2>3, <2>4 DEF NotifyAllLooks
<1>3. ASSUME NEW t \in Threads, NotifyAllWaits(t), \A u \in Threads : ~Waits(u)
      PROVE  ReadersWaitForWriters'
  BY <1>3, AwaitingOnly, AwaitedAreCounted DEF NotifyAllWaits, EndsOnce, Ended,
     ReadersWaitForWriters
<1>4. CASE /\ \A u \in Threads : ~Waits(u)
           /\ writerWriting > 0 => writerWriting' > 0
           /\ \A u \in Threads : at[u] = "awaiting" => at'[u] = "awaiting"
  BY <1>4, AwaitingOnly DEF ReadersWaitForWriters
<1>5. ASSUME NEW t \in Threads, Inside(t), ~NotifyAllWaits(t)
      PROVE  /\ writerWriting > 0 => writerWriting' > 0
             /\ \A u \in Threads : at[u] = "awaiting" => at'[u] = "awaiting"
  BY <1>0, <1>5 DEF Inside, CallGoesOn, WaitReleases, WaitAcquires, LateReturns, WokenLeaves,
     LastSignals, Relocks, NotifyReleases, NotifyAllClears, Steps, lvars
<1>6. ASSUME NEW t \in Threads,
             \/ \E mode \in Modes, timed \in BOOLEAN : Call(t, mode, timed)
             \/ Locks(t) \/ TryLockFails(t) \/ Passes(t) \/ Counts(t) \/ Unlocks(t)
             \/ CallUnlock(t) \/ LocksAgain(t) \/ NotifyOver(t) \/ FreesRead(t)
             \/ WaitOver(t) \/ TimesOut(t)
      PROVE  /\ writerWriting > 0 => writerWriting' > 0
             /\ \A u \in Threads : at[u] = "awaiting" => at'[u] = "awaiting"
  <2>1. writerWriting' = writerWriting \/ writerWriting' = writerWriting + 1
    BY <1>6 DEF Call, Locks, TryLockFails, Passes, Counts, Unlocks, CallUnlock, LocksAgain,
         NotifyOver, FreesRead, WaitOver, TimesOut, lvars
  <2>2. \/ at' = at
        \/ at[t] # "awaiting" /\ \A u \in Threads \ {t} : at'[u] = at[u]
    <3>1. CASE FreesRead(t) \/ WaitOver(t) \/ TimesOut(t)
      BY <1>0, <3>1 DEF FreesRead, NotifyLooks, WaitOver, TimesOut, WaitTimesOut, Steps, cvars
    <3> QED
      BY <1>6, <3>1 DEF Call, Locks, TryLockFails, Passes, Counts, Unlocks, CallUnlock,
         LocksAgain, NotifyOver, cvars
  <2> QED
    BY <1>0, <2>1, <2>2
<1>7. CASE UNCHANGED vars
  BY <1>7 DEF vars, cvars, lvars, ReadersWaitForWriters, Awaiting
<1> QED
  BY <1>1, <1>2, <1>3, <1>4, <1>5, <1>6, <1>7 DEF Next

\* Each writer that waits is waiting for something that goes on.
LEMMA WritersStep ==
  ASSUME IInv, BeforeTimeout, EndsOnce, WritersWaitForSomebody, [Next]_vars, ~expired'
  PROVE  WritersWaitForSomebody'
<1>0. /\ at \in [Threads -> CondSteps] /\ pc \in [Threads -> CallSteps]
      /\ writerWriting \in Nat /\ readersReading \in Nat /\ sem \in 0 .. SemMax
      /\ SemMax \in Nat \ {0} /\ CallsFit /\ NobodyIsLate /\ waitersCount \in Nat
  BY LockAssumption DEF IInv, TypeOK, BeforeTimeout, LockAssumption
<1>1. ASSUME NEW t \in Threads, pc'[t] \in {"testing", "counting"}
      PROVE  WritersWaitForSomebody'
  BY <1>1 DEF WritersWaitForSomebody, SomethingGoesOn, IsComing
<1>2. ASSUME NEW t \in Threads,
             at'[t] \in {"woken", "last", "relocking", "signalled", "notifying", "awaiting"}
      PROVE  WritersWaitForSomebody'
  BY <1>2 DEF WritersWaitForSomebody, SomethingGoesOn, IsComing
<1>3. CASE writerWriting' > 0 \/ readersReading' > 0 \/ sem' > 0
  BY <1>3 DEF WritersWaitForSomebody, SomethingGoesOn
<1>4. CASE Awaiting("write") = {} /\ \A t \in Threads : ~Waits(t)
  BY <1>4, AwaitingOnly DEF WritersWaitForSomebody
<1>5. ASSUME NEW t \in Threads, UNCHANGED <<readersReading, writerWriting, sem>>,
             \A u \in Threads \ {t} : pc'[u] = pc[u] /\ at'[u] = at[u],
             ~IsComing(t), \A u \in Threads : ~Waits(u)
      PROVE  WritersWaitForSomebody'
  <2>1. SomethingGoesOn => SomethingGoesOn'
    BY <1>5 DEF SomethingGoesOn, IsComing
  <2> QED
    BY <1>5, <2>1, AwaitingOnly DEF WritersWaitForSomebody
<1>6. ASSUME NEW t \in Threads, Waits(t) PROVE WritersWaitForSomebody'
  BY <1>0, <1>3, <1>6 DEF Waits, Blocked, lvars
<1>7. ASSUME NEW t \in Threads, Counts(t) PROVE WritersWaitForSomebody'
  <2>1. \/ readersReading' = readersReading + 1 \/ writerWriting' = writerWriting + 1
    BY <1>7 DEF Counts
  <2> QED
    BY <1>0, <1>3, <2>1
<1>8. ASSUME NEW t \in Threads, Locks(t) \/ Passes(t) \/ WaitOver(t) PROVE WritersWaitForSomebody'
  <2>1. pc'[t] \in {"testing", "counting"}
    BY <1>0, <1>8 DEF Locks, Passes, WaitOver, Goto, NobodyIsLate
  <2> QED
    BY <1>1, <2>1
<1>9. ASSUME NEW t \in Threads, FreesRead(t), \A u \in Threads : ~Waits(u)
      PROVE  WritersWaitForSomebody'
  <2>1. CASE readersReading > 1
    BY <1>0, <1>3, <1>9, <2>1 DEF FreesRead
  <2>2. CASE NotifyLooks(t) /\ waitersCount > 0
    <3>1. at'[t] = "notifying"
      BY <1>0, <2>2 DEF NotifyLooks, Steps
    <3> QED
      BY <1>2, <3>1
  <2>3. CASE waitersCount = 0
    BY <1>4, <1>9, <2>3, AwaitedAreCounted
  <2> QED
    BY <1>0, <1>9, <2>1, <2>2, <2>3 DEF FreesRead
<1>10. ASSUME NEW t \in Threads, FreesOther(t), \A u \in Threads : ~Waits(u)
       PROVE  WritersWaitForSomebody'
  <2>1. NotifyAllLooks(t)
    BY <1>10, FreesWhatItHas DEF FreesOther
  <2>2. CASE waitersCount > 0
    <3>1. at'[t] = "awaiting"
      BY <1>0, <2>1, <2>2 DEF NotifyAllLooks, Steps
    <3> QED
      BY <1>2, <3>1
  <2>3. CASE waitersCount = 0
    BY <1>4, <1>10, <2>3, AwaitedAreCounted
  <2> QED
    BY <1>0, <2>2, <2>3
<1>11. ASSUME NEW t \in Threads, Inside(t), \A u \in Threads : ~Waits(u)
       PROVE  WritersWaitForSomebody'
  <2>0. UNCHANGED <<readersReading, writerWriting, pc>>
    BY <1>11 DEF Inside, lvars
  <2>1. CASE WaitAcquires(t) \/ WokenLeaves(t) \/ LastSignals(t) \/ Relocks(t)
    <3>1. at'[t] \in {"woken", "last", "relocking", "signalled"}
      BY <1>0, <2>1 DEF WaitAcquires, WokenLeaves, LastSignals, Relocks, Steps
    <3> QED
      BY <1>2, <3>1
  <2>2. CASE NotifyReleases(t)
    <3>1. sem' > 0
      BY <1>0, <2>2 DEF NotifyReleases, Release
    <3> QED
      BY <1>3, <3>1
  <2>3. CASE NotifyAllWaits(t)
    BY <1>4, <1>11, <2>3, AwaitedAreCounted DEF NotifyAllWaits, EndsOnce, Ended
  <2>4. CASE WaitReleases(t) \/ NotifyAllClears(t)
    <3>1. /\ at[t] \in {"counted", "clearing"} /\ UNCHANGED sem
          /\ \A u \in Threads \ {t} : at'[u] = at[u]
      BY <1>0, <2>4 DEF WaitReleases, NotifyAllClears, Steps
    <3>2. ~IsComing(t)
      BY <1>0, <3>1 DEF IsComing, CallsFit, WaitSteps, NotifySteps
    <3> QED
      BY <1>5, <1>11, <2>0, <3>1, <3>2
  <2>5. ~LateReturns(t)
    BY <1>0 DEF NobodyIsLate, LateReturns
  <2> QED
    BY <1>11, <2>1, <2>2, <2>3, <2>4, <2>5 DEF Inside, CallGoesOn
<1>12. ASSUME NEW t \in Threads, \A u \in Threads : ~Waits(u),
              \/ \E mode \in Modes, timed \in BOOLEAN : Call(t, mode, timed)
              \/ TryLockFails(t) \/ Unlocks(t) \/ CallUnlock(t) \/ LocksAgain(t) \/ NotifyOver(t)
       PROVE  WritersWaitForSomebody'
  <2>1. /\ UNCHANGED <<readersReading, writerWriting, sem, at>>
        /\ \A u \in Threads \ {t} : pc'[u] = pc[u]
    BY <1>0, <1>12 DEF Call, TryLockFails, Unlocks, CallUnlock, LocksAgain, NotifyOver, cvars,
       lvars, Goto
  <2>2. /\ pc[t] \in {"idle", "locking", "unlocking", "relocking", "notifying"}
        /\ pc[t] = "notifying" => at[t] = "out"
    BY <1>12 DEF Call, TryLockFails, Unlocks, CallUnlock, LocksAgain, NotifyOver
  <2>3. ~IsComing(t)
    BY <1>0, <2>2 DEF IsComing, CallsFit, WaitSteps, NotifySteps
  <2> QED
    BY <1>5, <1>12, <2>1, <2>3
<1>13. ASSUME NEW t \in Threads, TimesOut(t) PROVE FALSE
  BY <1>13 DEF TimesOut, WaitTimesOut
<1>14. CASE UNCHANGED vars
  BY <1>14 DEF vars, cvars, lvars, WritersWaitForSomebody, SomethingGoesOn, IsComing, Awaiting
<1> QED
  BY <1>6, <1>7, <1>8, <1>9, <1>10, <1>11, <1>12, <1>13, <1>14 DEF Next

\* A notifyAll() is let go: the event is set or about to be, or there are waiters
\* left who have their wake-ups.
EnoughWakeUps ==
  (\E t \in Threads : at[t] = "awaiting") =>
    Ended \/ (Counted # {} /\ IsFiniteSet(Asleep) /\ sem >= Cardinality(Asleep))

\* The semaphore's limit is far above the number of threads.
SemaphoreIsLarge ==
  IsFiniteSet(Threads) /\ 2 * (Cardinality(Threads) - 1) <= SemMax

\* Those who sleep have their wake-ups as long as a notifyAll() waits.
LEMMA WakeUpsStep ==
  ASSUME IInv, BeforeTimeout, WInv, EnoughWakeUps, SemaphoreIsLarge, [Next]_vars, ~expired'
  PROVE  EnoughWakeUps'
<1>0. /\ at \in [Threads -> CondSteps] /\ sem \in 0 .. SemMax /\ SemMax \in Nat
      /\ waitersCount \in Nat /\ NobodyIsLate /\ BroadcastFits /\ EndsOnce
  BY LockAssumption DEF IInv, TypeOK, LockAssumption, BeforeTimeout, WInv
<1>1. IsFiniteSet(Asleep) /\ Cardinality(Asleep) \in Nat /\ Asleep \subseteq Threads
  BY FS_Subset, FS_CardinalityType DEF SemaphoreIsLarge, Asleep
<1> USE DEF Steps, Ended
<1>2. CASE UNCHANGED <<at, sem, done>>
  BY <1>2 DEF EnoughWakeUps, Counted, Asleep
<1>3. CASE \A t \in Threads : at'[t] # "awaiting"
  BY <1>3 DEF EnoughWakeUps
<1>4. ASSUME NEW t \in Threads, Waits(t) \/ FreesRead(t) \/ NotifyReleases(t)
                                \/ WaitReleases(t) \/ NotifyAllClears(t) \/ NotifyAllWaits(t)
                                \/ Relocks(t) \/ WaitOver(t)
      PROVE  \A u \in Threads : at'[u] # "awaiting"
  <2>1. Owns(t) \/ free
    BY <1>0, <1>4, PartsOfCalls DEF Waits, FreesRead, NotifyReleases, WaitReleases,
       NotifyAllClears, NotifyAllWaits, Relocks, WaitOver, Owns, NobodyIsLate, NotifySteps
  <2>2. \A u \in Threads \ {t} : at[u] # "awaiting"
    BY <2>1, Alone, NobodyIn DEF NotifySteps
  <2>3. /\ \A u \in Threads \ {t} : at'[u] = at[u]
        /\ at'[t] # "awaiting"
    <3>1. CASE FreesRead(t)
      <4>1. at[t] # "awaiting"
        BY <1>0, <3>1, PartsOfCalls DEF FreesRead, NotifySteps
      <4> QED
        BY <1>0, <3>1, <4>1 DEF FreesRead, NotifyLooks, cvars
    <3>2. CASE Waits(t)
      BY <1>0, <3>2 DEF Waits, WaitCounts
    <3> QED
      BY <1>0, <1>4, <3>1, <3>2 DEF NotifyReleases, WaitReleases, NotifyAllClears,
         NotifyAllWaits, Relocks, WaitOver
  <2> QED
    BY <2>2, <2>3
<1>5. ASSUME NEW t \in Threads, WaitAcquires(t) PROVE EnoughWakeUps'
  <2>1. /\ at[t] = "waiting" /\ at' = [at EXCEPT ![t] = "woken"] /\ sem' = sem - 1
        /\ sem > 0 /\ done' = done
    BY <1>5 DEF WaitAcquires
  <2>2. Counted' = Counted /\ Asleep' = Asleep \ {t} /\ t \in Asleep
    BY <1>0, <2>1 DEF Counted, Asleep
  <2>3. IsFiniteSet(Asleep') /\ Cardinality(Asleep') = Cardinality(Asleep) - 1
    BY <1>1, <2>2, OneLess
  <2>4. Ended' <=> Ended
    BY <1>0, <2>1
  <2>5. \A u \in Threads : at'[u] = "awaiting" => at[u] = "awaiting"
    BY <1>0, <2>1
  <2>6. sem >= Cardinality(Asleep) => sem' >= Cardinality(Asleep')
    BY <1>0, <1>1, <2>1, <2>3
  <2> QED
    BY <2>2, <2>3, <2>4, <2>5, <2>6 DEF EnoughWakeUps
<1>6. ASSUME NEW t \in Threads, WokenLeaves(t) PROVE EnoughWakeUps'
  <2>1. /\ at[t] = "woken" /\ t \in Counted /\ UNCHANGED <<sem, done>>
        /\ at' = [at EXCEPT ![t] = IF broadcast /\ waitersCount = 1 THEN "last" ELSE "relocking"]
    BY <1>6 DEF WokenLeaves, Counted
  <2>2. Counted' = Counted \ {t} /\ Asleep' = Asleep
    BY <1>0, <2>1 DEF Counted, Asleep
  <2>3. \A u \in Threads : at'[u] = "awaiting" <=> at[u] = "awaiting"
    BY <1>0, <2>1
  <2>4. (\E u \in Threads : at[u] = "awaiting") => broadcast /\ ~Ended
    BY <1>0, <2>1 DEF BroadcastFits, EndsOnce
  <2>5. CASE waitersCount = 1 /\ broadcast
    BY <1>0, <2>1, <2>5 DEF EnoughWakeUps
  <2>6. CASE waitersCount # 1
    <3>1. Counted' # {}
      <4>1. IsFiniteSet(Counted) /\ waitersCount = Cardinality(Counted)
        BY DEF IInv, WaitersAreCounted
      <4>2. /\ Cardinality(Counted \ {t}) = Cardinality(Counted) - 1
            /\ IsFiniteSet(Counted \ {t})
        BY <2>1, <4>1, OneLess
      <4>3. Cardinality(Counted \ {t}) # 0
        BY <1>0, <2>6, <4>1, <4>2
      <4> QED
        BY <2>2, <4>2, <4>3, FS_EmptySet
    <3> QED
      BY <1>1, <2>1, <2>2, <2>3, <2>4, <3>1 DEF EnoughWakeUps
  <2> QED
    BY <2>3, <2>4, <2>5, <2>6 DEF EnoughWakeUps
<1>7. ASSUME NEW t \in Threads, LastSignals(t) PROVE EnoughWakeUps'
  BY <1>7 DEF LastSignals, EnoughWakeUps
<1>8. ASSUME NEW t \in Threads, FreesOther(t) PROVE EnoughWakeUps'
  <2>1. NotifyAllLooks(t) /\ pc[t] = "freeing"
    BY <1>8, FreesWhatItHas DEF FreesOther
  <2>2. \A u \in Threads : at[u] # "awaiting" /\ at[t] = "out"
    BY <2>1, Alone DEF Owns, NotifyAllLooks, NotifySteps
  <2>3. CASE waitersCount = 0
    BY <2>1, <2>2, <2>3 DEF NotifyAllLooks, EnoughWakeUps
  <2>4. CASE waitersCount > 0
    <3>1. Release(waitersCount) /\ at' = [at EXCEPT ![t] = "awaiting"]
      BY <2>1, <2>4 DEF NotifyAllLooks
    <3>2. Counted' = Counted /\ Asleep' = Asleep
      BY <1>0, <2>2, <3>1 DEF Counted, Asleep
    <3>3. /\ IsFiniteSet(Counted) /\ waitersCount = Cardinality(Counted)
          /\ Counted # {}
      BY <2>4, FS_EmptySet DEF IInv, WaitersAreCounted
    <3>4. Cardinality(Asleep) <= waitersCount
      <4>1. Asleep \subseteq Counted
        BY DEF Asleep, Counted
      <4> QED
        BY <3>3, <4>1, FS_Subset
    <3>5. waitersCount <= Cardinality(Threads) - 1
      <4>1. Counted \subseteq Threads \ {t}
        BY <2>2 DEF Counted
      <4>2. IsFiniteSet(Threads \ {t}) /\ Cardinality(Threads \ {t}) = Cardinality(Threads) - 1
        BY OneLess DEF SemaphoreIsLarge
      <4> QED
        BY <3>3, <4>1, <4>2, FS_Subset
    <3>6. sem' >= Cardinality(Asleep)
      <4>1. Cardinality(Threads) \in Nat /\ 2 * (Cardinality(Threads) - 1) <= SemMax
        BY FS_CardinalityType DEF SemaphoreIsLarge
      <4> QED
        BY <1>0, <1>1, <3>1, <3>4, <3>5, <4>1 DEF Release
    <3> QED
      BY <1>1, <3>2, <3>3, <3>6 DEF EnoughWakeUps
  <2> QED
    BY <1>0, <2>3, <2>4
<1>9. ASSUME NEW t \in Threads, Inside(t) PROVE EnoughWakeUps'
  <2>1. ~LateReturns(t)
    BY <1>0 DEF NobodyIsLate, LateReturns
  <2> QED
    BY <1>3, <1>4, <1>5, <1>6, <1>7, <1>9, <2>1 DEF Inside, CallGoesOn
<1>10. ASSUME NEW t \in Threads,
              \/ \E mode \in Modes, timed \in BOOLEAN : Call(t, mode, timed)
              \/ Locks(t) \/ TryLockFails(t) \/ Passes(t) \/ Counts(t) \/ Unlocks(t)
              \/ CallUnlock(t) \/ LocksAgain(t) \/ NotifyOver(t)
       PROVE  UNCHANGED <<at, sem, done>>
  BY <1>10 DEF Call, Locks, TryLockFails, Passes, Counts, Unlocks, CallUnlock, LocksAgain,
       NotifyOver, cvars
<1>11. ASSUME NEW t \in Threads, TimesOut(t) PROVE FALSE
  BY <1>11 DEF TimesOut, WaitTimesOut
<1>12. CASE UNCHANGED vars
  BY <1>2, <1>12 DEF vars, cvars
<1> QED
  BY <1>2, <1>3, <1>4, <1>8, <1>9, <1>10, <1>11, <1>12 DEF Next

-----------------------------------------------------------------------------
(* The theorems                                                            *)

\* A timeout is not undone.
LEMMA ExpiredStays == ASSUME [Next]_vars, expired PROVE expired'
BY DEF Next, Call, Locks, TryLockFails, Waits, WaitCounts, Passes, Counts, WaitOver, Unlocks,
       CallUnlock, LocksAgain, FreesRead, FreesOther, NotifyLooks, NotifyAllLooks, NotifyOver,
       Inside, CallGoesOn, WaitReleases, WaitAcquires, LateReturns, WokenLeaves,
       LastSignals, Relocks, NotifyReleases, NotifyAllWaits, NotifyAllClears, TimesOut,
       WaitTimesOut, cvars, vars

\* The invariant holds for every set of threads.
LEMMA Inductive == Spec => []IInv
<1>1. IInv /\ [Next]_vars => IInv'
  BY WaitersStep, TypeStep, CallsStep, MutexStep, LockStep, ExpiredStays DEF IInv, BeforeTimeout
<1> QED
  BY <1>1, InitIInv, PTL DEF Spec

\* Every variable keeps its type, and no counter drops below zero.
THEOREM TypeCorrect == Spec => []TypeOK
BY Inductive, PTL DEF IInv

\* A reader and a writer, or two writers, never hold the lock together, as long
\* as no wait has timed out, for any number of threads.
THEOREM ExclusionHolds == Spec => []ExclusionBeforeTimeout
<1>1. IInv => ExclusionBeforeTimeout
  BY DEF IInv, BeforeTimeout, ExclusionBeforeTimeout
<1> QED
  BY <1>1, Inductive, PTL

\* The condition variable's count is true however waits end, and the lock's own
\* are until one times out.
THEOREM CountersTellTheTruth == Spec => []CountersAreTrue
<1>1. IInv => CountersAreTrue
  BY DEF IInv, BeforeTimeout, WaitersAreCounted, HoldersAreCounted, CountersAreTrue
<1> QED
  BY <1>1, Inductive, PTL

\* The wake-ups of the condition variable are the right ones until a wait times out.
LEMMA WakeUpsAreRight == Spec => [](~expired => WInv)
<1>1. Init => WInv
  BY DEF Init, CondVarInit, WInv, BroadcastFits, EndsOnce, Ended, ReadersWaitForWriters,
     WritersWaitForSomebody, Awaiting
<1>2. IInv /\ (~expired => WInv) /\ [Next]_vars => (~expired => WInv)'
  BY BroadcastStep, ReadersStep, WritersStep, ExpiredStays DEF WInv, IInv
<1> QED
  BY <1>1, <1>2, Inductive, PTL DEF Spec

\* With the mutex free and no writer in the lock no reader sleeps; if no reader
\* is in it either and a writer sleeps, a wake-up is on its way: for any number
\* of threads, until a wait times out.
THEOREM NobodyIsOverlooked == Spec => []NobodyOverlooked
<1>1. IInv /\ (~expired => WInv) => NobodyOverlooked
  <2> SUFFICES ASSUME IInv, BeforeTimeout, WInv, free, writerWriting = 0
               PROVE  /\ Sleeping("read") = {}
                      /\ readersReading = 0 /\ Sleeping("write") # {}
                           => sem > 0 \/ \E t \in Threads : at[t] \in {"woken", "last", "relocking"}
    BY DEF NobodyOverlooked, IInv
  <2>1. \A u \in Threads : /\ at[u] \notin NotifySteps \cup {"counted", "signalled"}
                           /\ pc[u] \notin {"testing", "counting"}
    BY NobodyIn
  <2>2. \A mode : Sleeping(mode) \subseteq Awaiting(mode)
    BY DEF Sleeping, Awaiting
  <2>3. Sleeping("read") = {}
    BY <2>1, <2>2 DEF WInv, ReadersWaitForWriters, NotifySteps
  <2>4. readersReading = 0 /\ Sleeping("write") # {}
          => sem > 0 \/ \E t \in Threads : at[t] \in {"woken", "last", "relocking"}
    BY <2>1, <2>2 DEF WInv, WritersWaitForSomebody, SomethingGoesOn, IsComing, NotifySteps
  <2> QED
    BY <2>3, <2>4
<1> QED
  BY <1>1, Inductive, WakeUpsAreRight, PTL

\* A writer in notifyAll() will be let go, for any number of threads that is
\* small against the limit of the semaphore, until a wait times out.
THEOREM NotifyAllEnds == SemaphoreIsLarge => (Spec => []NotifierIsReleased)
<1> SUFFICES ASSUME SemaphoreIsLarge PROVE Spec => []NotifierIsReleased
  OBVIOUS
<1>1. Init => EnoughWakeUps
  BY DEF Init, CondVarInit, EnoughWakeUps
<1>2. /\ IInv /\ (~expired => WInv) /\ (~expired => EnoughWakeUps) /\ [Next]_vars
      => (~expired => EnoughWakeUps)'
  BY WakeUpsStep, ExpiredStays DEF IInv
<1>3. (~expired => WInv) /\ (~expired => EnoughWakeUps) => NotifierIsReleased
  BY DEF WInv, BroadcastFits, EnoughWakeUps, Ended, NotifierIsReleased
<1> QED
  BY <1>1, <1>2, <1>3, Inductive, WakeUpsAreRight, PTL DEF Spec

\* As long as no wait timed out, the calls that are under way never all wait for
\* each other, for any number of threads that is small against the limit of the
\* semaphore: the owner of the mutex goes on, or is let go by waiters that go on;
\* and with the mutex free the sleepers have their wake-up or a holder to wait for.
THEOREM DeadlockFree == SemaphoreIsLarge => (Spec => []NobodyDeadlocks)
<1> SUFFICES ASSUME SemaphoreIsLarge PROVE Spec => []NobodyDeadlocks
  OBVIOUS
<1>1. ASSUME IInv, NobodyOverlooked, NotifierIsReleased, ~expired,
             NEW t \in Threads, pc[t] # "idle",
             \A u \in Threads : ~CanGoOn(u) /\ (pc[u] = "idle" => holds[u] = "none")
      PROVE  FALSE
  <2>0. /\ at \in [Threads -> CondSteps] /\ pc \in [Threads -> CallSteps] /\ CallsFit
        /\ sem \in Nat /\ want \in [Threads -> Calls \cup {NoLock}]
        /\ BeforeTimeout /\ HoldersAreCounted
    BY <1>1, LockAssumption DEF IInv, TypeOK, BeforeTimeout, LockAssumption
  <2>1. CASE ~free
    <3>1. PICK u \in Threads : Owns(u)
      BY <2>0, <2>1 DEF BeforeTimeout, MutexHasOneOwner
    <3>2. at[u] = "awaiting" /\ ~done
      BY <1>1, <2>0, <3>1 DEF Owns, CanGoOn, CallsFit, WaitSteps, NotifySteps
    <3>3. \A v \in Threads : at[v] # "last" /\ at[v] \notin {"counted", "woken", "late"}
      BY <1>1, <2>0 DEF CanGoOn, CallsFit, WaitSteps
    <3>4. Counted # {} /\ sem >= Cardinality(Asleep)
      BY <1>1, <3>2, <3>3 DEF NotifierIsReleased
    <3>5. PICK v \in Threads : at[v] = "waiting"
      BY <3>3, <3>4 DEF Counted
    <3>6. IsFiniteSet(Asleep) /\ Asleep # {} /\ Cardinality(Asleep) \in Nat
      BY <3>5, FS_Subset, FS_CardinalityType DEF Asleep, SemaphoreIsLarge
    <3>7. sem > 0
      BY <2>0, <3>4, <3>6, FS_EmptySet
    <3> QED
      BY <1>1, <2>0, <3>5, <3>7 DEF CanGoOn, CallsFit, WaitSteps
  <2>2. CASE free
    <3>1. \A u \in Threads : ~Owns(u)
      BY <2>0, <2>2 DEF BeforeTimeout, MutexHasOneOwner
    <3>2. \A u \in Threads : pc[u] = "idle" \/ (pc[u] = "waiting" /\ at[u] = "waiting")
      BY <1>1, <2>0, <2>2, <3>1
         DEF Owns, CanGoOn, CallsFit, CallSteps, CondSteps, WaitSteps, NotifySteps
    <3>3. Holding("read") = {} /\ Holding("write") = {}
      BY <1>1, <2>0, <3>2 DEF Holding, CallsFit
    <3>4. readersReading = 0 /\ writerWriting = 0
      BY <2>0, <3>3, ZeroMeansNobody
    <3>5. t \in Sleeping("read") \/ t \in Sleeping("write")
      BY <1>1, <2>0, <3>2 DEF Sleeping, CallsFit, Calls, Modes
    <3>6. sem > 0 \/ \E u \in Threads : at[u] \in {"woken", "last", "relocking"}
      BY <1>1, <2>2, <3>4, <3>5 DEF NobodyOverlooked
    <3>7. sem > 0
      BY <2>0, <3>2, <3>6 DEF CallsFit, WaitSteps
    <3> QED
      BY <1>1, <3>2, <3>7 DEF CanGoOn
  <2> QED
    BY <2>1, <2>2, <1>1 DEF IInv, TypeOK
<1>2. IInv /\ NobodyOverlooked /\ NotifierIsReleased => NobodyDeadlocks
  BY <1>1 DEF NobodyDeadlocks
<1> QED
  BY <1>2, Inductive, NobodyIsOverlooked, NotifyAllEnds, PTL
=============================================================================
