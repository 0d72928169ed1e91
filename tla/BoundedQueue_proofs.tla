------------------------ MODULE BoundedQueue_proofs ------------------------
(***************************************************************************)
(* Proofs about BoundedQueue for any number of threads, any capacity and   *)
(* any items.  Every action of the queue is one of ten kinds of step       *)
(* (lemma StepKinds); each invariant is then shown kind by kind.           *)
(***************************************************************************)
EXTENDS BoundedQueue, FiniteSetTheorems, SequenceTheorems, TLAPS

Same == UNCHANGED <<capacity, terminated, asked>>

\* t was woken, not by its clock, and finds nothing that it could do.
InVain(t) ==
  /\ CanResume(t) /\ (awake[t] = "timedOut" => call[t].op \notin Timed)
  /\ \/ call[t] \in PutCalls /\ Full
     \/ call[t] \in TakeCalls /\ Empty

\* A call of t ends with an exception.
ThrowStep ==
  \E t \in Threads, o \in {"timeout", "interrupted"} :
    /\ Throw(t, o) /\ Same
    /\ t \notin condP \cup condC
    /\ t \in WokenConsumers => terminated \/ Empty
    /\ o = "interrupted" => terminated \/ InVain(t)

\* A call of t ends by adding x.
PushStep ==
  \E t \in Threads, x \in Items :
    /\ Push(t, x) /\ Same
    /\ ~Full
    /\ t \notin condP \cup condC
    /\ call[t] = NoCall \/ (call[t] \in PutCalls /\ call[t].item = x)
    /\ call[t] = NoCall => t \in Producers

\* A call of t ends by taking the first item.
PopStep ==
  \E t \in Threads :
    /\ Pop(t) /\ Same
    /\ ~Empty /\ ~terminated
    /\ t \notin condP \cup condC
    /\ call[t] = NoCall \/ call[t] \in TakeCalls
    /\ call[t] = NoCall => t \in Consumers

WaitPStep ==
  \E t \in Producers, c \in PutCalls :
    /\ WaitP(t, c) /\ Same
    /\ Full /\ ~terminated
    /\ call[t] = NoCall

WaitCStep ==
  \E t \in Consumers, c \in TakeCalls :
    /\ WaitC(t, c) /\ Same
    /\ Empty /\ ~terminated
    /\ call[t] = NoCall

LeaveStep ==
  \E t \in Threads, why \in {"notified", "timedOut"} :
    /\ LeavesWait(t, why)
    /\ IF why = "timedOut" THEN call[t].op \in Timed ELSE SpuriousWakeups

WakeAllStep ==
  /\ WakeEveryone
  /\ terminated' \in BOOLEAN
  /\ UNCHANGED <<capacity, queue, call, last>>

EmptyStep ==
  /\ Empties /\ Controls \cap {"clear", "reset"} # {}
  /\ \/ UNCHANGED call
     \/ \E t \in Threads : /\ call[t] = NoCall
                           /\ call' = [call EXCEPT ![t] = ResetCall]

FlagStep == \E t \in Threads : ResetFlag(t)

CapacityStep == \E t \in Threads, c \in Capacities : SetCapacity(t, c)

\* What a thread that is not in the middle of a take or put cannot be.
LEMMA IdleThread ==
  ASSUME TypeOK, NEW t \in Threads, call[t] \in {NoCall, ResetCall}
  PROVE  /\ awake[t] = "no" /\ t \notin condP \cup condC
         /\ call[t] \notin PutCalls \cup TakeCalls
BY DEF TypeOK, WaitTypes, CanResume, PutCalls, TakeCalls, NoCall, ResetCall

\* A thread that was woken is in no condition variable.
LEMMA WokenThread ==
  ASSUME TypeOK, NEW t \in Threads, CanResume(t)
  PROVE  t \notin condP \cup condC /\ call[t] \in PutCalls \cup TakeCalls
BY DEF TypeOK, WaitTypes, CanResume

\* Nobody is blocked in both condition variables.
LEMMA OneWait == TypeOK => condP \cap condC = {}
BY DEF TypeOK, WaitTypes, PutCalls, TakeCalls

\* Every action of the queue is a step of one of the kinds above.
LEMMA StepKinds ==
  ASSUME TypeOK, Next
  PROVE  \/ ThrowStep \/ PushStep \/ PopStep \/ WaitPStep \/ WaitCStep
         \/ LeaveStep \/ WakeAllStep \/ EmptyStep \/ FlagStep \/ CapacityStep
<1>1. ASSUME NEW t \in Producers, NEW x \in Items, Put(t, x) \/ TryPut(t, x)
      PROVE  ThrowStep \/ PushStep \/ WaitPStep
  <2>1. t \in Threads /\ call[t] = NoCall
    BY <1>1 DEF Threads, Put, TryPut
  <2>2. t \notin condP \cup condC /\ awake[t] = "no"
    BY <2>1, IdleThread
  <2>3. t \notin WokenConsumers
    BY <2>2 DEF WokenConsumers
  <2>4. CASE terminated /\ Throw(t, "interrupted") /\ Same
    BY <2>1, <2>2, <2>3, <2>4 DEF ThrowStep
  <2>5. CASE Throw(t, "timeout") /\ Same
    BY <2>1, <2>2, <2>3, <2>5 DEF ThrowStep
  <2>6. CASE ~Full /\ Push(t, x) /\ Same
    BY <2>1, <2>2, <2>6 DEF PushStep
  <2>7. CASE ~terminated /\ Full /\ WaitP(t, [op |-> "put", item |-> x]) /\ Same
    BY <2>1, <2>7 DEF WaitPStep, PutCalls
  <2>8. CASE ~terminated /\ Full /\ WaitP(t, [op |-> "tryPut", item |-> x]) /\ Same
    BY <2>1, <2>8 DEF WaitPStep, PutCalls
  <2> QED
    BY <1>1, <2>4, <2>5, <2>6, <2>7, <2>8 DEF Put, TryPut, Same
<1>2. ASSUME NEW t \in Consumers, Take(t) \/ TryTake(t)
      PROVE  ThrowStep \/ PopStep \/ WaitCStep
  <2>1. t \in Threads /\ call[t] = NoCall
    BY <1>2 DEF Threads, Take, TryTake
  <2>2. t \notin condP \cup condC /\ awake[t] = "no"
    BY <2>1, IdleThread
  <2>3. t \notin WokenConsumers
    BY <2>2 DEF WokenConsumers
  <2>4. CASE terminated /\ Throw(t, "interrupted") /\ Same
    BY <2>1, <2>2, <2>3, <2>4 DEF ThrowStep
  <2>5. CASE Throw(t, "timeout") /\ Same
    BY <2>1, <2>2, <2>3, <2>5 DEF ThrowStep
  <2>6. CASE ~terminated /\ ~Empty /\ Pop(t) /\ Same
    BY <2>1, <2>2, <2>6 DEF PopStep
  <2>7. CASE ~terminated /\ Empty /\ WaitC(t, [op |-> "take", item |-> NoItem]) /\ Same
    BY <2>1, <2>7 DEF WaitCStep, TakeCalls
  <2>8. CASE ~terminated /\ Empty /\ WaitC(t, [op |-> "tryTake", item |-> NoItem]) /\ Same
    BY <2>1, <2>8 DEF WaitCStep, TakeCalls
  <2> QED
    BY <1>2, <2>4, <2>5, <2>6, <2>7, <2>8 DEF Take, TryTake, Same
<1>3. ASSUME NEW t \in Threads, PutResumes(t) \/ TryPutResumes(t)
      PROVE  ThrowStep \/ PushStep
  <2>1. t \notin condP \cup condC
    BY <1>3, WokenThread DEF PutResumes, TryPutResumes
  <2>2. call[t] \in PutCalls /\ call[t].item \in Items
    BY <1>3, WokenThread DEF PutResumes, TryPutResumes, PutCalls, TakeCalls
  <2>3. t \notin WokenConsumers
    BY <2>2 DEF WokenConsumers, PutCalls, TakeCalls
  <2>4. CASE /\ Full /\ (awake[t] = "timedOut" => call[t].op = "put")
             /\ Throw(t, "interrupted") /\ Same
    <3>1. InVain(t)
      BY <1>3, <2>2, <2>4 DEF InVain, PutResumes, TryPutResumes, Timed
    <3> QED
      BY <2>1, <2>3, <2>4, <3>1 DEF ThrowStep
  <2>5. CASE Throw(t, "timeout") /\ Same
    BY <2>1, <2>3, <2>5 DEF ThrowStep
  <2>6. CASE ~Full /\ Push(t, call[t].item) /\ Same
    BY <2>1, <2>2, <2>6 DEF PushStep, NoCall, PutCalls
  <2> QED
    BY <1>3, <2>4, <2>5, <2>6 DEF PutResumes, TryPutResumes, Same
<1>4. ASSUME NEW t \in Threads, TakeResumes(t) \/ TryTakeResumes(t)
      PROVE  ThrowStep \/ PopStep
  <2>1. t \notin condP \cup condC
    BY <1>4, WokenThread DEF TakeResumes, TryTakeResumes
  <2>2. call[t] \in TakeCalls
    BY <1>4, WokenThread DEF TakeResumes, TryTakeResumes, PutCalls, TakeCalls
  <2>3. CASE /\ terminated \/ (Empty /\ call[t].op = "take")
             /\ Throw(t, "interrupted") /\ Same
    <3>1. terminated \/ InVain(t)
      BY <1>4, <2>2, <2>3 DEF InVain, TakeResumes, TryTakeResumes, Timed
    <3> QED
      BY <2>1, <2>3, <3>1 DEF ThrowStep, WokenConsumers
  <2>4. CASE (awake[t] = "timedOut" \/ Empty) /\ Throw(t, "timeout") /\ Same
    BY <2>1, <2>4 DEF ThrowStep, WokenConsumers
  <2>5. CASE ~terminated /\ ~Empty /\ Pop(t) /\ Same
    BY <2>1, <2>2, <2>5 DEF PopStep, NoCall, TakeCalls
  <2> QED
    BY <1>4, <2>3, <2>4, <2>5 DEF TakeResumes, TryTakeResumes, Same
<1>5. ASSUME NEW t \in Threads, TimesOut(t) \/ WakesSpuriously(t)
      PROVE  LeaveStep
  BY <1>5 DEF TimesOut, WakesSpuriously, LeaveStep
<1>6. ASSUME NEW t \in Controllers,
             \/ Shutdown(t) \/ Interrupt(t) \/ Clear(t) \/ Reset(t) \/ ResetFlag(t)
             \/ \E c \in Capacities : SetCapacity(t, c)
      PROVE  WakeAllStep \/ EmptyStep \/ FlagStep \/ CapacityStep
  <2>1. t \in Threads
    BY DEF Threads
  <2>2. CASE Shutdown(t) \/ Interrupt(t)
    BY <2>2 DEF Shutdown, Interrupt, WakeAllStep, TypeOK, DataTypes
  <2>3. CASE Clear(t) \/ Reset(t)
    BY <2>1, <2>3 DEF Clear, Reset, EmptyStep, Calls
  <2>4. CASE ResetFlag(t) \/ \E c \in Capacities : SetCapacity(t, c)
    BY <2>1, <2>4 DEF FlagStep, CapacityStep
  <2> QED
    BY <1>6, <2>2, <2>3, <2>4
<1> QED
  BY <1>1, <1>2, <1>3, <1>4, <1>5, <1>6 DEF Next, Resumes

-----------------------------------------------------------------------------
(* The type invariant                                                      *)

\* The type invariant holds at first ...
LEMMA TypeInit == Init => TypeOK
<1> SUFFICES ASSUME Init PROVE TypeOK
  OBVIOUS
<1>1. DataTypes
  BY ConstantsAssumption, EmptySeq DEF Init, DataTypes
<1>2. WaitTypes
  BY DEF Init, WaitTypes, NoCall, CanResume, Reasons
<1> QED
  BY <1>1, <1>2 DEF TypeOK

\* ... the values of the queue and of the flags keep their types ...
LEMMA DataTypesNext == ASSUME TypeOK, Next PROVE DataTypes'
<1> USE DEF DataTypes
<1>1. CASE ThrowStep
  BY <1>1 DEF TypeOK, ThrowStep, Throw, Return, Same, Outcomes
<1>2. CASE PushStep
  BY <1>2 DEF TypeOK, PushStep, Push, Return, Same, Outcomes
<1>3. CASE PopStep
  BY <1>3 DEF TypeOK, PopStep, Pop, Return, Same, Outcomes, Empty
<1>4. CASE WaitPStep \/ WaitCStep
  BY <1>4 DEF TypeOK, WaitPStep, WaitCStep, WaitP, WaitC, Same
<1>5. CASE LeaveStep
  BY <1>5 DEF TypeOK, LeaveStep, LeavesWait
<1>6. CASE WakeAllStep
  BY <1>6 DEF TypeOK, WakeAllStep, WakeEveryone
<1>7. CASE EmptyStep
  BY <1>7, EmptySeq DEF TypeOK, EmptyStep, Empties
<1>8. CASE FlagStep
  <2>1. PICK t \in Threads : ResetFlag(t)
    BY <1>8 DEF FlagStep
  <2>2. last' = [thread |-> t, outcome |-> "ok", item |-> NoItem]
    BY <2>1 DEF ResetFlag, Return
  <2> QED
    BY <2>1, <2>2 DEF TypeOK, ResetFlag, Outcomes
<1>9. CASE CapacityStep
  BY <1>9, ConstantsAssumption DEF TypeOK, CapacityStep, SetCapacity
<1> QED
  BY StepKinds, <1>1, <1>2, <1>3, <1>4, <1>5, <1>6, <1>7, <1>8, <1>9

\* The threads of W are awake, t has gone on, the others are as before.
LEMMA WakeEffect ==
  ASSUME TypeOK, NEW t \in Threads, NEW W, NEW why \in Reasons, Wake(t, W, why)
  PROVE  /\ awake' \in [Threads -> Reasons \cup {"no"}]
         /\ \A u \in Threads : awake'[u] = IF u \in W THEN why
                                           ELSE IF u = t THEN "no" ELSE awake[u]
<1>1. awake \in [Threads -> Reasons \cup {"no"}]
  BY DEF TypeOK, WaitTypes
<1> QED
  BY <1>1 DEF Wake

\* ... and the waits and wake-ups leave each thread in at most one place.
LEMMA WaitTypesNext == ASSUME TypeOK, Next PROVE WaitTypes'
<1> USE DEF TypeOK, WaitTypes, CanResume
<1>1. CASE ThrowStep
  <2>1. PICK t \in Threads, o \in {"timeout", "interrupted"} :
          Throw(t, o) /\ t \notin condP \cup condC
    BY <1>1 DEF ThrowStep
  <2>2. /\ condP' = condP /\ condC' = condC
        /\ call' = [call EXCEPT ![t] = NoCall]
        /\ Wake(t, {}, "notified")
    BY <2>1 DEF Throw, Return
  <2>3. /\ awake' \in [Threads -> Reasons \cup {"no"}]
        /\ \A u \in Threads : awake'[u] = IF u = t THEN "no" ELSE awake[u]
    BY <2>2, WakeEffect DEF Reasons
  <2> QED
    BY <2>1, <2>2, <2>3 DEF Threads
<1>2. CASE PushStep
  <2>1. PICK t \in Threads, x \in Items : Push(t, x) /\ t \notin condP \cup condC
    BY <1>2 DEF PushStep
  <2>2. PICK W \in OneOf(condC) : condC' = condC \ W /\ Wake(t, W, "notified")
    BY <2>1 DEF Push
  <2>3. W \subseteq condC
    BY <2>2 DEF OneOf
  <2>4. condP' = condP /\ call' = [call EXCEPT ![t] = NoCall]
    BY <2>1 DEF Push, Return
  <2>5. /\ awake' \in [Threads -> Reasons \cup {"no"}]
        /\ \A u \in Threads : awake'[u] = IF u \in W THEN "notified"
                                          ELSE IF u = t THEN "no" ELSE awake[u]
    BY <2>2, WakeEffect DEF Reasons
  <2>6. call' \in [Threads -> PutCalls \cup TakeCalls \cup {NoCall, ResetCall}]
    BY <2>4
  <2>7. /\ \A u \in condP' : awake'[u] = "no" /\ call'[u] \in PutCalls
        /\ \A u \in condC' : awake'[u] = "no" /\ call'[u] \in TakeCalls
    BY <2>1, <2>2, <2>3, <2>4, <2>5, OneWait DEF Threads
  <2>8. \A u \in Threads : CanResume(u)' => call'[u] \in PutCalls \cup TakeCalls
    BY <2>1, <2>3, <2>4, <2>5 DEF Threads
  <2> QED
    BY <2>2, <2>4, <2>5, <2>6, <2>7, <2>8
<1>3. CASE PopStep
  <2>1. PICK t \in Threads : Pop(t) /\ t \notin condP \cup condC
    BY <1>3 DEF PopStep
  <2>2. /\ condC' = condC /\ condP' = {}
        /\ call' = [call EXCEPT ![t] = NoCall]
        /\ Wake(t, condP, "notified")
    BY <2>1 DEF Pop, Return
  <2>3. /\ awake' \in [Threads -> Reasons \cup {"no"}]
        /\ \A u \in Threads : awake'[u] = IF u \in condP THEN "notified"
                                          ELSE IF u = t THEN "no" ELSE awake[u]
    BY <2>2, WakeEffect DEF Reasons
  <2>4. call' \in [Threads -> PutCalls \cup TakeCalls \cup {NoCall, ResetCall}]
    BY <2>2
  <2>5. \A u \in condC' : awake'[u] = "no" /\ call'[u] \in TakeCalls
    BY <2>1, <2>2, <2>3, OneWait DEF Threads
  <2>6. \A u \in Threads : CanResume(u)' => call'[u] \in PutCalls \cup TakeCalls
    BY <2>1, <2>2, <2>3 DEF Threads
  <2> QED
    BY <2>2, <2>3, <2>4, <2>5, <2>6
<1>4. CASE WaitPStep
  BY <1>4, IdleThread DEF WaitPStep, WaitP, Threads
<1>5. CASE WaitCStep
  BY <1>5, IdleThread DEF WaitCStep, WaitC, Threads
<1>6. CASE LeaveStep
  BY <1>6 DEF LeaveStep, LeavesWait, IsBlocked, Reasons
<1>7. CASE WakeAllStep
  BY <1>7 DEF WakeAllStep, WakeEveryone, IsBlocked, Reasons
<1>8. CASE EmptyStep
  <2>1. /\ condC' = condC /\ condP' = {}
        /\ awake' = [u \in Threads |-> IF u \in condP THEN "notified" ELSE awake[u]]
    BY <1>8 DEF EmptyStep, Empties
  <2>2. awake' \in [Threads -> Reasons \cup {"no"}]
    BY <2>1 DEF Reasons
  <2>3. CASE UNCHANGED call
    <3>1. \A u \in condC' : awake'[u] = "no" /\ call'[u] \in TakeCalls
      BY <2>1, <2>3, OneWait DEF Threads
    <3>2. \A u \in Threads : CanResume(u)' => call'[u] \in PutCalls \cup TakeCalls
      BY <2>1, <2>3 DEF Threads
    <3> QED
      BY <2>1, <2>2, <2>3, <3>1, <3>2
  <2>4. CASE \E t \in Threads : call[t] = NoCall /\ call' = [call EXCEPT ![t] = ResetCall]
    <3>1. PICK t \in Threads : call[t] = NoCall /\ call' = [call EXCEPT ![t] = ResetCall]
      BY <2>4
    <3>2. awake[t] = "no" /\ t \notin condP \cup condC
      BY <3>1, IdleThread
    <3>3. call' \in [Threads -> PutCalls \cup TakeCalls \cup {NoCall, ResetCall}]
      BY <3>1
    <3>4. \A u \in condC' : awake'[u] = "no" /\ call'[u] \in TakeCalls
      BY <2>1, <3>1, <3>2, OneWait DEF Threads
    <3>5. \A u \in Threads : CanResume(u)' => call'[u] \in PutCalls \cup TakeCalls
      BY <2>1, <3>1, <3>2 DEF Threads
    <3> QED
      BY <2>1, <2>2, <3>3, <3>4, <3>5
  <2> QED
    BY <1>8, <2>3, <2>4 DEF EmptyStep
<1>9. CASE FlagStep
  BY <1>9, IdleThread DEF FlagStep, ResetFlag, Return
<1>10. CASE CapacityStep
  BY <1>10 DEF CapacityStep, SetCapacity
<1> QED
  BY StepKinds, <1>1, <1>2, <1>3, <1>4, <1>5, <1>6, <1>7, <1>8, <1>9, <1>10

\* A step that changes nothing keeps the type invariant too.
LEMMA TypeNext == TypeOK /\ [Next]_vars => TypeOK'
<1>1. ASSUME TypeOK, Next PROVE TypeOK'
  BY <1>1, DataTypesNext, WaitTypesNext DEF TypeOK
<1>2. ASSUME TypeOK, UNCHANGED vars PROVE TypeOK'
  BY <1>2 DEF TypeOK, DataTypes, WaitTypes, CanResume, vars
<1> QED
  BY <1>1, <1>2

\* Every variable always has its type, and no thread is ever in two places of
\* the wait machinery of the queue.
THEOREM TypeCorrect == Spec => []TypeOK
BY TypeInit, TypeNext, PTL DEF Spec

-----------------------------------------------------------------------------
(* After shutdown() nobody sleeps                                          *)

\* Whoever begins to wait has seen that the queue is not shut down, under the
\* mutex that shutdown() takes to wake everyone.
LEMMA ShutDownNext ==
  ASSUME TypeOK, NobodySleepsInAShutDownQueue, [Next]_vars
  PROVE  NobodySleepsInAShutDownQueue'
<1> USE DEF NobodySleepsInAShutDownQueue
<1>1. CASE ThrowStep
  BY <1>1 DEF ThrowStep, Throw, Same
<1>2. CASE PushStep
  BY <1>2 DEF PushStep, Push, Same
<1>3. CASE PopStep
  BY <1>3 DEF PopStep, Pop, Same
<1>4. CASE WaitPStep \/ WaitCStep
  BY <1>4 DEF WaitPStep, WaitCStep, Same
<1>5. CASE LeaveStep
  BY <1>5 DEF LeaveStep, LeavesWait
<1>6. CASE WakeAllStep
  BY <1>6 DEF WakeAllStep, WakeEveryone
<1>7. CASE EmptyStep
  BY <1>7 DEF EmptyStep, Empties
<1>8. CASE FlagStep
  BY <1>8 DEF FlagStep, ResetFlag
<1>9. CASE CapacityStep
  BY <1>9 DEF CapacityStep, SetCapacity
<1>10. CASE UNCHANGED vars
  BY <1>10 DEF vars
<1> QED
  BY StepKinds, <1>1, <1>2, <1>3, <1>4, <1>5, <1>6, <1>7, <1>8, <1>9, <1>10

\* Once the queue is shut down, and until it is reset, no thread sleeps in it,
\* whatever calls were in progress when shutdown() came.
THEOREM ShutDownQueueHasNoSleepers == Spec => []NobodySleepsInAShutDownQueue
<1>1. Init => NobodySleepsInAShutDownQueue
  BY DEF Init, NobodySleepsInAShutDownQueue
<1> QED
  BY <1>1, ShutDownNext, TypeCorrect, PTL DEF Spec

-----------------------------------------------------------------------------
(* The capacity                                                            *)

\* The size only grows in a push, and a push has just seen that the queue is
\* not full; since the size is not above the capacity, it is then below it.
LEMMA CapacityNext ==
  ASSUME TypeOK, CapacityRespected, [Next]_vars
  PROVE  CapacityRespected'
<1> SUFFICES ASSUME ~LowerBelowSize, Len(queue) <= capacity
             PROVE  Len(queue') <= capacity'
  BY DEF CapacityRespected
<1>0. queue \in Seq(Items) /\ Len(queue) \in Nat /\ capacity \in Nat
  BY LenProperties DEF TypeOK, DataTypes
<1>1. CASE ThrowStep
  BY <1>1 DEF ThrowStep, Throw, Same
<1>2. CASE PushStep
  <2>1. PICK x \in Items : queue' = Append(queue, x) /\ ~Full /\ capacity' = capacity
    BY <1>2 DEF PushStep, Push, Same
  <2>2. Len(queue') = Len(queue) + 1
    BY <1>0, <2>1, AppendProperties
  <2> QED
    BY <1>0, <2>1, <2>2 DEF Full
<1>3. CASE PopStep
  <2>1. queue' = Tail(queue) /\ queue # <<>> /\ capacity' = capacity
    BY <1>3 DEF PopStep, Pop, Same, Empty
  <2>2. Len(queue') = Len(queue) - 1
    BY <1>0, <2>1, HeadTailProperties
  <2> QED
    BY <1>0, <2>1, <2>2
<1>4. CASE WaitPStep \/ WaitCStep
  BY <1>4 DEF WaitPStep, WaitCStep, WaitP, WaitC, Same
<1>5. CASE LeaveStep
  BY <1>5 DEF LeaveStep, LeavesWait
<1>6. CASE WakeAllStep
  BY <1>6 DEF WakeAllStep
<1>7. CASE EmptyStep
  BY <1>0, <1>7, EmptySeq DEF EmptyStep, Empties
<1>8. CASE FlagStep
  BY <1>8 DEF FlagStep, ResetFlag
<1>9. CASE CapacityStep
  BY <1>0, <1>9, ConstantsAssumption DEF CapacityStep, SetCapacity
<1>10. CASE UNCHANGED vars
  BY <1>10 DEF vars
<1> QED
  BY StepKinds, <1>1, <1>2, <1>3, <1>4, <1>5, <1>6, <1>7, <1>8, <1>9, <1>10

\* As long as nobody lowers the capacity below the size, the queue never holds
\* more than its capacity, however many producers one take has woken.
THEOREM CapacityIsRespected == Spec => []CapacityRespected
<1>1. Init => CapacityRespected
  BY ConstantsAssumption, EmptySeq DEF Init, CapacityRespected
<1> QED
  BY <1>1, CapacityNext, TypeCorrect, PTL DEF Spec

-----------------------------------------------------------------------------
(* No producer is overlooked                                               *)

\* A producer begins to wait when the queue is full, and whatever makes the
\* queue less full wakes all of them.
LEMMA SpaceNext ==
  ASSUME TypeOK, NoSpaceOverlooked, [Next]_vars
  PROVE  NoSpaceOverlooked'
<1> SUFFICES ASSUME "setCapacity" \notin Controls, condP' # {}
             PROVE  Len(queue') = capacity'
  BY DEF NoSpaceOverlooked
<1>0. condP # {} => Len(queue) = capacity
  BY DEF NoSpaceOverlooked
<1>1. CASE ThrowStep
  BY <1>0, <1>1 DEF ThrowStep, Throw, Same
<1>2. CASE PushStep
  BY <1>0, <1>2 DEF PushStep, Push, Same, Full
<1>3. CASE PopStep
  BY <1>3 DEF PopStep, Pop
<1>4. CASE WaitPStep \/ WaitCStep
  BY <1>0, <1>4 DEF WaitPStep, WaitCStep, WaitP, WaitC, Same, Full
<1>5. CASE LeaveStep
  BY <1>0, <1>5 DEF LeaveStep, LeavesWait
<1>6. CASE WakeAllStep
  BY <1>6 DEF WakeAllStep, WakeEveryone
<1>7. CASE EmptyStep
  BY <1>7 DEF EmptyStep, Empties
<1>8. CASE FlagStep
  BY <1>0, <1>8 DEF FlagStep, ResetFlag
<1>9. CASE CapacityStep
  BY <1>9 DEF CapacityStep, SetCapacity, Calls
<1>10. CASE UNCHANGED vars
  BY <1>0, <1>10 DEF vars
<1> QED
  BY StepKinds, <1>1, <1>2, <1>3, <1>4, <1>5, <1>6, <1>7, <1>8, <1>9, <1>10

\* As long as the capacity is not changed, producers sleep only while the queue
\* is full.
THEOREM ProducersAreNotOverlooked == Spec => []NoSpaceOverlooked
<1>1. Init => NoSpaceOverlooked
  BY DEF Init, NoSpaceOverlooked
<1> QED
  BY <1>1, SpaceNext, TypeCorrect, PTL DEF Spec

-----------------------------------------------------------------------------
(* No item is overlooked                                                   *)

LEMMA WokenFinite == IsFiniteSet(WokenConsumers)
<1>1. WokenConsumers \subseteq Consumers
  BY DEF WokenConsumers
<1> QED
  BY <1>1, ConstantsAssumption, FS_Subset

\* A push that finds a sleeping consumer wakes one more than were awake.
LEMMA PushWakesOne ==
  ASSUME TypeOK, PushStep, condC # {}
  PROVE  Cardinality(WokenConsumers') = Cardinality(WokenConsumers) + 1
<1>1. PICK t \in Threads, x \in Items :
        /\ Push(t, x)
        /\ t \notin condP \cup condC
        /\ call[t] = NoCall \/ call[t] \in PutCalls
  BY DEF PushStep
<1>2. PICK W \in OneOf(condC) : Wake(t, W, "notified")
  BY <1>1 DEF Push
<1>3. PICK w \in condC : W = {w}
  BY <1>2 DEF OneOf
<1>4. w \in Consumers /\ w \in Threads /\ w # t /\ awake[w] = "no" /\ call[w] \in TakeCalls
  BY <1>1, <1>3 DEF TypeOK, WaitTypes, Threads
<1>5. \A u \in Threads : awake'[u] = IF u = w THEN "notified"
                                     ELSE IF u = t THEN "no" ELSE awake[u]
  BY <1>2, <1>3, WakeEffect DEF Reasons
<1>6. call' = [call EXCEPT ![t] = NoCall] /\ call[t] \notin TakeCalls
  BY <1>1 DEF Push, Return, NoCall, PutCalls, TakeCalls
<1>7. call \in [Threads -> PutCalls \cup TakeCalls \cup {NoCall, ResetCall}]
  BY DEF TypeOK, WaitTypes
<1>8. t \notin WokenConsumers /\ w \notin WokenConsumers
  BY <1>4, <1>6 DEF WokenConsumers
<1>9. WokenConsumers' = WokenConsumers \cup {w}
  <2>1. \A u \in Consumers : u \in WokenConsumers' <=> u \in WokenConsumers \/ u = w
    <3> TAKE u \in Consumers
    <3>1. u \in Threads
      BY DEF Threads
    <3>2. CASE u = t
      <4>1. call'[u] = NoCall /\ NoCall \notin TakeCalls
        BY <1>6, <1>7, <3>1, <3>2 DEF NoCall, TakeCalls
      <4> QED
        BY <1>4, <1>8, <3>2, <4>1 DEF WokenConsumers
    <3>3. CASE u # t
      BY <1>4, <1>5, <1>6, <1>7, <3>1, <3>3 DEF WokenConsumers
    <3> QED
      BY <3>2, <3>3
  <2> QED
    BY <1>4, <2>1 DEF WokenConsumers
<1> QED
  BY <1>8, <1>9, WokenFinite, FS_AddElement

\* A pop takes at most one woken consumer away.
LEMMA PopUsesOne ==
  ASSUME TypeOK, PopStep
  PROVE  Cardinality(WokenConsumers') >= Cardinality(WokenConsumers) - 1
<1>1. PICK t \in Threads : Pop(t)
  BY DEF PopStep
<1>2. /\ call' = [call EXCEPT ![t] = NoCall]
      /\ Wake(t, condP, "notified")
  BY <1>1 DEF Pop, Return
<1>3. \A u \in Threads : awake'[u] = IF u \in condP THEN "notified"
                                     ELSE IF u = t THEN "no" ELSE awake[u]
  BY <1>2, WakeEffect DEF Reasons
<1>4. WokenConsumers \ {t} \subseteq WokenConsumers'
  <2> SUFFICES ASSUME NEW u \in WokenConsumers, u # t PROVE u \in WokenConsumers'
    OBVIOUS
  <2>1. /\ u \in Consumers /\ u \in Threads
        /\ awake[u] \in {"notified", "interrupted"} /\ call[u] \in TakeCalls
    BY DEF WokenConsumers, Threads
  <2>2. awake'[u] \in {"notified", "interrupted"}
    BY <1>3, <2>1
  <2>3. call'[u] = call[u]
    BY <1>2, <2>1 DEF TypeOK, WaitTypes
  <2> QED
    BY <2>1, <2>2, <2>3 DEF WokenConsumers
<1>5. IsFiniteSet(WokenConsumers')
  <2>1. WokenConsumers' \subseteq Consumers
    BY DEF WokenConsumers
  <2> QED
    BY <2>1, ConstantsAssumption, FS_Subset
<1>6. Cardinality(WokenConsumers \ {t}) <= Cardinality(WokenConsumers')
  BY <1>4, <1>5, FS_Subset
<1>7. /\ Cardinality(WokenConsumers \ {t}) \in Nat
      /\ Cardinality(WokenConsumers \ {t}) >= Cardinality(WokenConsumers) - 1
  <2>1. IsFiniteSet(WokenConsumers \ {t})
    BY WokenFinite, FS_RemoveElement
  <2> QED
    BY <2>1, WokenFinite, FS_RemoveElement, FS_CardinalityType
<1>8. Cardinality(WokenConsumers) \in Nat /\ Cardinality(WokenConsumers') \in Nat
  BY <1>5, WokenFinite, FS_CardinalityType
<1> QED
  BY <1>6, <1>7, <1>8

\* A step that ends no take call and wakes or leaves alone every thread that
\* was awake keeps the woken consumers.
LEMMA OthersStayWoken ==
  ASSUME WokenConsumers \subseteq WokenConsumers'
  PROVE  Cardinality(WokenConsumers') >= Cardinality(WokenConsumers)
<1>1. WokenConsumers' \subseteq Consumers
  BY DEF WokenConsumers
<1>2. IsFiniteSet(WokenConsumers')
  BY <1>1, ConstantsAssumption, FS_Subset
<1>3. Cardinality(WokenConsumers) <= Cardinality(WokenConsumers')
  BY <1>2, FS_Subset
<1> QED
  BY <1>2, <1>3, WokenFinite, FS_CardinalityType

\* The number of woken consumers keeps pace with the number of items as long as
\* any consumer sleeps.
LEMMA ItemsNext ==
  ASSUME TypeOK, NobodySleepsInAShutDownQueue, NoItemOverlooked, [Next]_vars
  PROVE  NoItemOverlooked'
<1> SUFFICES ASSUME condC' # {}
             PROVE  Cardinality(WokenConsumers') >= Len(queue')
  BY DEF NoItemOverlooked
<1>0. /\ condC # {} => Cardinality(WokenConsumers) >= Len(queue)
      /\ Cardinality(WokenConsumers) \in Nat
      /\ queue \in Seq(Items) /\ Len(queue) \in Nat
  BY WokenFinite, FS_CardinalityType, LenProperties DEF NoItemOverlooked, TypeOK, DataTypes
<1>00. Cardinality(WokenConsumers') \in Nat
  <2>1. WokenConsumers' \subseteq Consumers
    BY DEF WokenConsumers
  <2> QED
    BY <2>1, ConstantsAssumption, FS_Subset, FS_CardinalityType
<1>1. CASE ThrowStep
  <2>1. PICK t \in Threads, o \in {"timeout", "interrupted"} :
          /\ Throw(t, o) /\ Same
          /\ t \in WokenConsumers => terminated \/ Empty
    BY <1>1 DEF ThrowStep
  <2>2. queue' = queue /\ condC' = condC /\ ~terminated
    BY <2>1 DEF Throw, NobodySleepsInAShutDownQueue
  <2>3. CASE Empty
    BY <1>00, <2>2, <2>3, EmptySeq DEF Empty
  <2>4. CASE t \notin WokenConsumers
    <3>1. /\ call' = [call EXCEPT ![t] = NoCall]
          /\ Wake(t, {}, "notified")
      BY <2>1 DEF Throw, Return
    <3>2. \A u \in Threads : awake'[u] = IF u = t THEN "no" ELSE awake[u]
      BY <3>1, WakeEffect DEF Reasons
    <3>3. WokenConsumers \subseteq WokenConsumers'
      BY <2>4, <3>1, <3>2 DEF WokenConsumers, Threads, TypeOK, WaitTypes
    <3> QED
      BY <1>0, <1>00, <2>2, <3>3, OthersStayWoken
  <2> QED
    BY <2>1, <2>2, <2>3, <2>4
<1>2. CASE PushStep
  <2>1. PICK x \in Items : queue' = Append(queue, x)
    BY <1>2 DEF PushStep, Push
  <2>2. Len(queue') = Len(queue) + 1
    BY <1>0, <2>1, AppendProperties
  <2>3. condC # {}
    BY <1>2 DEF PushStep, Push
  <2> QED
    BY <1>0, <1>00, <1>2, <2>2, <2>3, PushWakesOne
<1>3. CASE PopStep
  <2>1. queue' = Tail(queue) /\ queue # <<>> /\ condC' = condC
    BY <1>3 DEF PopStep, Pop, Empty
  <2>2. Len(queue') = Len(queue) - 1
    BY <1>0, <2>1, HeadTailProperties
  <2> QED
    BY <1>0, <1>00, <1>3, <2>1, <2>2, PopUsesOne
<1>4. CASE WaitPStep
  <2>1. PICK t \in Producers, c \in PutCalls : WaitP(t, c) /\ call[t] = NoCall
    BY <1>4 DEF WaitPStep
  <2>2. WokenConsumers \subseteq WokenConsumers'
    BY <2>1 DEF WaitP, WokenConsumers, TypeOK, WaitTypes, Threads, NoCall, TakeCalls
  <2> QED
    BY <1>0, <1>00, <2>1, <2>2, OthersStayWoken DEF WaitP
<1>5. CASE WaitCStep
  BY <1>00, <1>5, EmptySeq DEF WaitCStep, WaitC, Empty
<1>6. CASE LeaveStep
  <2>1. PICK t \in Threads, why \in {"notified", "timedOut"} : LeavesWait(t, why)
    BY <1>6 DEF LeaveStep
  <2>2. WokenConsumers \subseteq WokenConsumers'
    BY <2>1 DEF LeavesWait, IsBlocked, WokenConsumers, TypeOK, WaitTypes, Threads
  <2>3. queue' = queue /\ condC # {}
    BY <2>1 DEF LeavesWait
  <2> QED
    BY <1>0, <1>00, <2>2, <2>3, OthersStayWoken
<1>7. CASE WakeAllStep
  BY <1>7 DEF WakeAllStep, WakeEveryone
<1>8. CASE EmptyStep
  BY <1>00, <1>8, EmptySeq DEF EmptyStep, Empties
<1>9. CASE FlagStep
  <2>1. PICK t \in Threads : ResetFlag(t)
    BY <1>9 DEF FlagStep
  <2>2. WokenConsumers \subseteq WokenConsumers'
    BY <2>1 DEF ResetFlag, Return, WokenConsumers, TypeOK, WaitTypes, Threads,
                ResetCall, TakeCalls
  <2> QED
    BY <1>0, <1>00, <2>1, <2>2, OthersStayWoken DEF ResetFlag
<1>10. CASE CapacityStep
  BY <1>0, <1>10 DEF CapacityStep, SetCapacity, WokenConsumers
<1>11. CASE UNCHANGED vars
  BY <1>0, <1>11 DEF vars, WokenConsumers
<1> QED
  BY StepKinds, <1>1, <1>2, <1>3, <1>4, <1>5, <1>6, <1>7, <1>8, <1>9, <1>10, <1>11

\* While any consumer sleeps, there are at least as many consumers awake and on
\* their way to the queue as there are items in it: the single notify() of a
\* put is enough, for any number of consumers.
THEOREM ConsumersAreNotOverlooked == Spec => []NoItemOverlooked
<1>1. Init => NoItemOverlooked
  BY DEF Init, NoItemOverlooked
<1> QED
  BY <1>1, ItemsNext, TypeCorrect, ShutDownQueueHasNoSleepers, PTL DEF Spec

-----------------------------------------------------------------------------
(* Who is alone is not woken in vain                                       *)

\* Put and take are called by those whose part it is.
Roles ==
  \A t \in Threads : /\ call[t] \in TakeCalls => t \in Consumers
                     /\ call[t] \in PutCalls => t \in Producers

\* Only a timed call is ended by a clock.
Clocks == \A t \in Threads : awake[t] = "timedOut" => call[t].op \in Timed

\* Nothing is interrupted before somebody asks for it.
Quiet == ~asked => ~terminated /\ \A t \in Threads : awake[t] # "interrupted"

LEMMA QuietNext ==
  ASSUME TypeOK, Roles, Clocks, Quiet, [Next]_vars
  PROVE  Roles' /\ Clocks' /\ Quiet'
<1> USE DEF Roles, Clocks, Quiet
<1>0. /\ awake \in [Threads -> Reasons \cup {"no"}]
      /\ call \in [Threads -> PutCalls \cup TakeCalls \cup {NoCall, ResetCall}]
      /\ condP \subseteq Threads /\ condC \subseteq Threads
      /\ NoCall \notin PutCalls \cup TakeCalls /\ ResetCall \notin PutCalls \cup TakeCalls
  BY DEF TypeOK, WaitTypes, Threads, NoCall, ResetCall, PutCalls, TakeCalls
<1>1. ASSUME NEW t \in Threads, NEW W, Wake(t, W, "notified"), Same,
             call' = [call EXCEPT ![t] = NoCall],
             \A u \in W : awake[u] = "no"
      PROVE  Roles' /\ Clocks' /\ Quiet'
  <2>1. \A u \in Threads : awake'[u] = IF u \in W THEN "notified"
                                       ELSE IF u = t THEN "no" ELSE awake[u]
    BY <1>1, WakeEffect DEF Reasons
  <2>2. \A u \in Threads : call'[u] = IF u = t THEN NoCall ELSE call[u]
    BY <1>0, <1>1
  <2> QED
    BY <1>0, <1>1, <2>1, <2>2 DEF Same
<1>2. CASE ThrowStep
  <2>1. PICK t \in Threads : /\ Wake(t, {}, "notified") /\ Same
                             /\ call' = [call EXCEPT ![t] = NoCall]
    BY <1>2 DEF ThrowStep, Throw, Return
  <2>2. \A u \in Threads : awake'[u] = IF u \in {} THEN "notified"
                                       ELSE IF u = t THEN "no" ELSE awake[u]
    BY <2>1, WakeEffect DEF Reasons
  <2>3. \A u \in Threads : call'[u] = IF u = t THEN NoCall ELSE call[u]
    BY <1>0, <2>1
  <2> QED
    BY <1>0, <2>1, <2>2, <2>3 DEF Same
<1>3. CASE PushStep
  <2>1. PICK t \in Threads, x \in Items : Push(t, x) /\ Same
    BY <1>3 DEF PushStep
  <2>2. PICK W \in OneOf(condC) : Wake(t, W, "notified")
    BY <2>1 DEF Push
  <2>3. \A u \in W : awake[u] = "no"
    BY <2>2 DEF OneOf, TypeOK, WaitTypes
  <2> QED
    BY <1>1, <2>1, <2>2, <2>3 DEF Push, Return
<1>4. CASE PopStep
  <2>1. PICK t \in Threads : Pop(t) /\ Same
    BY <1>4 DEF PopStep
  <2>2. \A u \in condP : awake[u] = "no"
    BY DEF TypeOK, WaitTypes
  <2> QED
    BY <1>1, <2>1, <2>2 DEF Pop, Return
<1>5. CASE WaitPStep \/ WaitCStep
  <2>1. PICK t \in Threads, c \in PutCalls \cup TakeCalls :
          /\ call[t] = NoCall /\ call' = [call EXCEPT ![t] = c]
          /\ awake' = awake /\ Same
          /\ (c \in PutCalls /\ t \in Producers) \/ (c \in TakeCalls /\ t \in Consumers)
    BY <1>5 DEF WaitPStep, WaitCStep, WaitP, WaitC, Threads
  <2>2. awake[t] = "no"
    BY <2>1, IdleThread
  <2>3. PutCalls \cap TakeCalls = {}
    BY DEF PutCalls, TakeCalls
  <2> QED
    BY <1>0, <2>1, <2>2, <2>3 DEF Same
<1>6. CASE LeaveStep
  BY <1>0, <1>6 DEF LeaveStep, LeavesWait, IsBlocked
<1>7. CASE WakeAllStep
  BY <1>0, <1>7 DEF WakeAllStep, WakeEveryone
<1>8. CASE EmptyStep
  <2>1. awake' = [u \in Threads |-> IF u \in condP THEN "notified" ELSE awake[u]]
    BY <1>8 DEF EmptyStep, Empties
  <2>2. UNCHANGED <<terminated, asked>>
    BY <1>8 DEF EmptyStep, Empties
  <2>3. CASE UNCHANGED call
    BY <1>0, <2>1, <2>2, <2>3
  <2>4. CASE \E t \in Threads : call[t] = NoCall /\ call' = [call EXCEPT ![t] = ResetCall]
    <3>1. PICK t \in Threads : call[t] = NoCall /\ call' = [call EXCEPT ![t] = ResetCall]
      BY <2>4
    <3>2. awake[t] = "no" /\ t \notin condP
      BY <3>1, IdleThread
    <3> QED
      BY <1>0, <2>1, <2>2, <3>1, <3>2
  <2> QED
    BY <1>8, <2>3, <2>4 DEF EmptyStep
<1>9. CASE FlagStep
  <2>1. PICK t \in Threads : ResetFlag(t)
    BY <1>9 DEF FlagStep
  <2>2. awake[t] = "no"
    BY <2>1, IdleThread DEF ResetFlag
  <2> QED
    BY <1>0, <2>1, <2>2 DEF ResetFlag, Return
<1>10. CASE CapacityStep
  BY <1>10 DEF CapacityStep, SetCapacity
<1>11. CASE UNCHANGED vars
  BY <1>11 DEF vars
<1> QED
  BY StepKinds, <1>2, <1>3, <1>4, <1>5, <1>6, <1>7, <1>8, <1>9, <1>10, <1>11

LEMMA QuietAlways == Spec => [](Roles /\ Clocks /\ Quiet)
<1>1. Init => Roles /\ Clocks /\ Quiet
  BY DEF Init, Roles, Clocks, Quiet, NoCall, TakeCalls, PutCalls, Threads
<1> QED
  BY <1>1, QuietNext, TypeCorrect, PTL DEF Spec

\* The only consumer was notified for an item, and nobody else can take it.
ItemIsThere ==
  \A t \in Consumers : awake[t] = "notified" /\ call[t] \in TakeCalls => ~Empty

LEMMA ItemNext ==
  ASSUME SoleConsumer, TypeOK, Roles, ItemIsThere, [Next]_vars
  PROVE  ItemIsThere'
<1> SUFFICES ASSUME NEW u \in Consumers, awake'[u] = "notified", call'[u] \in TakeCalls
             PROVE  queue' # <<>>
  BY DEF ItemIsThere, Empty
<1>0. /\ u \in Threads /\ NoCall \notin TakeCalls /\ ResetCall \notin TakeCalls
      /\ awake \in [Threads -> Reasons \cup {"no"}]
      /\ call \in [Threads -> PutCalls \cup TakeCalls \cup {NoCall, ResetCall}]
  BY DEF Threads, TypeOK, WaitTypes, NoCall, ResetCall, TakeCalls
<1>00. awake[u] = "notified" /\ call[u] \in TakeCalls => queue # <<>>
  BY DEF ItemIsThere, Empty
<1>1. CASE ThrowStep
  <2>1. PICK t \in Threads : /\ Wake(t, {}, "notified") /\ queue' = queue
                             /\ call' = [call EXCEPT ![t] = NoCall]
    BY <1>1 DEF ThrowStep, Throw, Return
  <2>2. u # t /\ awake'[u] = awake[u] /\ call'[u] = call[u]
    BY <1>0, <2>1, WakeEffect DEF Reasons
  <2> QED
    BY <1>00, <2>1, <2>2
<1>2. CASE PushStep
  BY <1>2, AppendProperties DEF PushStep, Push, TypeOK, DataTypes
<1>3. CASE PopStep
  <2>1. PICK t \in Threads : /\ call' = [call EXCEPT ![t] = NoCall]
                             /\ call[t] \in TakeCalls \/ t \in Consumers
    BY <1>3 DEF PopStep, Pop, Return
  <2>2. t = u
    BY <2>1 DEF SoleConsumer, Roles
  <2> QED
    BY <1>0, <2>1, <2>2
<1>4. CASE WaitPStep \/ WaitCStep
  <2>1. PICK t \in Threads, c \in PutCalls \cup TakeCalls :
          /\ call[t] = NoCall /\ call' = [call EXCEPT ![t] = c]
          /\ awake' = awake /\ queue' = queue
    BY <1>4 DEF WaitPStep, WaitCStep, WaitP, WaitC, Threads
  <2>2. awake[t] = "no"
    BY <2>1, IdleThread
  <2> QED
    BY <1>0, <1>00, <2>1, <2>2
<1>5. CASE LeaveStep
  BY <1>0, <1>00, <1>5 DEF LeaveStep, LeavesWait, SoleConsumer
<1>6. CASE WakeAllStep
  BY <1>0, <1>00, <1>6 DEF WakeAllStep, WakeEveryone
<1>7. CASE EmptyStep
  BY <1>7 DEF EmptyStep, SoleConsumer
<1>8. CASE FlagStep
  BY <1>0, <1>00, <1>8 DEF FlagStep, ResetFlag, Return
<1>9. CASE CapacityStep
  BY <1>00, <1>9 DEF CapacityStep, SetCapacity
<1>10. CASE UNCHANGED vars
  BY <1>00, <1>10 DEF vars
<1> QED
  BY StepKinds, <1>1, <1>2, <1>3, <1>4, <1>5, <1>6, <1>7, <1>8, <1>9, <1>10

\* What a call that ends with an InterruptedException has met.
LEMMA InterruptedStep ==
  ASSUME TypeOK, [Next]_vars, last'.outcome = "interrupted"
  PROVE  \/ last' = last
         \/ \E t \in Threads : /\ last'.thread = t /\ asked' = asked
                               /\ terminated \/ InVain(t)
<1>1. CASE ThrowStep
  <2>1. PICK t \in Threads, o \in {"timeout", "interrupted"} :
          /\ Throw(t, o) /\ Same
          /\ o = "interrupted" => terminated \/ InVain(t)
    BY <1>1 DEF ThrowStep
  <2>2. last' = [thread |-> t, outcome |-> o, item |-> NoItem]
    BY <2>1 DEF Throw, Return
  <2> QED
    BY <2>1, <2>2 DEF Same
<1>2. CASE PushStep
  <2>1. PICK t \in Threads : last' = [thread |-> t, outcome |-> "ok", item |-> NoItem]
    BY <1>2 DEF PushStep, Push, Return
  <2> QED
    BY <2>1
<1>3. CASE PopStep
  <2>1. PICK t \in Threads : last' = [thread |-> t, outcome |-> "ok", item |-> Head(queue)]
    BY <1>3 DEF PopStep, Pop, Return
  <2> QED
    BY <2>1
<1>4. CASE FlagStep
  <2>1. PICK t \in Threads : last' = [thread |-> t, outcome |-> "ok", item |-> NoItem]
    BY <1>4 DEF FlagStep, ResetFlag, Return
  <2> QED
    BY <2>1
<1>5. CASE WaitPStep \/ WaitCStep \/ LeaveStep
  BY <1>5 DEF WaitPStep, WaitP, WaitCStep, WaitC, LeaveStep, LeavesWait
<1>6. CASE WakeAllStep \/ EmptyStep \/ CapacityStep \/ UNCHANGED vars
  BY <1>6 DEF WakeAllStep, EmptyStep, Empties, CapacityStep, SetCapacity, vars
<1> QED
  BY StepKinds, <1>1, <1>2, <1>3, <1>4, <1>5, <1>6

LEMMA AskedStays == TypeOK /\ [Next]_vars /\ asked => asked'
<1> SUFFICES ASSUME TypeOK, [Next]_vars, asked PROVE asked'
  OBVIOUS
<1>1. CASE ThrowStep \/ PushStep \/ PopStep \/ WaitPStep \/ WaitCStep
  BY <1>1 DEF ThrowStep, PushStep, PopStep, WaitPStep, WaitCStep, Same
<1>2. CASE LeaveStep \/ WakeAllStep \/ EmptyStep \/ FlagStep \/ CapacityStep \/ UNCHANGED vars
  BY <1>2 DEF LeaveStep, LeavesWait, WakeAllStep, WakeEveryone, EmptyStep, Empties,
              FlagStep, ResetFlag, CapacityStep, SetCapacity, vars
<1> QED
  BY StepKinds, <1>1, <1>2

\* A consumer that has no other beside it leaves take() with an
\* InterruptedException only if interrupt() or shutdown() was called, whatever
\* any number of producers do: the documentation is true of such a queue.
THEOREM SoleConsumerIsInterruptedOnlyIfAsked ==
  Spec => []SoleConsumerInterruptedOnlyIfAsked
<1> DEFINE Unasked == last.outcome = "interrupted" /\ last.thread \in Consumers \ Producers
                        => asked
<1>1. Init => ItemIsThere /\ Unasked
  BY DEF Init, ItemIsThere, NoReply, Threads
<1>2. ASSUME SoleConsumer, TypeOK, Roles, Clocks, Quiet, ItemIsThere, Unasked, [Next]_vars
      PROVE  Unasked'
  <2> SUFFICES ASSUME last'.outcome = "interrupted", last'.thread \in Consumers \ Producers,
                      ~asked'
               PROVE  FALSE
    OBVIOUS
  <2>1. ~asked
    BY <1>2, AskedStays
  <2>2. last' # last
    BY <1>2, <2>1
  <2>3. PICK t \in Threads : last'.thread = t /\ (terminated \/ InVain(t))
    BY <1>2, <2>2, InterruptedStep
  <2>4. InVain(t) /\ t \in Consumers /\ t \notin Producers
    BY <1>2, <2>1, <2>3 DEF Quiet
  <2>5. call[t] \in TakeCalls /\ Empty
    BY <1>2, <2>4 DEF InVain, Roles, Threads
  <2>6. awake[t] = "notified"
    BY <1>2, <2>1, <2>3, <2>4 DEF InVain, Clocks, Quiet, CanResume, TypeOK, WaitTypes, Reasons
  <2> QED
    BY <1>2, <2>4, <2>5, <2>6 DEF ItemIsThere
<1>3. ASSUME SoleConsumer PROVE Spec => []Unasked
  <2>1. TypeOK /\ Roles /\ ItemIsThere /\ [Next]_vars => ItemIsThere'
    BY <1>3, ItemNext
  <2>2. TypeOK /\ Roles /\ Clocks /\ Quiet /\ ItemIsThere /\ Unasked /\ [Next]_vars => Unasked'
    BY <1>2, <1>3
  <2> HIDE DEF Unasked
  <2> QED
    BY <1>1, <2>1, <2>2, TypeCorrect, QuietAlways, PTL DEF Spec
<1>4. CASE SoleConsumer
  <2>1. Unasked => SoleConsumerInterruptedOnlyIfAsked
    BY DEF SoleConsumerInterruptedOnlyIfAsked
  <2> HIDE DEF Unasked
  <2> QED
    BY <1>3, <1>4, <2>1, PTL
<1>5. CASE ~SoleConsumer
  <2>1. SoleConsumerInterruptedOnlyIfAsked
    BY <1>5 DEF SoleConsumerInterruptedOnlyIfAsked
  <2> QED
    BY <2>1, PTL
<1> QED
  BY <1>4, <1>5

\* The only producer was notified of space, and nobody else can fill it.
SpaceIsThere ==
  /\ capacity > 0 /\ Len(queue) <= capacity
  /\ \A t \in Producers : awake[t] = "notified" /\ call[t] \in PutCalls => ~Full

LEMMA SpaceThereNext ==
  ASSUME SoleProducer, TypeOK, Roles, SpaceIsThere, [Next]_vars
  PROVE  SpaceIsThere'
<1>0. /\ awake \in [Threads -> Reasons \cup {"no"}]
      /\ call \in [Threads -> PutCalls \cup TakeCalls \cup {NoCall, ResetCall}]
      /\ NoCall \notin PutCalls /\ ResetCall \notin PutCalls /\ Producers \subseteq Threads
      /\ queue \in Seq(Items) /\ capacity \in Nat /\ Len(queue) \in Nat
  BY LenProperties DEF Threads, TypeOK, WaitTypes, DataTypes, NoCall, ResetCall, PutCalls
<1>00. /\ capacity > 0 /\ Len(queue) <= capacity
       /\ \A t \in Producers : awake[t] = "notified" /\ call[t] \in PutCalls => ~Full
  BY DEF SpaceIsThere
<1>1. CASE ThrowStep
  <2>1. PICK t \in Threads : /\ Wake(t, {}, "notified") /\ Same /\ queue' = queue
                             /\ call' = [call EXCEPT ![t] = NoCall]
    BY <1>1 DEF ThrowStep, Throw, Return
  <2>2. \A u \in Threads : awake'[u] = IF u \in {} THEN "notified"
                                       ELSE IF u = t THEN "no" ELSE awake[u]
    BY <2>1, WakeEffect DEF Reasons
  <2>3. \A u \in Threads : call'[u] = IF u = t THEN NoCall ELSE call[u]
    BY <1>0, <2>1
  <2> QED
    BY <1>0, <1>00, <2>1, <2>2, <2>3 DEF SpaceIsThere, Full, Same
<1>2. CASE PushStep
  <2>1. PICK t \in Threads, x \in Items :
          /\ Push(t, x) /\ Same /\ ~Full
          /\ call[t] \in PutCalls \/ t \in Producers
    BY <1>2 DEF PushStep
  <2>2. /\ queue' = Append(queue, x) /\ capacity' = capacity
        /\ call' = [call EXCEPT ![t] = NoCall]
    BY <2>1 DEF Push, Return, Same
  <2>3. Len(queue') <= capacity'
    BY <1>0, <1>00, <2>1, <2>2, AppendProperties DEF Full
  <2>4. \A u \in Producers : u = t
    BY <2>1 DEF SoleProducer, Roles
  <2>5. \A u \in Producers : call'[u] \notin PutCalls
    BY <1>0, <2>2, <2>4
  <2> QED
    BY <1>00, <2>2, <2>3, <2>5 DEF SpaceIsThere
<1>3. CASE PopStep
  <2>1. queue' = Tail(queue) /\ queue # <<>>
    BY <1>3 DEF PopStep, Pop, Empty
  <2>2. Len(queue') = Len(queue) - 1
    BY <1>0, <2>1, HeadTailProperties
  <2>3. capacity' = capacity
    BY <1>3 DEF PopStep, Same
  <2>4. capacity' > 0 /\ Len(queue') <= capacity' /\ Len(queue') # capacity'
    BY <1>0, <1>00, <2>2, <2>3
  <2> QED
    BY <2>4 DEF SpaceIsThere, Full
<1>4. CASE WaitPStep \/ WaitCStep
  <2>1. PICK t \in Threads, c \in PutCalls \cup TakeCalls :
          /\ call[t] = NoCall /\ call' = [call EXCEPT ![t] = c]
          /\ awake' = awake /\ queue' = queue /\ capacity' = capacity
    BY <1>4 DEF WaitPStep, WaitCStep, WaitP, WaitC, Threads, Same
  <2>2. awake[t] = "no"
    BY <2>1, IdleThread
  <2> QED
    BY <1>0, <1>00, <2>1, <2>2 DEF SpaceIsThere, Full
<1>5. CASE LeaveStep
  BY <1>0, <1>00, <1>5 DEF LeaveStep, LeavesWait, SoleProducer, SpaceIsThere, Full
<1>6. CASE WakeAllStep
  BY <1>0, <1>00, <1>6 DEF WakeAllStep, WakeEveryone, SpaceIsThere, Full
<1>7. CASE EmptyStep
  BY <1>0, <1>00, <1>7, EmptySeq DEF EmptyStep, Empties, SpaceIsThere, Full
<1>8. CASE FlagStep
  BY <1>0, <1>00, <1>8 DEF FlagStep, ResetFlag, Return, SpaceIsThere, Full
<1>9. CASE CapacityStep
  BY <1>9 DEF CapacityStep, SetCapacity, Calls, SoleProducer
<1>10. CASE UNCHANGED vars
  BY <1>00, <1>10 DEF vars, SpaceIsThere, Full
<1> QED
  BY StepKinds, <1>1, <1>2, <1>3, <1>4, <1>5, <1>6, <1>7, <1>8, <1>9, <1>10

\* A producer that has no other beside it leaves put() with an
\* InterruptedException only if interrupt() or shutdown() was called, as long
\* as the capacity is not changed: it is woken by a take or by clear(), and
\* the space that they made is still there when it has the mutex again.
THEOREM SoleProducerIsInterruptedOnlyIfAsked ==
  Spec => []SoleProducerInterruptedOnlyIfAsked
<1> DEFINE Unasked == last.outcome = "interrupted" /\ last.thread \in Producers \ Consumers
                        => asked
<1>1. SoleProducer /\ Init => SpaceIsThere /\ Unasked
  <2>1. Init => Len(queue) = 0 /\ InitCapacity \in Nat
    BY ConstantsAssumption, EmptySeq DEF Init
  <2> QED
    BY <2>1 DEF SoleProducer, Init, SpaceIsThere, NoReply, Threads
<1>2. ASSUME SoleProducer, TypeOK, Roles, Clocks, Quiet, SpaceIsThere, Unasked, [Next]_vars
      PROVE  Unasked'
  <2> SUFFICES ASSUME last'.outcome = "interrupted", last'.thread \in Producers \ Consumers,
                      ~asked'
               PROVE  FALSE
    OBVIOUS
  <2>1. ~asked
    BY <1>2, AskedStays
  <2>2. last' # last
    BY <1>2, <2>1
  <2>3. PICK t \in Threads : last'.thread = t /\ (terminated \/ InVain(t))
    BY <1>2, <2>2, InterruptedStep
  <2>4. InVain(t) /\ t \in Producers /\ t \notin Consumers
    BY <1>2, <2>1, <2>3 DEF Quiet
  <2>5. call[t] \in PutCalls /\ Full
    BY <1>2, <2>4 DEF InVain, Roles, Threads
  <2>6. awake[t] = "notified"
    BY <1>2, <2>1, <2>3, <2>4 DEF InVain, Clocks, Quiet, CanResume, TypeOK, WaitTypes, Reasons
  <2> QED
    BY <1>2, <2>4, <2>5, <2>6 DEF SpaceIsThere
<1>3. ASSUME SoleProducer PROVE Spec => []Unasked
  <2>1. TypeOK /\ Roles /\ SpaceIsThere /\ [Next]_vars => SpaceIsThere'
    BY <1>3, SpaceThereNext
  <2>2. TypeOK /\ Roles /\ Clocks /\ Quiet /\ SpaceIsThere /\ Unasked /\ [Next]_vars => Unasked'
    BY <1>2, <1>3
  <2>3. Init => SpaceIsThere /\ Unasked
    BY <1>1, <1>3
  <2> HIDE DEF Unasked
  <2> QED
    BY <2>1, <2>2, <2>3, TypeCorrect, QuietAlways, PTL DEF Spec
<1>4. CASE SoleProducer
  <2>1. Unasked => SoleProducerInterruptedOnlyIfAsked
    BY DEF SoleProducerInterruptedOnlyIfAsked
  <2> HIDE DEF Unasked
  <2> QED
    BY <1>3, <1>4, <2>1, PTL
<1>5. CASE ~SoleProducer
  <2>1. SoleProducerInterruptedOnlyIfAsked
    BY <1>5 DEF SoleProducerInterruptedOnlyIfAsked
  <2> QED
    BY <2>1, PTL
<1> QED
  BY <1>4, <1>5

-----------------------------------------------------------------------------
(* What the liveness of the calls rests on                                 *)

\* A thread in the middle of a put or take is asleep, or was woken.
NobodyIsLost ==
  \A t \in Threads : call[t] \in PutCalls \cup TakeCalls => IsBlocked(t) \/ CanResume(t)

\* Both facts about a thread in a call, kind of step by kind of step.
LEMMA ReleasedNext ==
  ASSUME TypeOK, NobodyIsLost, [Next]_vars
  PROVE  /\ NobodyIsLost'
         /\ \A t \in Threads : CanResume(t) => CanResume(t)' \/ call'[t] = NoCall
<1> USE DEF NobodyIsLost, IsBlocked, CanResume
<1>0. /\ awake \in [Threads -> Reasons \cup {"no"}]
      /\ call \in [Threads -> PutCalls \cup TakeCalls \cup {NoCall, ResetCall}]
      /\ condP \subseteq Threads /\ condC \subseteq Threads /\ "no" \notin Reasons
      /\ NoCall \notin PutCalls \cup TakeCalls /\ ResetCall \notin PutCalls \cup TakeCalls
  BY DEF TypeOK, WaitTypes, Threads, NoCall, ResetCall, PutCalls, TakeCalls, Reasons
<1>1. ASSUME NEW t \in Threads, NEW W, Wake(t, W, "notified"),
             call' = [call EXCEPT ![t] = NoCall],
             condP \cup condC \subseteq condP' \cup condC' \cup W
      PROVE  /\ NobodyIsLost'
             /\ \A u \in Threads : CanResume(u) => CanResume(u)' \/ call'[u] = NoCall
  <2>1. \A u \in Threads : awake'[u] = IF u \in W THEN "notified"
                                       ELSE IF u = t THEN "no" ELSE awake[u]
    BY <1>1, WakeEffect DEF Reasons
  <2>2. \A u \in Threads : call'[u] = IF u = t THEN NoCall ELSE call[u]
    BY <1>0, <1>1
  <2> QED
    BY <1>0, <1>1, <2>1, <2>2
<1>2. CASE ThrowStep \/ PushStep \/ PopStep
  <2>1. PICK t \in Threads, W \in SUBSET (condP \cup condC) :
          /\ Wake(t, W, "notified") /\ call' = [call EXCEPT ![t] = NoCall]
          /\ condP \cup condC \subseteq condP' \cup condC' \cup W
    <3>1. CASE ThrowStep
      BY <3>1 DEF ThrowStep, Throw, Return
    <3>2. CASE PushStep
      <4>1. PICK t \in Threads, W \in OneOf(condC) :
              /\ condC' = condC \ W /\ Wake(t, W, "notified") /\ condP' = condP
              /\ call' = [call EXCEPT ![t] = NoCall]
        BY <3>2 DEF PushStep, Push, Return
      <4>2. W \subseteq condC
        BY DEF OneOf
      <4> QED
        BY <4>1, <4>2
    <3>3. CASE PopStep
      BY <3>3 DEF PopStep, Pop, Return
    <3> QED
      BY <1>2, <3>1, <3>2, <3>3
  <2> QED
    BY <1>1, <2>1
<1>3. CASE WaitPStep \/ WaitCStep
  BY <1>0, <1>3 DEF WaitPStep, WaitCStep, WaitP, WaitC, Threads
<1>4. CASE LeaveStep
  BY <1>0, <1>4 DEF LeaveStep, LeavesWait, Reasons
<1>5. CASE WakeAllStep
  BY <1>0, <1>5 DEF WakeAllStep, WakeEveryone
<1>6. CASE EmptyStep
  BY <1>0, <1>6 DEF EmptyStep, Empties
<1>7. CASE FlagStep
  BY <1>0, <1>7 DEF FlagStep, ResetFlag, Return
<1>8. CASE CapacityStep
  BY <1>8 DEF CapacityStep, SetCapacity
<1>9. CASE UNCHANGED vars
  BY <1>9 DEF vars
<1> QED
  BY StepKinds, <1>2, <1>3, <1>4, <1>5, <1>6, <1>7, <1>8, <1>9

\* A call waits at most once: a thread that was woken stays woken until its
\* call ends.  With a fair scheduler every woken thread therefore returns.
THEOREM CallsWaitOnce == Spec => WaitsOnce
<1>1. Init => NobodyIsLost
  BY DEF Init, NobodyIsLost, NoCall, PutCalls, TakeCalls
<1>2. TypeOK /\ NobodyIsLost /\ [Next]_vars =>
        /\ NobodyIsLost'
        /\ [\A t \in Threads : CanResume(t) => CanResume(t)' \/ call'[t] = NoCall]_vars
  BY ReleasedNext
<1> QED
  BY <1>1, <1>2, TypeCorrect, PTL DEF Spec, WaitsOnce

\* Once the queue is shut down, and until it is reset, no call waits for
\* anything but the processor: this is all that shutdown() has to do for the
\* calls to return.
THEOREM CallsGoOnAfterShutdown == Spec => []ShutDownCallsGoOn
<1>1. Init => NobodyIsLost
  BY DEF Init, NobodyIsLost, NoCall, PutCalls, TakeCalls
<1>2. TypeOK /\ NobodyIsLost /\ NobodySleepsInAShutDownQueue => ShutDownCallsGoOn
  BY DEF NobodyIsLost, NobodySleepsInAShutDownQueue, ShutDownCallsGoOn, IsBlocked, TypeOK,
         WaitTypes
<1>3. TypeOK /\ NobodyIsLost /\ [Next]_vars => NobodyIsLost'
  BY ReleasedNext
<1> QED
  BY <1>1, <1>2, <1>3, TypeCorrect, ShutDownQueueHasNoSleepers, PTL DEF Spec

\* Every operation that takes items away, take and clear alike, leaves no
\* producer asleep: a blocked put needs one such operation to go on.
THEOREM TakesWakeProducers == Spec => ProducersWokenByTake
<1>1. ASSUME TypeOK, [Next]_vars, Len(queue') < Len(queue)
      PROVE  condP' = {}
  <2>0. queue \in Seq(Items) /\ Len(queue) \in Nat
    BY <1>1, LenProperties DEF TypeOK, DataTypes
  <2>1. queue' # queue
    BY <1>1, <2>0
  <2>2. CASE PushStep
    <3>1. PICK x \in Items : queue' = Append(queue, x)
      BY <2>2 DEF PushStep, Push
    <3> QED
      BY <1>1, <2>0, <3>1, AppendProperties
  <2>3. CASE PopStep \/ EmptyStep
    BY <2>3 DEF PopStep, Pop, EmptyStep, Empties
  <2>4. CASE \/ ThrowStep \/ WaitPStep \/ WaitCStep \/ LeaveStep \/ WakeAllStep
             \/ FlagStep \/ CapacityStep \/ UNCHANGED vars
    BY <2>1, <2>4 DEF ThrowStep, Throw, WaitPStep, WaitP, WaitCStep, WaitC, LeaveStep,
       LeavesWait, WakeAllStep, FlagStep, ResetFlag, CapacityStep, SetCapacity, vars
  <2> QED
    BY <1>1, <2>2, <2>3, <2>4, StepKinds
<1>2. TypeOK /\ [Next]_vars => [Len(queue') < Len(queue) => condP' = {}]_vars
  BY <1>1
<1> QED
  BY <1>2, TypeCorrect, PTL DEF Spec, ProducersWokenByTake

-----------------------------------------------------------------------------
(* The queue is a FIFO channel                                             *)

LEMMA ChannelInit == Init => Channel!Init
BY ConstantsAssumption
   DEF Init, Channel!Init, Channel!NoCall, Channel!NoReply, NoCall, NoReply

\* Every kind of step is a step of the channel, or is invisible to it.
LEMMA ChannelNext ==
  ASSUME TypeOK, CapacityRespected, ~LowerBelowSize, [Next]_vars
  PROVE  [Channel!Next]_Channel!vars
<1> USE DEF Channel!vars
<1>0. Len(queue) \in Nat /\ capacity \in Nat /\ Len(queue) <= capacity
  BY LenProperties DEF TypeOK, DataTypes, CapacityRespected
<1>1. CASE ThrowStep
  <2>1. PICK t \in Threads, o \in {"timeout", "interrupted"} : Throw(t, o) /\ Same
    BY <1>1 DEF ThrowStep
  <2>2. Channel!Fail(t)
    BY <2>1 DEF Throw, Return, Same, NoCall, Channel!Fail, Channel!Answer, Channel!NoCall
  <2> QED
    BY <2>2 DEF Channel!Next
<1>2. CASE PushStep
  <2>1. PICK t \in Threads, x \in Items :
          /\ Push(t, x) /\ Same /\ ~Full
          /\ call[t] = NoCall \/ (call[t] \in PutCalls /\ call[t].item = x)
    BY <1>2 DEF PushStep
  <2>2. Len(queue) < capacity
    BY <1>0, <2>1 DEF Full
  <2>3. Channel!Answer(t, "ok", NoItem)
    BY <2>1 DEF Push, Return, NoCall, Channel!Answer, Channel!NoCall
  <2>4. \/ call[t] = Channel!NoCall
        \/ call[t].op \in {"put", "tryPut"} /\ call[t].item = x
    BY <2>1 DEF NoCall, Channel!NoCall, PutCalls
  <2>5. Channel!Accept(t, x)
    BY <2>1, <2>2, <2>3, <2>4 DEF Push, Same, Channel!Accept
  <2> QED
    BY <2>5 DEF Channel!Next
<1>3. CASE PopStep
  <2>1. PICK t \in Threads :
          /\ Pop(t) /\ Same /\ ~Empty
          /\ call[t] = NoCall \/ call[t] \in TakeCalls
    BY <1>3 DEF PopStep
  <2>2. Channel!Answer(t, "ok", Head(queue))
    BY <2>1 DEF Pop, Return, NoCall, Channel!Answer, Channel!NoCall
  <2>3. call[t] = Channel!NoCall \/ call[t].op \in {"take", "tryTake"}
    BY <2>1 DEF NoCall, Channel!NoCall, TakeCalls
  <2>4. Channel!HandOn(t)
    BY <2>1, <2>2, <2>3 DEF Pop, Same, Empty, Channel!HandOn
  <2> QED
    BY <2>4 DEF Channel!Next
<1>4. CASE WaitPStep \/ WaitCStep
  <2>1. PICK t \in Threads, c \in PutCalls \cup TakeCalls :
          /\ WaitP(t, c) \/ WaitC(t, c)
          /\ Same /\ call[t] = NoCall
    BY <1>4 DEF WaitPStep, WaitCStep, Threads
  <2>2. c \in Channel!Calls /\ c.op # "reset"
    BY DEF PutCalls, TakeCalls, Channel!Calls
  <2>3. Channel!Begin(t, c)
    BY <2>1, <2>2 DEF WaitP, WaitC, Same, NoCall, Channel!Begin, Channel!NoCall
  <2> QED
    BY <2>2, <2>3 DEF Channel!Next
<1>5. CASE LeaveStep
  BY <1>5 DEF LeaveStep, LeavesWait
<1>6. CASE WakeAllStep
  BY <1>6 DEF WakeAllStep
<1>7. CASE EmptyStep
  <2>1. queue' = <<>> /\ UNCHANGED <<capacity, last>>
    BY <1>7 DEF EmptyStep, Empties
  <2>2. CASE UNCHANGED call
    BY <2>1, <2>2 DEF Channel!Next, Channel!Discard
  <2>3. CASE \E t \in Threads : call[t] = NoCall /\ call' = [call EXCEPT ![t] = ResetCall]
    <3>1. PICK t \in Threads : call[t] = NoCall /\ call' = [call EXCEPT ![t] = ResetCall]
      BY <2>3
    <3>2. ResetCall \in Channel!Calls /\ ResetCall.op = "reset"
      BY DEF ResetCall, Channel!Calls
    <3>3. Channel!Begin(t, ResetCall)
      BY <2>1, <3>1, <3>2 DEF NoCall, Channel!Begin, Channel!NoCall
    <3> QED
      BY <3>2, <3>3 DEF Channel!Next
  <2> QED
    BY <1>7, <2>2, <2>3 DEF EmptyStep
<1>8. CASE FlagStep
  <2>1. PICK t \in Threads : ResetFlag(t)
    BY <1>8 DEF FlagStep
  <2>2. Channel!Finish(t)
    BY <2>1 DEF ResetFlag, Return, ResetCall, NoCall, Channel!Finish, Channel!Answer,
                Channel!NoCall
  <2> QED
    BY <2>2 DEF Channel!Next
<1>9. CASE CapacityStep
  <2>1. capacity' \in Nat /\ capacity' >= Len(queue) /\ UNCHANGED <<queue, call, last>>
    BY <1>0, <1>9, ConstantsAssumption DEF CapacityStep, SetCapacity
  <2> QED
    BY <2>1 DEF Channel!Next, Channel!Resize
<1>10. CASE UNCHANGED vars
  BY <1>10 DEF vars
<1> QED
  BY StepKinds, <1>1, <1>2, <1>3, <1>4, <1>5, <1>6, <1>7, <1>8, <1>9, <1>10

\* If nobody lowers the capacity below the size, the queue implements the
\* channel: each item is handed on once and in the order it was accepted, each
\* call takes effect at one instant, and one that throws has no effect.
THEOREM QueueIsFifoChannel ==
  ASSUME ~LowerBelowSize PROVE Spec => IsFifoChannel
<1>1. TypeOK /\ CapacityRespected /\ [Next]_vars => [Channel!Next]_Channel!vars
  BY ChannelNext
<1> QED
  BY <1>1, ChannelInit, TypeCorrect, CapacityIsRespected, PTL
     DEF Spec, IsFifoChannel, Channel!Spec
=============================================================================
