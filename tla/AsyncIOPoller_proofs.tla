------------------------ MODULE AsyncIOPoller_proofs ------------------------
(***************************************************************************)
(* Proofs about AsyncIOPoller for any set of tasks.  Results are collected *)
(* in three calls (isCompleted, waitFor, and the next request, which drops *)
(* one); the invariant says what _pending and _haveResult mean in between. *)
(* For poll() it says when the array is that of the registered tasks.      *)
(***************************************************************************)
EXTENDS AsyncIOPoller, TLAPS

\* _pending is set for every request that the system has.
PendingIsRequested == \A t \in Tasks : io[t] = "inProgress" => pending[t]

IInv ==
  TypeOK /\ ResultIsCollectedOnce /\ NotYetMeansInProgress /\ PendingIsRequested

LEMMA IInvInit == Init => IInv
BY PollerAssumption
   DEF Init, TaskInit, IInv, TypeOK, TaskTypeOK, ResultIsCollectedOnce,
       NotYetMeansInProgress, PendingIsRequested, NotYet, States, Finished,
       NoAnswer

\* What collecting does, whichever call it is done for.
LEMMA CollectNext ==
  ASSUME IInv, NEW t \in Tasks, NEW call, Collect(call, t), UNCHANGED pvars,
         pending[t], ~haveResult[t], at # "polling", at # "pollingForever"
  PROVE  IInv'
<1> USE DEF IInv, TypeOK, TaskTypeOK, ResultIsCollectedOnce, NotYetMeansInProgress,
            PendingIsRequested, NotYet, Done, States, Finished, Says, pvars
<1>1. CASE io[t] = "moved"
  <2>1. /\ UNCHANGED <<io, pending, buffered>>
        /\ haveResult' = [haveResult EXCEPT ![t] = TRUE]
        /\ bumped' = [bumped EXCEPT ![t] = IF buffered[t] THEN bumped[t] + 1 ELSE bumped[t]]
        /\ at' = "idle" /\ task' = NoTask /\ answer'.says = "true"
    BY <1>1 DEF Collect
  <2>2. bumped[t] = 0
    OBVIOUS
  <2>3. bumped' = [bumped EXCEPT ![t] = IF buffered[t] THEN 1 ELSE 0]
    BY <2>1, <2>2
  <2> QED
    BY <1>1, <2>1, <2>3
<1>2. CASE io[t] # "moved"
  <2>1. /\ UNCHANGED <<io, pending, buffered, haveResult, bumped>>
        /\ at' = "idle" /\ task' = NoTask
        /\ answer'.says \in {"interrupted", "eof", "error"}
    BY <1>2 DEF Collect
  <2> QED
    BY <2>1
<1> QED
  BY <1>1, <1>2

\* One case per action.
LEMMA IInvNext == ASSUME IInv, [Next]_vars PROVE IInv'
<1> USE DEF IInv, TypeOK, TaskTypeOK, ResultIsCollectedOnce, NotYetMeansInProgress,
            PendingIsRequested, NotYet, Done, States, Finished, Says, Blocks, tvars, pvars
<1>1. ASSUME NEW t \in Tasks, Begin(t), UNCHANGED pvars PROVE IInv'
  <2>1. /\ haveResult' = [haveResult EXCEPT ![t] = FALSE]
        /\ bumped' = [bumped EXCEPT ![t] = 0]
        /\ buffered' \in [Tasks -> BOOLEAN]
        /\ \A u \in Tasks \ {t} : buffered'[u] = buffered[u]
        /\ at' = "idle" /\ task' = NoTask /\ answer'.says \in {"ok", "error"}
    BY <1>1 DEF Begin, Forgets
  <2>2. \/ /\ io' = [io EXCEPT ![t] = "inProgress"]
           /\ pending' = [pending EXCEPT ![t] = TRUE]
        \/ /\ io' = [io EXCEPT ![t] = "unused"]
           /\ pending' = [pending EXCEPT ![t] = FALSE]
    BY <1>1 DEF Begin
  <2>3. TypeOK'
    BY <1>1, <2>1, <2>2, ZenonT(60)
  <2>4. ResultIsCollectedOnce'
    BY <1>1, <2>1, <2>2
  <2>5. NotYetMeansInProgress' /\ PendingIsRequested'
    BY <1>1, <2>1, <2>2
  <2> QED
    BY <2>3, <2>4, <2>5
<1>2. ASSUME NEW t \in Tasks, IsCompleted(t), UNCHANGED pvars PROVE IInv'
  <2>1. CASE ~haveResult[t] /\ pending[t] /\ Done(t) /\ Collect("isCompleted", t)
    BY <1>2, <2>1, CollectNext DEF IsCompleted
  <2>2. CASE (haveResult[t] \/ NotYet(t)) /\ UNCHANGED tvars
    BY <1>2, <2>2 DEF IsCompleted
  <2> QED
    BY <1>2, <2>1, <2>2 DEF IsCompleted
<1>3. ASSUME NEW t \in Tasks, Cancel(t), UNCHANGED pvars PROVE IInv'
  <2>1. /\ \/ UNCHANGED io
           \/ io' = [io EXCEPT ![t] = "canceled"] /\ pending[t] /\ ~haveResult[t]
        /\ UNCHANGED <<pending, haveResult, buffered, bumped>>
        /\ at' = "idle" /\ task' = NoTask /\ answer'.says \in {"ok", "error"}
    BY <1>3 DEF Cancel
  <2>2. TypeOK'
    BY <1>3, <2>1
  <2>3. ResultIsCollectedOnce'
    BY <1>3, <2>1
  <2>4. NotYetMeansInProgress' /\ PendingIsRequested'
    BY <1>3, <2>1
  <2> QED
    BY <2>2, <2>3, <2>4
<1>4. ASSUME NEW t \in Tasks, WaitFor(t), UNCHANGED pvars PROVE IInv'
  BY <1>4 DEF WaitFor
<1>5. ASSUME NEW t \in Tasks, Completes(t), UNCHANGED pvars PROVE IInv'
  <2>1. PICK s \in Finished : io' = [io EXCEPT ![t] = s]
    BY <1>5 DEF Completes
  <2>2. /\ UNCHANGED <<pending, haveResult, buffered, bumped, at, task, answer>>
        /\ io[t] = "inProgress" /\ UNCHANGED pvars
    BY <1>5 DEF Completes
  <2>3. ~haveResult[t]
    BY <2>2
  <2>4. TypeOK'
    BY <2>1, <2>2
  <2>5. ResultIsCollectedOnce'
    BY <2>1, <2>2, <2>3
  <2>6. NotYetMeansInProgress' /\ PendingIsRequested'
    BY <2>1, <2>2
  <2> QED
    BY <2>4, <2>5, <2>6
<1>6. CASE (WaitSucceeds \/ WaitFails) /\ UNCHANGED pvars
  <2>1. UNCHANGED tvars
    BY <1>6 DEF WaitSucceeds, WaitFails
  <2>2. TypeOK'
    BY <1>6 DEF WaitSucceeds, WaitFails
  <2> QED
    BY <2>1, <2>2
<1>7. CASE WaitCollects /\ UNCHANGED pvars
  <2>1. task \in Tasks /\ pending[task] /\ ~haveResult[task] /\ at = "collecting"
    BY <1>7 DEF WaitCollects
  <2> QED
    BY <1>7, <2>1, CollectNext DEF WaitCollects
<1>8. ASSUME NEW t \in Tasks, AddTask(t) \/ RemoveTask(t) PROVE IInv'
  <2>1. UNCHANGED tvars
    BY <1>8 DEF AddTask, RemoveTask
  <2>2. /\ at' = "idle" /\ task' = NoTask /\ answer'.says = "ok"
        /\ cblist' = cblist
    BY <1>8 DEF AddTask, RemoveTask
  <2>3. tasks' \subseteq Tasks /\ dirty' \in BOOLEAN
    BY <1>8 DEF AddTask, RemoveTask
  <2>4. TypeOK'
    BY <2>1, <2>2, <2>3
  <2> QED
    BY <2>1, <2>4
<1>9. CASE RemoveAllTasks \/ PollNothing \/ Poll \/ PollSucceeds \/ PollFails
  <2>1. UNCHANGED tvars
    BY <1>9 DEF RemoveAllTasks, PollNothing, Poll, PollSucceeds, PollFails
  <2>2. /\ tasks' \subseteq Tasks /\ cblist' \subseteq Tasks /\ dirty' \in BOOLEAN
        /\ at' \in {"idle", "polling", "pollingForever"} /\ task' = NoTask
    BY <1>9 DEF RemoveAllTasks, PollNothing, Poll, PollSucceeds, PollFails
  <2>3. answer'.says \in {"ok", "true", "false"} \/ UNCHANGED answer
    BY <1>9 DEF RemoveAllTasks, PollNothing, Poll, PollSucceeds, PollFails
  <2>4. TypeOK'
    BY <2>1, <2>2, <2>3
  <2> QED
    BY <2>1, <2>4
<1>10. CASE UNCHANGED vars
  BY <1>10 DEF vars
<1> QED
  BY <1>1, <1>2, <1>3, <1>4, <1>5, <1>6, <1>7, <1>8, <1>9, <1>10
     DEF Next, Asks, Ends, GoesOn, TaskCalls, TaskGoesOn

LEMMA Inductive == Spec => []IInv
BY IInvInit, IInvNext, PTL DEF Spec

\* Every variable keeps its type, the tasks' and the poller's.
THEOREM TypeCorrect == Spec => []TypeOK
BY Inductive, PTL DEF IInv

\* A task has a result only of its own last request, and the client's buffer is
\* bumped for it once.
THEOREM ResultsAreCollectedOnce == Spec => []ResultIsCollectedOnce
BY Inductive, PTL DEF IInv

\* "Not yet" is said only of a request in progress, or of none.
THEOREM NotYetIsTrue == Spec => []NotYetMeansInProgress
BY Inductive, PTL DEF IInv

-----------------------------------------------------------------------------
(* The poller, as long as no task is added twice                           *)

\* A clean array is that of the registered tasks, and a poll waits for such.
ArrayIsCurrent ==
  /\ ~dirty => cblist = tasks /\ tasks # {}
  /\ IsPolling => ~dirty

LEMMA ArrayInit == Init => ArrayIsCurrent
BY DEF Init, TaskInit, ArrayIsCurrent, IsPolling

LEMMA ArrayNext ==
  ASSUME ~AddTwice, TypeOK, ArrayIsCurrent, [Next]_vars
  PROVE  ArrayIsCurrent'
<1> USE DEF ArrayIsCurrent, IsPolling, Says, Blocks, pvars
<1>1. CASE \E t \in Tasks : Asks(t)
  BY <1>1 DEF Asks, TaskCalls, Begin, IsCompleted, Collect, Cancel, WaitFor
<1>2. CASE GoesOn \/ \E t \in Tasks : Ends(t)
  BY <1>2 DEF GoesOn, TaskGoesOn, WaitSucceeds, WaitFails, WaitCollects, Collect,
              Ends, Completes
<1>3. ASSUME NEW t \in Tasks, AddTask(t) PROVE ArrayIsCurrent'
  BY <1>3 DEF AddTask
<1>4. ASSUME NEW t \in Tasks, RemoveTask(t) PROVE ArrayIsCurrent'
  <2>1. t \notin tasks => tasks \ {t} = tasks
    OBVIOUS
  <2> QED
    BY <1>4, <2>1 DEF RemoveTask, TypeOK
<1>5. CASE RemoveAllTasks \/ PollNothing \/ Poll \/ PollSucceeds \/ PollFails
  BY <1>5 DEF RemoveAllTasks, PollNothing, Poll, PollSucceeds, PollFails, TypeOK
<1>6. CASE UNCHANGED vars
  BY <1>6 DEF vars
<1> QED
  BY <1>1, <1>2, <1>3, <1>4, <1>5, <1>6 DEF Next

LEMMA ArrayAlways == ASSUME ~AddTwice PROVE Spec => []ArrayIsCurrent
<1>1. IInv /\ ArrayIsCurrent /\ [Next]_vars => ArrayIsCurrent'
  BY ArrayNext DEF IInv
<1> QED
  BY <1>1, ArrayInit, Inductive, PTL DEF Spec

\* poll() says true exactly if a registered task has completed, for any number
\* of tasks, if no task is added twice.
THEOREM PollIsTruthful ==
  ASSUME ~AddTwice
  PROVE  Spec => PollAnswersTruly
<1>2. ASSUME ArrayIsCurrent, [Next]_vars, IsPolling, at' = "idle"
      PROVE  answer'.says = "true" <=> \E t \in tasks : Done(t)
  <2>1. cblist = tasks /\ tasks # {}
    BY <1>2 DEF ArrayIsCurrent
  <2>2. PollSucceeds \/ PollFails
    BY <1>2 DEF IsPolling, vars, Next, Asks, Ends, GoesOn, TaskCalls, TaskGoesOn, Begin,
                IsCompleted, Cancel, WaitFor, Completes, WaitSucceeds, WaitFails,
                WaitCollects, AddTask, RemoveTask, RemoveAllTasks, PollNothing, Poll
  <2> QED
    BY <2>1, <2>2 DEF PollSucceeds, PollFails, Awaited, Says
<1>3. ArrayIsCurrent /\ [Next]_vars
        => [IsPolling /\ at' = "idle"
              => (answer'.says = "true" <=> \E t \in tasks : Done(t))]_vars
  BY <1>2
<1> QED
  BY <1>3, ArrayAlways, PTL DEF Spec, PollAnswersTruly

\* If no task is added twice, a poll waits for every task that is registered, and
\* once one of them has completed nothing but the end of the poll changes that.
THEOREM CompletionIsNoticed ==
  ASSUME ~AddTwice
  PROVE  Spec => CompletionIsAwaited /\ CompletionStands
<1>1. ArrayIsCurrent => (IsPolling /\ (\E t \in tasks : Done(t)) => Awaited)
  BY DEF ArrayIsCurrent, Awaited
<1>2. ASSUME ArrayIsCurrent, [Next]_vars, IsPolling, NEW t \in tasks, Done(t), TypeOK
      PROVE  PollSucceeds \/ (UNCHANGED <<at, tasks>> /\ \E u \in tasks : Done(u)')
  <2>1. Awaited
    BY <1>1, <1>2
  <2>2. CASE PollSucceeds
    BY <2>2
  <2>3. ASSUME NEW u \in Tasks, Ends(u)
        PROVE  UNCHANGED <<at, tasks>> /\ Done(t)'
    BY <1>2, <2>3 DEF Ends, Completes, Done, TypeOK, TaskTypeOK, Finished, pvars
  <2>4. CASE UNCHANGED vars
    BY <1>2, <2>4 DEF vars, tvars, pvars, Done
  <2>5. PollSucceeds \/ (\E u \in Tasks : Ends(u)) \/ UNCHANGED vars
    BY <1>2, <2>1 DEF IsPolling, Next, Asks, GoesOn, TaskCalls, TaskGoesOn, Begin,
                IsCompleted, Cancel, WaitFor, WaitSucceeds, WaitFails, WaitCollects,
                AddTask, RemoveTask, RemoveAllTasks, PollNothing, Poll, PollFails
  <2> QED
    BY <1>2, <2>2, <2>3, <2>4, <2>5
<1>3. ArrayIsCurrent /\ TypeOK /\ [Next]_vars
        => [IsPolling /\ (\E t \in tasks : Done(t))
              => PollSucceeds \/ (UNCHANGED <<at, tasks>> /\ \E t \in tasks : Done(t)')]_vars
  BY <1>2
<1> QED
  BY <1>1, <1>3, ArrayAlways, TypeCorrect, PTL DEF Spec, CompletionIsAwaited, CompletionStands
=============================================================================
