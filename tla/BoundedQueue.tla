---------------------------- MODULE BoundedQueue ----------------------------
(***************************************************************************)
(* ccxx::BoundedQueue<T>: a deque guarded by one mutex, with a condition   *)
(* variable for the producers (_condP) and one for the consumers (_condC). *)
(*                                                                         *)
(* Every operation holds the mutex from its first read to its return or to *)
(* CondVar::wait, so what it does in between is one step here.  A call     *)
(* that waits gives the mutex up; it goes on, in a second step, after it   *)
(* was woken and has the mutex again, and any number of other calls may    *)
(* have run before it does.  reset() is the exception: it writes           *)
(* _terminated after clear() has released the mutex.                       *)
(*                                                                         *)
(* The condition variables are those of POSIX threads: pthread_cond_signal *)
(* wakes some waiter if there is one, pthread_cond_broadcast wakes all, a  *)
(* timed wait may end at any moment, and a wait may end for no reason.     *)
(***************************************************************************)
EXTENDS Naturals, Sequences, FiniteSets

CONSTANTS
  Producers, Consumers,   \* the threads that put, the threads that take
  Controllers,            \* the threads that call the other operations
  Controls,               \* which of the other operations they call
  Items, NoItem,          \* what is put, and the item of a call without one
  InitCapacity,           \* the constructor's argument
  Capacities,             \* the arguments of setCapacity
  LowerBelowSize,         \* may setCapacity go below the current size?
  SpuriousWakeups         \* does a wait ever end for no reason?

Threads == Producers \cup Consumers \cup Controllers

ASSUME ConstantsAssumption ==
  /\ Controls \subseteq {"shutdown", "reset", "clear", "interrupt", "setCapacity"}
  /\ NoItem \notin Items
  /\ IsFiniteSet(Consumers)
  /\ InitCapacity \in Nat
  /\ Capacities \subseteq Nat
  /\ LowerBelowSize \in BOOLEAN
  /\ SpuriousWakeups \in BOOLEAN

VARIABLES
  capacity, queue, terminated,   \* _capacity, _queue, _terminated
  condP, condC,                  \* the threads blocked in _condP, in _condC
  awake,                         \* why a thread left its condition variable,
                                 \* while it has not got the mutex back
  call,                          \* the call a thread is in the middle of
  last,                          \* whose call was the last to end, and how
  asked                          \* was interrupt() or shutdown() ever called?

vars == <<capacity, queue, terminated, condP, condC, awake, call, last, asked>>

NoCall   == [op |-> "none", item |-> NoItem]
PutCalls == [op : {"put", "tryPut"}, item : Items]
TakeCalls == [op : {"take", "tryTake"}, item : {NoItem}]
ResetCall == [op |-> "reset", item |-> NoItem]
NoReply  == [thread |-> "none", outcome |-> "none", item |-> NoItem]
Timed    == {"tryPut", "tryTake"}

Reasons  == {"notified", "interrupted", "timedOut"}
Outcomes == {"ok", "timeout", "interrupted"}

-----------------------------------------------------------------------------
(* CondVar, the POSIX side                                                 *)

\* Whom notify() can wake.
OneOf(W) == IF W = {} THEN {{}} ELSE {{w} : w \in W}

\* t has the mutex and is awake; the threads of W leave their wait.
Wake(t, W, why) ==
  awake' = [u \in Threads |-> IF u \in W THEN why
                              ELSE IF u = t THEN "no" ELSE awake[u]]

IsBlocked(t) == t \in condP \cup condC
CanResume(t) == awake[t] # "no"

-----------------------------------------------------------------------------
(* How a call ends                                                         *)

Return(t, outcome, x) ==
  /\ call' = [call EXCEPT ![t] = NoCall]
  /\ last' = [thread |-> t, outcome |-> outcome, item |-> x]

Throw(t, outcome) ==
  /\ Return(t, outcome, NoItem)
  /\ Wake(t, {}, "notified")
  /\ UNCHANGED <<queue, condP, condC>>

\* Mutant of Push: notifies only when the queue was empty.
PushNotifiesIfEmpty(t, x) ==
  /\ queue' = Append(queue, x)
  /\ \E W \in (IF queue = <<>> THEN OneOf(condC) ELSE {{}}) :
       condC' = condC \ W /\ Wake(t, W, "notified")
  /\ Return(t, "ok", NoItem)
  /\ UNCHANGED condP

\* push_back(item); _condC.notify()
Push(t, x) ==
  /\ queue' = Append(queue, x)
  /\ \E W \in OneOf(condC) : condC' = condC \ W /\ Wake(t, W, "notified")
  /\ Return(t, "ok", NoItem)
  /\ UNCHANGED condP

\* Mutant of Pop: wakes one producer where all are woken.
PopNotifiesOne(t) ==
  /\ queue' = Tail(queue)
  /\ \E W \in OneOf(condP) : condP' = condP \ W /\ Wake(t, W, "notified")
  /\ Return(t, "ok", Head(queue))
  /\ UNCHANGED condC

\* front(); pop_front(); _condP.notifyAll()
Pop(t) ==
  /\ queue' = Tail(queue)
  /\ condP' = {}
  /\ Wake(t, condP, "notified")
  /\ Return(t, "ok", Head(queue))
  /\ UNCHANGED condC

WaitP(t, c) ==
  /\ call' = [call EXCEPT ![t] = c]
  /\ condP' = condP \cup {t}
  /\ UNCHANGED <<queue, condC, awake, last>>

\* Mutant of WaitC: waits in the wrong condition variable.
WaitCInCondP(t, c) == WaitP(t, c)

WaitC(t, c) ==
  /\ call' = [call EXCEPT ![t] = c]
  /\ condC' = condC \cup {t}
  /\ UNCHANGED <<queue, condP, awake, last>>

Full  == Len(queue) = capacity
Empty == queue = <<>>

-----------------------------------------------------------------------------
(* put, tryPut, take, tryTake: from the call to the return or the wait     *)

\* Mutant of Put: waits for space without looking at _terminated.
PutIgnoresShutdown(t, x) ==
  /\ call[t] = NoCall
  /\ \/ Full /\ WaitP(t, [op |-> "put", item |-> x])
     \/ ~Full /\ Push(t, x)
  /\ UNCHANGED <<capacity, terminated, asked>>

Put(t, x) ==
  /\ call[t] = NoCall
  /\ \/ terminated /\ Throw(t, "interrupted")
     \/ ~terminated /\ Full /\ WaitP(t, [op |-> "put", item |-> x])
     \/ ~terminated /\ ~Full /\ Push(t, x)
  /\ UNCHANGED <<capacity, terminated, asked>>

\* The clock may have passed "expired" when a full queue is met.
TryPut(t, x) ==
  /\ call[t] = NoCall
  /\ \/ terminated /\ Throw(t, "interrupted")
     \/ ~terminated /\ Full /\ Throw(t, "timeout")
     \/ ~terminated /\ Full /\ WaitP(t, [op |-> "tryPut", item |-> x])
     \/ ~terminated /\ ~Full /\ Push(t, x)
  /\ UNCHANGED <<capacity, terminated, asked>>

Take(t) ==
  /\ call[t] = NoCall
  /\ \/ terminated /\ Throw(t, "interrupted")
     \/ ~terminated /\ Empty /\ WaitC(t, [op |-> "take", item |-> NoItem])
     \/ ~terminated /\ ~Empty /\ Pop(t)
  /\ UNCHANGED <<capacity, terminated, asked>>

TryTake(t) ==
  /\ call[t] = NoCall
  /\ \/ terminated /\ Throw(t, "interrupted")
     \/ ~terminated /\ Empty /\ Throw(t, "timeout")
     \/ ~terminated /\ Empty /\ WaitC(t, [op |-> "tryTake", item |-> NoItem])
     \/ ~terminated /\ ~Empty /\ Pop(t)
  /\ UNCHANGED <<capacity, terminated, asked>>

-----------------------------------------------------------------------------
(* The same calls once the wait is over and the mutex is theirs again      *)

\* Mutant of PutResumes: the size is not looked at again after the wait.
PutResumesUnchecked(t) ==
  /\ CanResume(t) /\ call[t].op = "put"
  /\ Push(t, call[t].item)
  /\ UNCHANGED <<capacity, terminated, asked>>

\* put does not look at _terminated a second time.
PutResumes(t) ==
  /\ CanResume(t) /\ call[t].op = "put"
  /\ \/ Full /\ Throw(t, "interrupted")
     \/ ~Full /\ Push(t, call[t].item)
  /\ UNCHANGED <<capacity, terminated, asked>>

TryPutResumes(t) ==
  /\ CanResume(t) /\ call[t].op = "tryPut"
  /\ \/ awake[t] = "timedOut" /\ Throw(t, "timeout")
     \/ awake[t] # "timedOut" /\ Full /\ Throw(t, "interrupted")
     \/ awake[t] # "timedOut" /\ ~Full /\ Push(t, call[t].item)
  /\ UNCHANGED <<capacity, terminated, asked>>

\* Mutant of TakeResumes: the last item is not seen.
TakeResumesLeavesOne(t) ==
  /\ CanResume(t) /\ call[t].op = "take"
  /\ \/ (terminated \/ Len(queue) <= 1) /\ Throw(t, "interrupted")
     \/ ~terminated /\ Len(queue) > 1 /\ Pop(t)
  /\ UNCHANGED <<capacity, terminated, asked>>

TakeResumes(t) ==
  /\ CanResume(t) /\ call[t].op = "take"
  /\ \/ (terminated \/ Empty) /\ Throw(t, "interrupted")
     \/ ~terminated /\ ~Empty /\ Pop(t)
  /\ UNCHANGED <<capacity, terminated, asked>>

\* An empty queue is reported as a timeout, before _terminated is looked at.
TryTakeResumes(t) ==
  /\ CanResume(t) /\ call[t].op = "tryTake"
  /\ \/ (awake[t] = "timedOut" \/ Empty) /\ Throw(t, "timeout")
     \/ awake[t] # "timedOut" /\ ~Empty /\ terminated /\ Throw(t, "interrupted")
     \/ awake[t] # "timedOut" /\ ~Empty /\ ~terminated /\ Pop(t)
  /\ UNCHANGED <<capacity, terminated, asked>>

-----------------------------------------------------------------------------
(* A wait that ends without a notification                                 *)

LeavesWait(t, why) ==
  /\ IsBlocked(t)
  /\ condP' = condP \ {t}
  /\ condC' = condC \ {t}
  /\ awake' = [awake EXCEPT ![t] = why]
  /\ UNCHANGED <<capacity, queue, terminated, call, last, asked>>

TimesOut(t) == call[t].op \in Timed /\ LeavesWait(t, "timedOut")

WakesSpuriously(t) == SpuriousWakeups /\ LeavesWait(t, "notified")

-----------------------------------------------------------------------------
(* The operations that never wait                                          *)

Calls(t, op) == call[t] = NoCall /\ op \in Controls

WakeEveryone ==
  /\ condP' = {} /\ condC' = {}
  /\ awake' = [u \in Threads |-> IF IsBlocked(u) THEN "interrupted" ELSE awake[u]]
  /\ asked' = TRUE

\* Mutant of Shutdown: the producers are forgotten.
ShutdownWakesConsumers(t) ==
  /\ Calls(t, "shutdown")
  /\ terminated' = TRUE
  /\ condC' = {} /\ asked' = TRUE
  /\ awake' = [u \in Threads |-> IF u \in condC THEN "interrupted" ELSE awake[u]]
  /\ UNCHANGED <<capacity, queue, condP, call, last>>

Shutdown(t) ==
  /\ Calls(t, "shutdown")
  /\ terminated' = TRUE
  /\ WakeEveryone
  /\ UNCHANGED <<capacity, queue, call, last>>

Interrupt(t) ==
  /\ Calls(t, "interrupt")
  /\ WakeEveryone
  /\ UNCHANGED <<capacity, queue, terminated, call, last>>

Empties ==
  /\ queue' = <<>>
  /\ condP' = {}
  /\ awake' = [u \in Threads |-> IF u \in condP THEN "notified" ELSE awake[u]]
  /\ UNCHANGED <<capacity, terminated, condC, last, asked>>

Clear(t) ==
  /\ Calls(t, "clear")
  /\ Empties
  /\ UNCHANGED call

\* reset(): clear() takes the mutex and gives it back ...
Reset(t) ==
  /\ Calls(t, "reset")
  /\ Empties
  /\ call' = [call EXCEPT ![t] = ResetCall]

\* ... and then the flag is cleared without it.
ResetFlag(t) ==
  /\ call[t] = ResetCall
  /\ terminated' = FALSE
  /\ Return(t, "ok", NoItem)
  /\ UNCHANGED <<capacity, queue, condP, condC, awake, asked>>

\* Nobody is notified, whichever way the capacity goes.
SetCapacity(t, c) ==
  /\ Calls(t, "setCapacity")
  /\ LowerBelowSize \/ c = 0 \/ c >= Len(queue)
  /\ capacity' = IF c > 0 THEN c ELSE capacity
  /\ UNCHANGED <<queue, terminated, condP, condC, awake, call, last, asked>>

-----------------------------------------------------------------------------
Init ==
  /\ capacity = InitCapacity
  /\ queue = <<>>
  /\ terminated = FALSE
  /\ condP = {} /\ condC = {}
  /\ awake = [t \in Threads |-> "no"]
  /\ call = [t \in Threads |-> NoCall]
  /\ last = NoReply
  /\ asked = FALSE

Resumes(t) == \/ PutResumes(t) \/ TryPutResumes(t)
              \/ TakeResumes(t) \/ TryTakeResumes(t)

Next ==
  \/ \E t \in Producers, x \in Items : Put(t, x) \/ TryPut(t, x)
  \/ \E t \in Consumers : Take(t) \/ TryTake(t)
  \/ \E t \in Threads : Resumes(t) \/ TimesOut(t) \/ WakesSpuriously(t)
  \/ \E t \in Controllers : \/ Shutdown(t) \/ Interrupt(t)
                            \/ Clear(t) \/ Reset(t) \/ ResetFlag(t)
                            \/ \E c \in Capacities : SetCapacity(t, c)

\* A woken thread gets the mutex some time, a clock reaches its deadline and
\* a reset that has begun is finished.  Nobody has to call anything.
Fairness ==
  \A t \in Threads : /\ WF_vars(Resumes(t))
                     /\ WF_vars(TimesOut(t))
                     /\ WF_vars(ResetFlag(t))

Spec == Init /\ [][Next]_vars /\ Fairness

-----------------------------------------------------------------------------
(* Properties                                                              *)

DataTypes ==
  /\ capacity \in Nat
  /\ queue \in Seq(Items)
  /\ terminated \in BOOLEAN /\ asked \in BOOLEAN
  /\ last \in [thread : Threads, outcome : Outcomes, item : Items \cup {NoItem}]
             \cup {NoReply}

WaitTypes ==
  /\ condP \subseteq Producers /\ condC \subseteq Consumers
  /\ awake \in [Threads -> Reasons \cup {"no"}]
  /\ call \in [Threads -> PutCalls \cup TakeCalls \cup {NoCall, ResetCall}]
  /\ \A t \in condP : awake[t] = "no" /\ call[t] \in PutCalls
  /\ \A t \in condC : awake[t] = "no" /\ call[t] \in TakeCalls
  /\ \A t \in Threads : CanResume(t) => call[t] \in PutCalls \cup TakeCalls

\* Every variable has its type; a thread is blocked, in the condition variable
\* of its kind of call, or woken, only inside such a call, and never both.
TypeOK == DataTypes /\ WaitTypes

\* The queue never holds more than its capacity, as long as nobody lowers the
\* capacity below the size.  Several producers may be woken by one take, so it
\* is the second look at the size in put and tryPut that keeps this true.
CapacityRespected == ~LowerBelowSize => Len(queue) <= capacity

\* While consumers sleep, every item in the queue has a consumer that was woken
\* and is about to look: one notify() per push_back is enough, and no item is
\* left behind with all consumers asleep.
WokenConsumers == {t \in Consumers : /\ awake[t] \in {"notified", "interrupted"}
                                     /\ call[t] \in TakeCalls}
NoItemOverlooked == condC # {} => Cardinality(WokenConsumers) >= Len(queue)

\* Producers sleep only while the queue is full, as long as the capacity is not
\* changed under them (setCapacity notifies nobody).
NoSpaceOverlooked ==
  ("setCapacity" \notin Controls /\ condP # {}) => Len(queue) = capacity

\* Once shut down, and until reset() has cleared the flag, nobody sleeps in the
\* queue: shutdown() wakes everyone and later calls do not wait.
NobodySleepsInAShutDownQueue == terminated => condP = {} /\ condC = {}

\* The abstract channel: the deque is its content, a call in the middle of a
\* wait its pending call; the wake-ups are invisible to it.
Channel == INSTANCE FifoChannel
             WITH chan <- queue, bound <- capacity, pending <- call, reply <- last

\* The queue is a bounded FIFO channel: calls take effect one at a time, items
\* come out once and in order, a call that throws has no effect.
IsFifoChannel == Channel!Spec

\* put and take throw an InterruptedException only if interrupt() or shutdown()
\* was called, as the documentation of the class has it.
InterruptedOnlyIfAsked == last.outcome = "interrupted" => asked

\* ... and that is true of a thread that is the only consumer, or the only
\* producer, as long as nothing else can undo what it was woken for.
SoleConsumer ==
  /\ \A c, d \in Consumers : c = d
  /\ ~SpuriousWakeups /\ Controls \cap {"clear", "reset"} = {}

SoleProducer ==
  /\ \A p, q \in Producers : p = q
  /\ ~SpuriousWakeups /\ "setCapacity" \notin Controls /\ InitCapacity > 0

SoleConsumerInterruptedOnlyIfAsked ==
  SoleConsumer /\ last.outcome = "interrupted" /\ last.thread \in Consumers \ Producers
    => asked

SoleProducerInterruptedOnlyIfAsked ==
  SoleProducer /\ last.outcome = "interrupted" /\ last.thread \in Producers \ Consumers
    => asked

\* A call waits once.  Who was woken is never put to sleep again: its next step
\* with the mutex ends the call, and whatever the others do it stays woken.
WaitsOnce ==
  [][\A t \in Threads : CanResume(t) => CanResume(t)' \/ call'[t] = NoCall]_vars

\* In a queue that was shut down every call can go on, without anybody's help.
ShutDownCallsGoOn ==
  terminated => \A t \in Threads : call[t] # NoCall => CanResume(t) \/ call[t] = ResetCall

\* Whatever makes the queue shorter wakes all the producers that wait.
ProducersWokenByTake == [][Len(queue') < Len(queue) => condP' = {}]_vars

\* After shutdown() every call that was waiting returns.
ShutdownReleasesCalls ==
  \A t \in Threads : (terminated /\ call[t] # NoCall) ~> call[t] = NoCall

\* A blocked put is not starved: if items keep being taken it returns (though
\* perhaps with an exception, when other producers were faster).
BlockedPutReturns ==
  []<><<Len(queue') < Len(queue)>>_vars
     => \A t \in Producers : t \in condP ~> call[t] = NoCall
=============================================================================
