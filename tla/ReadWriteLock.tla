--------------------------- MODULE ReadWriteLock ---------------------------
(***************************************************************************)
(* ccxx::ReadWriteLock on Windows, where it is two counters guarded by a   *)
(* Mutex, and a CondVar for the threads that find the lock taken.  (On     *)
(* POSIX systems the class only calls pthread_rwlock.)                     *)
(*                                                                         *)
(* What a thread does between getting the mutex and giving it up, or       *)
(* calling the condition variable, is one step.  A thread calls unlock()   *)
(* only when it holds the lock, and then always without waiting for        *)
(* anybody but the holders of the mutex.                                   *)
(***************************************************************************)
EXTENDS WindowsCondVar, FiniteSets

CONSTANTS Readers, Writers,  \* who calls the read, and the write, operations
          Timed              \* who calls the operations with a timeout, too

ASSUME LockAssumption ==
  /\ Readers \subseteq Threads /\ Writers \subseteq Threads
  /\ Timed \subseteq Threads
  /\ SemMax \in Nat \ {0}

VARIABLES
  readersReading, writerWriting, \* _readersReading, _writerWriting
  pc,                            \* where in a call of ReadWriteLock a thread is
  want,                          \* the lock it asks for, and with a timeout?
  holds                          \* the lock it has

lvars == <<readersReading, writerWriting, want, holds>>
vars  == <<free, cvars, lvars, pc>>

Modes == {"read", "write"}
Calls == [mode : Modes, timed : BOOLEAN]
NoLock == [mode |-> "none", timed |-> FALSE]

Init ==
  /\ CondVarInit /\ free = TRUE
  /\ readersReading = 0 /\ writerWriting = 0
  /\ pc = [t \in Threads |-> "idle"]
  /\ want = [t \in Threads |-> NoLock]
  /\ holds = [t \in Threads |-> "none"]

Goto(t, there) == pc' = [pc EXCEPT ![t] = there]
Gets(t, mode)  == holds' = [holds EXCEPT ![t] = mode]
Asks(t, call)  == want' = [want EXCEPT ![t] = call]

-----------------------------------------------------------------------------
(* lockRead, lockWrite, tryLockRead, tryLockWrite                          *)

Call(t, mode, timed) ==
  /\ pc[t] = "idle" /\ holds[t] = "none"
  /\ mode = "read" => t \in Readers
  /\ mode = "write" => t \in Writers
  /\ timed => t \in Timed
  /\ Asks(t, [mode |-> mode, timed |-> timed])
  /\ Goto(t, "locking")
  /\ UNCHANGED <<free, cvars, readersReading, writerWriting, holds>>

\* _mutex.lock(), or _mutex.tryLock(timeout)
Locks(t) ==
  /\ pc[t] = "locking" /\ free
  /\ free' = FALSE
  /\ Goto(t, "testing")
  /\ UNCHANGED <<cvars, lvars>>

TryLockFails(t) ==
  /\ pc[t] = "locking" /\ ~free /\ want[t].timed
  /\ Goto(t, "idle") /\ Asks(t, NoLock)
  /\ UNCHANGED <<free, cvars, readersReading, writerWriting, holds>>

Blocked(t) == writerWriting > 0 \/ (want[t].mode = "write" /\ readersReading > 0)

\* Waits in _lockFree.  A timed call that finds its time used up passes 0,
\* which is CondVar::FOREVER, so its wait may or may not have a limit.
Waits(t) ==
  /\ pc[t] = "testing" /\ Blocked(t)
  /\ \E timed \in {FALSE, want[t].timed} : WaitCounts(t, timed)
  /\ Goto(t, "waiting")
  /\ UNCHANGED <<free, lvars>>

\* Mutant of Passes: a writer looks only for another writer.
PassesReaders(t) ==
  /\ pc[t] = "testing" /\ writerWriting = 0
  /\ Goto(t, "counting")
  /\ UNCHANGED <<free, cvars, lvars>>

\* The lock is not taken, as t sees it ...
Passes(t) ==
  /\ pc[t] = "testing" /\ ~Blocked(t)
  /\ Goto(t, "counting")
  /\ UNCHANGED <<free, cvars, lvars>>

\* ... and then t counts itself in: it has the lock.
Counts(t) ==
  /\ pc[t] = "counting"
  /\ \/ want[t].mode = "read" /\ readersReading' = readersReading + 1
                              /\ UNCHANGED writerWriting
     \/ want[t].mode = "write" /\ writerWriting' = writerWriting + 1
                               /\ UNCHANGED readersReading
  /\ Gets(t, want[t].mode) /\ Asks(t, NoLock)
  /\ Goto(t, "unlocking")
  /\ UNCHANGED <<free, cvars>>

\* The wait is over: look again, or return false (through _mutex.unlock()).
WaitOver(t) ==
  /\ pc[t] = "waiting"
  /\ \/ at[t] = "signalled" /\ Goto(t, "testing") /\ UNCHANGED want
     \/ at[t] = "timedOut" /\ Goto(t, "unlocking") /\ Asks(t, NoLock)
  /\ Steps(t, "out")
  /\ UNCHANGED <<free, sem, waitersCount, broadcast, done, limited, expired,
                 readersReading, writerWriting, holds>>

\* _mutex.unlock(): the event is set, whoever holds the mutex.
Unlocks(t) ==
  /\ pc[t] = "unlocking"
  /\ free' = TRUE
  /\ Goto(t, "idle")
  /\ UNCHANGED <<cvars, lvars>>

-----------------------------------------------------------------------------
(* unlock()                                                                *)

CallUnlock(t) ==
  /\ pc[t] = "idle" /\ holds[t] # "none"
  /\ Goto(t, "relocking")
  /\ UNCHANGED <<free, cvars, lvars>>

LocksAgain(t) ==
  /\ pc[t] = "relocking" /\ free
  /\ free' = FALSE
  /\ Goto(t, "freeing")
  /\ UNCHANGED <<cvars, lvars>>

\* Mutant of FreesRead: nobody is notified.
FreesReadSilently(t) ==
  /\ pc[t] = "freeing" /\ readersReading > 0
  /\ readersReading' = readersReading - 1
  /\ Gets(t, "none") /\ Goto(t, "notifying")
  /\ UNCHANGED <<free, cvars, writerWriting, want>>

\* Mutant of FreesRead: counts down whatever the count.
FreesReadUnguarded(t) ==
  /\ pc[t] = "freeing"
  /\ readersReading' = readersReading - 1
  /\ IF readersReading = 1 THEN NotifyLooks(t) ELSE UNCHANGED cvars
  /\ Gets(t, "none") /\ Goto(t, "notifying")
  /\ UNCHANGED <<free, writerWriting, want>>

\* The counters tell which lock it was; the last reader notifies one thread ...
FreesRead(t) ==
  /\ pc[t] = "freeing" /\ readersReading > 0
  /\ readersReading' = readersReading - 1
  /\ IF readersReading = 1 THEN NotifyLooks(t) ELSE UNCHANGED cvars
  /\ Gets(t, "none") /\ Goto(t, "notifying")
  /\ UNCHANGED <<free, writerWriting, want>>

\* ... and a writer, if there is one, notifies all.
FreesOther(t) ==
  /\ pc[t] = "freeing" /\ readersReading = 0
  /\ writerWriting' = 0
  /\ IF writerWriting > 0 THEN NotifyAllLooks(t) ELSE UNCHANGED cvars
  /\ Gets(t, "none") /\ Goto(t, "notifying")
  /\ UNCHANGED <<free, readersReading, want>>

NotifyOver(t) ==
  /\ pc[t] = "notifying" /\ at[t] = "out"
  /\ Goto(t, "unlocking")
  /\ UNCHANGED <<free, cvars, lvars>>

-----------------------------------------------------------------------------
\* A step of a call of the condition variable
Inside(t) == /\ CallGoesOn(t) /\ UNCHANGED <<lvars, pc>>

TimesOut(t) == /\ WaitTimesOut(t) /\ UNCHANGED <<lvars, pc>>

Next == \E t \in Threads :
  \/ \E mode \in Modes, timed \in BOOLEAN : Call(t, mode, timed)
  \/ Locks(t) \/ TryLockFails(t) \/ Waits(t) \/ Passes(t) \/ Counts(t)
  \/ WaitOver(t) \/ Unlocks(t)
  \/ CallUnlock(t) \/ LocksAgain(t) \/ FreesRead(t) \/ FreesOther(t)
  \/ NotifyOver(t)
  \/ Inside(t) \/ TimesOut(t)

Spec == Init /\ [][Next]_vars

-----------------------------------------------------------------------------
(* Properties                                                              *)

Holding(mode) == {t \in Threads : holds[t] = mode}

CallSteps == {"idle", "locking", "testing", "counting", "waiting", "unlocking",
              "relocking", "freeing", "notifying"}
CondSteps == {"out", "counted", "waiting", "woken", "late", "last", "relocking",
              "signalled", "timedOut", "notifying", "awaiting", "clearing"}

\* Every variable has its type; in particular no count drops below zero.
TypeOK ==
  /\ free \in BOOLEAN /\ broadcast \in BOOLEAN /\ done \in BOOLEAN
  /\ expired \in BOOLEAN
  /\ sem \in 0..SemMax /\ waitersCount \in Nat
  /\ at \in [Threads -> CondSteps] /\ limited \subseteq Threads
  /\ readersReading \in Nat /\ writerWriting \in Nat
  /\ pc \in [Threads -> CallSteps] /\ want \in [Threads -> Calls \cup {NoLock}]
  /\ holds \in [Threads -> Modes \cup {"none"}]

\* "Any number of threads can simultaneously hold the read lock as long as no
\* thread holds the write lock", and one thread the write lock as long as nobody
\* holds the read lock.
Exclusion ==
  \A t, u \in Threads : holds[t] = "write" /\ holds[u] # "none" => t = u

\* Exclusion holds as long as no wait of a timed call has timed out.
ExclusionBeforeTimeout == ~expired => Exclusion

Counted == {t \in Threads : at[t] \in {"counted", "waiting", "woken", "late"}}

\* The counters are true.  However waits end, _waitersCount is the number of
\* threads that notifyAll() has to wake and to wait for; and as long as no wait
\* timed out the other two are what the threads hold, so that unlock() takes the
\* right one of the two locks for the caller's.
CountersAreTrue ==
  /\ waitersCount = Cardinality(Counted)
  /\ ~expired => /\ readersReading = Cardinality(Holding("read"))
                 /\ writerWriting = Cardinality(Holding("write"))

Sleeping(mode) ==
  {t \in Threads : at[t] = "waiting" /\ want[t].mode = mode}

\* Nobody is left asleep beside a lock it could have.  Once the writer has gone
\* and its notifyAll() is over, no reader sleeps on, not even because another
\* thread took a wake-up that was meant for it.  And if the readers have gone too
\* while a writer sleeps, a wake-up is on its way: to notify() one thread is
\* enough when the last reader has gone.
NobodyOverlooked ==
  ~expired /\ free /\ writerWriting = 0
    => /\ Sleeping("read") = {}
       /\ readersReading = 0 /\ Sleeping("write") # {}
            => sem > 0 \/ \E t \in Threads : at[t] \in {"woken", "last", "relocking"}

\* A writer that waits in notifyAll(), with the mutex in its hands, will be let
\* go, as long as no wait timed out: the event is set, or the last waiter is
\* about to set it, or there are waiters left, they all have their wake-up, and
\* the last of them will see _broadcast.
Asleep == {t \in Threads : at[t] = "waiting"}
NotifierIsReleased ==
  ~expired => \A t \in Threads : at[t] = "awaiting" =>
                \/ done
                \/ \E u \in Threads : at[u] = "last"
                \/ broadcast /\ Counted # {} /\ sem >= Cardinality(Asleep)

\* t is in a call, and its next step waits for nobody: not for the mutex, not
\* for a wake-up and not for the waiters that its notifyAll() woke.
CanGoOn(t) ==
  /\ pc[t] # "idle"
  /\ pc[t] \in {"locking", "relocking"} \/ at[t] = "relocking" => free
  /\ at[t] = "waiting" => sem > 0
  /\ at[t] = "awaiting" => done

\* Everyone is never waiting on everyone.  Whatever calls of lock, unlock, wait,
\* notify and notifyAll are under way, one of them can go on, or they all wait
\* for a thread that has the lock and has not called unlock() yet: as long as no
\* wait timed out.
NobodyDeadlocks ==
  ~expired /\ (\E t \in Threads : pc[t] # "idle")
    => \E t \in Threads : CanGoOn(t) \/ (pc[t] = "idle" /\ holds[t] # "none")
=============================================================================
