--------------------------- MODULE WindowsCondVar ---------------------------
(***************************************************************************)
(* ccxx::CondVar on Windows, with the ccxx::Mutex it is used with: an      *)
(* auto-reset event for the mutex; a semaphore, a count of waiters, an     *)
(* event and a flag for the condition variable.                            *)
(*                                                                         *)
(* One step is what a thread does while it holds _waitersLock, or one call *)
(* of the system.  A call in progress is told by at[t]; it is over when    *)
(* at[t] is "out" again, or, for wait(), what it returns: "signalled" for  *)
(* true, "timedOut" for false.  The module has no Next of its own: its     *)
(* users begin the calls (WaitCounts, NotifyLooks, NotifyAllLooks) in      *)
(* steps of theirs, let CallGoesOn do the rest and read what wait returns. *)
(***************************************************************************)
EXTENDS Integers

CONSTANTS Threads,
          SemMax         \* the semaphore's limit, 0x7FFFFFFF in the code

VARIABLES
  free,                  \* the mutex's event is set: nobody holds the mutex
  sem, waitersCount,     \* _sem, _waitersCount
  broadcast, done,       \* _broadcast, _waitersDone
  at,                    \* where in a call of CondVar a thread is
  limited,               \* the threads whose wait has a time limit
  expired                \* has any wait timed out so far?

cvars == <<sem, waitersCount, broadcast, done, at, limited, expired>>

CondVarInit ==
  /\ sem = 0 /\ waitersCount = 0
  /\ broadcast = FALSE /\ done = FALSE
  /\ at = [t \in Threads |-> "out"]
  /\ limited = {}
  /\ expired = FALSE

Steps(t, there)  == at' = [at EXCEPT ![t] = there]

\* A semaphore that would go above its limit is left alone.
Release(n) == sem' = IF sem + n > SemMax THEN sem ELSE sem + n

-----------------------------------------------------------------------------
(* wait()                                                                  *)

\* The count first, so that nobody who notifies from now on misses t ...
WaitCounts(t, timed) ==
  /\ at[t] = "out"
  /\ waitersCount' = waitersCount + 1
  /\ limited' = IF timed THEN limited \cup {t} ELSE limited \ {t}
  /\ Steps(t, "counted")
  /\ UNCHANGED <<sem, broadcast, done, expired>>

\* ... then SignalObjectAndWait sets the mutex's event and waits.
WaitReleases(t) ==
  /\ at[t] = "counted"
  /\ free' = TRUE
  /\ Steps(t, "waiting")
  /\ UNCHANGED <<sem, waitersCount, broadcast, done, limited, expired>>

WaitAcquires(t) ==
  /\ at[t] = "waiting" /\ sem > 0
  /\ sem' = sem - 1
  /\ Steps(t, "woken")
  /\ UNCHANGED <<free, waitersCount, broadcast, done, limited, expired>>

WaitTimesOut(t) ==
  /\ at[t] = "waiting" /\ t \in limited
  /\ Steps(t, "late")
  /\ expired' = TRUE
  /\ UNCHANGED <<free, sem, waitersCount, broadcast, done, limited>>

\* Mutant of LateReturns: a thread that timed out is still counted.
LateReturnsStaysCounted(t) ==
  /\ at[t] = "late"
  /\ done' = (done \/ waitersCount = 0)
  /\ limited' = limited \ {t}
  /\ Steps(t, "timedOut")
  /\ UNCHANGED <<free, sem, waitersCount, broadcast, expired>>

\* A timeout: the call returns false, and does so without the mutex.
LateReturns(t) ==
  /\ at[t] = "late"
  /\ waitersCount' = waitersCount - 1
  /\ done' = (done \/ waitersCount = 1)
  /\ limited' = limited \ {t}
  /\ Steps(t, "timedOut")
  /\ UNCHANGED <<free, sem, broadcast, expired>>

\* Mutant of WokenLeaves: the count is compared before it is decremented.
WokenLeavesComparesFirst(t) ==
  /\ at[t] = "woken"
  /\ waitersCount' = waitersCount - 1
  /\ Steps(t, IF broadcast /\ waitersCount = 0 THEN "last" ELSE "relocking")
  /\ UNCHANGED <<free, sem, broadcast, done, limited, expired>>

\* Woken by the semaphore: the last waiter of a notifyAll() says so.
WokenLeaves(t) ==
  /\ at[t] = "woken"
  /\ waitersCount' = waitersCount - 1
  /\ Steps(t, IF broadcast /\ waitersCount = 1 THEN "last" ELSE "relocking")
  /\ UNCHANGED <<free, sem, broadcast, done, limited, expired>>

LastSignals(t) ==
  /\ at[t] = "last"
  /\ done' = TRUE
  /\ Steps(t, "relocking")
  /\ UNCHANGED <<free, sem, waitersCount, broadcast, limited, expired>>

Relocks(t) ==
  /\ at[t] = "relocking" /\ free
  /\ free' = FALSE
  /\ limited' = limited \ {t}
  /\ Steps(t, "signalled")
  /\ UNCHANGED <<sem, waitersCount, broadcast, done, expired>>

-----------------------------------------------------------------------------
(* notify()                                                                *)

NotifyLooks(t) ==
  /\ at[t] = "out"
  /\ IF waitersCount > 0 THEN Steps(t, "notifying") ELSE UNCHANGED at
  /\ UNCHANGED <<sem, waitersCount, broadcast, done, limited, expired>>

NotifyReleases(t) ==
  /\ at[t] = "notifying"
  /\ Release(1)
  /\ Steps(t, "out")
  /\ UNCHANGED <<free, waitersCount, broadcast, done, limited, expired>>

-----------------------------------------------------------------------------
(* notifyAll()                                                             *)

NotifyAllLooks(t) ==
  /\ at[t] = "out"
  /\ \/ waitersCount > 0 /\ broadcast' = TRUE /\ Release(waitersCount)
                         /\ Steps(t, "awaiting")
     \/ waitersCount = 0 /\ UNCHANGED <<broadcast, sem, at>>
  /\ UNCHANGED <<waitersCount, done, limited, expired>>

\* The wait for _waitersDone, an auto-reset event
NotifyAllWaits(t) ==
  /\ at[t] = "awaiting" /\ done
  /\ done' = FALSE
  /\ Steps(t, "clearing")
  /\ UNCHANGED <<free, sem, waitersCount, broadcast, limited, expired>>

\* _broadcast = false, without _waitersLock
NotifyAllClears(t) ==
  /\ at[t] = "clearing"
  /\ broadcast' = FALSE
  /\ Steps(t, "out")
  /\ UNCHANGED <<free, sem, waitersCount, done, limited, expired>>

-----------------------------------------------------------------------------
CallGoesOn(t) ==
  \/ WaitReleases(t) \/ WaitAcquires(t)
  \/ LateReturns(t) \/ WokenLeaves(t) \/ LastSignals(t) \/ Relocks(t)
  \/ NotifyReleases(t) \/ NotifyAllWaits(t) \/ NotifyAllClears(t)
=============================================================================
