------------------------------- MODULE Thread -------------------------------
(***************************************************************************)
(* The life of one ccxx::Thread object on POSIX: several callers start,    *)
(* stop and join it while its body runs, and it may be started again.      *)
(*                                                                         *)
(* Every pthread_create makes a new thread of the system, numbered in      *)
(* order; _thread holds the number of the latest.  The body of the thread  *)
(* is the client's run(): it may return (or throw) at any time, it may     *)
(* call trySleep(), and it does return once testCancel() tells it to.      *)
(***************************************************************************)
EXTENDS Integers

CONSTANTS
  Starters, Stoppers, Joiners,   \* the callers of start, stop and join
  CreateMayFail,                 \* may pthread_create fail? (nobody looks)
  MaxRuns                        \* how often a thread is created (a bound)

Callers == Starters \cup Stoppers \cup Joiners
Runs    == 1..MaxRuns
NoRun   == 0                     \* the content of _thread before any run

ASSUME ThreadAssumption ==
  /\ CreateMayFail \in BOOLEAN
  /\ MaxRuns \in Nat \ {0}

VARIABLES
  detached,                      \* _detached, the constructor's argument
  runFlag, cancelled, handle,    \* _runFlag, _cancelled, _thread
  os,                            \* the state of each thread of the system
  pc,                            \* where a caller is in start() or join()
  ret,                           \* what the last join() of a caller returned
  joined,                        \* the run a caller's pthread_join waits for
  mine,                          \* the run a caller created last
  posted                         \* stop() was called since the run began

vars == <<detached, runFlag, cancelled, handle, os, pc, ret, joined, mine, posted>>

InBody == {"created", "running", "sleeping"}   \* before run() has returned
Busy   == InBody \cup {"cleaning"}             \* ... or cleanup() is running
Over   == {"cleared", "ended", "reclaimed"}    \* _runFlag.set(0) was done
States == {"none"} \cup Busy \cup Over

Init ==
  /\ detached \in BOOLEAN
  /\ runFlag = 0 /\ cancelled = FALSE /\ handle = NoRun
  /\ os = [n \in Runs |-> "none"]
  /\ pc = [c \in Callers |-> "idle"]
  /\ ret = [c \in Callers |-> "none"]
  /\ joined = [c \in Callers |-> NoRun]
  /\ mine = [c \in Callers |-> NoRun]
  /\ posted = FALSE

Goto(c, there)    == pc' = [pc EXCEPT ![c] = there]
Becomes(n, state) == os' = [os EXCEPT ![n] = state]
Returns(c, value) == Goto(c, "idle") /\ ret' = [ret EXCEPT ![c] = value]

-----------------------------------------------------------------------------
(* start()                                                                 *)

\* Mutant of Start: the flag is counted up instead of compared and set.
StartCountsUp(c) ==
  /\ pc[c] = "idle" /\ os[MaxRuns] = "none"
  /\ runFlag' = runFlag + 1
  /\ IF runFlag >= 1 THEN UNCHANGED <<pc, posted>>
                     ELSE Goto(c, "clearing") /\ posted' = FALSE
  /\ ret' = [ret EXCEPT ![c] = "none"]
  /\ UNCHANGED <<detached, cancelled, handle, os, joined, mine>>

\* Mutant of Start: the request is cleared before the flag is looked at.
StartClearsFirst(c) ==
  /\ pc[c] = "idle" /\ os[MaxRuns] = "none"
  /\ IF runFlag = 1
       THEN UNCHANGED <<runFlag, pc, posted>>
       ELSE runFlag' = 1 /\ Goto(c, "clearing") /\ posted' = FALSE
  /\ cancelled' = FALSE
  /\ ret' = [ret EXCEPT ![c] = "none"]
  /\ UNCHANGED <<detached, handle, os, joined, mine>>

\* _runFlag.testAndSet(1, 0): only one caller goes on.
Start(c) ==
  /\ pc[c] = "idle" /\ os[MaxRuns] = "none"
  /\ IF runFlag = 1
       THEN UNCHANGED <<runFlag, pc, posted>>
       ELSE runFlag' = 1 /\ Goto(c, "clearing") /\ posted' = FALSE
  /\ ret' = [ret EXCEPT ![c] = "none"]
  /\ UNCHANGED <<detached, cancelled, handle, os, joined, mine>>

\* Mutant of StartClears: the old request is kept.
StartKeepsRequest(c) ==
  /\ pc[c] = "clearing"
  /\ Goto(c, "creating")
  /\ UNCHANGED <<detached, runFlag, cancelled, handle, os, ret, joined, mine, posted>>

\* _cancelled = false
StartClears(c) ==
  /\ pc[c] = "clearing"
  /\ cancelled' = FALSE
  /\ Goto(c, "creating")
  /\ UNCHANGED <<detached, runFlag, handle, os, ret, joined, mine, posted>>

\* pthread_create(&_thread, ...): its result is ignored.  When it fails, what
\* it leaves in _thread is undefined.
StartCreates(c) ==
  /\ pc[c] = "creating"
  /\ \/ \E n \in Runs : /\ \A m \in Runs : os[m] = "none" <=> m >= n
                        /\ Becomes(n, "created") /\ handle' = n
                        /\ mine' = [mine EXCEPT ![c] = n]
     \/ /\ CreateMayFail
        /\ handle' \in {handle, NoRun}
        /\ UNCHANGED <<os, mine>>
  /\ Goto(c, "idle")
  /\ UNCHANGED <<detached, runFlag, cancelled, ret, joined, posted>>

-----------------------------------------------------------------------------
(* stop()                                                                  *)

Stop(c) ==
  /\ pc[c] = "idle"
  /\ cancelled' = TRUE
  /\ posted' = (runFlag = 1)
  /\ UNCHANGED <<detached, runFlag, handle, os, pc, ret, joined, mine>>

-----------------------------------------------------------------------------
(* join()                                                                  *)

\* Mutant of Join: a thread that was asked to stop counts as stopped.
JoinTrustsStop(c) ==
  /\ pc[c] = "idle"
  /\ \/ detached /\ Returns(c, "false")
     \/ ~detached /\ (runFlag = 0 \/ cancelled) /\ Returns(c, "true")
     \/ ~detached /\ runFlag = 1 /\ Goto(c, "joining") /\ UNCHANGED ret
  /\ UNCHANGED <<detached, runFlag, cancelled, handle, os, joined, mine, posted>>

\* A detached thread is not joined, and one that is not running is not either.
Join(c) ==
  /\ pc[c] = "idle"
  /\ \/ detached /\ Returns(c, "false")
     \/ ~detached /\ runFlag = 0 /\ Returns(c, "true")
     \/ ~detached /\ runFlag = 1 /\ Goto(c, "joining") /\ UNCHANGED ret
  /\ UNCHANGED <<detached, runFlag, cancelled, handle, os, joined, mine, posted>>

\* The argument of pthread_join is what _thread holds now.
JoinReads(c) ==
  /\ pc[c] = "joining"
  /\ joined' = [joined EXCEPT ![c] = handle]
  /\ Goto(c, "waiting")
  /\ UNCHANGED <<detached, runFlag, cancelled, handle, os, ret, mine, posted>>

\* pthread_join waits for a thread that nobody else has joined.  If its argument
\* is no such thread (start() has not created it yet, or it is already
\* reclaimed) the outcome is undefined: either result, at once.
JoinEnds(c) ==
  /\ pc[c] = "waiting"
  /\ \/ /\ joined[c] # NoRun /\ os[joined[c]] = "ended"
        /\ Becomes(joined[c], "reclaimed") /\ Returns(c, "true")
     \/ /\ joined[c] # NoRun => os[joined[c]] = "reclaimed"
        /\ \E value \in {"true", "false"} : Returns(c, value)
        /\ UNCHANGED os
  /\ joined' = [joined EXCEPT ![c] = NoRun]
  /\ UNCHANGED <<detached, runFlag, cancelled, handle, mine, posted>>

-----------------------------------------------------------------------------
(* The new thread                                                          *)

Same == UNCHANGED <<detached, cancelled, handle, pc, ret, joined, mine, posted>>

\* _startupDispatcher, _run
BodyBegins(n) ==
  /\ os[n] = "created" /\ Becomes(n, "running")
  /\ UNCHANGED runFlag /\ Same

\* run() calls trySleep(), which sleeps in slices and looks at _cancelled
\* before each ...
BodySleeps(n) ==
  /\ os[n] = "running" /\ ~cancelled /\ Becomes(n, "sleeping")
  /\ UNCHANGED runFlag /\ Same

\* ... and which returns when the time is over or a slice finds _cancelled.
SleepReturns(n) ==
  /\ os[n] = "sleeping" /\ Becomes(n, "running")
  /\ UNCHANGED runFlag /\ Same

\* Mutant of BodyReturns: the flag is cleared before cleanup() runs.
BodyReturnsUnflagged(n) ==
  /\ os[n] = "running" /\ Becomes(n, "cleaning")
  /\ runFlag' = 0 /\ Same

\* run() returns or throws, for reasons of its own.
BodyReturns(n) ==
  /\ os[n] = "running" /\ Becomes(n, "cleaning")
  /\ UNCHANGED runFlag /\ Same

\* run() returns because testCancel() returned true.
BodyObeys(n) ==
  /\ os[n] = "running" /\ cancelled /\ Becomes(n, "cleaning")
  /\ UNCHANGED runFlag /\ Same

\* _cleanupDispatcher: cleanup(), then _runFlag.set(0)
CleanupEnds(n) ==
  /\ os[n] = "cleaning" /\ Becomes(n, "cleared")
  /\ runFlag' = 0 /\ Same

\* The thread of the system is gone; a joinable one leaves its remains.
Terminates(n) ==
  /\ os[n] = "cleared"
  /\ Becomes(n, IF detached THEN "reclaimed" ELSE "ended")
  /\ UNCHANGED runFlag /\ Same

-----------------------------------------------------------------------------
Goes(n) == \/ BodyBegins(n) \/ SleepReturns(n) \/ BodyObeys(n)
           \/ CleanupEnds(n) \/ Terminates(n)

Next ==
  \/ \E c \in Starters : Start(c) \/ StartClears(c) \/ StartCreates(c)
  \/ \E c \in Stoppers : Stop(c)
  \/ \E c \in Joiners : Join(c) \/ JoinReads(c) \/ JoinEnds(c)
  \/ \E n \in Runs : Goes(n) \/ BodySleeps(n) \/ BodyReturns(n)

\* A thread of the system runs, and so do start() and join() once called; run()
\* obeys testCancel() but need not return otherwise.  Nobody has to call.
Fairness ==
  /\ \A n \in Runs : WF_vars(Goes(n))
  /\ \A c \in Starters : WF_vars(StartClears(c) \/ StartCreates(c))
  /\ \A c \in Joiners : WF_vars(JoinReads(c) \/ JoinEnds(c))

Spec == Init /\ [][Next]_vars /\ Fairness

-----------------------------------------------------------------------------
(* Properties                                                              *)

\* Every variable has its type.
TypeOK ==
  /\ detached \in BOOLEAN
  /\ runFlag \in {0, 1} /\ cancelled \in BOOLEAN /\ posted \in BOOLEAN
  /\ handle \in Runs \cup {NoRun}
  /\ os \in [Runs -> States]
  /\ pc \in [Callers -> {"idle", "clearing", "creating", "joining", "waiting"}]
  /\ ret \in [Callers -> {"none", "true", "false"}]
  /\ joined \in [Callers -> Runs \cup {NoRun}]
  /\ mine \in [Callers -> Runs \cup {NoRun}]

Starting(c) == pc[c] \in {"clearing", "creating"}

\* However many callers start the thread, and however soon it is started again,
\* the bodies and the cleanups of two runs never overlap, nor does one overlap
\* with a start() that is about to create the next.
RunsDoNotOverlap ==
  /\ \A n, m \in Runs : os[n] \in Busy /\ os[m] \in Busy => n = m
  /\ \A c, d \in Callers : Starting(c) /\ Starting(d) => c = d
  /\ \A n \in Runs, c \in Callers : ~(os[n] \in Busy /\ Starting(c))
  /\ runFlag = 0 => ~ \E n \in Runs : os[n] \in Busy

\* When join() returns true, the run that its caller itself started last is
\* over, cleanup() included, whatever other callers did meanwhile.
JoinMeansOver ==
  \A c \in Joiners : ret[c] = "true" /\ mine[c] # NoRun => os[mine[c]] \in Over

\* A run finds itself cancelled only if stop() was called after it was started:
\* a request posted before has no effect on it.
NoStaleRequest ==
  (cancelled /\ \E n \in Runs : os[n] \in InBody) => posted

\* A request that has reached a run stays posted until the run is over: no
\* start() in between takes it back.
RequestIsNotTakenBack ==
  [][(cancelled /\ \E n \in Runs : os[n] \in InBody) => cancelled']_vars

\* A run that was asked to stop ends.
StoppedRunEnds ==
  \A n \in Runs : (cancelled /\ os[n] \in InBody) ~> os[n] \in Over

\* What makes that so: once it is asked, each step of a run is one towards its
\* end, and none puts it back to sleep, for as long as the run is in its body.
AskedRunHeadsForItsEnd ==
  [][\A n \in Runs : cancelled /\ os[n] \in InBody
       => /\ cancelled'
          /\ \/ os'[n] = os[n]
             \/ os[n] \in {"created", "sleeping"} /\ os'[n] = "running"
             \/ os[n] = "running" /\ os'[n] = "cleaning"]_vars

\* pthread_join is never called with what is no thread, or one that is joined
\* already, so that its outcome is defined.  That is so if pthread_create does
\* not fail and one caller is the owner: it alone starts and joins the thread.
JoinIsDefined ==
  \A c \in Joiners :
    pc[c] = "waiting" => joined[c] # NoRun /\ os[joined[c]] \notin {"none", "reclaimed"}
=============================================================================
