--------------------------- MODULE AsyncIOPoller ---------------------------
(***************************************************************************)
(* ccxx::AsyncIOPoller on POSIX: a set of tasks, and the array of their    *)
(* control blocks that poll() hands to aio_suspend, kept from call to call *)
(* and rebuilt when _dirty says that the set has changed.                  *)
(*                                                                         *)
(* A client registers tasks that it has begun a request with.              *)
(***************************************************************************)
EXTENDS AsyncIOTask

CONSTANT AddTwice        \* does a client add tasks that are there already?

ASSUME PollerAssumption == NoTask \notin Tasks /\ AddTwice \in BOOLEAN

VARIABLES
  tasks,                 \* *_tasks
  cblist,                \* the tasks whose control blocks are in _cblist
  dirty                  \* _dirty

pvars == <<tasks, cblist, dirty>>
vars  == <<tvars, at, task, answer, pvars>>

Init == TaskInit /\ tasks = {} /\ cblist = {} /\ dirty = TRUE

\* Mutant of AddTask: the array is kept.
AddTaskKeepsArray(t) ==
  /\ at = "idle" /\ io[t] # "unused"
  /\ AddTwice \/ t \notin tasks
  /\ tasks' = tasks \cup {t}
  /\ Says("addTask", t, "ok")
  /\ UNCHANGED <<tvars, cblist, dirty>>

\* _dirty is assigned, not or-ed: adding t a second time clears it.
AddTask(t) ==
  /\ at = "idle" /\ io[t] # "unused"
  /\ AddTwice \/ t \notin tasks
  /\ tasks' = tasks \cup {t}
  /\ dirty' = (t \notin tasks)
  /\ Says("addTask", t, "ok")
  /\ UNCHANGED <<tvars, cblist>>

\* Mutant of RemoveTask: the array is kept.
RemoveTaskKeepsArray(t) ==
  /\ at = "idle"
  /\ tasks' = tasks \ {t}
  /\ Says("removeTask", t, "ok")
  /\ UNCHANGED <<tvars, cblist, dirty>>

RemoveTask(t) ==
  /\ at = "idle"
  /\ tasks' = tasks \ {t}
  /\ dirty' = (dirty \/ t \in tasks)
  /\ Says("removeTask", t, "ok")
  /\ UNCHANGED <<tvars, cblist>>

RemoveAllTasks ==
  /\ at = "idle"
  /\ tasks' = {}
  /\ dirty' = (dirty \/ tasks # {})
  /\ Says("removeAllTasks", NoTask, "ok")
  /\ UNCHANGED <<tvars, cblist>>

-----------------------------------------------------------------------------
(* poll()                                                                  *)

\* With nothing registered poll returns at once, and the array stays dirty.
PollNothing ==
  /\ at = "idle" /\ dirty /\ tasks = {}
  /\ cblist' = {}
  /\ Says("poll", NoTask, "false")
  /\ UNCHANGED <<tvars, tasks, dirty>>

\* Otherwise the array is made, or used again, and handed to the system.
Poll ==
  /\ at = "idle" /\ (dirty => tasks # {})
  /\ cblist' = IF dirty THEN tasks ELSE cblist
  /\ dirty' = FALSE
  /\ \E where \in {"polling", "pollingForever"} : Blocks(where, NoTask)
  /\ UNCHANGED <<tvars, tasks>>

IsPolling == at \in {"polling", "pollingForever"}

\* aio_suspend waits for one control block of the array, not for an empty one.
Awaited == cblist # {} => \E t \in cblist : Done(t)

PollSucceeds ==
  /\ IsPolling /\ Awaited
  /\ Says("poll", NoTask, "true")
  /\ UNCHANGED <<tvars, pvars>>

\* The time is over, or there was a signal; poll means to wait again after a
\* signal if it has no time limit, but looks for EINTR in the wrong place.
PollFails ==
  /\ IsPolling /\ ~Awaited
  /\ Says("poll", NoTask, "false")
  /\ UNCHANGED <<tvars, pvars>>

-----------------------------------------------------------------------------
\* The steps of AsyncIOTask leave the poller alone.
Asks(t) == TaskCalls(t) /\ UNCHANGED pvars
Ends(t) == Completes(t) /\ UNCHANGED pvars
GoesOn  == TaskGoesOn /\ UNCHANGED pvars

Next ==
  \/ \E t \in Tasks : Asks(t) \/ Ends(t) \/ AddTask(t) \/ RemoveTask(t)
  \/ GoesOn
  \/ RemoveAllTasks \/ PollNothing \/ Poll \/ PollSucceeds \/ PollFails

\* aio_suspend returns when a request it waits for is done.  Neither a signal
\* nor the end of a request is taken for granted.
Fairness == WF_vars(PollSucceeds)

Spec == Init /\ [][Next]_vars /\ Fairness

-----------------------------------------------------------------------------
(* Properties                                                              *)

\* Every variable has its type.
TypeOK ==
  /\ TaskTypeOK
  /\ tasks \subseteq Tasks /\ cblist \subseteq Tasks /\ dirty \in BOOLEAN

\* "@return true if at least one of the asynchronous I/O tasks registered with
\* this poller has completed, false otherwise"
PollAnswersTruly ==
  [][IsPolling /\ at' = "idle"
       => (answer'.says = "true" <=> \E t \in tasks : Done(t))]_vars

\* A poll without a time limit returns once a registered task has completed.
PollNoticesCompletion ==
  (at = "pollingForever" /\ \E t \in tasks : Done(t)) ~> at = "idle"

\* What makes that so: as soon as a registered task has completed, the system
\* has what poll() waits for, and that stays so until the poll returns.
CompletionIsAwaited ==
  [](IsPolling /\ (\E t \in tasks : Done(t)) => Awaited)
CompletionStands ==
  [][IsPolling /\ (\E t \in tasks : Done(t))
       => PollSucceeds \/ (UNCHANGED <<at, tasks>> /\ \E t \in tasks : Done(t)')]_vars
=============================================================================
