---------------------------- MODULE AsyncIOTask ----------------------------
(***************************************************************************)
(* ccxx::AsyncIOTask on POSIX: requests that Stream::read and              *)
(* Stream::write hand to the system (aio_read, aio_write), and the calls   *)
(* of the one client thread that finds out what became of them.  The       *)
(* system finishes a request at any moment, also in the middle of a call   *)
(* that blocks.                                                            *)
(*                                                                         *)
(* A client may use a task for another request when the last one is over.  *)
(* The module has no Next of its own: AsyncIOPoller, whose poll() blocks   *)
(* the same thread, adds its calls to these.                               *)
(***************************************************************************)
EXTENDS Naturals

CONSTANTS Tasks,
          NoTask         \* not a task

VARIABLES
  io,                    \* what the system knows of a task's control block
  pending, haveResult,   \* _pending, _haveResult
  buffered, bumped,      \* is _buffer set; how often this request bumped it
  at,                    \* the call the client is blocked in
  task,                  \* ... and the task it was made for
  answer                 \* what the last call said

tvars == <<io, pending, haveResult, buffered, bumped>>

Finished == {"moved", "empty", "failed"}     \* bytes > 0, no bytes, an error
States   == {"unused", "inProgress", "canceled"} \cup Finished
Done(t)  == io[t] # "inProgress"             \* aio_error(...) # EINPROGRESS

NoAnswer == [call |-> "none", task |-> NoTask, says |-> "ok"]

TaskInit ==
  /\ io = [t \in Tasks |-> "unused"]
  /\ pending = [t \in Tasks |-> FALSE] /\ haveResult = [t \in Tasks |-> FALSE]
  /\ buffered = [t \in Tasks |-> FALSE] /\ bumped = [t \in Tasks |-> 0]
  /\ at = "idle" /\ task = NoTask
  /\ answer = NoAnswer

\* The client is back from a call, for t, with a value or an exception.
Says(call, t, what) ==
  /\ at' = "idle" /\ task' = NoTask
  /\ answer' = [call |-> call, task |-> t, says |-> what]

Blocks(where, t) == at' = where /\ task' = t /\ UNCHANGED answer

-----------------------------------------------------------------------------
(* Stream::read and Stream::write with a task                              *)

\* Mutant of Forgets: _haveResult is left as it is.
ForgetsPartly(t) ==
  /\ \E b \in BOOLEAN : buffered' = [buffered EXCEPT ![t] = b]
  /\ bumped' = [bumped EXCEPT ![t] = 0]
  /\ UNCHANGED haveResult

\* init(): the last request is forgotten; the client has a buffer to bump or not.
Forgets(t) ==
  /\ haveResult' = [haveResult EXCEPT ![t] = FALSE]
  /\ \E b \in BOOLEAN : buffered' = [buffered EXCEPT ![t] = b]
  /\ bumped' = [bumped EXCEPT ![t] = 0]

\* The request is made; pending is what init() leaves if the system refuses it.
Begin(t) ==
  /\ at = "idle" /\ Done(t)
  /\ Forgets(t)
  /\ \/ /\ io' = [io EXCEPT ![t] = "inProgress"]
        /\ pending' = [pending EXCEPT ![t] = TRUE]
        /\ Says("begin", t, "ok")
     \/ /\ io' = [io EXCEPT ![t] = "unused"]
        /\ pending' = [pending EXCEPT ![t] = FALSE]
        /\ Says("begin", t, "error")

\* The system is done with a request.
Completes(t) ==
  /\ io[t] = "inProgress"
  /\ \E s \in Finished : io' = [io EXCEPT ![t] = s]
  /\ UNCHANGED <<pending, haveResult, buffered, bumped, at, task, answer>>

-----------------------------------------------------------------------------
(* The result                                                              *)

\* Mutant of Collect: a request in progress counts as done.
CollectUnfinished(call, t) ==
  /\ \/ /\ io[t] \in {"moved", "inProgress"}
        /\ haveResult' = [haveResult EXCEPT ![t] = TRUE]
        /\ bumped' = [bumped EXCEPT ![t] = IF buffered[t] THEN @ + 1 ELSE @]
        /\ Says(call, t, "true")
     \/ /\ io[t] \notin {"moved", "inProgress"}
        /\ Says(call, t, "error")
        /\ UNCHANGED <<haveResult, bumped>>
  /\ UNCHANGED <<io, pending, buffered>>

\* _collectResult(), whose callers have seen that there is no result yet:
\* whatever is not a number of bytes is an exception and leaves no result.
Collect(call, t) ==
  /\ \/ /\ io[t] = "moved"
        /\ haveResult' = [haveResult EXCEPT ![t] = TRUE]
        /\ bumped' = [bumped EXCEPT ![t] = IF buffered[t] THEN @ + 1 ELSE @]
        /\ Says(call, t, "true")
     \/ /\ io[t] # "moved"
        /\ Says(call, t, CASE io[t] = "canceled" -> "interrupted"
                           [] io[t] = "empty" -> "eof"
                           [] OTHER -> "error")
        /\ UNCHANGED <<haveResult, bumped>>
  /\ UNCHANGED <<io, pending, buffered>>

\* There is nothing to collect, as the task sees it.
NotYet(t) == ~haveResult[t] /\ (pending[t] => ~Done(t))

IsCompleted(t) ==
  /\ at = "idle"
  /\ \/ haveResult[t] /\ Says("isCompleted", t, "true") /\ UNCHANGED tvars
     \/ NotYet(t) /\ Says("isCompleted", t, "false") /\ UNCHANGED tvars
     \/ ~haveResult[t] /\ pending[t] /\ Done(t) /\ Collect("isCompleted", t)

\* Mutant of Cancel: a request that was cancelled is not pending any more.
CancelForgets(t) ==
  /\ at = "idle" /\ pending[t] /\ ~haveResult[t] /\ ~Done(t)
  /\ io' = [io EXCEPT ![t] = "canceled"]
  /\ pending' = [pending EXCEPT ![t] = FALSE]
  /\ Says("cancel", t, "ok")
  /\ UNCHANGED <<haveResult, buffered, bumped>>

\* aio_cancel: done with already, cancelled, or not cancellable
Cancel(t) ==
  /\ at = "idle"
  /\ \/ /\ ~(pending[t] /\ ~haveResult[t] /\ ~Done(t))
        /\ Says("cancel", t, "ok") /\ UNCHANGED io
     \/ /\ pending[t] /\ ~haveResult[t] /\ ~Done(t)
        /\ \/ io' = [io EXCEPT ![t] = "canceled"] /\ Says("cancel", t, "ok")
           \/ Says("cancel", t, "error") /\ UNCHANGED io
  /\ UNCHANGED <<pending, haveResult, buffered, bumped>>

-----------------------------------------------------------------------------
(* waitFor()                                                               *)

\* Mutant of WaitFor: it waits, too, when the result is there already.
WaitForAgain(t) ==
  /\ at = "idle"
  /\ IF pending[t] THEN Blocks("suspended", t) ELSE Says("waitFor", t, "ok")
  /\ UNCHANGED tvars

\* There is nothing to wait for without a request, or with a result.
WaitFor(t) ==
  /\ at = "idle"
  /\ IF pending[t] /\ ~haveResult[t] THEN Blocks("suspended", t)
                                     ELSE Says("waitFor", t, "ok")
  /\ UNCHANGED tvars

\* aio_suspend returns 0, and waitFor throws a TimeoutException.
WaitSucceeds ==
  /\ at = "suspended" /\ Done(task)
  /\ Says("waitFor", task, "timeout")
  /\ UNCHANGED tvars

\* aio_suspend fails, with EAGAIN when the time is over or after a signal, ...
WaitFails ==
  /\ at = "suspended" /\ ~Done(task)
  /\ Blocks("collecting", task)
  /\ UNCHANGED tvars

\* ... and the result is collected, whether or not there is one meanwhile.
WaitCollects == at = "collecting" /\ Collect("waitFor", task)

-----------------------------------------------------------------------------
TaskCalls(t) == Begin(t) \/ IsCompleted(t) \/ Cancel(t) \/ WaitFor(t)
TaskGoesOn   == WaitSucceeds \/ WaitFails \/ WaitCollects

-----------------------------------------------------------------------------
(* Properties                                                              *)

\* Every variable has its type, and waitFor() is blocked only for a request whose
\* result has not been collected.
TaskTypeOK ==
  /\ io \in [Tasks -> States]
  /\ pending \in [Tasks -> BOOLEAN] /\ haveResult \in [Tasks -> BOOLEAN]
  /\ buffered \in [Tasks -> BOOLEAN] /\ bumped \in [Tasks -> Nat]
  /\ at \in {"idle", "suspended", "collecting", "polling", "pollingForever"}
  /\ task \in Tasks \cup {NoTask}
  /\ answer.says \in {"ok", "true", "false", "error", "eof", "interrupted", "timeout"}
  /\ at \in {"suspended", "collecting"} =>
       task \in Tasks /\ pending[task] /\ ~haveResult[task]

\* A task has a result only if its own last request, not an earlier one, did
\* move bytes, and the client's buffer was bumped for that request once: never
\* before the system was done, never twice, however often the client asks.
ResultIsCollectedOnce ==
  \A t \in Tasks :
    /\ haveResult[t] => pending[t] /\ io[t] = "moved"
    /\ bumped[t] = IF haveResult[t] /\ buffered[t] THEN 1 ELSE 0

\* isCompleted() says "not yet" only while the request is in progress, or if
\* there is none: a request that ended in whatever way, cancelled ones included,
\* is never reported as still running.
NotYetMeansInProgress ==
  \A t \in Tasks : NotYet(t) => io[t] \in {"unused", "inProgress"}
=============================================================================
