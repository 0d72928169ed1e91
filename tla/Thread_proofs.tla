--------------------------- MODULE Thread_proofs ---------------------------
(***************************************************************************)
(* Proofs about Thread for any set of callers and any number of runs.  The *)
(* key fact is that _runFlag is 1 from the testAndSet that begins a start  *)
(* to the end of the cleanup of the run it made, so that a start in        *)
(* progress and a run in progress exclude each other.                      *)
(***************************************************************************)
EXTENDS Thread, TLAPS

\* The flag covers every start in progress.
FlagCoversStart == runFlag = 0 => \A c \in Callers : ~Starting(c)

\* A request seen before the body begins is a new one, too.
RequestIsNew == (cancelled /\ \E c \in Callers : pc[c] = "creating") => posted

IInv == TypeOK /\ RunsDoNotOverlap /\ FlagCoversStart /\ NoStaleRequest /\ RequestIsNew

LEMMA IInvInit == Init => IInv
BY ThreadAssumption
   DEF Init, IInv, TypeOK, RunsDoNotOverlap, FlagCoversStart, NoStaleRequest, RequestIsNew,
       Starting, States, Busy, InBody, NoRun, Runs

LEMMA TypeNext == ASSUME TypeOK, [Next]_vars PROVE TypeOK'
<1> USE DEF TypeOK, Goto, Becomes, Returns, States, Busy, InBody, Over, Callers
<1>1. ASSUME NEW c \in Starters, Start(c) \/ StartClears(c) PROVE TypeOK'
  BY <1>1 DEF Start, StartClears
<1>2. ASSUME NEW c \in Starters, StartCreates(c) PROVE TypeOK'
  BY <1>2 DEF StartCreates
<1>3. ASSUME NEW c \in Stoppers, Stop(c) PROVE TypeOK'
  BY <1>3 DEF Stop
<1>4. ASSUME NEW c \in Joiners, Join(c) \/ JoinReads(c) \/ JoinEnds(c) PROVE TypeOK'
  BY <1>4 DEF Join, JoinReads, JoinEnds
<1>5. ASSUME NEW n \in Runs, Goes(n) \/ BodySleeps(n) \/ BodyReturns(n) PROVE TypeOK'
  BY <1>5 DEF Goes, BodyBegins, SleepReturns, BodyObeys, CleanupEnds, Terminates,
              BodySleeps, BodyReturns, Same
<1>6. CASE UNCHANGED vars
  BY <1>6 DEF vars
<1> QED
  BY <1>1, <1>2, <1>3, <1>4, <1>5, <1>6 DEF Next

\* One case per action: what a caller in start() and a run in progress may do.
LEMMA OverlapNext ==
  ASSUME IInv, [Next]_vars
  PROVE  RunsDoNotOverlap' /\ FlagCoversStart'
<1> USE DEF IInv, TypeOK, RunsDoNotOverlap, FlagCoversStart, Starting,
            Goto, Becomes, Returns, Busy, InBody, Callers
<1>1. ASSUME NEW c \in Starters, Start(c)
      PROVE  RunsDoNotOverlap' /\ FlagCoversStart'
  BY <1>1 DEF Start
<1>2. ASSUME NEW c \in Starters, StartClears(c)
      PROVE  RunsDoNotOverlap' /\ FlagCoversStart'
  BY <1>2 DEF StartClears
<1>3. ASSUME NEW c \in Starters, StartCreates(c)
      PROVE  RunsDoNotOverlap' /\ FlagCoversStart'
  <2>1. /\ pc[c] = "creating" /\ runFlag' = runFlag /\ runFlag = 1
        /\ \A n \in Runs : os[n] \notin Busy
        /\ \A d \in Callers : Starting(d) => d = c
    BY <1>3 DEF StartCreates
  <2>2. pc' = [pc EXCEPT ![c] = "idle"]
    BY <1>3 DEF StartCreates
  <2>3. \E k \in Runs : \A n \in Runs : os'[n] \in Busy => n = k
    <3>1. CASE \E k \in Runs : os' = [os EXCEPT ![k] = "created"]
      BY <2>1, <3>1
    <3>2. CASE os' = os
      BY <2>1, <3>2, ThreadAssumption DEF Runs
    <3> QED
      BY <1>3, <3>1, <3>2 DEF StartCreates
  <2> QED
    BY <2>1, <2>2, <2>3
<1>4. ASSUME NEW c \in Stoppers, Stop(c)
      PROVE  RunsDoNotOverlap' /\ FlagCoversStart'
  BY <1>4 DEF Stop
<1>5. ASSUME NEW c \in Joiners, Join(c) \/ JoinReads(c) \/ JoinEnds(c)
      PROVE  RunsDoNotOverlap' /\ FlagCoversStart'
  BY <1>5 DEF Join, JoinReads, JoinEnds
<1>6. ASSUME NEW n \in Runs, BodyBegins(n) \/ SleepReturns(n) \/ BodyObeys(n)
                             \/ BodySleeps(n) \/ BodyReturns(n)
      PROVE  RunsDoNotOverlap' /\ FlagCoversStart'
  BY <1>6 DEF BodyBegins, SleepReturns, BodyObeys, BodySleeps, BodyReturns, Same
<1>7. ASSUME NEW n \in Runs, CleanupEnds(n)
      PROVE  RunsDoNotOverlap' /\ FlagCoversStart'
  BY <1>7 DEF CleanupEnds, Same
<1>8. ASSUME NEW n \in Runs, Terminates(n)
      PROVE  RunsDoNotOverlap' /\ FlagCoversStart'
  BY <1>8 DEF Terminates, Same
<1>9. CASE UNCHANGED vars
  BY <1>9 DEF vars
<1> QED
  BY <1>1, <1>2, <1>3, <1>4, <1>5, <1>6, <1>7, <1>8, <1>9 DEF Next, Goes

LEMMA RequestNext ==
  ASSUME IInv, [Next]_vars
  PROVE  NoStaleRequest' /\ RequestIsNew'
<1> USE DEF IInv, TypeOK, RunsDoNotOverlap, FlagCoversStart, NoStaleRequest, RequestIsNew,
            Starting, Goto, Becomes, Returns, Busy, InBody, Callers
<1>1. ASSUME NEW c \in Starters, Start(c) PROVE NoStaleRequest' /\ RequestIsNew'
  BY <1>1 DEF Start
<1>2. ASSUME NEW c \in Starters, StartClears(c) PROVE NoStaleRequest' /\ RequestIsNew'
  BY <1>2 DEF StartClears
<1>3. ASSUME NEW c \in Starters, StartCreates(c) PROVE NoStaleRequest' /\ RequestIsNew'
  BY <1>3 DEF StartCreates
<1>4. ASSUME NEW c \in Stoppers, Stop(c) PROVE NoStaleRequest' /\ RequestIsNew'
  BY <1>4 DEF Stop
<1>5. ASSUME NEW c \in Joiners, Join(c) \/ JoinReads(c) \/ JoinEnds(c)
      PROVE  NoStaleRequest' /\ RequestIsNew'
  BY <1>5 DEF Join, JoinReads, JoinEnds
<1>6. ASSUME NEW n \in Runs, Goes(n) \/ BodySleeps(n) \/ BodyReturns(n)
      PROVE  NoStaleRequest' /\ RequestIsNew'
  BY <1>6 DEF Goes, BodyBegins, SleepReturns, BodyObeys, CleanupEnds, Terminates,
              BodySleeps, BodyReturns, Same
<1>7. CASE UNCHANGED vars
  BY <1>7 DEF vars
<1> QED
  BY <1>1, <1>2, <1>3, <1>4, <1>5, <1>6, <1>7 DEF Next

LEMMA Inductive == Spec => []IInv
<1>1. IInv /\ [Next]_vars => IInv'
  BY TypeNext, OverlapNext, RequestNext DEF IInv
<1> QED
  BY <1>1, IInvInit, PTL DEF Spec

\* Every variable keeps its type, however start, stop and join interleave.
THEOREM TypeCorrect == Spec => []TypeOK
BY Inductive, PTL DEF IInv

\* Two runs of one thread object never overlap, and no start is under way while
\* one is in progress.
THEOREM NoOverlap == Spec => []RunsDoNotOverlap
BY Inductive, PTL DEF IInv

\* A request posted before a run was started never cancels that run.
THEOREM StaleRequestsHaveNoEffect == Spec => []NoStaleRequest
BY Inductive, PTL DEF IInv

\* A request that has reached a run stays posted until that run is over.
THEOREM RequestsStay == Spec => RequestIsNotTakenBack
<1>1. ASSUME IInv, [Next]_vars, cancelled, NEW n \in Runs, os[n] \in InBody
      PROVE  cancelled'
  <2>1. \A c \in Starters : ~StartClears(c)
    BY <1>1 DEF IInv, RunsDoNotOverlap, StartClears, Starting, Busy, Callers
  <2> QED
    BY <1>1, <2>1 DEF Next, vars, Start, StartCreates, Stop, Join, JoinReads, JoinEnds, Goes,
                      BodyBegins, SleepReturns, BodyObeys, CleanupEnds, Terminates,
                      BodySleeps, BodyReturns, Same
<1>2. IInv /\ [Next]_vars
        => [(cancelled /\ \E n \in Runs : os[n] \in InBody) => cancelled']_vars
  BY <1>1
<1> QED
  BY <1>2, Inductive, PTL DEF Spec, RequestIsNotTakenBack

-----------------------------------------------------------------------------
(* What join() may conclude                                                *)

\* _thread is the run in progress, if there is one.
HandleIsCurrent == \A n \in Runs : os[n] \in Busy => handle = n

\* Who waits for another run than its own has nothing left to wait for.
WaitsForMine ==
  \A c \in Callers : (pc[c] = "waiting" /\ mine[c] # NoRun /\ os[mine[c]] \in Busy)
                       => joined[c] = mine[c]

MineWasCreated == \A c \in Callers : mine[c] # NoRun => os[mine[c]] # "none"

\* A caller in start() has no answer of join() from before.
NoOldAnswer == \A c \in Callers : Starting(c) => ret[c] = "none"

JInv == /\ HandleIsCurrent /\ WaitsForMine /\ MineWasCreated /\ NoOldAnswer
        /\ JoinMeansOver

LEMMA JInvInit == Init => JInv
BY DEF Init, JInv, HandleIsCurrent, WaitsForMine, MineWasCreated, NoOldAnswer,
       JoinMeansOver, Starting, Busy, InBody, Callers

\* Only start(), by making a run, and the end of a wait need an argument: a run
\* that is made is nobody's yet, and a wait ends when its run is over.
LEMMA JInvNext == ASSUME IInv, JInv, [Next]_vars PROVE JInv'
<1> USE DEF IInv, TypeOK, JInv, HandleIsCurrent, WaitsForMine, MineWasCreated,
            NoOldAnswer, JoinMeansOver, Starting, States, Busy, InBody, Over,
            Goto, Becomes, Returns, Callers
<1>1. ASSUME NEW c \in Starters, Start(c) PROVE JInv'
  BY <1>1 DEF Start
<1>2. ASSUME NEW c \in Starters, StartClears(c) PROVE JInv'
  BY <1>2 DEF StartClears
<1>3. ASSUME NEW c \in Starters, StartCreates(c) PROVE JInv'
  <2>1. /\ pc[c] = "creating" /\ pc' = [pc EXCEPT ![c] = "idle"]
        /\ ret[c] = "none" /\ UNCHANGED <<ret, joined>>
        /\ \A n \in Runs : os[n] \notin Busy
    BY <1>3 DEF StartCreates, RunsDoNotOverlap
  <2>2. ASSUME NEW n \in Runs, os[n] = "none", os' = [os EXCEPT ![n] = "created"],
               handle' = n, mine' = [mine EXCEPT ![c] = n]
        PROVE  JInv'
    <3>1. \A d \in Callers : mine[d] # n
      BY <2>2 DEF NoRun, Runs
    <3> QED
      BY <2>1, <2>2, <3>1
  <2>3. CASE UNCHANGED <<os, mine>>
    BY <2>1, <2>3
  <2>4. \/ \E n \in Runs : /\ os[n] = "none" /\ os' = [os EXCEPT ![n] = "created"]
                           /\ handle' = n /\ mine' = [mine EXCEPT ![c] = n]
        \/ UNCHANGED <<os, mine>>
    BY <1>3 DEF StartCreates, Runs
  <2> QED
    BY <2>2, <2>3, <2>4
<1>4. ASSUME NEW c \in Stoppers, Stop(c) PROVE JInv'
  BY <1>4 DEF Stop
<1>5. ASSUME NEW c \in Joiners, Join(c) PROVE JInv'
  BY <1>5 DEF Join, RunsDoNotOverlap
<1>6. ASSUME NEW c \in Joiners, JoinReads(c) PROVE JInv'
  BY <1>6 DEF JoinReads
<1>7. ASSUME NEW c \in Joiners, JoinEnds(c) PROVE JInv'
  <2>1. mine[c] # NoRun => os[mine[c]] \in Over
    BY <1>7 DEF JoinEnds
  <2> QED
    BY <1>7, <2>1 DEF JoinEnds
<1>8. ASSUME NEW n \in Runs, Goes(n) \/ BodySleeps(n) \/ BodyReturns(n) PROVE JInv'
  BY <1>8 DEF Goes, BodyBegins, SleepReturns, BodyObeys, CleanupEnds, Terminates,
              BodySleeps, BodyReturns, Same
<1>9. CASE UNCHANGED vars
  BY <1>9 DEF vars
<1> QED
  BY <1>1, <1>2, <1>3, <1>4, <1>5, <1>6, <1>7, <1>8, <1>9 DEF Next

\* When join() returns true, the run that its caller started last is over,
\* whatever other callers started meanwhile and whether or not they succeeded.
THEOREM JoinedRunIsOver == Spec => []JoinMeansOver
<1>1. IInv /\ IInv' /\ JInv /\ [Next]_vars => JInv'
  BY JInvNext
<1>2. JInv => JoinMeansOver
  BY DEF JInv
<1> QED
  BY <1>1, <1>2, JInvInit, Inductive, PTL DEF Spec

-----------------------------------------------------------------------------
(* What stop() and join() may count on                                     *)

\* A run that is asked to stop takes no step but towards its end.
THEOREM AskedRunsHeadForTheirEnd == Spec => AskedRunHeadsForItsEnd
<1>1. ASSUME IInv, [Next]_vars, NEW n \in Runs, cancelled, os[n] \in InBody
      PROVE  /\ cancelled'
             /\ \/ os'[n] = os[n]
                \/ os[n] \in {"created", "sleeping"} /\ os'[n] = "running"
                \/ os[n] = "running" /\ os'[n] = "cleaning"
  <2> USE DEF IInv, TypeOK, InBody, Becomes, Callers
  <2>1. \A c \in Starters : ~StartClears(c) /\ ~StartCreates(c)
    BY <1>1 DEF RunsDoNotOverlap, StartClears, StartCreates, Starting, Busy, Callers
  <2>2. ASSUME NEW c \in Starters, Start(c)
        PROVE  cancelled' /\ os'[n] = os[n]
    BY <1>1, <2>2 DEF Start
  <2>3. ASSUME NEW c \in Stoppers, Stop(c)
        PROVE  cancelled' /\ os'[n] = os[n]
    BY <1>1, <2>3 DEF Stop
  <2>4. ASSUME NEW c \in Joiners, Join(c) \/ JoinReads(c) \/ JoinEnds(c)
        PROVE  cancelled' /\ os'[n] = os[n]
    BY <1>1, <2>4 DEF Join, JoinReads, JoinEnds
  <2>5. ASSUME NEW m \in Runs, Goes(m) \/ BodySleeps(m) \/ BodyReturns(m)
        PROVE  /\ cancelled'
               /\ \/ os'[n] = os[n]
                  \/ os[n] \in {"created", "sleeping"} /\ os'[n] = "running"
                  \/ os[n] = "running" /\ os'[n] = "cleaning"
    BY <1>1, <2>5 DEF Goes, BodyBegins, SleepReturns, BodyObeys, CleanupEnds, Terminates,
                      BodySleeps, BodyReturns, Same
  <2> QED
    BY <1>1, <2>1, <2>2, <2>3, <2>4, <2>5 DEF Next, vars
<1>2. IInv /\ [Next]_vars
        => [\A n \in Runs : cancelled /\ os[n] \in InBody
              => /\ cancelled'
                 /\ \/ os'[n] = os[n]
                    \/ os[n] \in {"created", "sleeping"} /\ os'[n] = "running"
                    \/ os[n] = "running" /\ os'[n] = "cleaning"]_vars
  BY <1>1
<1> QED
  BY <1>2, Inductive, PTL DEF Spec, AskedRunHeadsForItsEnd

\* The owner is at its own run, which is not reclaimed before it is joined: while
\* _runFlag is 1 that run is in progress, or the owner is about to create it.
OwnerInv(c) ==
  /\ \A d \in Callers \ {c} : pc[d] = "idle"
  /\ runFlag = 1 /\ ~Starting(c) => mine[c] # NoRun /\ mine[c] = handle /\ os[mine[c]] \in Busy
  /\ pc[c] \in {"joining", "waiting"} =>
       /\ ~detached /\ mine[c] # NoRun /\ mine[c] = handle
       /\ os[mine[c]] \notin {"none", "reclaimed"}
  /\ pc[c] = "waiting" => joined[c] = mine[c]

LEMMA OwnerNext ==
  ASSUME NEW c, Starters = {c}, Joiners = {c}, ~CreateMayFail,
         IInv, OwnerInv(c), [Next]_vars
  PROVE  OwnerInv(c)'
<1> USE DEF IInv, TypeOK, OwnerInv, RunsDoNotOverlap, FlagCoversStart, Starting,
            States, Busy, InBody, Over, Goto, Becomes, Returns, Callers
<1>1. CASE Start(c)
  BY <1>1 DEF Start
<1>2. CASE StartClears(c)
  BY <1>2 DEF StartClears
<1>3. CASE StartCreates(c)
  <2>1. /\ pc[c] = "creating" /\ pc' = [pc EXCEPT ![c] = "idle"]
    BY <1>3 DEF StartCreates
  <2>2. PICK n \in Runs : os' = [os EXCEPT ![n] = "created"] /\ handle' = n
                          /\ mine' = [mine EXCEPT ![c] = n]
    BY <1>3 DEF StartCreates
  <2> QED
    BY <2>1, <2>2 DEF NoRun, Runs
<1>4. ASSUME NEW d \in Stoppers, Stop(d) PROVE OwnerInv(c)'
  BY <1>4 DEF Stop
<1>5. CASE Join(c)
  BY <1>5 DEF Join
<1>6. CASE JoinReads(c)
  BY <1>6 DEF JoinReads
<1>7. CASE JoinEnds(c)
  BY <1>7 DEF JoinEnds
<1>8. ASSUME NEW n \in Runs, Goes(n) \/ BodySleeps(n) \/ BodyReturns(n)
      PROVE  OwnerInv(c)'
  BY <1>8 DEF Goes, BodyBegins, SleepReturns, BodyObeys, CleanupEnds, Terminates,
              BodySleeps, BodyReturns, Same
<1>9. CASE UNCHANGED vars
  BY <1>9 DEF vars
<1> QED
  BY <1>1, <1>2, <1>3, <1>4, <1>5, <1>6, <1>7, <1>8, <1>9 DEF Next

\* If one caller alone starts and joins the thread, and pthread_create does not
\* fail, pthread_join is always called with a thread that is there to be joined.
THEOREM OwnersJoinTheirThread ==
  ASSUME NEW c, Starters = {c}, Joiners = {c}, ~CreateMayFail
  PROVE  Spec => []JoinIsDefined
<1>1. Init => OwnerInv(c)
  BY DEF Init, OwnerInv, Callers
<1>2. IInv /\ OwnerInv(c) /\ [Next]_vars => OwnerInv(c)'
  BY OwnerNext
<1>3. OwnerInv(c) => JoinIsDefined
  BY DEF OwnerInv, JoinIsDefined
<1> QED
  BY <1>1, <1>2, <1>3, Inductive, PTL DEF Spec
=============================================================================
