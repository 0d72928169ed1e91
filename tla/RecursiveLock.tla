--------------------------- MODULE RecursiveLock ---------------------------
(***************************************************************************)
(* What a recursive lock promises: one owner at a time, which may take it  *)
(* again and has to give it back as often as it took it.                   *)
(***************************************************************************)
EXTENDS Naturals

CONSTANTS Threads, NoThread

VARIABLES owner,    \* who is inside, or NoThread
          depth     \* how often it has entered without leaving

vars == <<owner, depth>>

Init == owner = NoThread /\ depth = 0

Enter(t) == /\ owner \in {NoThread, t}
            /\ owner' = t
            /\ depth' = depth + 1

Leave(t) == /\ owner = t
            /\ depth' = depth - 1
            /\ owner' = IF depth = 1 THEN NoThread ELSE t

Next == \E t \in Threads : Enter(t) \/ Leave(t)

Spec == Init /\ [][Next]_vars
=============================================================================
