--------------------------- MODULE MCBoundedQueue ---------------------------
(***************************************************************************)
(* BoundedQueue for TLC: two producers and one or two consumers around a   *)
(* queue of one to two items, so that two calls of the same kind can be    *)
(* blocked, or on their way back from a wait, at the same time.            *)
(***************************************************************************)
EXTENDS BoundedQueue, TLC

\* Threads of one role, and items, are interchangeable (safety runs only).
Symmetry == Permutations(Producers) \cup Permutations(Consumers)
              \cup Permutations(Items)
=============================================================================
