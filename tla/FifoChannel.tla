---------------------------- MODULE FifoChannel ----------------------------
(***************************************************************************)
(* What a bounded blocking queue promises to the threads that use it: a    *)
(* channel that hands every item on at most once and in the order in which *)
(* the items were accepted, that never holds more than its bound, and      *)
(* whose calls take effect at one instant between their start and their    *)
(* return.  Nothing is said here of how a call waits or who wakes it.      *)
(***************************************************************************)
EXTENDS Naturals, Sequences

CONSTANTS Threads,      \* the threads that call the channel
          Items,        \* what may be put
          NoItem        \* the item of a call that carries none

VARIABLES chan,         \* the items accepted and not yet handed on
          bound,        \* how many items the channel may hold
          pending,      \* the call each thread is blocked in
          reply         \* what the last finished call of each thread returned

vars == <<chan, bound, pending, reply>>

NoCall == [op |-> "none", item |-> NoItem]
NoReply == [thread |-> "none", outcome |-> "none", item |-> NoItem]
Calls  == [op : {"put", "tryPut"}, item : Items]
            \cup [op : {"take", "tryTake", "reset"}, item : {NoItem}]

Init == /\ chan = <<>>
        /\ bound \in Nat
        /\ pending = [t \in Threads |-> NoCall]
        /\ reply = NoReply

Answer(t, outcome, x) ==
  /\ pending' = [pending EXCEPT ![t] = NoCall]
  /\ reply' = [thread |-> t, outcome |-> outcome, item |-> x]

\* A call of t that cannot finish yet.
Begin(t, c) ==
  /\ pending[t] = NoCall
  /\ pending' = [pending EXCEPT ![t] = c]
  /\ UNCHANGED <<bound, reply>>
  /\ chan' = IF c.op = "reset" THEN <<>> ELSE chan

\* A put of t, blocked until now or not, takes effect and returns.
Accept(t, x) ==
  /\ pending[t] = NoCall \/ (pending[t].op \in {"put", "tryPut"} /\ pending[t].item = x)
  /\ Len(chan) < bound
  /\ chan' = Append(chan, x)
  /\ Answer(t, "ok", NoItem)
  /\ UNCHANGED bound

\* A take of t, blocked until now or not, takes effect and returns.
HandOn(t) ==
  /\ pending[t] = NoCall \/ pending[t].op \in {"take", "tryTake"}
  /\ chan # <<>>
  /\ chan' = Tail(chan)
  /\ Answer(t, "ok", Head(chan))
  /\ UNCHANGED bound

\* A call of t fails: it has no effect on the channel.
Fail(t) ==
  /\ \E outcome \in {"timeout", "interrupted"} : Answer(t, outcome, NoItem)
  /\ UNCHANGED <<chan, bound>>

\* The rest of a reset.
Finish(t) ==
  /\ pending[t].op = "reset"
  /\ Answer(t, "ok", NoItem)
  /\ UNCHANGED <<chan, bound>>

\* Everything in the channel is thrown away.
Discard ==
  /\ chan' = <<>>
  /\ UNCHANGED <<bound, pending, reply>>

\* The bound changes, never to less than what the channel holds.
Resize ==
  /\ bound' \in Nat
  /\ bound' >= Len(chan)
  /\ UNCHANGED <<chan, pending, reply>>

Next == \/ \E t \in Threads : \/ \E c \in Calls : Begin(t, c)
                              \/ \E x \in Items : Accept(t, x)
                              \/ HandOn(t)
                              \/ Fail(t)
                              \/ Finish(t)
        \/ Discard
        \/ Resize

Spec == Init /\ [][Next]_vars
=============================================================================
