------------------------------ MODULE Journal ------------------------------
(***************************************************************************)
(* What a FileLogger promises, however its files are cut off, closed or    *)
(* refused: a journal of records in the order of the calls that wrote      *)
(* them.  A call puts its record at the end or loses it; the journal is    *)
(* shortened from its beginning, and only by what is old enough.           *)
(***************************************************************************)
EXTENDS Naturals

VARIABLES kept,            \* the records that can be read: [no, at]
          backlog,         \* how many rotations a record is to outlive
          written, begun   \* calls of write(), and rotations, so far

Init == kept = {} /\ backlog \in Nat /\ written = 0 /\ begun = 0

\* The record of a call, which may have begun earlier, becomes the last.
Puts == /\ written' \in {written, written + 1}
        /\ \A r \in kept : r.no < written'
        /\ kept' = kept \cup {[no |-> written', at |-> begun]}
        /\ UNCHANGED <<backlog, begun>>

\* A call without a record so far; it may begin a rotation.
Calls == /\ written' = written + 1
         /\ begun' \in {begun, begun + 1}
         /\ UNCHANGED <<kept, backlog>>

\* The oldest records go, if they saw more than backlog rotations begin.
Forgets == /\ kept' \subseteq kept
           /\ \A r \in kept \ kept' : /\ begun > r.at + backlog
                                      /\ \A s \in kept' : r.no < s.no
           /\ UNCHANGED <<backlog, written, begun>>

Configures == backlog' \in Nat /\ UNCHANGED <<kept, written, begun>>

Next == Puts \/ Calls \/ Forgets \/ Configures

Spec == Init /\ [][Next]_<<kept, backlog, written, begun>>
=============================================================================
