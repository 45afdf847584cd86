------------------------------ MODULE EventQueue ------------------------------
(***************************************************************************)
(* What events.h promises: every event added is handled once, in the order *)
(* added.                                                                  *)
(***************************************************************************)
EXTENDS Integers, Sequences

CONSTANT MaxKeys  \* bound: events added

VARIABLES
  queue,   \* the events added and not yet handled
  handled  \* the events handled, in order

vars == <<queue, handled>>

Init == queue = <<>> /\ handled = <<>>

\* The n-th event added is event n.
Add ==
  LET n == Len(handled) + Len(queue) + 1
  IN /\ n <= MaxKeys
     /\ queue' = Append(queue, n)
     /\ UNCHANGED handled

Handle ==
  /\ queue # <<>>
  /\ handled' = Append(handled, Head(queue))
  /\ queue' = Tail(queue)

Next == Add \/ Handle

Spec == Init /\ [][Next]_vars /\ WF_vars(Handle)
=============================================================================
