---------------------------------- MODULE Fifo ----------------------------------
(***************************************************************************)
(* What one direction of a FramedSocket promises the threads that use it:  *)
(* whole messages, each at most once, in the order in which they were      *)
(* handed over.  A tail of them may never arrive.  Modules Coordinator and *)
(* Multiprocess take their inboxes and outboxes to be such queues.         *)
(***************************************************************************)
EXTENDS Naturals, Sequences

CONSTANT Messages

VARIABLES sent, received

Init == sent = <<>> /\ received = <<>>

Send == /\ \E m \in Messages : sent' = Append(sent, m)
        /\ UNCHANGED received

Receive == /\ Len(received) < Len(sent)
           /\ received' = Append(received, sent[Len(received) + 1])
           /\ UNCHANGED sent

Spec == Init /\ [][Send \/ Receive]_<<sent, received>>
=============================================================================
