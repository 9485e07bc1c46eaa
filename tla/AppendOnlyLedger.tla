-------------------------- MODULE AppendOnlyLedger --------------------------
(***************************************************************************)
(* What ledger.hpp promises to a reader, whoever writes and for whatever   *)
(* reason an event is refused: entries are immutable, they are only ever   *)
(* added at the end, and no id is stored twice.                            *)
(***************************************************************************)
EXTENDS Sequences, Naturals

CONSTANT Entry      \* the records that may be stored, each with a field id

VARIABLE log        \* the stored entries, oldest first

Init == log = << >>

Store(e) ==
  /\ \A i \in 1..Len(log) : log[i].id # e.id
  /\ log' = Append(log, e)

Next == \E e \in Entry : Store(e)

Spec == Init /\ [][Next]_log
=============================================================================
