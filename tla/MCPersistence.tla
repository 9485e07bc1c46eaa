--------------------------- MODULE MCPersistence ---------------------------
(***************************************************************************)
(* An instance of Persistence: two ids, the first with two contents that   *)
(* conflict, and an entry that encode_entry refuses.                       *)
(***************************************************************************)
EXTENDS Persistence

CONSTANTS w1, r1, a1

MCIds == {"i1", "i2", "i3"}

Entry(i, quantity, p) ==
  [id |-> i, event_kind |-> "Work", request |-> r1, worker |-> w1,
   resource_kind |-> "Energy", unit |-> "Seconds", quantity |-> quantity,
   payload |-> p, epoch |-> 1, accounting_generation |-> 1, worker_boot |-> 1,
   request_generation |-> 1, attempt |-> a1, attempt_generation |-> 1]

MCEvents ==
  {Entry("i1", 2, 0), Entry("i1", 2, 1), Entry("i2", 1, 0), Entry("i3", -1, 0)}
=============================================================================
