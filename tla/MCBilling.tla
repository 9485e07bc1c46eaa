----------------------------- MODULE MCBilling -----------------------------
(***************************************************************************)
(* An instance of Billing.  The ledger: two requests and the zero id, two  *)
(* batches, entries with and without a batch, of all that the policies     *)
(* measure.  A caller's own arguments: up to three members (so that one of *)
(* the two payers occurs twice) and weights 0 to 2, of which the thirds    *)
(* and fifths do not lie on a grid of 8 parts, and four members that all   *)
(* are rounded up.  The total 1 is too small for its residual to be judged *)
(* by its size, 2 is not, and loses one part to the rule.                  *)
(***************************************************************************)
EXTENDS Billing, SequencesExt

MCEntry(kind, value, from, to) ==
  [kind |-> kind, attempt |-> 1, resource |-> "Physical", unit |-> "Count", value |-> value,
   start |-> from, end |-> to, has_end |-> to > from]

MCItem(r, b, e) ==
  [request |-> r, worker |-> "w", adapter |-> Absent, batch |-> b, outcome |-> Absent, entry |-> e]

MCItems ==
  {MCItem(1, "b", MCEntry("Decode", 2, 0, 1)), MCItem(2, "b", MCEntry("Decode", 4, 0, 2)),
   MCItem(1, "b", MCEntry("RequestEnd", 0, 2, 0)), MCItem(2, "b", MCEntry("RequestEnd", 0, 2, 0)),
   MCItem(1, "c", MCEntry("Decode", 2, 0, 1)), MCItem(1, "c", MCEntry("RequestEnd", 0, 2, 0)),
   MCItem(1, "b", MCEntry("KvAllocate", 2, 1, 0)), MCItem(2, "b", MCEntry("KvRelease", 2, 1, 0)),
   MCItem(2, "b", MCEntry("Reserve", 2, 1, 0)), MCItem(1, "b", MCEntry("Cancellation", 0, 1, 0)),
   MCItem(2, Absent, MCEntry("KvAllocate", 4, 0, 0)), MCItem(0, Absent, MCEntry("Queue", 2, 0, 1))}

MCAmounts == {0, 1, 2, 5}
MCMemberLists == BoundedSeq({1, 2}, 3) \cup {<<1, 2, 1, 2>>}
MCWeightLists == BoundedSeq(0..2, 3) \cup {<<1, 1, 1, 13>>}

=============================================================================
