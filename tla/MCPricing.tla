----------------------------- MODULE MCPricing -----------------------------
(***************************************************************************)
(* An instance of Pricing, and with it of ReconcileRequest: the entries of *)
(* one request, and a policy to price its account.                         *)
(***************************************************************************)
EXTENDS Pricing

Instant(kind, attempt, time) ==
  [kind |-> kind, attempt |-> attempt, resource |-> "Physical", unit |-> "Other", value |-> 0,
   start |-> time, end |-> 0, has_end |-> FALSE]

Lasting(kind, attempt, from, to) ==
  [Instant(kind, attempt, from) EXCEPT !.end = to, !.has_end = TRUE]

Amount(kind, value, unit) ==
  [Instant(kind, 1, 0) EXCEPT !.value = value, !.unit = unit]

(***************************************************************************)
(* Two attempts that execute, end at the same or at another time and fail; *)
(* the second may be cancelled, and its decode counts a token.             *)
(***************************************************************************)
AttemptEntries ==
  UNION {{Instant("RequestEnd", a, 1), Instant("Failure", a, 2), Lasting("Prefill", a, 0, a)} :
           a \in {1, 2}}
    \cup {Instant("RequestEnd", 1, 2), Instant("Cancellation", 2, 2),
          Lasting("CpuExecution", 1, 1, 2), Lasting("SpeculationRejected", 1, 1, 2),
          [Lasting("Decode", 2, 1, 2) EXCEPT !.value = 2, !.unit = "Count"]}

(***************************************************************************)
(* The resources of one attempt: allocations and releases of 1 and 2       *)
(* halves, other kinds with a value or a duration, an entry that ends      *)
(* before it starts.                                                       *)
(***************************************************************************)
ResourceEntries ==
  {Amount(k, v, "Other") : k \in {"KvAllocate", "KvRelease"}, v \in {1, 2}}
    \cup {Amount("TensorAllocate", 2, "Other"), Amount("TensorRelease", 4, "Other"),
          Amount("Retry", 2, "Count"), Amount("SpeculationAccepted", 1, "Other"),
          Amount("Energy", 1, "EnergyWh"), Amount("Energy", 1, "Other"),
          Amount("Reserve", 2, "Count"), Amount("CacheWrite", 3, "Other"),
          Amount("ReuseAvoided", 2, "Other"),
          Lasting("Queue", 1, 0, 1), Lasting("Recompute", 1, 0, 1),
          Lasting("GpuExecution", 1, 2, 1),
          Instant("RequestStart", 1, 0), Lasting("RequestStart", 1, 0, 1),
          Instant("RequestEnd", 1, 2)}
    \cup {[Lasting(k, 1, 0, 2) EXCEPT !.value = 2] : k \in {"TransferH2D", "ModelResidency"}}

AllEntries == AttemptEntries \cup ResourceEntries

OnePolicy ==
  {[id |-> "p", generation |-> 1,
    rates |-> [gpu_per_second |-> 2, cpu_per_second |-> 1, memory_per_gib_second |-> 1,
               transfer_per_gib |-> 2, persistent_cache_cost |-> 1, energy_per_kwh |-> 3]]}

(***************************************************************************)
(* The requests explored: those about the outcomes of attempts, and those  *)
(* of three entries about resources; the policy is there from the first    *)
(* entry on.                                                               *)
(***************************************************************************)
Explored ==
  /\ entries # << >> => Stored # {}
  /\ \/ Range(entries) \subseteq AttemptEntries
     \/ Range(entries) \subseteq ResourceEntries /\ Len(entries) <= 3

MCSpec == PriceInit /\ [][PriceNext /\ Explored']_priceVars

=============================================================================
