------------------------------ MODULE Pricing ------------------------------
(***************************************************************************)
(* The pricing layer (pricing.cpp): the store of policies and the cost of  *)
(* a request's account under a policy.  The account is the one that        *)
(* ReconcileRequest derives; entries arrive and policies are added in any  *)
(* order, and every account may be priced under every stored policy.       *)
(*                                                                         *)
(* The code divides bytes by kGiB and joules by kJoulesPerKwh.  Here a     *)
(* cost is counted in the unit 1 / (kGiB * kJoulesPerKwh) of the currency, *)
(* in which all of its quotients are whole; the halves in which            *)
(* RequestAccount counts quantities are one more factor of that unit.      *)
(***************************************************************************)
EXTENDS ReconcileRequest

CONSTANTS
  PolicyIds,       \* pricing policy ids
  Policies,        \* the policies that callers add
  NoPolicy,        \* an id the store does not hold
  kGiB,            \* bytes of a GiB
  kJoulesPerKwh,   \* joules of a kWh
  MaxAdds          \* bound: calls of PricingPolicyStore::add

Rates ==
  [gpu_per_second : Int, cpu_per_second : Int, memory_per_gib_second : Int,
   transfer_per_gib : Int, persistent_cache_cost : Int, energy_per_kwh : Int]

PricingPolicy == [id : PolicyIds, generation : Nat, rates : Rates]

ASSUME PricingAssumption ==
  /\ Policies \subseteq PricingPolicy
  /\ NoPolicy \notin Policies
  /\ kGiB \in Nat \ {0} /\ kJoulesPerKwh \in Nat \ {0}
  /\ MaxAdds \in Nat

VARIABLES
  store,   \* PricingPolicyStore::store_
  adds     \* calls of add so far

priceVars == <<vars, store, adds>>

-----------------------------------------------------------------------------
(* Whole units: a second, a cached artifact, a GiB, a kWh at rate 1. *)

PerSecond == 2 * kGiB * kJoulesPerKwh
PerByte == kJoulesPerKwh
PerJoule == kGiB

\* A bug: the work of cancelled attempts is not billed.
ApplyForgetsCancelled(f, p) ==
  LET acc == Account(f)
      gpu == p.rates.gpu_per_second * PerSecond
  IN  [useful_work_cost |-> acc.work.execution_s * gpu,
       wasted_work_cost |-> (acc.failed_attempt_work + acc.spec_wasted_work_s) * gpu,
       cancelled_cost |-> 0, recomputed_cost |-> acc.totals.recompute_s * gpu,
       cpu_compute_cost |-> acc.work.cpu_active_s * p.rates.cpu_per_second * PerSecond,
       residency_cost |-> 0, transfer_cost |-> 0, storage_cache_cost |-> 0, energy_cost |-> 0]

\* The last three parts of a CostResult are reported and not billed; reuse_credit
\* takes its seconds from a quantity, which is counted in halves.
apply_pricing(f, p) ==
  LET acc == Account(f)
      t == acc.totals
      gpu == p.rates.gpu_per_second * PerSecond
  IN  [useful_work_cost   |-> acc.work.execution_s * gpu,
       wasted_work_cost   |-> (acc.failed_attempt_work + acc.spec_wasted_work_s) * gpu,
       cancelled_cost     |-> acc.cancelled_work * gpu,
       recomputed_cost    |-> t.recompute_s * gpu,
       cpu_compute_cost   |-> acc.work.cpu_active_s * p.rates.cpu_per_second * PerSecond,
       residency_cost     |-> (t.model_bs + t.adapter_bs)
                                * p.rates.memory_per_gib_second * PerByte,
       transfer_cost      |-> (t.h2d + t.d2h + t.node) * p.rates.transfer_per_gib * PerByte,
       storage_cache_cost |-> t.c_writes * p.rates.persistent_cache_cost * PerSecond,
       energy_cost        |-> t.energy_j * p.rates.energy_per_kwh * PerJoule,
       retry_cost         |-> acc.failed_attempt_work * gpu,
       rejected_spec_cost |-> acc.spec_wasted_work_s * gpu,
       reuse_credit       |-> (t.reuse_avoid * gpu) \div 2]

compute_cost(r) ==
  r.useful_work_cost + r.wasted_work_cost + r.cancelled_cost + r.recomputed_cost
    + r.cpu_compute_cost

cost_total(r) ==
  compute_cost(r) + r.residency_cost + r.transfer_cost + r.storage_cache_cost + r.energy_cost

-----------------------------------------------------------------------------
PriceInit ==
  /\ Init
  /\ store = [i \in PolicyIds |-> NoPolicy]
  /\ adds = 0

Record(e) ==
  /\ FoldEntry(e)
  /\ UNCHANGED <<store, adds>>

\* PricingPolicyStore::add assigns to store_[p.id], whatever it holds.
add(p) ==
  /\ adds < MaxAdds
  /\ store' = [store EXCEPT ![p.id] = p]
  /\ adds' = adds + 1
  /\ UNCHANGED vars

PriceNext ==
  \/ \E e \in Entries : Record(e)
  \/ \E p \in Policies : add(p)

PriceSpec == PriceInit /\ [][PriceNext]_priceVars

-----------------------------------------------------------------------------
(* Properties *)

Stored == {store[i] : i \in PolicyIds} \ {NoPolicy}

NoCpuWork == \A a \in fold.seen : fold.attempts[a].cpu_s = 0

(***************************************************************************)
(* README.md:59 carried through apply_pricing, for a request that ran on   *)
(* the GPU alone and whose attempts all have exactly one outcome: its      *)
(* compute cost is every second that any attempt executed, speculated in   *)
(* vain or recomputed, each billed exactly once.  CPU work is left out for *)
(* a reason: execution_s contains it, so that pricing.cpp:57 bills it at   *)
(* the GPU rate and pricing.cpp:70 once more at its own.                   *)
(***************************************************************************)
GpuWorkBilledOnce ==
  Settled /\ NoCpuWork =>
    \A p \in Stored :
      compute_cost(apply_pricing(fold, p)) =
        (ExecutionOf(fold, fold.seen) + spec_wasted_work_s(fold) + fold.totals.recompute_s)
          * p.rates.gpu_per_second * PerSecond

=============================================================================
