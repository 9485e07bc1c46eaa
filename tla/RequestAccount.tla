--------------------------- MODULE RequestAccount ---------------------------
(***************************************************************************)
(* The account of one request (request_account.cpp): the locals into which *)
(* reconcile_request folds the entries of the request, the body of its     *)
(* loop (Folded), and what it then reads off them (Account).               *)
(*                                                                         *)
(* Times are in ticks.  A quantity is counted in halves, the coarsest      *)
(* grid that has fractions for llround to act on; sums of doubles are      *)
(* exact.  The 64-bit counters are kept as unbounded sums and wrapped      *)
(* where the account reads them.                                           *)
(***************************************************************************)
EXTENDS Integers, Sequences, FiniteSets, FiniteSetsExt

CONSTANTS
  AttemptIds,    \* attempt ids, ordered as the keys of std::map are
  CountModulus,  \* the modulus of std::uint64_t
  NoAttempt      \* no attempt has won

AccountKinds ==
  {"RequestStart", "RequestEnd", "Queue", "BatchWait", "Prefill", "Decode",
   "SpeculationProposed", "SpeculationAccepted", "SpeculationRejected",
   "GpuExecution", "CpuExecution", "KvAllocate", "KvRelease", "KvReuse",
   "TensorAllocate", "TensorRelease", "TensorReuse", "ModelResidency",
   "AdapterResidency", "KernelHit", "KernelMiss", "GraphHit", "GraphMiss",
   "TransferH2D", "TransferD2H", "TransferInterNode", "CacheRead",
   "CacheWrite", "Reserve", "Release", "Retry", "Failure", "Cancellation",
   "Recompute", "ReuseAvoided", "Energy", "CostAdjustment"}

AccountEntry ==
  [kind : AccountKinds, attempt : AttemptIds, resource : {"Physical", "Generic"},
   unit : {"Count", "EnergyWh", "Other"}, value : Int, start : Nat, end : Nat, has_end : BOOLEAN]

\* What Ledger::content_is_valid demands of a stored entry.
content_is_valid(e) ==
  /\ e.resource = "Physical" => e.value >= 0
  /\ e.unit = "Count" => e.value % 2 = 0

ASSUME AccountAssumption ==
  /\ AttemptIds \subseteq Nat /\ IsFiniteSet(AttemptIds)
  /\ NoAttempt \notin AttemptIds
  /\ CountModulus \in Nat \ {0}

-----------------------------------------------------------------------------
(* One entry *)

duration_ns(e) == IF e.has_end /\ e.end >= e.start THEN e.end - e.start ELSE 0

\* std::llround of a value in halves: half away from zero.
llround(v) == IF v >= 0 THEN (v + 1) \div 2 ELSE -((1 - v) \div 2)

larger(a, b) == IF a >= b THEN a ELSE b

-----------------------------------------------------------------------------
(* The accumulators *)

NoAttr ==
  [completed |-> FALSE, failed |-> FALSE, cancelled |-> FALSE, terminal_ns |-> 0,
   exec_s |-> 0, prefill_s |-> 0, decode_s |-> 0, gpu_s |-> 0, cpu_s |-> 0,
   spec_rej_s |-> 0, gen_tokens |-> 0]

\* What entry e adds to a duration that the kinds of ks are charged to.
Spent(e, ks) == IF e.kind \in ks THEN duration_ns(e) ELSE 0

Counted(e, ks) == IF e.kind \in ks THEN llround(e.value) ELSE 0

\* A bug: execution on the CPU is charged to the GPU as well.
GpuKindsWithCpu == {"Prefill", "Decode", "GpuExecution", "CpuExecution"}

GpuKinds == {"Prefill", "Decode", "GpuExecution"}

\* A bug: the last RequestEnd to arrive sets the time, not the latest one.
TerminalOverwritten(a, e) == e.start

TerminalAfter(a, e) == larger(a.terminal_ns, e.start)

AttrAfter(a, e) ==
  [completed   |-> a.completed \/ e.kind = "RequestEnd",
   failed      |-> a.failed \/ e.kind = "Failure",
   cancelled   |-> a.cancelled \/ e.kind = "Cancellation",
   terminal_ns |-> IF e.kind = "RequestEnd" THEN TerminalAfter(a, e) ELSE a.terminal_ns,
   exec_s      |-> a.exec_s + Spent(e, GpuKinds \cup {"CpuExecution"}),
   prefill_s   |-> a.prefill_s + Spent(e, {"Prefill"}),
   decode_s    |-> a.decode_s + Spent(e, {"Decode"}),
   gpu_s       |-> a.gpu_s + Spent(e, GpuKinds),
   cpu_s       |-> a.cpu_s + Spent(e, {"CpuExecution"}),
   spec_rej_s  |-> a.spec_rej_s + Spent(e, {"SpeculationRejected"}),
   gen_tokens  |-> a.gen_tokens + Counted(e, {"SpeculationAccepted"})
                     + (IF e.unit = "Count" THEN Counted(e, {"Decode"}) ELSE 0)]

\* Bytes held: KV blocks and tensors are followed the same way.
EmptyGauge == [allocated |-> 0, live |-> 0, peak |-> 0]

Allocated(g, v) ==
  [allocated |-> g.allocated + v, live |-> g.live + v, peak |-> larger(g.peak, g.live + v)]

\* A bug: a release is subtracted without the lower bound.
ReleasedUnbounded(g, v) == [g EXCEPT !.live = @ - v]

Released(g, v) == [g EXCEPT !.live = larger(0, @ - v)]

GaugeAfter(g, e, allocate, release) ==
  CASE e.kind = allocate -> Allocated(g, e.value)
    [] e.kind = release  -> Released(g, e.value)
    [] OTHER             -> g

DurationTotals ==
  [queue_s |-> {"Queue"}, batch_s |-> {"BatchWait"}, recompute_s |-> {"Recompute"},
   trans_dur |-> {"TransferH2D", "TransferD2H", "TransferInterNode"}]

ValueTotals ==
  [h2d |-> "TransferH2D", d2h |-> "TransferD2H", node |-> "TransferInterNode",
   kv_reuse |-> "KvReuse", t_reuse |-> "TensorReuse", reuse_avoid |-> "ReuseAvoided"]

CountTotals ==
  [spec_prop |-> "SpeculationProposed", spec_acc |-> "SpeculationAccepted",
   spec_rej |-> "SpeculationRejected", k_hits |-> "KernelHit", k_misses |-> "KernelMiss",
   g_hits |-> "GraphHit", g_misses |-> "GraphMiss", c_reads |-> "CacheRead",
   c_writes |-> "CacheWrite", retries |-> "Retry"]

EventTotals == [res_acq |-> "Reserve", res_rel |-> "Release"]

ResidencyTotals == [model_bs |-> "ModelResidency", adapter_bs |-> "AdapterResidency"]

Totals ==
  DOMAIN DurationTotals \cup DOMAIN ValueTotals \cup DOMAIN CountTotals
    \cup DOMAIN EventTotals \cup DOMAIN ResidencyTotals \cup {"energy_j"}

JoulesPerWh == 3600

\* What entry e adds to total n.
Contribution(n, e) ==
  CASE n \in DOMAIN DurationTotals  -> Spent(e, DurationTotals[n])
    [] n \in DOMAIN ValueTotals     -> IF e.kind = ValueTotals[n] THEN e.value ELSE 0
    [] n \in DOMAIN CountTotals     -> Counted(e, {CountTotals[n]})
    [] n \in DOMAIN EventTotals     -> IF e.kind = EventTotals[n] THEN 1 ELSE 0
    [] n \in DOMAIN ResidencyTotals ->
         IF e.kind = ResidencyTotals[n] THEN e.value * duration_ns(e) ELSE 0
    [] n = "energy_j" ->
         IF e.kind # "Energy" THEN 0
         ELSE IF e.unit = "EnergyWh" THEN e.value * JoulesPerWh ELSE e.value

NoTimes == [has_start |-> FALSE, start_ns |-> 0, has_end |-> FALSE, end_ns |-> 0]

TimesAfter(t, e) ==
  CASE e.kind = "RequestStart" ->
         [t EXCEPT !.has_start = TRUE, !.start_ns = IF e.has_end THEN e.end ELSE e.start]
    [] e.kind = "RequestEnd" -> [t EXCEPT !.has_end = TRUE, !.end_ns = e.start]
    [] OTHER -> t

EmptyFold ==
  [attempts |-> [a \in AttemptIds |-> NoAttr], seen |-> {}, kv |-> EmptyGauge,
   tensor |-> EmptyGauge, totals |-> [n \in Totals |-> 0], times |-> NoTimes]

\* The loop body: every entry makes its attempt known, whatever its kind.
Folded(f, e) ==
  [attempts |-> [f.attempts EXCEPT ![e.attempt] = AttrAfter(@, e)],
   seen     |-> f.seen \cup {e.attempt},
   kv       |-> GaugeAfter(f.kv, e, "KvAllocate", "KvRelease"),
   tensor   |-> GaugeAfter(f.tensor, e, "TensorAllocate", "TensorRelease"),
   totals   |-> [n \in Totals |-> f.totals[n] + Contribution(n, e)],
   times    |-> TimesAfter(f.times, e)]

\* The loop over the entries q, in their order: the last is folded last.
Reconciled(q) ==
  MapThenFoldSet(LAMBDA e, f : Folded(f, e), EmptyFold, LAMBDA i : q[i], Max, DOMAIN q)

\* The types of the accumulators: sums of quantities may have any sign.
Attr ==
  [completed : BOOLEAN, failed : BOOLEAN, cancelled : BOOLEAN, terminal_ns : Nat,
   exec_s : Nat, prefill_s : Nat, decode_s : Nat, gpu_s : Nat, cpu_s : Nat,
   spec_rej_s : Nat, gen_tokens : Int]

Gauge == [allocated : Int, live : Int, peak : Int]

FoldType ==
  [attempts : [AttemptIds -> Attr], seen : SUBSET AttemptIds, kv : Gauge, tensor : Gauge,
   totals : [Totals -> Int],
   times : [has_start : BOOLEAN, start_ns : Nat, has_end : BOOLEAN, end_ns : Nat]]

-----------------------------------------------------------------------------
(* The account *)

\* A bug: a failure that follows the end is overlooked.
SuccessfulThoughFailed(a) == a.completed /\ ~a.cancelled

Successful(a) == a.completed /\ ~a.failed /\ ~a.cancelled

\* What the selection keeps of the best attempt so far and attempt a.
Better(f, a, best) ==
  IF /\ Successful(f.attempts[a])
     /\ best = NoAttempt \/ f.attempts[a].terminal_ns >= f.attempts[best].terminal_ns
  THEN a ELSE best

\* The attempts are visited in key order (the largest is folded last); a later
\* one wins a tie.
Winning(f) ==
  MapThenFoldSet(LAMBDA a, best : Better(f, a, best), NoAttempt, LAMBDA a : a, Max, f.seen)

\* A bug: the winner is charged the work of every attempt.
EveryonesWork(f) ==
  LET all(field) == MapThenSumSet(LAMBDA a : f.attempts[a][field], f.seen) IN
  [execution_s |-> all("exec_s"), prefill_s |-> all("prefill_s"), decode_s |-> all("decode_s"),
   gpu_active_s |-> all("gpu_s"), cpu_active_s |-> all("cpu_s"),
   generated_tokens |-> all("gen_tokens") % CountModulus]

\* The fields an account copies from the winning attempt.
WinnersWork(f) ==
  LET a == IF Winning(f) = NoAttempt THEN NoAttr ELSE f.attempts[Winning(f)] IN
  [execution_s |-> a.exec_s, prefill_s |-> a.prefill_s, decode_s |-> a.decode_s,
   gpu_active_s |-> a.gpu_s, cpu_active_s |-> a.cpu_s,
   generated_tokens |-> a.gen_tokens % CountModulus]

terminal_outcome(f) ==
  IF Winning(f) # NoAttempt THEN "completed"
  ELSE IF \E a \in f.seen : f.attempts[a].cancelled /\ ~f.attempts[a].failed
       THEN "cancelled" ELSE "failed"

\* Execution of the attempts of S.
ExecutionOf(f, S) == SumFunctionOnSet([a \in AttemptIds |-> f.attempts[a].exec_s], S)

failed_attempt_work(f) ==
  ExecutionOf(f, {a \in f.seen \ {Winning(f)} : f.attempts[a].failed})

\* A bug: cancelled attempts are counted only if no other attempt won.
CancelledUnlessWon(f) ==
  IF Winning(f) # NoAttempt THEN 0
  ELSE ExecutionOf(f, {a \in f.seen : f.attempts[a].cancelled})

cancelled_work(f) ==
  ExecutionOf(f, {a \in f.seen \ {Winning(f)} : f.attempts[a].cancelled})

spec_wasted_work_s(f) == SumFunctionOnSet([a \in AttemptIds |-> f.attempts[a].spec_rej_s], f.seen)

wall_latency_s(f) ==
  LET t == f.times IN
  IF t.has_start /\ t.has_end /\ t.end_ns >= t.start_ns THEN t.end_ns - t.start_ns ELSE 0

\* The running totals as the account reports them.
Reported(f) ==
  [n \in Totals |->
     IF n \in DOMAIN CountTotals \cup DOMAIN EventTotals
     THEN f.totals[n] % CountModulus ELSE f.totals[n]]

Account(f) ==
  [work |-> WinnersWork(f), outcome |-> terminal_outcome(f),
   failed_attempt_work |-> failed_attempt_work(f), cancelled_work |-> cancelled_work(f),
   spec_wasted_work_s |-> spec_wasted_work_s(f), wall_latency_s |-> wall_latency_s(f),
   kv_allocated |-> f.kv.allocated, kv_peak |-> f.kv.peak,
   tensor_allocated |-> f.tensor.allocated, tensor_peak |-> f.tensor.peak,
   allocation_peak |-> larger(f.kv.peak, f.tensor.peak),
   totals |-> Reported(f), attempt_count |-> Cardinality(f.seen)]

=============================================================================
