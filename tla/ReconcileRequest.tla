-------------------------- MODULE ReconcileRequest --------------------------
(***************************************************************************)
(* reconcile_request as it runs: the fold of the entries of one request,   *)
(* in ledger order, is the state and the body of its loop the only action. *)
(* Every state is thus the account of some input of the function, and      *)
(* every step the arrival of one more entry of the request.                *)
(***************************************************************************)
EXTENDS RequestAccount

CONSTANTS
  Entries,       \* the ledger entries of the request that may arrive
  MaxEntries     \* bound: entries the request has

ASSUME ReconcileAssumption ==
  /\ Entries \subseteq AccountEntry
  /\ \A e \in Entries : content_is_valid(e)
  /\ MaxEntries \in Nat

VARIABLES
  entries,   \* the entries folded so far: the argument of reconcile_request
  fold       \* the locals of reconcile_request after them

vars == <<entries, fold>>

-----------------------------------------------------------------------------
Init ==
  /\ entries = <<>>
  /\ fold = EmptyFold

FoldEntry(e) ==
  /\ Len(entries) < MaxEntries
  /\ entries' = Append(entries, e)
  /\ fold' = Folded(fold, e)

Next == \E e \in Entries : FoldEntry(e)

Spec == Init /\ [][Next]_vars

-----------------------------------------------------------------------------
(* Properties *)

(***************************************************************************)
(* Type invariant of the loop of reconcile_request: durations, times and   *)
(* outcomes stay in the range of their C++ types; sums of quantities may   *)
(* have any sign.                                                          *)
(***************************************************************************)
TypeOK ==
  /\ entries \in Seq(Entries)
  /\ fold \in FoldType

(***************************************************************************)
(* request_account.hpp:67, "GPU + CPU active": what an attempt is charged  *)
(* as execution is exactly its GPU and its CPU time, prefill and decode    *)
(* being parts of the GPU time.                                            *)
(***************************************************************************)
ExecutionIsGpuPlusCpu ==
  \A a \in AttemptIds :
    LET t == fold.attempts[a] IN
    /\ t.exec_s = t.gpu_s + t.cpu_s
    /\ t.prefill_s + t.decode_s <= t.gpu_s

(***************************************************************************)
(* The KV and tensor gauges, with releases that arrive late, twice or      *)
(* before their allocation: what is live is never negative and never above *)
(* the peak, and the peak never above all that was allocated, when the     *)
(* entries name a physical resource.                                       *)
(***************************************************************************)
PeakBounds ==
  (\A e \in Entries : e.resource = "Physical") =>
    \A g \in {fold.kv, fold.tensor} :
      0 <= g.live /\ g.live <= g.peak /\ g.peak <= g.allocated

(***************************************************************************)
(* The selection loop of reconcile_request against its meaning: a request  *)
(* has a winner exactly when some attempt ended without failing or being   *)
(* cancelled, and then the winner is such an attempt that ended last.      *)
(***************************************************************************)
WinnerEndedLast ==
  LET ended == {a \in fold.seen :
                  /\ fold.attempts[a].completed
                  /\ ~(fold.attempts[a].failed \/ fold.attempts[a].cancelled)}
  IN  IF ended = {} THEN Winning(fold) = NoAttempt
      ELSE /\ Winning(fold) \in ended
           /\ \A a \in ended :
                fold.attempts[a].terminal_ns <= fold.attempts[Winning(fold)].terminal_ns

\* The part of an account that must not depend on how arrivals interleave.
OrderFree(f) ==
  LET acc == Account(f) IN
  [acc EXCEPT !.wall_latency_s = 0, !.kv_peak = 0, !.tensor_peak = 0, !.allocation_peak = 0]

SwapAt(s, i) == [s EXCEPT ![i] = s[i + 1], ![i + 1] = s[i]]

(***************************************************************************)
(* The ledger stores the entries of a request in the order in which the    *)
(* workers' messages were handled.  Two entries that arrive the other way  *)
(* round give the same winner, work, waste, totals and outcome; only       *)
(* the peaks and the latency, which follow the order, may differ.          *)
(***************************************************************************)
ArrivalOrderIrrelevant ==
  \A i \in 1..(Len(entries) - 1) :
    OrderFree(Reconciled(SwapAt(entries, i))) = OrderFree(fold)

(***************************************************************************)
(* README.md:72, "never adds cost to the current request": once an attempt *)
(* has won, an entry of another attempt that does not end that attempt     *)
(* changes nothing of the useful work of the request.                      *)
(***************************************************************************)
OtherAttemptsAddNothing ==
  [][\A e \in Entries :
       /\ entries' = Append(entries, e)
       /\ Winning(fold) # NoAttempt
       /\ e.attempt # Winning(fold)
       /\ e.kind # "RequestEnd"
       => WinnersWork(fold)' = WinnersWork(fold)]_vars

\* Every attempt has one outcome and at most one of them is success.
Settled ==
  /\ \A a \in fold.seen :
       LET t == fold.attempts[a] IN
       Cardinality({o \in {"completed", "failed", "cancelled"} : t[o]}) = 1
  /\ Cardinality({a \in fold.seen : fold.attempts[a].completed}) <= 1

Distributed ==
  WinnersWork(fold).execution_s + failed_attempt_work(fold) + cancelled_work(fold)

(***************************************************************************)
(* README.md:59, for a request whose attempts all have one outcome: the    *)
(* execution of all attempts is the useful, the failed and the cancelled   *)
(* work of the request, nothing lost and nothing twice.                    *)
(***************************************************************************)
SettledTotalsReconcile == Settled => Distributed = ExecutionOf(fold, fold.seen)

=============================================================================
