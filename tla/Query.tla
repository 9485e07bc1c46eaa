------------------------------- MODULE Query -------------------------------
(***************************************************************************)
(* Questions to a ledger snapshot (query.cpp, and reconcile_batch of       *)
(* batch.cpp): selection, the requests present, grouping, aggregates and   *)
(* the account of a batch.  These are pure functions of the snapshot;      *)
(* Billing asks them of a ledger that grows.                               *)
(*                                                                         *)
(* An item is a ledger entry: the part that accounts read (an AccountEntry *)
(* of RequestAccount) and the fields that queries compare.  Fields that    *)
(* are compared in the same way are represented by one of them: worker     *)
(* stands for tenant, model, model_revision and device.  An entry may lack *)
(* an adapter, and the metadata batch and outcome; a query that asks for   *)
(* one of them does not select it then.                                    *)
(***************************************************************************)
EXTENDS RequestAccount

CONSTANTS
  RequestIds,  \* request ids, ordered as the keys of std::map are; 0 is the zero id
  Batches,     \* batch ids
  Absent,      \* an adapter or metadata key that an entry does not have
  Items        \* the ledger entries that may be stored

Item ==
  [request : RequestIds, worker : STRING, adapter : STRING \cup {Absent},
   batch : Batches \cup {Absent}, outcome : STRING \cup {Absent}, entry : AccountEntry]

ASSUME QueryAssumption ==
  /\ RequestIds \subseteq Nat
  /\ IsFiniteSet(Batches) /\ Absent \notin Batches
  /\ \A x \in Items : x.request \in RequestIds /\ x.entry \in AccountEntry

-----------------------------------------------------------------------------
(* Selection and grouping *)

\* A query is a record of the fields it asks for.
Matches(x, q) ==
  /\ \A f \in DOMAIN q \cap {"request", "worker", "adapter", "batch", "outcome"} : x[f] = q[f]
  /\ \A f \in DOMAIN q \cap {"attempt", "kind", "resource"} : x.entry[f] = q[f]
  /\ "start_ns" \in DOMAIN q => x.entry.start >= q.start_ns
  /\ "end_ns" \in DOMAIN q => x.entry.start <= q.end_ns

\* The elements of a finite set of numbers in increasing order.
InOrder(S) == [k \in 1..Cardinality(S) |-> CHOOSE x \in S : Cardinality({y \in S : y < x}) = k - 1]

\* The entries at the positions P, in the order of the ledger.
EntriesAt(s, P) == LET p == InOrder(P) IN [k \in DOMAIN p |-> s[p[k]]]

query_ledger(s, q) == EntriesAt(s, {i \in DOMAIN s : Matches(s[i], q)})

OfRequest(s, r) == {i \in DOMAIN s : s[i].request = r}

distinct_requests(s) ==
  LET new == EntriesAt(s, {i \in DOMAIN s : /\ s[i].request # 0
                                            /\ OfRequest(s, s[i].request) \cap 1..(i - 1) = {}})
  IN  [k \in DOMAIN new |-> new[k].request]

Grouped(s, ids) == [k \in DOMAIN ids |-> <<ids[k], EntriesAt(s, OfRequest(s, ids[k]))>>]

\* A bug: entries that belong to no request form a group of their own.
GroupsWithZero(s) == Grouped(s, InOrder({s[i].request : i \in DOMAIN s}))

\* The groups in the order of the std::set of request ids.
group_by_request(s) == Grouped(s, InOrder({s[i].request : i \in DOMAIN s} \ {0}))

-----------------------------------------------------------------------------
(* Accounts of several requests *)

reconcile_request(s) == Account(Reconciled([i \in DOMAIN s |-> s[i].entry]))

AccountOf(s, r) == reconcile_request(query_ledger(s, [request |-> r]))

\* The sum of a field over accounts.
Total(accounts, field(_)) == SumFunction([k \in DOMAIN accounts |-> field(accounts[k])])

\* A quotient is a pair, the numerator first; 0 if the denominator is not positive.
Quotient(x, y) == IF y > 0 THEN <<x, y>> ELSE <<0, 1>>

SumOfQuotients(qs) ==
  FoldFunction(LAMBDA p, q : <<p[1] * q[2] + q[1] * p[2], p[2] * q[2]>>, <<0, 1>>, qs)

waste_ratio(acc) ==
  LET waste == acc.failed_attempt_work + acc.cancelled_work + acc.spec_wasted_work_s
  IN  Quotient(waste, acc.work.execution_s + waste)

\* The averages over n accounts (n is 1 if there are none).  reused_work is always
\* 0, so that reuse_rate is, and nobody sets the costs.
Averages(accounts, n) ==
  LET waste == SumOfQuotients([k \in DOMAIN accounts |-> waste_ratio(accounts[k])])
      mean(field(_)) == Quotient(Total(accounts, field), n)
  IN  [gpu_seconds_per_request |-> mean(LAMBDA acc : acc.work.gpu_active_s),
       gpu_seconds_per_token |-> Quotient(Total(accounts, LAMBDA acc : acc.work.gpu_active_s),
                                          Total(accounts, LAMBDA acc : acc.work.generated_tokens)),
       transfer_bytes_per_request |->
         mean(LAMBDA acc : acc.totals.h2d + acc.totals.d2h + acc.totals.node),
       kv_bytes_per_request |-> mean(LAMBDA acc : acc.kv_allocated),
       retry_overhead |-> mean(LAMBDA acc : acc.totals.retries),
       waste_ratio_avg |-> Quotient(waste[1], waste[2] * n),
       reuse_rate_avg |-> Quotient(0, n)]

aggregate_accounts(accounts) ==
  [requests |-> Len(accounts),
   total_gpu_s |-> Total(accounts, LAMBDA acc : acc.work.gpu_active_s),
   total_tokens |-> Total(accounts, LAMBDA acc : acc.work.generated_tokens),
   avoided_work |-> Total(accounts, LAMBDA acc : acc.totals.reuse_avoid),
   averages |-> Averages(accounts, IF accounts = <<>> THEN 1 ELSE Len(accounts))]

\* A bug: the batch that an entry names is not compared.
InAnyBatch(s, b) == DOMAIN s

\* reconcile_batch skips an entry only if it names another batch.
InBatch(s, b) == {i \in DOMAIN s : s[i].batch \in {b, Absent}}

\* The accounts of the members ids of batch b.
MemberAccounts(s, b, ids) ==
  [k \in DOMAIN ids |-> reconcile_request(EntriesAt(s, InBatch(s, b) \cap OfRequest(s, ids[k])))]

\* The loop over the members ids, which have these accounts.
BatchAccount(s, ids, accounts) ==
  [members |-> ids, member_accounts |-> accounts,
   total_execution_s |-> Total(accounts, LAMBDA acc : acc.work.execution_s),
   total_generated_tokens |-> Total(accounts, LAMBDA acc : acc.work.generated_tokens),
   total_gpu_s |-> Total(accounts, LAMBDA acc : acc.work.gpu_active_s),
   cancelled_members |-> Cardinality({k \in DOMAIN ids : accounts[k].outcome = "cancelled"}),
   partial_completion |-> \/ \E k \in DOMAIN ids : accounts[k].outcome # "completed"
                          \/ ids = <<>> /\ s # <<>>]

reconcile_batch(s, b) ==
  LET ids == InOrder({s[i].request : i \in InBatch(s, b)}) IN
  BatchAccount(s, ids, MemberAccounts(s, b, ids))

=============================================================================
