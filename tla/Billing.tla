------------------------------ MODULE Billing ------------------------------
(***************************************************************************)
(* A ledger that grows, the questions of Query asked of its snapshots, and *)
(* the bill of a batch: reconcile_batch, member_weights_for_policy and     *)
(* allocate_shared one after the other, as examples.cpp calls them.  A     *)
(* caller may also call allocate_shared with arguments of its own, as the  *)
(* tests do.                                                               *)
(***************************************************************************)
EXTENDS Query, SharedAllocation

CONSTANTS
  MaxLog,      \* bound: entries of the ledger
  BilledBatch, \* the batch that is billed
  Rate,        \* what a unit of GPU time costs
  Payers,      \* the members a caller names
  Amounts,     \* the totals a caller shares
  MemberLists, \* the members of a caller's call
  WeightLists  \* the weights of a caller's call

ASSUME BillingAssumption ==
  /\ ZeroId = 0 /\ ZeroId \notin Payers
  /\ BilledBatch \in Batches
  /\ MaxLog \in Nat /\ Rate \in Nat
  /\ Amounts \subseteq Nat
  /\ MemberLists \subseteq Seq(Payers) /\ WeightLists \subseteq Seq(Nat)

VARIABLE log   \* the snapshot of the ledger

vars == <<log, allocation>>

\* A bug: work that was cancelled is weighed as well.
WeightsWithCancelled(accounts, p) ==
  [k \in DOMAIN accounts |->
     LET acc == accounts[k] IN
     CASE p = "ProportionalBytes"     -> acc.kv_allocated + acc.tensor_allocated
       [] p = "ProportionalTokens"    -> acc.work.generated_tokens
       [] p = "ProportionalExecution" -> acc.work.execution_s + acc.cancelled_work
       [] p = "ProportionalReserved"  -> acc.totals.res_acq
       [] OTHER                       -> 1]

member_weights_for_policy(accounts, p) ==
  [k \in DOMAIN accounts |->
     LET acc == accounts[k] IN
     CASE p = "ProportionalBytes"     -> acc.kv_allocated + acc.tensor_allocated
       [] p = "ProportionalTokens"    -> acc.work.generated_tokens
       [] p = "ProportionalExecution" -> acc.work.execution_s
       [] p = "ProportionalReserved"  -> acc.totals.res_acq
       [] OTHER                       -> 1]

-----------------------------------------------------------------------------
Init == log = <<>> /\ AllocationInit

Store(x) ==
  /\ pc = "idle"
  /\ Len(log) < MaxLog
  /\ log' = Append(log, x)
  /\ UNCHANGED allocation

\* The GPU time of a batch, priced and shared; the owner is left to default.
BillBatch(p) ==
  /\ pc = "idle" /\ log # <<>>
  /\ \E ba \in {reconcile_batch(log, BilledBatch)} :
       allocate_shared(ba.total_gpu_s * Rate, ba.members,
                       member_weights_for_policy(ba.member_accounts, p), p, ZeroId)
  /\ UNCHANGED log

\* A caller's own arguments, which no ledger stands behind.
ShareAmount ==
  /\ pc = "idle" /\ log = <<>>
  /\ \E t \in Amounts, ms \in MemberLists, ws \in WeightLists, p \in AttributionPolicy,
        owner \in Payers \cup {ZeroId} : allocate_shared(t, ms, ws, p, owner)
  /\ UNCHANGED log

Next ==
  \/ \E x \in Items : Store(x)
  \/ \E p \in AttributionPolicy : BillBatch(p)
  \/ ShareAmount
  \/ AllocationNext /\ UNCHANGED log

Spec == Init /\ [][Next]_vars

-----------------------------------------------------------------------------
(* Properties of the questions: of every snapshot, before it is billed *)

(***************************************************************************)
(* The ways to take a ledger apart agree (query.cpp): group_by_request has *)
(* one group for each request that distinct_requests lists, the group of a *)
(* request is what query_ledger selects for it, and an entry of no request *)
(* is in none.                                                             *)
(***************************************************************************)
GroupsAgreeWithQueries == pc = "idle" =>
  LET groups == group_by_request(log)
      ids == distinct_requests(log)
  IN  /\ Len(groups) = Len(ids)
      /\ {groups[k][1] : k \in DOMAIN groups} = Range(ids)
      /\ \A k \in DOMAIN groups :
           groups[k][2] = query_ledger(log, [request |-> groups[k][1]])

(***************************************************************************)
(* When the batches share no request and every entry names its batch, the  *)
(* GPU time of the batches adds up to that of the requests (aggregate of   *)
(* the accounts), so that billing by batch and by request is the same.     *)
(***************************************************************************)
BatchesPartitionTheWork == pc = "idle" =>
  LET ids == distinct_requests(log)
      accounts == [k \in DOMAIN ids |-> AccountOf(log, ids[k])]
      requestsOf(b) == {log[i].request : i \in {j \in DOMAIN log : log[j].batch = b}}
  IN  /\ \A i \in DOMAIN log : log[i].batch \in Batches /\ log[i].request # 0
      /\ \A b, c \in Batches : b # c => requestsOf(b) \cap requestsOf(c) = {}
      => SumFunction([b \in Batches |-> reconcile_batch(log, b).total_gpu_s])
           = aggregate_accounts(accounts).total_gpu_s

-----------------------------------------------------------------------------
(* Properties of the bill *)

\* What the ledger holds of that which policy p measures, for request r in
\* the billed batch: time and tokens count only if the request completed.
Recorded(p, r) ==
  LET mine == {i \in DOMAIN log : log[i].request = r /\ log[i].batch \in {BilledBatch, Absent}}
      of(kind) == {i \in mine : log[i].entry.kind = kind}
      completed == of("RequestEnd") # {} /\ of("Failure") \cup of("Cancellation") = {}
      counted == IF completed THEN of("Decode") ELSE {}
  IN  CASE p = "ProportionalBytes" ->
             MapThenSumSet(LAMBDA i : log[i].entry.value, of("KvAllocate"))
        [] p = "ProportionalTokens" ->
             MapThenSumSet(LAMBDA i : log[i].entry.value \div 2, counted)
        [] p = "ProportionalExecution" ->
             MapThenSumSet(LAMBDA i : log[i].entry.end - log[i].entry.start, counted)
        [] p = "ProportionalReserved" -> Cardinality(of("Reserve"))
        [] OTHER -> 1

(***************************************************************************)
(* What member_weights_for_policy is for (batch.cpp:74-103), from ledger   *)
(* to bill: the bill of a batch reconciles under every policy, a member    *)
(* for which the ledger records less of what the policy measures never     *)
(* pays more, and one for which it records nothing pays nothing, unless it *)
(* records nothing for anybody.                                            *)
(***************************************************************************)
BillFollowsTheLedger ==
  pc = "done" /\ log # <<>> /\ members # <<>> =>
    LET used == [i \in DOMAIN members |-> Recorded(policy, members[i])] IN
    /\ reconciles
    /\ policy # "DirectOwnership" =>
         /\ \A i, j \in DOMAIN members : used[i] <= used[j] => shares[i] <= shares[j]
         /\ \A i \in DOMAIN members :
              used[i] = 0 /\ shares[i] # 0 => \A j \in DOMAIN members : used[j] = 0

=============================================================================
