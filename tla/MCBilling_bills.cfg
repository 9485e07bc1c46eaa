SPECIFICATION Spec
CONSTANTS
  AttemptIds = {1}
  CountModulus = 64
  NoAttempt = NoAttempt
  RequestIds = {0, 1, 2}
  Batches = {"b", "c"}
  Absent = Absent
  Items <- MCItems
  MaxLog = 4
  BilledBatch = "b"
  Rate = 2
  ZeroId = 0
  Payers = {1, 2}
  Amounts <- MCAmounts
  MemberLists <- MCMemberLists
  WeightLists <- MCWeightLists
  Unit = 4
  Grid = 8
  Negligible = 4
  Tolerance = 2
INVARIANTS
  GroupsAgreeWithQueries
  BatchesPartitionTheWork
  ProportionalReconciles
  SharesFollowWeights
  BillFollowsTheLedger
CHECK_DEADLOCK FALSE
