SPECIFICATION MCSpec
CONSTANTS
  AttemptIds = {1, 2}
  Entries <- AllEntries
  CountModulus = 4
  MaxEntries = 4
  NoAttempt = NoAttempt
  PolicyIds = {"p", "q"}
  Policies <- OnePolicy
  NoPolicy = NoPolicy
  kGiB = 3
  kJoulesPerKwh = 5
  MaxAdds = 1
INVARIANTS
  ExecutionIsGpuPlusCpu
  PeakBounds
  WinnerEndedLast
  ArrivalOrderIrrelevant
  SettledTotalsReconcile
  GpuWorkBilledOnce
PROPERTIES
  OtherAttemptsAddNothing
CHECK_DEADLOCK FALSE
