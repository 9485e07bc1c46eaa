SPECIFICATION FairScenarioSpec
CONSTANTS
  EntryIds <- MCEntryIds
  Requests = {"R", "R2"}
  Workers = {"WA", "WB"}
  Boots = {1, 2, 3}
  Attempts = {1, 2, 3}
  Payloads <- MCBodies
  NonFinite = NonFinite
  Absent = Absent
  Conns <- Children
  WorkerOf <- ChildWorker
  BootOf <- ChildBoot
  NoConn = NoConn
  NoWorker = NoWorker
  Events <- ScriptEvents
  Oversize = {}
  MaxEvents = 7
  MaxApi = 0
  Torn = Torn
  SlowWaits = {"wait_a", "wait_stopped"}
  MaxMishaps = 1
INVARIANTS
  PassMeansTheClaims
  VerdictHangsOnTheSleep
  SavedHoldsAcked
PROPERTIES
  ScenarioReports
CHECK_DEADLOCK FALSE
