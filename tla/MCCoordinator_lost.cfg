SPECIFICATION FairSpec
CONSTANTS
  w1 = w1
  w2 = w2
  c1 = c1
  c2 = c2
  c3 = c3
  r1 = r1
  a1 = a1
  a2 = a2
  EntryIds <- MCIds
  Requests = {r1}
  Workers <- MCWorkers
  Boots <- MCBoots
  Attempts = {a1, a2}
  Payloads = {0, 1}
  NonFinite = NonFinite
  Absent = Absent
  Conns <- OneConn
  WorkerOf <- OneWorkerOf
  BootOf <- OneBootOf
  NoConn = NoConn
  NoWorker = NoWorker
  Events <- RaceEvents
  Oversize = {}
  MaxEvents = 0
  MaxApi = 0
PROPERTIES
  LossRollsAuthority
CHECK_DEADLOCK FALSE
