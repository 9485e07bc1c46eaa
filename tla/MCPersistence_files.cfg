SPECIFICATION Spec
CONSTANTS
  w1 = w1
  r1 = r1
  a1 = a1
  EntryIds <- MCIds
  Requests = {r1}
  Workers = {w1}
  Boots = {1}
  Attempts = {a1}
  Payloads = {0, 1}
  NonFinite = NonFinite
  Absent = Absent
  Events <- MCEvents
  Torn = Torn
  Unknown = Unknown
  MaxMem = 2
  MaxBatch = 2
  MaxFrames = 3
  MaxFaults = 2
INVARIANTS
  SuccessIsLoadable
  LoadedIsPrefixOfIntent
  ReplayReproduces
PROPERTIES
  ReplayOnlyConflicts
  AppendKeepsTheOld
CHECK_DEADLOCK FALSE
