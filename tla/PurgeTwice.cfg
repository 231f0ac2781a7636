SPECIFICATION MCSpec
CONSTANTS
  MaxForms = 2
  MaxEdits = 1
  MaxPuts = 3
  MaxFaults = 2
  Parts = {"purge"}
  Threads = {"t1", "t2", "t3"}
  Processes = {"p1", "p2"}
  Slots = {1, 2}
  MaxMmaps = 1
  MaxOpenFiles = 1
  MaxFiles = 4
  MaxWork = 4
INVARIANT WriteIdsExist
