SPECIFICATION RestartSpec
CONSTANTS
  Callers = {}
  Callbacks = {c1}
  Logins = {l1}
  Stoppers = {s1,s2}
  MaxToken = 2
  RetryCap = 1
  MaxCrashes = 2
SYMMETRY Symmetry
INVARIANTS WgAccounting WatchdogAlive
PROPERTY RestartLossesExplained
CHECK_DEADLOCK FALSE
