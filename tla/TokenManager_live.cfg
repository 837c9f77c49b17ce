SPECIFICATION WatchdogSpec
CONSTANTS
  Callers = {p1}
  Callbacks = {c1}
  Logins = {}
  Stoppers = {s1}
  MaxToken = 2
  RetryCap = 0
INVARIANT NoTokenUsedTwice
PROPERTIES StopReturns RefreshReturns DiskConverges DrainSpec
