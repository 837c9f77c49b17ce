SPECIFICATION Spec
CONSTANTS
  Callers = {}
  Callbacks = {c1}
  Logins = {l1}
  Stoppers = {}
  MaxToken = 2
  RetryCap = 0
INVARIANT ProactiveCoverage
