SPECIFICATION FairSpec
CONSTANTS
  d1 = d1
  d2 = d2
  d3 = d3
  s1 = s1
  s2 = s2
  None = None
  Daemons = {d1, d2, d3}
  Shims = {s1, s2}
  Scenarios <- Lifecycles
CHECK_DEADLOCK FALSE
INVARIANTS TypeOK   OneStarts
PROPERTIES Recovers ShimReturns
