SPECIFICATION Spec
CONSTANTS
  d1 = d1
  d2 = d2
  d3 = d3
  s1 = s1
  s2 = s2
  None = None
  Daemons = {d1, d2}
  Shims = {s1, s2}
  Scenarios <- Election
INVARIANT OneDaemonServes
