SPECIFICATION Spec
CONSTANTS
  k1 = k1
  k2 = k2
  h1 = h1
  h2 = h2
  m1 = m1
  m2 = m2
  m3 = m3
  m4 = m4
  None = None
  Keys <- TwoKeys
  Handlers <- TwoHandlers
  Managers <- FourManagers
  Cap = 1
  WakeSlots = 1
  MaxToken = 2
  Scenarios <- Both
SYMMETRY HandlerSymmetry
INVARIANTS CountExact NoOrphan StoppedAtExit
