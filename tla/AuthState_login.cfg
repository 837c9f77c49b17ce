SPECIFICATION FairSpec
CONSTANTS
  h1 = h1
  h2 = h2
  c1 = c1
  c2 = c2
  Handlers = {h1, h2}
  Clients = {c1, c2}
  Crews <- SmallCrews
PROPERTIES OrphanedByPanic ReadersKeepLogin StateHeals RefreshingEnds
