SPECIFICATION Spec
CONSTANTS
  Writers = {w1, w2}
  Readers = {r1}
  Migrators = {g1, g2}
  MaxToken = 3
  MaxCrashes = 2
INVARIANT NeverTorn
PROPERTY KeptOnceSaved
PROPERTY MigrationKeepsToken
