CONSTANTS
  Docs = {d1, d2}
  MaxVersion = 2
  Steady = {}
  MaxKills = 0
  Overlap = FALSE
SPECIFICATION Spec
INVARIANTS WithinReach
