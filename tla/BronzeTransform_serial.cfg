CONSTANTS
  Docs = {d1, d2}
  MaxVersion = 2
  Steady = {d2}
  MaxKills = 1
  Overlap = FALSE
SPECIFICATION FairSpec
INVARIANTS SuccessIsIndexed
PROPERTIES HarvestReachesEtl
