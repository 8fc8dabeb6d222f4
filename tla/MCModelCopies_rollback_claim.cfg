SPECIFICATION Spec
CONSTANTS
  dev = dev
  prod = prod
  a = a
  bad = bad
  p1 = p1
  Models = {dev, prod}
  Source = dev
  Target = prod
  Catalogue <- MCCatalogue
  Keys <- MCKeys
  InitialRows <- MCInitialRows
  InitialKeys <- MCInitialKeys
  Attributes = {a}
  BadAttribute = bad
  Promoters = {p1}
  MaxTags = 1
  MaxPromotions = 1
  MaxSnapshots = 0
  Snapshotted = {}
  Touched = {}
  MaxEdits = 1
  MaxGeneration = 4
PROPERTY RollbackKeepsCells
CHECK_DEADLOCK FALSE
