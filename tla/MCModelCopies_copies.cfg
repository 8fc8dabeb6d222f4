SPECIFICATION Spec
CONSTANTS
  Models = {dev, prod}
  dev = dev
  prod = prod
  Source = dev
  Target = prod
  Catalogue <- MCCatalogue
  Keys <- MCKeys
  InitialRows <- MCInitialRows
  InitialKeys <- MCInitialKeys
  Attributes = {a, b}
  b = b
  a = a
  BadAttribute = bad
  bad = bad
  Promoters = {p1, p2}
  MaxTags = 1
  MaxPromotions = 1
  MaxSnapshots = 1
  Snapshotted = {prod}
  Touched = {5}
  MaxEdits = 1
  MaxGeneration = 4
PROPERTIES PromotionsCarryTheSource RestoreIsFaithful RestoreBringsBack
CHECK_DEADLOCK FALSE
SYMMETRY Symmetry
