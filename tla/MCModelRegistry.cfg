SPECIFICATION Spec
CONSTANTS
  Writers = {w1, w2}
  NoOne = NoOne
  MaxRecords = 3
  MaxIter = 2
SYMMETRY WritersAreAlike
INVARIANTS
  RegistryTypeOK
  NoSiblings
  LineageVerifies
  ReturnedSurvives
CHECK_DEADLOCK FALSE
