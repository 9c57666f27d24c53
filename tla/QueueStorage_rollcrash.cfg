CONSTANTS
  MaxOpen = 2
  MaxIndex = 3
  MaxKeys = 1
  Faults = {"rollCrash"}
SPECIFICATION Spec
INVARIANT IndexCoversItems
