CONSTANTS
  MaxOpen = 3
  MaxIndex = 4
  MaxKeys = 2
  Faults = {"bare"}
SPECIFICATION Spec
INVARIANTS NoItemLost NoEmptySegment
PROPERTY GcOnlyEmpty
