CONSTANTS
  MaxOpen = 2
  MaxIndex = 3
  MaxKeys = 1
  Faults = {"crash", "close", "reopen", "commit", "remove", "create", "migrate"}
SPECIFICATION Spec
INVARIANT IndexCoversItems
PROPERTY StoreSpec
