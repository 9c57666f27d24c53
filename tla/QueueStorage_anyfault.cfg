CONSTANTS
  MaxOpen = 2
  MaxIndex = 2
  MaxKeys = 1
  Faults = {"crash", "rollCrash", "close", "reopen", "commit", "remove", "create", "migrate", "cleanup", "bare", "retry"}
SPECIFICATION Spec
INVARIANT OpenFilesBounded
