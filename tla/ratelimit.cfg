CONSTANTS
  AuthKeys = {login}
  WriteKeys = {write}
  Limit = 2
  Seconds = 1
  MaxLosses = 1
  MaxRestarts = 1
SPECIFICATION RetryingSpec
INVARIANTS TypeOK BoundaryBurst RefusalIsEarned PromiseKept
PROPERTIES BlockedKeysRecover
