SPECIFICATION Spec
CONSTANTS
  la = la
  Labels = {la}
  Caught = {"Exception", "Throwable"}
  MaxScopes = 2
  MaxSimple = 3
INVARIANTS ExitsRunCleanups GotosRunCleanups LegalGotosResolve ThrowsRunCleanups
CHECK_DEADLOCK FALSE
