CONSTANTS
    SqlScripts <- MCSqlScripts
    Guarded <- MCGuardedAll
    MaxRuns = 2
SPECIFICATION Spec
INVARIANT NoConfigLost
CHECK_DEADLOCK FALSE
