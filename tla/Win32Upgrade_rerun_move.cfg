CONSTANTS
    SqlScripts <- MCSqlScripts
    Guarded <- MCGuardedAll
    MaxRuns = 2
SPECIFICATION Spec
INVARIANT ConfMoveComplete
CHECK_DEADLOCK FALSE
