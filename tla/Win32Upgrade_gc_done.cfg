CONSTANTS
    SqlScripts <- MCSqlScripts
    Guarded <- MCGuardedSome
    MaxRuns = 1
SPECIFICATION Spec
INVARIANT GcDoneOnlyOnSuccess
