CONSTANTS
    SqlScripts <- MCSqlScripts
    Guarded <- MCGuarded50
    MaxRuns = 3
SPECIFICATION Spec
INVARIANT TypeOK
INVARIANT MoveAfterSchema
