CONSTANTS
    MaxAttempts = 10
SPECIFICATION Spec
INVARIANT TypeOK
INVARIANT NoProcessLeftRunning
INVARIANT TestedEveryDb
INVARIANT ReadyMeansOwnCcnet
PROPERTY HarnessTerminates
CHECK_DEADLOCK FALSE
