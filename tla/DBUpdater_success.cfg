CONSTANTS
    Blank = Blank
    NoDb = NoDb
    Killed = Killed
    Stmts <- MCStmts
    Scripts <- MCScripts
    ScriptDirs <- MCScriptDirs
    IsPro = TRUE
    MaxRuns = 3
SPECIFICATION Spec
INVARIANT TypeOK
INVARIANT SuccessAccountsForEveryStatement
CHECK_DEADLOCK FALSE
