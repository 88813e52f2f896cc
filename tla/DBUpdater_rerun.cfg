CONSTANTS
    Blank = Blank
    NoDb = NoDb
    Killed = Killed
    Stmts <- MCStmts
    Scripts <- MCScripts
    ScriptDirs <- MCScriptDirsKnown
    IsPro = TRUE
    MaxRuns = 2
SPECIFICATION Spec
CHECK_DEADLOCK FALSE
INVARIANT RerunNoOpOrFails
