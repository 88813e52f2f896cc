---------------------------- MODULE Win32Upgrade ----------------------------
(***************************************************************************)
(* The Windows maintenance scripts of src/scripts/upgrade/win32/py, which  *)
(* share one server, one set of databases and one configuration:          *)
(*   upgrade_4.3_5.0.py: upgrade_common.upgrade_db('5.0.0') (the server    *)
(*     check and the SQLite scripts), then                                 *)
(*     move_all_conf_to_central_config_dir();                              *)
(*   upgrade_2.1_3.0.py: upgrade_db('3.0.0'), then do_migrate_storage(),   *)
(*     which runs syncwerk-server-migrate.exe through run_argv();          *)
(*   gc.py: ensure_server_not_running(), then call_syncwerk_server_gc(),   *)
(*     which runs syncwerk-server-gc.exe through run_argv().               *)
(* An external program is one step that returns an exit code.            *)
(*                                                                         *)
(* A SQL script is applied as one step that commits or raises (DBUpdater  *)
(* models the statements inside a script).  An unguarded script raises    *)
(* when it runs again on a database that already has its effect.  Every   *)
(* exception is caught by main(), which prints it; the process can also   *)
(* be killed at any point, and the operator can run the script again.     *)
(* The server can be started and stopped at any time by its service.      *)
(***************************************************************************)
EXTENDS Integers, Sequences, SequencesExt

CONSTANTS
    SqlScripts,     \* version -> the scripts upgrade_db(version) applies, in its order
    Guarded,        \* the scripts that are no-ops when run again
    MaxRuns         \* bound on the number of runs

\* The files move_all_conf_to_central_config_dir() moves, in its order.
ConfFiles == <<"ccnet.conf", "server.conf", "restapi_settings.py">>
FileSet == ToSet(ConfFiles)

\* The programs the operator can run.
Programs == {"upgrade50", "upgrade30", "gc"}

\* The version a program passes to upgrade_db().
TargetVersion(p) == IF p = "upgrade30" THEN "3.0.0" ELSE "5.0.0"

\* lastRc before run_argv() has returned in a run.
NotRun == -1

AllScripts == UNION {ToSet(SqlScripts[v]) : v \in DOMAIN SqlScripts}

ASSUME /\ DOMAIN SqlScripts = {"3.0.0", "5.0.0"}
       /\ \A v \in DOMAIN SqlScripts : IsInjective(SqlScripts[v])
       /\ ToSet(SqlScripts["3.0.0"]) \cap ToSet(SqlScripts["5.0.0"]) = {}
       /\ Guarded \subseteq AllScripts
       /\ MaxRuns \in Nat \ {0}

VARIABLES
    server,     \* "stopped" or "running"
    prog,       \* the program of the current or last run, or "none"
    pc,         \* "idle", "import", "check", "sql", "run", "copy", "truncate", "write", "done"
    outcome,    \* what the last run printed: "done", "error", "killed", "none"
    sqlTodo,    \* scripts still to apply in this run
    applied,    \* scripts whose effect is in the databases
    fileIdx,    \* index in ConfFiles of the file being moved
    centralDir, \* <syncwserv_dir>/conf exists
    legacy,     \* file -> "conf", "empty" (truncated) or "stub" (the
                \* "# This file has been moved ..." marker)
    central,    \* file -> "none", or the content copied into conf/
    lastRc,     \* exit code run_argv() returned in this run, or NotRun
    ini,        \* <program_top_dir>/syncwserv.ini exists
    runs

vars == <<server, prog, pc, outcome, sqlTodo, applied, fileIdx, centralDir, legacy,
          central, lastRc, ini, runs>>

-----------------------------------------------------------------------------

Init ==
    /\ server = "stopped"
    /\ prog = "none"
    /\ pc = "idle"
    /\ outcome = "none"
    /\ sqlTodo = <<>>
    /\ applied = {}
    /\ fileIdx = 1
    /\ centralDir = FALSE
    /\ legacy = [f \in FileSet |-> "conf"]
    /\ central = [f \in FileSet |-> "none"]
    /\ lastRc = NotRun
    /\ ini \in BOOLEAN
    /\ runs = 0

\* main() catches the exception and prints "Error:"; the process ends.
RaiseInMain ==
    /\ pc' = "done"
    /\ outcome' = "error"

\* The operator runs one of the scripts.
StartRun ==
    /\ pc \in {"idle", "done"}
    /\ runs < MaxRuns
    /\ runs' = runs + 1
    /\ pc' = "import"
    /\ prog' \in Programs
    /\ lastRc' = NotRun
    /\ UNCHANGED <<server, outcome, sqlTodo, applied, fileIdx, centralDir,
                   legacy, central, ini>>

\* `import upgrade_common` runs read_syncwserv_dir(): without
\* syncwserv.ini, error() prints the path and exits 1, before main() and
\* its try block; otherwise the data directories are known.
ReadSyncwservDir ==
    /\ pc = "import"
    /\ IF ini THEN pc' = "check" /\ UNCHANGED outcome
              ELSE RaiseInMain
    /\ UNCHANGED <<server, prog, sqlTodo, applied, fileIdx, centralDir, legacy,
                   central, lastRc, ini, runs>>

\* The ccnet.conf ensure_server_not_running() gives ccnet.SyncClient: the
\* one in conf/ if it exists there, else the one in ccnet_dir.
ProbeConf ==
    IF central["ccnet.conf"] # "none" THEN central["ccnet.conf"]
                                      ELSE legacy["ccnet.conf"]

\* connect_daemon() reaches the server only when it is up and the
\* configuration names its address.
ProbeFinds == server = "running" /\ ProbeConf = "conf"

\* ensure_server_not_running(): a connection that succeeds raises, and
\* so does a SyncClient that cannot load an empty or moved ccnet.conf;
\* ccnet.NetworkError lets the script go on (with an empty configuration,
\* whether the server runs or not).  gc.py calls it from main() and goes
\* on to the gc program; the upgrades call it first in upgrade_db() and
\* go on to its scripts.
EnsureServerNotRunning ==
    /\ pc = "check"
    /\ \/ /\ ProbeFinds \/ ProbeConf # "conf"
          /\ RaiseInMain
          /\ UNCHANGED sqlTodo
       \/ /\ ~ProbeFinds
          /\ IF prog = "gc"
             THEN pc' = "run" /\ UNCHANGED sqlTodo
             ELSE /\ pc' = "sql"
                  /\ sqlTodo' = SqlScripts[TargetVersion(prog)]
          /\ UNCHANGED outcome
    /\ UNCHANGED <<server, prog, applied, fileIdx, centralDir, legacy, central,
                   lastRc, ini, runs>>

\* Mutant: a script that raises is reported and the next one is applied.
ApplySqlContinue ==
    /\ pc = "sql"
    /\ sqlTodo # <<>>
    /\ LET f == Head(sqlTodo) IN
       \/ /\ f \notin applied \/ f \in Guarded
          /\ applied' = applied \cup {f}
          /\ sqlTodo' = Tail(sqlTodo)
       \/ /\ sqlTodo' = Tail(sqlTodo)
          /\ UNCHANGED applied
    /\ UNCHANGED <<prog, pc, outcome, server, fileIdx, centralDir, legacy, central, lastRc, ini, runs>>

\* apply_sqls() for the next script: it commits, or it raises (a failing
\* statement, or an unguarded statement whose effect is already there).
ApplySql ==
    /\ pc = "sql"
    /\ sqlTodo # <<>>
    /\ LET f == Head(sqlTodo) IN
       \/ /\ f \notin applied \/ f \in Guarded
          /\ applied' = applied \cup {f}
          /\ sqlTodo' = Tail(sqlTodo)
          /\ UNCHANGED <<pc, outcome>>
       \/ /\ RaiseInMain
          /\ UNCHANGED <<applied, sqlTodo>>
    /\ UNCHANGED <<server, prog, fileIdx, centralDir, legacy, central, lastRc, ini, runs>>

\* upgrade_db('5.0.0') returns; move_all_conf_to_central_config_dir() creates
\* conf/ if it does not exist.  The three files always exist here (the
\* loop that raises RuntimeError for a missing one never fires).
MakeCentralDir ==
    /\ pc = "sql"
    /\ sqlTodo = <<>>
    /\ prog = "upgrade50"
    /\ centralDir' = TRUE
    /\ fileIdx' = 1
    /\ pc' = "copy"
    /\ UNCHANGED <<server, prog, outcome, sqlTodo, applied, legacy, central, lastRc, ini, runs>>

\* Mutant: the copy loop does not look for the marker and copies every file.
CopyConfNoMarker ==
    /\ pc = "copy"
    /\ LET f == ConfFiles[fileIdx] IN
       central' = [central EXCEPT ![f] = legacy[f]]
    /\ pc' = "truncate"
    /\ UNCHANGED <<server, prog, outcome, sqlTodo, applied, fileIdx, centralDir, legacy,
                   lastRc, ini, runs>>

\* One iteration of the copy loop: a file that holds the marker makes the
\* function return; otherwise shutil.copyfile copies it (an empty file
\* too: only the marker is looked for).
CopyConf ==
    /\ pc = "copy"
    /\ LET f == ConfFiles[fileIdx] IN
       IF legacy[f] = "stub"
       THEN /\ pc' = "done" /\ outcome' = "done"
            /\ UNCHANGED central
       ELSE /\ central' = [central EXCEPT ![f] = legacy[f]]
            /\ pc' = "truncate"
            /\ UNCHANGED outcome
    /\ UNCHANGED <<server, prog, sqlTodo, applied, fileIdx, centralDir, legacy, lastRc, ini, runs>>

\* open(fn, 'w') truncates the file.
TruncateConf ==
    /\ pc = "truncate"
    /\ legacy' = [legacy EXCEPT ![ConfFiles[fileIdx]] = "empty"]
    /\ pc' = "write"
    /\ UNCHANGED <<server, prog, outcome, sqlTodo, applied, fileIdx, centralDir,
                   central, lastRc, ini, runs>>

\* fp.write("# This file has been moved to ...").  The last file ends the
\* loop and main() prints "done".
WriteStub ==
    /\ pc = "write"
    /\ legacy' = [legacy EXCEPT ![ConfFiles[fileIdx]] = "stub"]
    /\ IF fileIdx = Len(ConfFiles)
       THEN pc' = "done" /\ outcome' = "done" /\ UNCHANGED fileIdx
       ELSE pc' = "copy" /\ fileIdx' = fileIdx + 1 /\ UNCHANGED outcome
    /\ UNCHANGED <<server, prog, sqlTodo, applied, centralDir, central, lastRc, ini, runs>>

\* run_argv(): the program runs to its end and proc.wait() returns its
\* exit code.
RunArgv == \E rc \in {0, 1} : lastRc' = rc

\* gc.py: call_syncwerk_server_gc() ignores what run_argv() returns, so
\* main() leaves the try block normally and prints "done".
RunGc ==
    /\ pc = "run"
    /\ RunArgv
    /\ pc' = "done"
    /\ outcome' = "done"
    /\ UNCHANGED <<server, prog, sqlTodo, applied, fileIdx, centralDir, legacy,
                   central, ini, runs>>

\* upgrade_2.1_3.0.py: upgrade_db('3.0.0') has returned and
\* do_migrate_storage() runs syncwerk-server-migrate.exe; a non-zero exit
\* code raises, and main() prints "Error:" instead of "done".
MigrateStorage ==
    /\ pc = "sql"
    /\ sqlTodo = <<>>
    /\ prog = "upgrade30"
    /\ RunArgv
    /\ pc' = "done"
    /\ outcome' = IF lastRc' = 0 THEN "done" ELSE "error"
    /\ UNCHANGED <<server, prog, sqlTodo, applied, fileIdx, centralDir, legacy,
                   central, ini, runs>>

\* The process is killed (console closed, machine restarted).
Kill ==
    /\ pc \in {"import", "check", "sql", "run", "copy", "truncate", "write"}
    /\ pc' = "done"
    /\ outcome' = "killed"
    /\ UNCHANGED <<server, prog, sqlTodo, applied, fileIdx, centralDir, legacy,
                   central, lastRc, ini, runs>>

\* The server is started or stopped outside the upgrade script.
ServerStart ==
    /\ server = "stopped"
    /\ server' = "running"
    /\ UNCHANGED <<prog, pc, outcome, sqlTodo, applied, fileIdx, centralDir, legacy,
                   central, lastRc, ini, runs>>

ServerStop ==
    /\ server = "running"
    /\ server' = "stopped"
    /\ UNCHANGED <<prog, pc, outcome, sqlTodo, applied, fileIdx, centralDir, legacy,
                   central, lastRc, ini, runs>>

Next ==
    \/ StartRun \/ ReadSyncwservDir \/ EnsureServerNotRunning \/ ApplySql \/ MakeCentralDir
    \/ RunGc \/ MigrateStorage
    \/ CopyConf \/ TruncateConf \/ WriteStub \/ Kill \/ ServerStart \/ ServerStop

Spec == Init /\ [][Next]_vars

-----------------------------------------------------------------------------
(* Properties                                                              *)

TypeOK ==
    /\ server \in {"stopped", "running"}
    /\ prog \in Programs \cup {"none"}
    /\ pc \in {"idle", "import", "check", "sql", "run", "copy", "truncate", "write",
               "done"}
    /\ outcome \in {"done", "error", "killed", "none"}
    /\ sqlTodo \in Seq(AllScripts)
    /\ applied \subseteq AllScripts
    /\ fileIdx \in 1..Len(ConfFiles)
    /\ centralDir \in BOOLEAN
    /\ legacy \in [FileSet -> {"conf", "empty", "stub"}]
    /\ central \in [FileSet -> {"none", "conf", "empty"}]
    /\ lastRc \in {NotRun, 0, 1}
    /\ ini \in BOOLEAN
    /\ runs \in 0..MaxRuns

\* Whatever runs are killed, no configuration is lost: once the file in
\* the old place has been overwritten, conf/ holds its content.  The copy
\* comes before the overwrite in the loop; a kill between open(fn, 'w')
\* and fp.write() leaves an empty file without the marker, which a rerun
\* copies over the moved one.
NoConfigLost ==
    \A f \in FileSet : legacy[f] # "conf" => central[f] = "conf"

\* The configuration is moved only after every SQL script of the upgrade
\* has been applied: a script that raises ends the run before
\* move_all_conf_to_central_config_dir(), so a 5.0 layout never sits on
\* a 4.3 schema.
MoveAfterSchema ==
    centralDir => ToSet(SqlScripts["5.0.0"]) \subseteq applied

\* When a run of the 5.0 upgrade prints "done", every configuration file
\* has been moved to conf/, where the 5.0 server reads it.
ConfMoveComplete ==
    (prog = "upgrade50" /\ outcome = "done" /\ pc = "done") =>
        \A f \in FileSet : central[f] = "conf" /\ legacy[f] = "stub"

\* When gc.py prints "done", syncwerk-server-gc.exe has returned 0; the
\* operator is told otherwise that garbage collection failed.
GcDoneOnlyOnSuccess ==
    (prog = "gc" /\ outcome = "done" /\ pc = "done") => lastRc = 0

=============================================================================
