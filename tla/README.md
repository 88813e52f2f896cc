# TLA+ models of the Syncwerk server upgrade and CI scripts

This directory holds the TLA+ models of the Python code under `src/`, the
TLC configurations that check them, and `PROJECT.json`. `PROJECT.json`
lists the components, runs, mutants, findings and hazards, and maps every
modelled definition to the source lines it translates.

## The system

The repository contains tooling around a file-sync server. It has four
parts:

| Part | Source | What it does |
|---|---|---|
| Database upgrade helper | `src/scripts/upgrade/db_update_helper.py` | Called by the upgrade shell scripts with a target version. Unless `SYNCWERK_SKIP_DB_UPGRADE` is set, it finds the backend from three configuration files (`get_instance`), then applies the version's SQL scripts (`update_db`). |
| Windows upgrade scripts | `src/scripts/upgrade/win32/py/` | `upgrade_common.py`: server check, SQLite script application. `upgrade_4.3_5.0.py`: upgrades the schema, then moves the configuration files to `conf/`. `gc.py`, `upgrade_2.1_3.0.py`: server check, then one external program. |
| CI harness | `src/ci/run.py`, `src/ci/serverctl.py` | For each database (sqlite3, and mysql on Travis), it empties the data directory, sets up a server, and starts ccnet. It waits up to 10 attempts for `ccnet.sock`, starts the daemon and runs py.test. `stop()` sends SIGTERM in a `finally`. |
| Build | `src/scripts/build/build-cli.py` | A sequential packaging pipeline of shell commands. |

How the parts interact:

- The detection step chooses the updater, and the updater applies the
  scripts.
- The Windows upgrade applies the same kind of scripts, with its own copy of
  `apply_sqls`, before it moves the files that later detection runs read.
- `ensure_server_not_running` is the only guard against a live server.

## Modules

| Module | Models | State ↔ code |
|---|---|---|
| `VersionCompare` | The `version > '5.0.0'` test (lines 136, 173) | A version is a tuple. `VersionStr` turns it into the ASCII codes of `sys.argv[1]`. `StrLt` is Python 2 `str` ordering. `NumVersionLt` is numeric order, which decides where the server itself keeps its configuration. |
| `DBUpdaterDetect` | `EnvManager`, `Utils.read_config`/`error`, the three `get_*_mysql_info`, `get_instance` | Variables: `conf[s][place]` is what the parser finds in subsystem `s`'s file in the old or central place, `centralSet` is `SYNCWERK_CENTRAL_CONF_DIR`, `info` holds the helpers' results and `updater` the chosen class. There is one action per helper, in the order `get_instance` calls them. |
| `DBUpdater` | `main`, `update_db` of both updaters, `get_db`, `apply_sqls`, `execute_sql`, `get_conn` | Variables: `present` is the set of files in the version's sql directory, `todo`/`cur`/`rest` are the loop positions, `pending` is the open SQLite transaction, `committed[db]` is a bag of committed statement effects, and `failed` holds the statements MySQL warned about. Crash and operator rerun are actions. |
| `Win32Upgrade` | `main` of `upgrade_4.3_5.0.py`, `upgrade_2.1_3.0.py` and `gc.py`; `upgrade_db`, `ensure_server_not_running`, `run_argv`, `move_all_conf_to_central_config_dir` | The three Windows scripts share one server, one set of databases and one configuration. The operator picks a script for each run (`prog`). `applied` is the set of scripts whose effect is in the databases, and `legacy`/`central` hold each file's content in its two places. Copy, truncate (`open(fn,'w')`) and write are separate steps. An external program (`run_argv`) is one step that returns an exit code (`lastRc`). `RunGc` ignores that code and `MigrateStorage` raises on it. Kill, rerun, and the server start/stop by its service are actions. `ini` says whether `syncwserv.ini` exists; without it the import of `upgrade_common` exits before `main` (`ReadSyncwservDir`). The server check probes with the `ccnet.conf` of `conf/` if it exists, else the one in `ccnet_dir` (`ProbeConf`). Only a real configuration finds a running server. A probe with an empty or stub file either raises or lets the run go on. |
| `ServerCtl` | `main`, `fetch_and_build` and `start_and_test_with_db` of `run.py`, `ServerCtl` | `hpc` is the harness position and `proc` the state of every server process of every iteration. `onTravis` and `testOnly` are chosen at Init and give the database list (`DBList`) and whether the projects are built first (`BuildStep`, which steps through `BuildPlan` and may fail). `passed` records the iterations whose tests passed. The server processes are an environment: the socket may or may not appear, and processes exit when they like. `sock` is the iteration whose ccnet created `ccnet.sock`. A ccnet of an earlier iteration may still be terminating when the next one starts; nothing is assumed about ports, because `serverctl.py` configures none and readiness is a socket file in the emptied directory. |

Each `MC*` module gives the constants small concrete values for TLC.

- **Statements.** A statement is a record: DDL or DML, guarded (`IF NOT
  EXISTS`, `INSERT IGNORE`) or not. Blank pieces of `split(';')` are the
  model value `Blank`.
- **Configuration files.** A configuration is one of eight parse outcomes:
  absent, no db section, sqlite, other engine, no engine key, mysql,
  incomplete mysql, and `PORT ''`.

### Semantics taken from the runtime

Python 2's `sqlite3` opens a transaction implicitly before DML. Before any
other statement it commits the open transaction, then autocommits.
`with conn` commits on exit and rolls back on an exception. When a DDL
statement fails, the earlier statements may or may not be committed, so
`SQLiteFail` chooses nondeterministically: a failure during prepare commits
nothing, a failure after it has committed. MySQLdb commits after each
statement (`execute_sql`).

## Runs

| Run | Expect | What it shows |
|---|---|---|
| `apply_success` | pass | Covers both updaters, every glob order, a directory with a component script for an unknown database, kills and two reruns. An exit-0 run has committed or reported every statement of every file it applied (`SuccessAccountsForEveryStatement`). |
| `apply_atomic` | violation | A SQLite script is half applied after a DDL autocommit and a later failure. The spec says one transaction. |
| `apply_rerun` | pass | Spec §8 for the embedded backend: under SQLite, successful and killed runs and a rerun never commit a statement's effect twice. The unguarded DDL that already took effect stops the script before its DML runs again. Under MySQL the spec prescribes fail-soft continuation, so a rerun may apply an unguarded DML again; no property claims otherwise. |
| `detect_sound` | pass | Versions 4.3–6.0, both layouts, and all mixes of backends and broken files. Detection picks only the backend all servers use, and never rejects a consistent install. |
| `detect_other_engine` | violation | A pgsql configuration is treated as SQLite. |
| `detect_two_digit` | violation | For 10.0.0 the code reads the old place and exits 1. |
| `detect_empty_port` | violation | `PORT ''` in restapi_settings stops the upgrade. |
| `win32_schema` | pass | The three scripts run in any order, with the server started and stopped at any time, plus kills and reruns. The configuration is moved only after every 5.0 script is applied. The runs include a missing `syncwserv.ini` and a server check that probes with the empty `ccnet.conf` a killed move left in `conf/`. |
| `win32_rerun_move` | violation | After a kill and a rerun, the script prints done with files unmoved. |
| `win32_truncate_kill` | violation | A kill between truncate and write makes the rerun overwrite `conf/ccnet.conf` with an empty file. |
| `win32_gc_done` | violation | `gc.py` prints done after the gc program failed: `run_argv`'s exit code is dropped. |
| `ci_lifecycle` | pass | Every server process started is signalled, and the harness finishes, even if ccnet never opens its socket. A harness that ends successfully has built everything it had to and passed the tests on every database of its list (`TestedEveryDb`). The harness goes past the readiness wait only on the socket of its own ccnet, never on the one the previous database's ccnet (signalled by `stop()` without a wait) left behind; this holds because `rm -rf` runs for every database (`ReadyMeansOwnCcnet`). |

Every property of a passing run has a mutant in `PROJECT.json`: a
plausible bug in the mapped definition that TLC shows breaks it.

Spec §8 routes version 5.0.0 itself to the central directory. The code
reads the old place at 5.0.0 (`>` rather than `>=`). This is right for the
4.3→5.0 upgrade, which starts from the old layout, so the model treats the
code's routing as the intended one. The divergence is not a separate run.

## Bounds and why they suffice

- **DBUpdater.**
  - There are 7 statements over 7 script files:
    - ccnet, with a DDL, a blank piece and a DML
    - syncwerk, with guarded DDL and DML
    - restapi and syncwevents
    - ccnet component scripts for groupmgr and usermgr (known databases)
      and peermgr (unknown to `get_db`)
  - There are two script directories. One holds ccnet, syncwerk,
    syncwevents and the two known component files, which give two glob
    orders. The other holds ccnet, restapi and the unknown component file.
  - `apply_rerun` uses the directory whose component databases are all
    known, under both updaters. Its ccnet script puts an unguarded DML
    after an unguarded DDL, as migrations do. `MaxRuns = 2` gives a rerun
    after every kill point.
  - `MaxRuns = 3` allows two reruns, so a run can follow a run that was
    itself a rerun after a kill.
  - Every kind of statement meets every failure mode. Each shown bug needs
    two statements and one failure.
- **Detect.**
  - Versions 4.3.0, 5.0.0, 5.1.0 and 6.0.0 fall on both sides of the
    threshold and on it.
  - 5.1.0 and 10.0.0 give the two-digit case.
  - All live and stale contents are enumerated.
- **Win32Upgrade.**
  - 5.0 has 4 scripts and 3.0 has 2, some of them guarded. In
    `win32_schema` every 5.0 script is guarded and one 3.0 script is not.
    So a rerun of the 5.0 upgrade reaches the copy loop again, and a rerun
    of the 3.0 upgrade still meets an unguarded script. The repository
    holds no SQL files, so which scripts are guarded is an input.
  - The programs' exit codes are 0 and 1.
  - The 3 configuration files come from the code.
  - `MaxRuns` is 2–3. One kill and one rerun reach every early return,
    and 3 runs let every script follow another. 3 runs also reach a probe
    with an empty `ccnet.conf`: kill after the truncate, a rerun copies the
    empty file, then a third run checks the server. `win32_gc_done` needs
    only one run.
- **ServerCtl.**
  - Init enumerates on/off Travis and with/without `--test-only`, so the
    local list (sqlite3) and the Travis list (sqlite3, mysql) are both
    checked, with and without the build step.
  - `MaxAttempts = 10`, as in the code's `stop_after_attempt(10)`.
  - Two iterations are enough for the first database's socket and ccnet
    to outlive `stop()` while the second iteration starts.

## Fairness

- **ServerCtl.** The harness is one sequential Python process, so it gets
  weak fairness on its own steps (`Harness`). The server processes get
  none: ccnet may never open its socket and a process may never exit. The
  bounded retry is what makes `HarnessTerminates` hold.
- **DBUpdater, Detect and Win32Upgrade.** These are checked for safety only. The
  Windows scripts end in `raw_input`, and every run is the operator's
  choice. The update script's only unbounded structure is a `for` loop over
  a finite list, so a termination property would say nothing about it.

## Not modelled

- `build-cli.py`: a sequential shell pipeline. Its one exit-status hazard is
  listed in `PROJECT.json`.
- The external programs `syncwerk-server-gc.exe` and
  `syncwerk-server-migrate.exe`: each is one step with an exit code.
- The paths `read_syncwserv_dir` computes: only whether `syncwserv.ini`
  exists matters to the control flow.
- The clone and compile commands of `Project.*`, `make_build_env`,
  `prepend_env_value`, `get_synserv_envs`, `create_mysql_dbs` and
  `parse_args` in `run.py`: command lines and environment. Only the order
  of the build steps and their success or failure are modelled.
- `tests/utils.py`: no state.
- SQL text, logging and the colour formatting of `Utils`.

## Plan for further work

1. **DBUpgrade.** A composition module that INSTANCEs `DBUpdaterDetect` and
   `DBUpdater`, so the chosen updater comes from detection rather than from
   Init. Check that scripts go only to databases the servers read.
2. **Refinement.** No abstract specification is checked. Spec.md gives
   no plan or target database independent of the code's, so an abstract
   module given the model's own plan would only check the model against
   itself.
3. **ServerCtl.** A previous daemon still holding the fixed fileserver
   port 8082 would make the new one fail to bind. Whether py.test passes
   then is left to the environment's choice in `RunTests`.
