------------------------------ MODULE DBUpdater ------------------------------
(***************************************************************************)
(* The apply phase of src/scripts/upgrade/db_update_helper.py: main()      *)
(* followed by DBUpdater.update_db() of the updater that get_instance()    *)
(* chose (SQLiteDBUpdater or MySQLDBUpdater).  Backend detection itself is *)
(* modelled in DBUpdaterDetect; here the chosen updater is fixed at Init.  *)
(*                                                                         *)
(* A script file is a sequence of pieces: the result of                   *)
(* fp.read().split(';') with every piece stripped.  An empty piece is      *)
(* Blank and is skipped; any other piece is a statement.  A statement is  *)
(* a DDL or a DML statement and is guarded (IF NOT EXISTS, INSERT IGNORE)  *)
(* or not: a guarded one is a no-op when its effect is already there, an  *)
(* unguarded DDL statement fails when its effect is already there, and an *)
(* unguarded DML statement applies its effect once more.  Any statement   *)
(* may also fail for reasons outside the script (locks, disk, syntax the   *)
(* server rejects).                                                        *)
(*                                                                         *)
(* The database state is, per database, the bag of statement effects that *)
(* have been committed.  SQLite goes through Python 2's sqlite3 module:   *)
(* DML statements open an implicit transaction, any other statement first *)
(* commits the open transaction and then runs in autocommit mode, and the  *)
(* `with conn` block commits on exit and rolls back on an exception.       *)
(* MySQL commits after every statement and only warns about failures.     *)
(*                                                                         *)
(* The process can be killed at any point and the operator can rerun it;  *)
(* nothing is recorded about which scripts already ran.                    *)
(***************************************************************************)
EXTENDS Naturals, Sequences, FiniteSets, Bags, SequencesExt

CONSTANTS
    Stmts,          \* the statements, records [kind, guarded, ...]
    Blank,          \* an empty piece left by split(';') and strip()
    Scripts,        \* the .sql files: file -> Seq(Stmts \cup {Blank})
    ScriptDirs,     \* the sets of files one sql/<version>/<backend> directory holds
    IsPro,          \* os.path.exists(<install_path>/pro)
    MaxRuns,        \* bound on the number of runs of the script
    NoDb,           \* what CcnetSQLiteDB.get_db returns for an unknown name
    Killed          \* exit status of a killed process

\* The files update_db() looks at; a component file is one matched by the
\* glob sql/<version>/sqlite3/ccnet/*.sql among the present files P.
TopFiles == {"ccnet", "syncwerk", "restapi", "syncwevents"}
TopOrder == <<"ccnet", "syncwerk", "restapi", "syncwevents">>
ComponentFiles(P) == P \ TopFiles

\* The databases.  SQLite ccnet has one file per component (get_db), MySQL
\* uses ccnet, syncwerk and restapi.
CcnetDbNames == {"ccnet", "groupmgr", "config", "orgmgr", "usermgr"}
DBs == CcnetDbNames \cup {"syncwerk", "restapi"}

ASSUME /\ DOMAIN Scripts \subseteq TopFiles \cup STRING
       /\ \A f \in DOMAIN Scripts : Scripts[f] \in Seq(Stmts \cup {Blank})
       /\ \A s \in Stmts : s.kind \in {"ddl", "dml"} /\ s.guarded \in BOOLEAN
       /\ IsPro \in BOOLEAN /\ MaxRuns \in Nat \ {0}
       /\ ScriptDirs \subseteq SUBSET DOMAIN Scripts

VARIABLES
    updater,    \* "sqlite" or "mysql": the class get_instance() returned
    present,    \* the files of the sql directory of the target version
    pc,         \* "init": before main(); "running": in update_db(); "done"
    exitCode,   \* exit status of the last finished run
    skipped,    \* the last run stopped at SYNCWERK_SKIP_DB_UPGRADE
    todo,       \* files update_db() has still to apply, in order
    cur,        \* the file being applied, or "none"
    rest,       \* the pieces of cur not yet executed
    pending,    \* SQLite: statements executed in the open transaction
    failed,     \* MySQL: statements reported by "Failed to execute sql"
    committed,  \* database -> bag of committed statement effects
    runs        \* number of runs started

vars == <<updater, present, pc, exitCode, skipped, todo, cur, rest, pending, failed,
          committed, runs>>

-----------------------------------------------------------------------------
(* Which script goes to which database.                                    *)

\* CcnetSQLiteDB.get_db(dbname): the ccnet database file named dbname.
GetDb(dbname) == IF dbname \in CcnetDbNames THEN dbname ELSE NoDb

\* The database the updater's update_<name>_sql() applies file f to.
Target(u, f) ==
    IF u = "sqlite"
    THEN CASE f = "ccnet"        -> GetDb("ccnet")
           [] f \notin TopFiles   -> GetDb(f)
           [] OTHER              -> f
    ELSE IF f = "syncwevents" THEN "restapi" ELSE f

\* The files update_db() applies, in the order it applies them: the four
\* top-level files that exist (syncwevents only under MySQL and pro; the
\* SQLite updater only prints a note for it), then, for SQLite, the ccnet
\* component files in the order glob.glob lists them (any order).
TopTodo(u, P) ==
    SelectSeq(TopOrder,
              LAMBDA f : f \in P
                         /\ (f = "syncwevents" => (u = "mysql" /\ IsPro)))

GlobOrders(u, P) ==
    IF u = "sqlite" THEN SetToSeqs(ComponentFiles(P)) ELSE {<<>>}

\* The orders in which update_db() may apply the files P.
Plans(u, P) == {TopTodo(u, P) \o order : order \in GlobOrders(u, P)}

AppliedFiles(u, P) ==
    ToSet(TopTodo(u, P)) \cup (IF u = "sqlite" THEN ComponentFiles(P) ELSE {})

StmtsOf(f) == ToSet(Scripts[f]) \ {Blank}

-----------------------------------------------------------------------------
(* Effects of statements on the committed state.                           *)

\* The effect of running s once more against database d.
Apply(bag, s) == IF s.guarded /\ BagIn(s, bag) THEN bag ELSE bag (+) SetToBag({s})

\* Committing a set of statements run in one transaction.
CommitAll(bag, S) == bag (+) SetToBag({s \in S : ~(s.guarded /\ BagIn(s, bag))})

\* An unguarded DDL statement whose effect exists fails ("table already
\* exists", "duplicate column").
MustFail(s, d) == s.kind = "ddl" /\ ~s.guarded /\ BagIn(s, committed[d])

-----------------------------------------------------------------------------

Init ==
    /\ updater \in {"sqlite", "mysql"}
    /\ present \in ScriptDirs
    /\ pc = "init"
    /\ exitCode = 0
    /\ skipped = FALSE
    /\ todo = <<>>
    /\ cur = "none"
    /\ rest = <<>>
    /\ pending = {}
    /\ failed = {}
    /\ committed = [d \in DBs |-> EmptyBag]
    /\ runs = 1

\* The end of a run: the process exits with status code.
Exit(code) ==
    /\ pc' = "done"
    /\ exitCode' = code
    /\ cur' = "none"
    /\ rest' = <<>>
    /\ pending' = {}

\* main(): SYNCWERK_SKIP_DB_UPGRADE set to 1/true/on stops the run.
SkipUpgrade ==
    /\ pc = "init"
    /\ skipped' = TRUE
    /\ Exit(0)
    /\ UNCHANGED <<updater, present, todo, failed, committed, runs>>

\* Mutant: update_db() applies the top-level files without os.path.exists().
StartUpdateNoExists ==
    /\ pc = "init"
    /\ pc' = "running"
    /\ \E order \in GlobOrders(updater, present) :
          todo' = SelectSeq(TopOrder, LAMBDA f :
                              f = "syncwevents" => (updater = "mysql" /\ IsPro))
                  \o order
    /\ UNCHANGED <<updater, present, exitCode, skipped, cur, rest, pending, failed,
                   committed, runs>>

\* main() with the skip variable unset: update_db() starts.
StartUpdate ==
    /\ pc = "init"
    /\ pc' = "running"
    /\ todo' \in Plans(updater, present)
    /\ UNCHANGED <<updater, present, exitCode, skipped, cur, rest, pending, failed,
                   committed, runs>>

\* apply_sqls() opens the next file's database.  SQLite connects to the
\* path get_db() returned (None is rejected by sqlite3.connect and the
\* exception ends the run); MySQL get_conn() may fail, and Utils.error exits.
OpenScript ==
    /\ pc = "running"
    /\ cur = "none"
    /\ todo # <<>>
    /\ LET f == Head(todo) IN
       \/ /\ Target(updater, f) # NoDb
          /\ cur' = f
          /\ rest' = Scripts[f]
          /\ todo' = Tail(todo)
          /\ UNCHANGED <<pc, exitCode, pending>>
       \/ /\ Target(updater, f) = NoDb
          /\ Exit(1)
          /\ UNCHANGED todo
       \/ /\ updater = "mysql"
          /\ Exit(1)
          /\ UNCHANGED todo
    /\ UNCHANGED <<updater, present, skipped, failed, committed, runs>>

\* `if not line: continue`
SkipBlank ==
    /\ pc = "running"
    /\ rest # <<>>
    /\ Head(rest) = Blank
    /\ rest' = Tail(rest)
    /\ UNCHANGED <<updater, present, pc, exitCode, skipped, todo, cur, pending, failed,
                   committed, runs>>

\* SQLite conn.execute(line) succeeds.  DML joins the open transaction;
\* anything else commits the open transaction first and is autocommitted.
SQLiteExec ==
    /\ pc = "running"
    /\ updater = "sqlite"
    /\ rest # <<>>
    /\ LET s == Head(rest)
           d == Target(updater, cur) IN
       /\ s # Blank
       /\ ~MustFail(s, d)
       /\ IF s.kind = "dml"
          THEN /\ pending' = pending \cup {s}
               /\ UNCHANGED committed
          ELSE /\ pending' = {}
               /\ committed' = [committed EXCEPT
                                   ![d] = Apply(CommitAll(@, pending), s)]
    /\ rest' = Tail(rest)
    /\ UNCHANGED <<updater, present, pc, exitCode, skipped, todo, cur, failed, runs>>

\* Mutant: SQLite apply_sqls() warns about a failing statement and goes on,
\* as MySQLDBUpdater.execute_sql() does.
SQLiteFailContinue ==
    /\ pc = "running"
    /\ updater = "sqlite"
    /\ rest # <<>>
    /\ Head(rest) # Blank
    /\ rest' = Tail(rest)
    /\ UNCHANGED <<updater, present, pc, exitCode, skipped, todo, cur, pending, failed,
                   committed, runs>>

\* SQLite conn.execute(line) raises.  The exception leaves the `with` block,
\* which rolls back, and ends the run.  A DDL statement that fails after
\* preparation has already committed the open transaction; one rejected
\* while being prepared has not.
SQLiteFail ==
    /\ pc = "running"
    /\ updater = "sqlite"
    /\ rest # <<>>
    /\ LET s == Head(rest)
           d == Target(updater, cur) IN
       /\ s # Blank
       /\ \/ committed' = committed
          \/ /\ s.kind = "ddl"
             /\ committed' = [committed EXCEPT ![d] = CommitAll(@, pending)]
    /\ Exit(1)
    /\ UNCHANGED <<updater, present, skipped, todo, failed, runs>>

\* MySQLDBUpdater.execute_sql(): cursor.execute(sql) and conn.commit();
\* on an exception a warning is printed and the next statement runs.
MySQLExec ==
    /\ pc = "running"
    /\ updater = "mysql"
    /\ rest # <<>>
    /\ LET s == Head(rest)
           d == Target(updater, cur) IN
       /\ s # Blank
       /\ \/ /\ ~MustFail(s, d)
             /\ committed' = [committed EXCEPT ![d] = Apply(@, s)]
             /\ UNCHANGED failed
          \/ /\ failed' = failed \cup {s}
             /\ UNCHANGED committed
    /\ rest' = Tail(rest)
    /\ UNCHANGED <<updater, present, pc, exitCode, skipped, todo, cur, pending, runs>>

\* Mutant: the connection is left without committing the open transaction.
FinishScriptNoCommit ==
    /\ pc = "running"
    /\ cur # "none"
    /\ rest = <<>>
    /\ pending' = {}
    /\ cur' = "none"
    /\ UNCHANGED <<updater, present, pc, exitCode, skipped, todo, rest, failed,
                   committed, runs>>

\* The end of apply_sqls(): leaving `with sqlite3.connect(...)` commits.
FinishScript ==
    /\ pc = "running"
    /\ cur # "none"
    /\ rest = <<>>
    /\ committed' = IF updater = "sqlite"
                    THEN [committed EXCEPT ![Target(updater, cur)] =
                                              CommitAll(@, pending)]
                    ELSE committed
    /\ pending' = {}
    /\ cur' = "none"
    /\ UNCHANGED <<updater, present, pc, exitCode, skipped, todo, rest, failed, runs>>

\* update_db() returns and main() returns 0.
FinishUpdate ==
    /\ pc = "running"
    /\ cur = "none"
    /\ todo = <<>>
    /\ Exit(0)
    /\ UNCHANGED <<updater, present, skipped, todo, failed, committed, runs>>

\* The process is killed.  SQLite rolls the open transaction back from its
\* journal; MySQL keeps what it committed.
Crash ==
    /\ pc = "running"
    /\ Exit(Killed)
    /\ UNCHANGED <<updater, present, skipped, todo, failed, committed, runs>>

\* The operator runs the upgrade script again.
Rerun ==
    /\ pc = "done"
    /\ runs < MaxRuns
    /\ runs' = runs + 1
    /\ pc' = "init"
    /\ skipped' = FALSE
    /\ todo' = <<>>
    /\ failed' = {}
    /\ UNCHANGED <<updater, present, exitCode, cur, rest, pending, committed>>

Next ==
    \/ SkipUpgrade \/ StartUpdate \/ OpenScript \/ SkipBlank
    \/ SQLiteExec \/ SQLiteFail \/ MySQLExec
    \/ FinishScript \/ FinishUpdate \/ Crash \/ Rerun

Spec == Init /\ [][Next]_vars

-----------------------------------------------------------------------------
(* Properties                                                              *)

TypeOK ==
    /\ updater \in {"sqlite", "mysql"}
    /\ present \in ScriptDirs
    /\ pc \in {"init", "running", "done"}
    /\ exitCode \in {0, 1, Killed}
    /\ skipped \in BOOLEAN
    /\ todo \in Seq(present)
    /\ cur \in present \cup {"none"}
    /\ pending \subseteq Stmts
    /\ failed \subseteq Stmts
    /\ \A d \in DBs : IsABag(committed[d]) /\ BagToSet(committed[d]) \subseteq Stmts
    /\ runs \in 1..MaxRuns

\* A run of update_db() that exits 0 has, for every statement of every
\* file it applies, either committed its effect to that file's database or
\* reported it as failed.  This is what the exit status of the upgrade
\* script tells the operator (SQLite commits on leaving `with`, DDL commits
\* the open transaction, MySQL warns and continues).
SuccessAccountsForEveryStatement ==
    (pc = "done" /\ exitCode = 0 /\ ~skipped) =>
        \A f \in AppliedFiles(updater, present) :
            \A s \in StmtsOf(f) :
                LET d == Target(updater, f) IN
                (d \in DBs /\ BagIn(s, committed[d])) \/ s \in failed

\* Spec section 3/4.3: an embedded (SQLite) script is applied in one
\* transaction scope and a failing statement aborts it, so once a run has
\* ended by itself (not killed, which section 5 allows to leave a script
\* half applied) a script's effects are all there or none of them is.
SQLiteScriptAtomic ==
    (updater = "sqlite" /\ pc = "done" /\ exitCode # Killed) =>
        \A f \in AppliedFiles("sqlite", present) :
            Target("sqlite", f) # NoDb =>
                LET done == {s \in StmtsOf(f) :
                                 BagIn(s, committed[Target("sqlite", f)])}
                IN done \in {{}, StmtsOf(f)}

\* Spec section 8: applying the same scripts again to an already migrated
\* embedded database either does nothing (guarded statements) or fails
\* (fail-fast): across successful and killed runs and reruns of the SQLite
\* updater, no statement's effect is committed twice.  A rerun restarts
\* from the first script; an unguarded DDL statement that already took
\* effect must stop the script before the DML after it runs again.
RerunNoOpOrFails ==
    updater = "sqlite" =>
        \A d \in DBs : \A s \in BagToSet(committed[d]) : CopiesIn(s, committed[d]) = 1

=============================================================================
