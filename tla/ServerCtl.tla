------------------------------ MODULE ServerCtl ------------------------------
(***************************************************************************)
(* The CI harness: main() and start_and_test_with_db() of src/ci/run.py   *)
(* driving ServerCtl of src/ci/serverctl.py.  On Travis, unless -t is      *)
(* given, fetch_and_build() first clones and builds the server projects.   *)
(* Then for every database in turn                                          *)
(* the data directory is emptied, a ServerCtl is set up, and within       *)
(* `with server.run()` ccnet is started, wait_ccnet_ready() polls for     *)
(* ccnet.sock (tenacity: every second, at most MaxAttempts attempts), the *)
(* syncwerk daemon is started and py.test runs; the `finally` of run()    *)
(* calls stop(), which sends SIGTERM and does not wait.                   *)
(*                                                                         *)
(* The server processes are the environment: a started ccnet may create   *)
(* its socket or never do so, a process may die on its own, and a         *)
(* terminated process exits some time later.  A shell() command that      *)
(* fails raises, and an exception leaves main().                          *)
(***************************************************************************)
EXTENDS Naturals, Sequences, SequencesExt

CONSTANTS
    MaxAttempts     \* stop_after_attempt(10)

\* The databases main() tests: ('sqlite3', 'mysql') on Travis,
\* ('sqlite3',) otherwise.
DBList(travis) == IF travis THEN <<"sqlite3", "mysql">> ELSE <<"sqlite3">>

\* main() runs fetch_and_build() on Travis unless --test-only is given.
NeedsBuild(travis, testOnly) == travis /\ ~testOnly

\* fetch_and_build(): the shell commands it runs, project by project.
BuildPlan == <<<<"librpcsyncwerk", "clone">>, <<"librpcsyncwerk", "compile">>,
               <<"ccnet", "clone">>, <<"ccnet", "compile">>,
               <<"syncwerk", "compile">>>>

Iterations == 1..2

\* sock when <datadir>/ccnet/ccnet.sock does not exist.
NoSock == 0
Kinds == {"ccnet", "syncwerk"}
Procs == Kinds \X Iterations

ASSUME MaxAttempts \in Nat \ {0}

VARIABLES
    onTravis,   \* on_travis()
    testOnly,   \* the -t/--test-only option
    buildTodo,  \* fetch_and_build() steps not yet run
    iter,       \* index in DBList of the database being tested
    passed,     \* iterations whose py.test run passed
    hpc,        \* harness: "build", "rm", "setup", "startCcnet", "wait",
                \* "startSyncwerk", "test", "stop", "done", "failed"
    attempts,   \* attempts of wait_ccnet_ready made so far
    raised,     \* an exception is propagating through run()
    sock,       \* the iteration whose ccnet created <datadir>/ccnet/ccnet.sock,
                \* or NoSock
    proc,       \* process -> "unstarted", "running", "terminating", "exited"
    ccnetProc,  \* ServerCtl.ccnet_proc was set
    syncwProc   \* ServerCtl.syncwerk_proc was set

vars == <<onTravis, testOnly, buildTodo, iter, passed, hpc, attempts, raised, sock,
          proc, ccnetProc, syncwProc>>

harnessVars == <<onTravis, testOnly, buildTodo, iter, passed, hpc, attempts, raised,
                 ccnetProc, syncwProc>>

-----------------------------------------------------------------------------

Init ==
    /\ onTravis \in BOOLEAN
    /\ testOnly \in BOOLEAN
    /\ buildTodo = IF NeedsBuild(onTravis, testOnly) THEN BuildPlan ELSE <<>>
    /\ iter = 1
    /\ passed = {}
    /\ hpc = IF NeedsBuild(onTravis, testOnly) THEN "build" ELSE "rm"
    /\ attempts = 0
    /\ raised = FALSE
    /\ sock = NoSock
    /\ proc = [p \in Procs |-> "unstarted"]
    /\ ccnetProc = FALSE
    /\ syncwProc = FALSE

\* One shell() command of fetch_and_build(): Project.clone() (git fetch
\* in an existing checkout, else git clone of the branch branches.json
\* names) or Project.compile_and_install() (autogen, configure, make, make
\* install).  A failing command, or the branch lookup, raises out of main().
BuildStep ==
    /\ hpc = "build"
    /\ \/ /\ buildTodo' = Tail(buildTodo)
          /\ hpc' = IF buildTodo' = <<>> THEN "rm" ELSE "build"
       \/ /\ hpc' = "failed"
          /\ UNCHANGED buildTodo
    /\ UNCHANGED <<onTravis, testOnly, iter, passed, attempts, raised, sock, proc,
                   ccnetProc, syncwProc>>

\* Mutant: the data directory is emptied once, before the loop.
CleanDataDirOnce ==
    /\ hpc = "rm"
    /\ sock' = IF iter = 1 THEN NoSock ELSE sock
    /\ hpc' = "setup"
    /\ UNCHANGED <<onTravis, testOnly, buildTodo, passed, iter, attempts,
                   raised, proc, ccnetProc, syncwProc>>

\* shell('rm -rf {}/*'.format(INSTALLDIR)) removes the old socket too.
CleanDataDir ==
    /\ hpc = "rm"
    /\ sock' = NoSock
    /\ hpc' = "setup"
    /\ UNCHANGED <<onTravis, testOnly, buildTodo, passed, iter, attempts,
                   raised, proc, ccnetProc, syncwProc>>

\* ServerCtl(...) and server.setup(): create_mysql_dbs() for mysql,
\* ccnet-init and syncwerk-server-daemon-init.  A failing command raises
\* outside run(), so nothing is stopped.
Setup ==
    /\ hpc = "setup"
    /\ hpc' \in {"startCcnet", "failed"}
    /\ UNCHANGED <<onTravis, testOnly, buildTodo, passed, iter, attempts,
                   raised, sock, proc, ccnetProc, syncwProc>>

\* start_ccnet(): Popen without waiting.
StartCcnet ==
    /\ hpc = "startCcnet"
    /\ proc' = [proc EXCEPT ![<<"ccnet", iter>>] = "running"]
    /\ ccnetProc' = TRUE
    /\ attempts' = 0
    /\ hpc' = "wait"
    /\ UNCHANGED <<onTravis, testOnly, buildTodo, passed, iter, raised, sock,
                   syncwProc>>

\* Mutant: the last attempt is one too late (attempts + 1 > MaxAttempts).
WaitCcnetReadyLate ==
    /\ hpc = "wait"
    /\ IF sock # NoSock
       THEN hpc' = "startSyncwerk" /\ UNCHANGED <<attempts, raised>>
       ELSE /\ attempts' = attempts + 1
            /\ IF attempts + 1 > MaxAttempts
               THEN hpc' = "stop" /\ raised' = TRUE
               ELSE UNCHANGED <<hpc, raised>>
    /\ UNCHANGED <<onTravis, testOnly, buildTodo, passed, iter, sock, proc,
                   ccnetProc, syncwProc>>

\* Mutant: retry without stop_after_attempt; the attempt count saturates.
WaitCcnetReadyForever ==
    /\ hpc = "wait"
    /\ IF sock # NoSock
       THEN hpc' = "startSyncwerk" /\ UNCHANGED <<attempts, raised>>
       ELSE /\ attempts' = IF attempts < MaxAttempts THEN attempts + 1 ELSE attempts
            /\ UNCHANGED <<hpc, raised>>
    /\ UNCHANGED <<onTravis, testOnly, buildTodo, passed, iter, sock, proc,
                   ccnetProc, syncwProc>>

\* One attempt of wait_ccnet_ready(): the socket is there, or TryAgain;
\* after the last attempt tenacity raises RetryError into run().
WaitCcnetReady ==
    /\ hpc = "wait"
    /\ IF sock # NoSock
       THEN hpc' = "startSyncwerk" /\ UNCHANGED <<attempts, raised>>
       ELSE /\ attempts' = attempts + 1
            /\ IF attempts + 1 = MaxAttempts
               THEN hpc' = "stop" /\ raised' = TRUE
               ELSE UNCHANGED <<hpc, raised>>
    /\ UNCHANGED <<onTravis, testOnly, buildTodo, passed, iter, sock, proc,
                   ccnetProc, syncwProc>>

\* start_syncwerk(): Popen without waiting.
StartSyncwerk ==
    /\ hpc = "startSyncwerk"
    /\ proc' = [proc EXCEPT ![<<"syncwerk", iter>>] = "running"]
    /\ syncwProc' = TRUE
    /\ hpc' = "test"
    /\ UNCHANGED <<onTravis, testOnly, buildTodo, passed, iter, attempts,
                   raised, sock, ccnetProc>>

\* The body of `with server.run()`: py.test passes, or shell() raises and
\* run() prints the logs and re-raises.
RunTests ==
    /\ hpc = "test"
    /\ hpc' = "stop"
    /\ raised' \in BOOLEAN
    /\ passed' = IF raised' THEN passed ELSE passed \cup {iter}
    /\ UNCHANGED <<onTravis, testOnly, buildTodo, iter, attempts, sock, proc,
                   ccnetProc, syncwProc>>

\* SIGTERM to a process; a process that already exited is left alone.
Terminate(p, s) == IF s = "running" THEN "terminating" ELSE s

\* Mutant: stop() is called at the end of the `try` body, not in `finally`.
StopOnlyOnSuccess ==
    /\ hpc = "stop"
    /\ proc' = IF raised THEN proc
               ELSE [p \in Procs |->
                       IF p[2] = iter /\ ((p[1] = "ccnet" /\ ccnetProc) \/
                                          (p[1] = "syncwerk" /\ syncwProc))
                       THEN Terminate(p, proc[p]) ELSE proc[p]]
    /\ IF raised \/ iter = Len(DBList(onTravis))
       THEN /\ hpc' = IF raised THEN "failed" ELSE "done"
            /\ UNCHANGED iter
       ELSE /\ hpc' = "rm"
            /\ iter' = iter + 1
    /\ ccnetProc' = FALSE
    /\ syncwProc' = FALSE
    /\ UNCHANGED <<onTravis, testOnly, buildTodo, passed, attempts, raised, sock>>

\* Mutant: run()'s `except:` prints the logs but does not re-raise.
StopSwallowsError ==
    /\ hpc = "stop"
    /\ proc' = [p \in Procs |->
                  IF p[2] = iter /\ ((p[1] = "ccnet" /\ ccnetProc) \/
                                     (p[1] = "syncwerk" /\ syncwProc))
                  THEN Terminate(p, proc[p]) ELSE proc[p]]
    /\ IF iter = Len(DBList(onTravis))
       THEN hpc' = "done" /\ UNCHANGED iter
       ELSE hpc' = "rm" /\ iter' = iter + 1
    /\ ccnetProc' = FALSE
    /\ syncwProc' = FALSE
    /\ raised' = FALSE
    /\ UNCHANGED <<onTravis, testOnly, buildTodo, passed, attempts, sock>>

\* The `finally` of run(): stop() terminates what was started.  An
\* exception then leaves main(); otherwise the loop goes on.
Stop ==
    /\ hpc = "stop"
    /\ proc' = [p \in Procs |->
                  IF p[2] = iter /\ ((p[1] = "ccnet" /\ ccnetProc) \/
                                     (p[1] = "syncwerk" /\ syncwProc))
                  THEN Terminate(p, proc[p]) ELSE proc[p]]
    /\ IF raised \/ iter = Len(DBList(onTravis))
       THEN /\ hpc' = IF raised THEN "failed" ELSE "done"
            /\ UNCHANGED iter
       ELSE /\ hpc' = "rm"
            /\ iter' = iter + 1
    /\ ccnetProc' = FALSE
    /\ syncwProc' = FALSE
    /\ UNCHANGED <<onTravis, testOnly, buildTodo, passed, attempts, raised, sock>>

\* Environment: the ccnet of this iteration creates its socket.  A ccnet
\* of an earlier iteration may still be terminating (stop() does not wait).
CcnetListens ==
    /\ proc[<<"ccnet", iter>>] = "running"
    /\ sock = NoSock
    /\ sock' = iter
    /\ UNCHANGED <<harnessVars, proc>>

\* Environment: a terminated process exits, or a process dies on its own.
ProcessExits ==
    /\ \E p \in Procs :
          /\ proc[p] \in {"running", "terminating"}
          /\ proc' = [proc EXCEPT ![p] = "exited"]
    /\ UNCHANGED <<harnessVars, sock>>

Harness ==
    \/ BuildStep \/ CleanDataDir \/ Setup \/ StartCcnet \/ WaitCcnetReady
    \/ StartSyncwerk \/ RunTests \/ Stop

Next == Harness \/ CcnetListens \/ ProcessExits

\* The harness is one sequential Python process: it keeps taking steps.
\* Nothing is assumed of the server processes.
Spec == Init /\ [][Next]_vars /\ WF_harnessVars(Harness)

-----------------------------------------------------------------------------
(* Properties                                                              *)

TypeOK ==
    /\ onTravis \in BOOLEAN /\ testOnly \in BOOLEAN
    /\ buildTodo \in Seq(ToSet(BuildPlan))
    /\ iter \in 1..Len(DBList(onTravis))
    /\ passed \subseteq 1..Len(DBList(onTravis))
    /\ hpc \in {"build", "rm", "setup", "startCcnet", "wait", "startSyncwerk",
                "test", "stop", "done", "failed"}
    /\ attempts \in 0..MaxAttempts
    /\ raised \in BOOLEAN
    /\ sock \in {NoSock} \cup Iterations
    /\ proc \in [Procs -> {"unstarted", "running", "terminating", "exited"}]
    /\ ccnetProc \in BOOLEAN
    /\ syncwProc \in BOOLEAN

\* When the harness has finished, passed or failed, no server process it
\* started is left running without having been sent SIGTERM, whichever
\* step failed (setup, the readiness wait, the tests).
NoProcessLeftRunning ==
    hpc \in {"done", "failed"} => \A p \in Procs : proc[p] # "running"

\* A harness that finishes without an exception has run py.test to
\* success against every database of the list main() chose, each with its
\* own freshly set up server, and on Travis without -t after building.
TestedEveryDb ==
    hpc = "done" =>
        /\ passed = 1..Len(DBList(onTravis))
        /\ buildTodo = <<>>

\* When wait_ccnet_ready() has let the harness go on to the daemon and
\* the tests, the socket it saw is the one the ccnet of this iteration
\* created: the socket of the previous database's ccnet, which stop()
\* only signalled, is never taken for this iteration's server.
ReadyMeansOwnCcnet ==
    hpc \in {"startSyncwerk", "test"} => sock = iter

\* The readiness wait is bounded: the harness finishes even when ccnet
\* never opens its socket.
HarnessTerminates == <>(hpc \in {"done", "failed"})

=============================================================================
