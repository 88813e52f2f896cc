----------------------------- MODULE MCDBUpdater -----------------------------
(* Model values for DBUpdater: a DDL and a DML statement in the ccnet      *)
(* script with an empty piece between them, a guarded DDL and a DML        *)
(* statement for syncwerk, a pro-only syncwevents script and two ccnet     *)
(* component scripts, and a directory with a component file for a       *)
(* database get_db() does not know.                                        *)
EXTENDS DBUpdater

CreateT   == [id |-> 1, kind |-> "ddl", guarded |-> FALSE]
InsertT   == [id |-> 2, kind |-> "dml", guarded |-> FALSE]
AlterU    == [id |-> 3, kind |-> "ddl", guarded |-> TRUE]
UpdateU   == [id |-> 4, kind |-> "dml", guarded |-> TRUE]
EventsT   == [id |-> 5, kind |-> "ddl", guarded |-> TRUE]
GroupT    == [id |-> 6, kind |-> "ddl", guarded |-> FALSE]
UserT     == [id |-> 7, kind |-> "dml", guarded |-> TRUE]

MCStmts == {CreateT, InsertT, AlterU, UpdateU, EventsT, GroupT, UserT}

\* The scripts of the model; restapi shares a statement with syncwerk to
\* show it lands in its own database.
MCScripts ==
    [f \in {"ccnet", "syncwerk", "restapi", "syncwevents", "groupmgr",
           "usermgr", "peermgr"} |->
        CASE f = "ccnet"       -> <<CreateT, Blank, InsertT>>
          [] f = "syncwerk"    -> <<AlterU, UpdateU>>
          [] f = "restapi"     -> <<AlterU>>
          [] f = "syncwevents" -> <<EventsT>>
          [] f = "groupmgr"    -> <<GroupT>>
          [] f = "usermgr"     -> <<UserT>>
          [] f = "peermgr"     -> <<UserT>>]

\* A version directory whose component databases get_db() all knows.
KnownDir == {"ccnet", "syncwerk", "syncwevents", "groupmgr", "usermgr"}

\* A version directory with a component file for a database get_db() does
\* not list (PeerMgr/peermgr.db is not among its names).
UnknownDbDir == {"ccnet", "restapi", "peermgr"}

MCScriptDirs == {KnownDir, UnknownDbDir}
MCScriptDirsKnown == {KnownDir}
=============================================================================
