---------------------------- MODULE MCWin32Upgrade ----------------------------
EXTENDS Win32Upgrade

\* upgrade_db's order: ccnet.sql, the ccnet/*.sql files, syncwerk.sql,
\* restapi.sql.  The 3.0 upgrade has a ccnet and a syncwerk script.
MCSqlScripts == [v \in {"3.0.0", "5.0.0"} |->
                    IF v = "5.0.0" THEN <<"ccnet", "groupmgr", "syncwerk", "restapi">>
                                   ELSE <<"ccnet30", "syncwerk30">>]
MCGuardedSome == {"groupmgr", "restapi", "ccnet30"}
\* Every 5.0 script guarded, so a rerun of the 5.0 upgrade reaches the
\* copy loop again; the 3.0 syncwerk script is not.
MCGuarded50 == {"ccnet", "groupmgr", "syncwerk", "restapi", "ccnet30"}
MCGuardedAll == {"ccnet", "groupmgr", "syncwerk", "restapi", "ccnet30", "syncwerk30"}
=============================================================================
