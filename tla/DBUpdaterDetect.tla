--------------------------- MODULE DBUpdaterDetect ---------------------------
(***************************************************************************)
(* Backend detection of src/scripts/upgrade/db_update_helper.py:          *)
(* DBUpdater.get_instance(version) and the three get_*_mysql_info helpers *)
(* it calls, with Utils.read_config and EnvManager.                        *)
(*                                                                         *)
(* Each subsystem has its configuration in two places: ccnet.conf in      *)
(* CCNET_CONF_DIR or in the central config directory, server.conf in      *)
(* SYNCWERK_CONF_DIR or in the central directory, restapi_settings.py in   *)
(* the top directory or in the central directory.  Servers before 5.0     *)
(* read the per-subsystem places, later servers the central one (the      *)
(* 4.3->5.0 upgrade moves the files).  Before the move the central        *)
(* directory holds nothing; after it the old place holds no file or the   *)
(* stub the move leaves behind.                                           *)
(*                                                                         *)
(* A configuration file is abstracted to what the parser finds in it:     *)
(*   "absent"   the file does not exist / restapi_settings cannot import  *)
(*   "nodb"     no [Database]/[database] section, no DATABASES            *)
(*   "sqlite"   a database section naming the embedded engine             *)
(*   "other"    a database section naming another engine (pgsql)          *)
(*   "noengine" a database section without the engine key               *)
(*   "mysql"    a complete MySQL section                                 *)
(*   "partial"  a MySQL section lacking user, password or db name         *)
(*   "emptyport" a MySQL section with PORT = '' (Django's "default port") *)
(***************************************************************************)
EXTENDS Naturals, Sequences, VersionCompare

CONSTANTS
    Versions,       \* versions passed as sys.argv[1], as tuples
    LiveContents,   \* subsystem -> what the configuration the server reads may hold
    StaleContents   \* what the old place may hold after the move

Subsystems == {"ccnet", "syncwerk", "restapi"}
Places == {"legacy", "central"}
Contents == {"absent", "nodb", "sqlite", "other", "noengine", "mysql",
             "partial", "emptyport"}
Threshold == <<5, 0, 0>>

ASSUME /\ LiveContents \in [Subsystems -> SUBSET Contents]
       /\ StaleContents \subseteq Contents
       /\ Versions \subseteq Seq(Nat)

\* Where the server that is being upgraded to version v keeps its
\* configuration: upgrades to 5.0.0 start from a 4.x layout.
LivePlace(v) == IF NumVersionGt(v, Threshold) THEN "central" ELSE "legacy"

\* What the server itself makes of a configuration: the backend it uses,
\* or "invalid" when it cannot start with it.  Django takes PORT '' as the
\* default port.
ServerBackend(c) ==
    CASE c \in {"nodb", "sqlite"}     -> "sqlite"
      [] c \in {"mysql", "emptyport"} -> "mysql"
      [] c = "other"                  -> "other"
      [] OTHER                        -> "invalid"

VARIABLES
    version,      \* sys.argv[1]
    centralSet,   \* SYNCWERK_CENTRAL_CONF_DIR is set
    conf,         \* subsystem -> place -> content
    hasMySQLdb,   \* HAS_MYSQLDB
    hasSqlite3,   \* HAS_SQLITE3
    info,         \* subsystem -> "unread", "none" (None) or "mysql" (MySQLDBInfo)
    readPlace,    \* subsystem -> place its configuration was read from
    pc,           \* "ccnet", "syncwerk", "restapi", "choose", "done"
    exitCode,     \* 0 while running or after success, 1 after an error exit
    updater       \* "none", "sqlite" or "mysql": the instance returned

vars == <<version, centralSet, conf, hasMySQLdb, hasSqlite3, info, readPlace,
          pc, exitCode, updater>>

-----------------------------------------------------------------------------

Init ==
    /\ version \in Versions
    /\ conf \in {cf \in [Subsystems -> [Places -> Contents]] :
                   \A s \in Subsystems : LET p == cf[s] IN
                       /\ p[LivePlace(version)] \in LiveContents[s]
                       /\ LivePlace(version) = "central" =>
                              p["legacy"] \in StaleContents
                       /\ LivePlace(version) = "legacy" =>
                              p["central"] = "absent"}
    \* The wrappers of 5.x servers export the central directory.
    /\ centralSet \in IF LivePlace(version) = "central" THEN {TRUE} ELSE BOOLEAN
    /\ hasMySQLdb \in BOOLEAN
    /\ hasSqlite3 \in BOOLEAN
    /\ info = [s \in Subsystems |-> "unread"]
    /\ readPlace = [s \in Subsystems |-> "legacy"]
    /\ pc = "ccnet"
    /\ exitCode = 0
    /\ updater = "none"

\* Utils.error(), and any exception that escapes main(): exit status 1.
ErrorExit ==
    /\ pc' = "done"
    /\ exitCode' = 1

\* What a get_*_mysql_info helper returns for a configuration: no
\* database section or another engine gives None, a MySQL section gives
\* MySQLDBInfo.  "error" is an exit: a missing file (read_config, import),
\* an INI section without the engine key (NoOptionError outside the try),
\* a missing user/password/db (Utils.error; the restapi handler raises on
\* the unbound `e` instead), and PORT '' (getint / int raise ValueError).
ParseResult(c) ==
    CASE c \in {"nodb", "sqlite", "other"} -> "none"
      [] c = "mysql"                       -> "mysql"
      [] OTHER                             -> "error"

\* Mutant: the threshold test is `version >= '5.0.0'`.
ReadIniInfoAtThreshold(s, next) ==
    /\ pc = s
    /\ LET place == IF ~StrLt(VersionStr(version), VersionStr(Threshold))
                    THEN "central" ELSE "legacy"
           c     == conf[s][place]
       IN /\ readPlace' = [readPlace EXCEPT ![s] = place]
          /\ IF (place = "central" /\ ~centralSet) \/ c = "absent"
                \/ ParseResult(c) = "error"
             THEN ErrorExit /\ UNCHANGED info
             ELSE /\ info' = [info EXCEPT ![s] = ParseResult(c)]
                  /\ pc' = next
                  /\ UNCHANGED exitCode
    /\ UNCHANGED <<version, centralSet, conf, hasMySQLdb, hasSqlite3, updater>>

\* Mutant: a configuration the parser rejects is returned as it is
\* instead of ending the process.
ReadIniInfoNoExit(s, next) ==
    /\ pc = s
    /\ LET place == IF StrVersionGt(version, Threshold) THEN "central" ELSE "legacy"
           c     == conf[s][place]
       IN /\ readPlace' = [readPlace EXCEPT ![s] = place]
          /\ IF (place = "central" /\ ~centralSet) \/ c = "absent"
             THEN ErrorExit /\ UNCHANGED info
             ELSE /\ info' = [info EXCEPT ![s] = ParseResult(c)]
                  /\ pc' = next
                  /\ UNCHANGED exitCode
    /\ UNCHANGED <<version, centralSet, conf, hasMySQLdb, hasSqlite3, updater>>

\* get_ccnet_mysql_info(version) / get_syncwerk_mysql_info(version): the
\* file is looked up in the central directory when version > '5.0.0' as a
\* string, in the subsystem's own directory otherwise.  os.path.join(None,
\* ...) raises when the central directory is not set; Utils.read_config
\* exits when the file does not exist.
ReadIniInfo(s, next) ==
    /\ pc = s
    /\ LET place == IF StrVersionGt(version, Threshold) THEN "central" ELSE "legacy"
           c     == conf[s][place]
       IN /\ readPlace' = [readPlace EXCEPT ![s] = place]
          /\ IF (place = "central" /\ ~centralSet) \/ c = "absent"
                \/ ParseResult(c) = "error"
             THEN ErrorExit /\ UNCHANGED info
             ELSE /\ info' = [info EXCEPT ![s] = ParseResult(c)]
                  /\ pc' = next
                  /\ UNCHANGED exitCode
    /\ UNCHANGED <<version, centralSet, conf, hasMySQLdb, hasSqlite3, updater>>

GetCcnetMysqlInfo == ReadIniInfo("ccnet", "syncwerk")
GetSyncwerkMysqlInfo == ReadIniInfo("syncwerk", "restapi")

\* get_restapi_mysql_info(): `import restapi_settings` with the central
\* directory (when set) before the top directory on sys.path.  No DATABASES
\* or another ENGINE gives None; a KeyError on a missing key reaches the
\* handler that formats the unbound `e`, and int('') raises ValueError:
\* both end the process.
GetRestapiMysqlInfo ==
    /\ pc = "restapi"
    /\ LET place == IF centralSet /\ conf["restapi"]["central"] # "absent"
                    THEN "central" ELSE "legacy"
           c     == conf["restapi"][place]
       IN /\ readPlace' = [readPlace EXCEPT !["restapi"] = place]
          /\ IF ParseResult(c) = "error"
             THEN ErrorExit /\ UNCHANGED info
             ELSE /\ info' = [info EXCEPT !["restapi"] = ParseResult(c)]
                  /\ pc' = "choose"
                  /\ UNCHANGED exitCode
    /\ UNCHANGED <<version, centralSet, conf, hasMySQLdb, hasSqlite3, updater>>

\* Mutant: MySQL is chosen from ccnet and syncwerk alone.
GetInstanceNoRestapi ==
    /\ pc = "choose"
    /\ pc' = "done"
    /\ CASE \A s \in {"ccnet", "syncwerk"} : info[s] = "mysql" ->
              IF hasMySQLdb THEN updater' = "mysql" /\ UNCHANGED exitCode
                            ELSE exitCode' = 1 /\ UNCHANGED updater
         [] \A s \in Subsystems : info[s] = "none" ->
              IF hasSqlite3 THEN updater' = "sqlite" /\ UNCHANGED exitCode
                            ELSE exitCode' = 1 /\ UNCHANGED updater
         [] OTHER -> exitCode' = 1 /\ UNCHANGED updater
    /\ UNCHANGED <<version, centralSet, conf, hasMySQLdb, hasSqlite3, info,
                   readPlace>>

\* get_instance(): MySQL when all three are MySQLDBInfo, SQLite when all
\* three are None, otherwise the mix is reported and the process exits.
\* The Python driver of the chosen backend must be importable.
GetInstance ==
    /\ pc = "choose"
    /\ pc' = "done"
    /\ CASE \A s \in Subsystems : info[s] = "mysql" ->
              IF hasMySQLdb THEN updater' = "mysql" /\ UNCHANGED exitCode
                            ELSE exitCode' = 1 /\ UNCHANGED updater
         [] \A s \in Subsystems : info[s] = "none" ->
              IF hasSqlite3 THEN updater' = "sqlite" /\ UNCHANGED exitCode
                            ELSE exitCode' = 1 /\ UNCHANGED updater
         [] OTHER -> exitCode' = 1 /\ UNCHANGED updater
    /\ UNCHANGED <<version, centralSet, conf, hasMySQLdb, hasSqlite3, info,
                   readPlace>>

Next ==
    \/ GetCcnetMysqlInfo \/ GetSyncwerkMysqlInfo \/ GetRestapiMysqlInfo
    \/ GetInstance

Spec == Init /\ [][Next]_vars

-----------------------------------------------------------------------------
(* Properties                                                              *)

TypeOK ==
    /\ version \in Versions
    /\ centralSet \in BOOLEAN
    /\ conf \in [Subsystems -> [Places -> Contents]]
    /\ info \in [Subsystems -> {"unread", "none", "mysql"}]
    /\ readPlace \in [Subsystems -> Places]
    /\ pc \in {"ccnet", "syncwerk", "restapi", "choose", "done"}
    /\ exitCode \in {0, 1}
    /\ updater \in {"none", "sqlite", "mysql"}

LiveBackend(s) == ServerBackend(conf[s][LivePlace(version)])

\* Soundness: get_instance() returns an updater only for the backend that
\* every subsystem's server really uses, so the scripts go to the
\* databases the servers read.
DetectionSound ==
    updater # "none" => \A s \in Subsystems : LiveBackend(s) = updater

\* Completeness: when all three servers use the same supported backend and
\* its Python driver is there, the upgrade does not stop at detection.
DetectionComplete ==
    (pc = "done" /\
     \E k \in {"sqlite", "mysql"} :
        /\ \A s \in Subsystems : LiveBackend(s) = k
        /\ (k = "mysql" => hasMySQLdb) /\ (k = "sqlite" => hasSqlite3))
    => exitCode = 0

=============================================================================
