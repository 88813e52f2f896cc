-------------------------- MODULE MCDBUpdaterDetect --------------------------
EXTENDS DBUpdaterDetect

\* Upgrade targets around the 5.0.0 threshold, single-digit components.
MCVersions == {<<4, 3, 0>>, <<5, 0, 0>>, <<5, 1, 0>>, <<6, 0, 0>>}

\* A two-digit major version.
MCVersionsTwoDigit == {<<5, 1, 0>>, <<10, 0, 0>>}

\* Configurations of the supported engines, valid or not.
MCLive == [s \in Subsystems |-> {"nodb", "sqlite", "mysql", "partial", "noengine"}]

\* As MCLive, with another engine configured as well.
MCLiveOther == [s \in Subsystems |-> {"nodb", "mysql", "other"}]

\* restapi_settings.py with Django's empty PORT.
MCLiveEmptyPort == [s \in Subsystems |->
                      IF s = "restapi" THEN {"mysql", "emptyport"} ELSE {"mysql"}]

\* Agreeing, valid configurations.
MCLiveValid == [s \in Subsystems |-> {"nodb", "mysql"}]

MCStale == {"absent", "nodb"}
=============================================================================
