CONSTANTS
    Versions <- MCVersions
    LiveContents <- MCLive
    StaleContents <- MCStale
SPECIFICATION Spec
INVARIANT TypeOK
INVARIANT DetectionSound
INVARIANT DetectionComplete
CHECK_DEADLOCK FALSE
