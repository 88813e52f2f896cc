CONSTANTS
    Versions <- MCVersions
    LiveContents <- MCLiveEmptyPort
    StaleContents <- MCStale
SPECIFICATION Spec
INVARIANT DetectionComplete
CHECK_DEADLOCK FALSE
