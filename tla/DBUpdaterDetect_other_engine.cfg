CONSTANTS
    Versions <- MCVersions
    LiveContents <- MCLiveOther
    StaleContents <- MCStale
SPECIFICATION Spec
INVARIANT DetectionSound
CHECK_DEADLOCK FALSE
