CONSTANTS
    Versions <- MCVersionsTwoDigit
    LiveContents <- MCLiveValid
    StaleContents <- MCStale
SPECIFICATION Spec
INVARIANT DetectionComplete
CHECK_DEADLOCK FALSE
