\* One modal with any options and five calls, or one tooltip with any options and
\* five events and calls.
SPECIFICATION SpecOverlays
CONSTANTS
    MaxCalls = 5
    MaxEvents = 5
    MaxPending = 3
INVARIANTS
    HiddenLeavesNothing
    ShownIsWhole
    NoTipLeftBehind
    WantedIsShown
    DestroyedIsQuiet
CHECK_DEADLOCK FALSE
