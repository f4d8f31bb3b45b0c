\* The carousel of theme.html: three items, data-ride.
SPECIFICATION FairSpecCarousel
CONSTANTS
    NumItems = 3
    Wrap = TRUE
    MaxClicks = 4
    MaxSlid = 2
    Elements = {0, 1, 2}
INVARIANTS
    ShowsOneItem
    OneTimer
    KeepsRiding
PROPERTY IndicatorsAreServed
