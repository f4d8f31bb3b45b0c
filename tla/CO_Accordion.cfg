\* An accordion of three panels, or three panels without a parent.
SPECIFICATION FairSpec
CONSTANTS
    NumPanels = 3
    MaxPending = 3
    Elements = {1, 2, 3}
INVARIANTS
    AnnouncedAsItIs
    OneOpenPanel
PROPERTY TriggersComeBack
