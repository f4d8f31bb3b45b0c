\* Two agents on two event loops, with fairness; the HashMap races.
SPECIFICATION FairSpec
CONSTANTS
    c1 = c1
    c2 = c2
    l1 = l1
    l2 = l2
    a = a
    b = b
    Channels = {c1, c2}
    Loops = {l1, l2}
    LoopOf <- MCLoopOfTwo
    Letters = {b}
    Names <- MCShortNames
    MaxMessages = 2
INVARIANTS
    NamesAreGenuine
    JoinedIsRegistered
    RegisteredIsAnnounced
PROPERTIES
    ImplementsRegistry
    ClosedIsCleanedUp
CHECK_DEADLOCK FALSE
