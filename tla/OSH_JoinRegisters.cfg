\* Expected violation: the claim JoinRegisters.
SPECIFICATION Spec
CONSTANTS
    c1 = c1
    c2 = c2
    l1 = l1
    l2 = l2
    a = a
    b = b
    Channels = {c1}
    Loops = {l1}
    LoopOf <- MCLoopOfOne
    Letters = {a, b}
    Names <- MCLongNames
    MaxMessages = 2
INVARIANT JoinRegisters
CHECK_DEADLOCK FALSE
