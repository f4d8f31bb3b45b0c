\* Expected violation: the claim FileSentMeansSent.
SPECIFICATION Spec
CONSTANTS
    f1 = f1
    f2 = f2
    o1 = o1
    t1 = t1
    t2 = t2
    Calls = {f1, f2, o1}
    FileCalls = {f1, f2}
    WebThreads = {t1, t2}
    CallsOf <- MCCallsOf
    Lengths = {0, 1}
    MaxChanges = 0
INVARIANTS
    FileSentMeansSent
CHECK_DEADLOCK FALSE
