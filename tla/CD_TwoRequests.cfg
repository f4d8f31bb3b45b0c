\* Two files in one request and an operation in another, with and without SSL; with fairness.
SPECIFICATION FairSpec
CONSTANTS
    f1 = f1
    f2 = f2
    o1 = o1
    t1 = t1
    t2 = t2
    Calls = {f1, f2, o1}
    FileCalls = {f1, f2}
    WebThreads = {t1, t2}
    CallsOf <- MCCallsOf
    Lengths = {0, 1}
    MaxChanges = 1
INVARIANTS
    FramesIntactAlone
    FileSentWhenUndisturbed
    OnlyUnmeasuredLeak
PROPERTIES
    HeaderGetsItsData
    ReportsInTheEnd
CHECK_DEADLOCK FALSE
