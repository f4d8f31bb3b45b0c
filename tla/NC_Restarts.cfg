\* Three web threads, texts of two lengths, two kills and one I/O error.
SPECIFICATION Spec
CONSTANTS
    short = short
    long = long
    other = other
    t1 = t1
    t2 = t2
    t3 = t3
    Dirs = {short, long, other}
    DefaultDir = short
    Size <- MCSize
    WebThreads = {t1, t2, t3}
    NoConf = NoConf
    NoFile = NoFile
    MaxSaves = 4
    MaxKills = 2
    MaxErrors = 1
SYMMETRY Symmetric
INVARIANTS
    DiskFollowsMemory
    StartFailsOnlyAfterRace
    NullOnlyAfterTear
PROPERTY RestartRestores
CHECK_DEADLOCK FALSE
