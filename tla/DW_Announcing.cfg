\* Four files and a key that keeps two events; directories come and go.
SPECIFICATION FairSpec
CONSTANTS
    Dirs = {d1, d2}
    NoConf = NoConf
    Files = {f1, f2, f3, f4}
    Overflow = Overflow
    EventLimit = 2
    MaxSaves = 1
INVARIANTS
    NothingDroppedSilently
    AnnouncedInOrder
PROPERTIES
    FilesAreAnnounced
    DeletionEndsWatch
