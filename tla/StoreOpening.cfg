\* Three processes, three calls, every file a disk may hold.
SPECIFICATION Spec
CONSTANTS
    Processes = {p1, p2, p3}
    MaxOpens = 3
    MaxJournal = 2
SYMMETRY Symmetry
CHECK_DEADLOCK FALSE
INVARIANTS TypeOK OpenStoresAreCurrent
PROPERTIES RefusedFilesKeepTheirContents MigrationIsWhole
