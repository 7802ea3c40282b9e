CONSTANTS
    Jobs = {j1, j2}
    Messages = {m1, m2}
    NoMessage = NoMessage
    Requests <- Created
    MaxRetries = 1
    MaxVersion = 1
    MaxCrashes = 1
SYMMETRY Symmetry
SPECIFICATION Spec
INVARIANTS TypeOK
PROPERTIES AckedHasThumbnail
CHECK_DEADLOCK FALSE
