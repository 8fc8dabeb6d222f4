SPECIFICATION OverlapSpec
CONSTANTS
    Cells = {c1}
    Writers = {w1}
    Admins = {a1}
    Requests <- OneNumber
    MaxCells = 1
    MaxKeys = 2
    Deletable = {}
    WritesDuringKeyChange = TRUE
    Absent = Absent
    Gone = Gone
    NoPayload = NoPayload
INVARIANTS EveryCellReadable
CHECK_DEADLOCK FALSE
