SPECIFICATION FocusSpec
CONSTANTS
    Cells <- FiveCells
    Writers = {w1, w2}
    Admins = {a1, a2}
    Requests <- Anywhere
    MaxCells = 2
    MaxKeys = 3
    Deletable <- EachCell
    WritesDuringKeyChange = FALSE
    Absent = Absent
    Gone = Gone
    NoPayload = NoPayload
INVARIANTS WritesSurvive QuotaOverrunBounded ClientKeepsItsCells
CHECK_DEADLOCK FALSE
