CONSTANTS
    Discs = {d1, d2}
    Values = {v1, v2}
    Labels = {l1}
    Fields = {"VUK", "KCD"}
    Globals = {"PK"}
    None = None
    MaxLines = 4
SPECIFICATION Spec
INVARIANTS
    RowsEndAtNextDiscid
CHECK_DEADLOCK FALSE
