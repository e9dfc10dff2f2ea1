SPECIFICATION Spec
CONSTANTS
    a = a
    b = b
    c1 = c1
    c2 = c2
    s1 = s1
    s2 = s2
    None = None
    Macs = {a, b}
    Sites = {s1, s2}
    Clients = {c1, c2}
    Owner <- MCOwner
    Rows <- MCRows
    Replacements <- MCReplacements
    MaxMoves = 1
PROPERTIES
    ServiceKept
    RetryFinishes
    RowsFollowUisp
CHECK_DEADLOCK FALSE
