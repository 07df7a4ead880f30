CONSTANTS
    MaxConns = 2
    Repair = {r1, r2}
    Assignments = {}
    MaxRows = 1
    Check = {c1}
SPECIFICATION FairSpec
PROPERTIES DueChecksAreClaimed
CHECK_DEADLOCK FALSE
