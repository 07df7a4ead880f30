CONSTANTS
    MaxConns = 3
    Repair = {r1, r2}
    Assignments = {a1, a2}
    MaxRows = 1
    Check = {c1}
SPECIFICATION FairSpec
PROPERTIES DueChecksAreClaimed
