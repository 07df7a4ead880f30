CONSTANTS
    User = {root, anna}
    Bootstrap = root
    Federated = {anna}
    Session = {s1}
    Token = {t1}
    Request = {r1, r2}
    NoRow = NoRow
    Idle = Idle
SPECIFICATION FairSpec
PROPERTIES AdministratorRemains StartSurvives SessionsEnd
CHECK_DEADLOCK FALSE
