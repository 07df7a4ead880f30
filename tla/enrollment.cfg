CONSTANTS
    Host = {h1}
    Token = {t1}
    Key = {k1, k2, k3}
    NoToken = NoToken
    NoFile = NoFile
    Idle = Idle
SPECIFICATION FairSpec
INVARIANTS OneIdentityPerToken HeldIsKnown RunningCanRestart
PROPERTIES HostsReport
