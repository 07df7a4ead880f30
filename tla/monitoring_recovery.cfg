CONSTANTS
    core = core
    edge = edge
    host = host
    c1 = c1
    c2 = c2
    Device = {core, edge, host}
    NoDevice = NoDevice
    Check = {c1, c2}
    DeviceOf <- MCEnds
    Worker = {w1}
    Service = {}
    MonitDevice = {}
    AgentDevice = {}
    Collected = {}
    Maintained = {}
    Placement <- MCChain
    Deletable = {}
    Idle = Idle
SPECIFICATION FairSpec
PROPERTIES ResultSweepsSuppressed FailureAlerts OutageReachesDescendants
