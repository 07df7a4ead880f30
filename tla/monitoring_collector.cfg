CONSTANTS
    core = core
    edge = edge
    host = host
    c1 = c1
    c2 = c2
    w1 = w1
    w2 = w2
    Device = {core}
    NoDevice = NoDevice
    Check = {c1}
    DeviceOf <- MCOnCore
    Worker = {w1, w2}
    Service = {}
    MonitDevice = {}
    AgentDevice = {}
    Collected = {c1}
    Maintained = {core}
    Placement <- MCRoots
    Deletable = {}
    Idle = Idle
SPECIFICATION FairSpec
INVARIANTS IncidentImpliesDown
PROPERTIES RepairHasIncident AcknowledgementLasts RecoveryResolves
