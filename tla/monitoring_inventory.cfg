CONSTANTS
    core = core
    edge = edge
    host = host
    c1 = c1
    c2 = c2
    Device = {core, edge, host}
    NoDevice = NoDevice
    Check = {c1}
    DeviceOf <- MCOnCore
    Worker = {w1}
    Service = {"svc"}
    MonitDevice = {core}
    AgentDevice = {core}
    Collected = {}
    Maintained = {}
    Placement <- MCMoves
    Deletable = {core}
    Idle = Idle
SPECIFICATION Spec
INVARIANTS TypeOK
PROPERTIES OnlyOverlapsMislead ResultReachesChildren 
