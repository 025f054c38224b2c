SPECIFICATION Spec
CONSTANTS
    Sandboxes = {s1}
    Nodes = {n1}
    HostPorts = {p1}
    NoNode = NoNode
    NoSandbox = NoSandbox
    Deleters = {d1}
    Reconciler = reconciler
    Removable = {}
    TTLSandboxes = {s1}
    PortsNeeded = 1
    UDPSandboxes = {}
    StaleSaves = TRUE
    ReuseIds = FALSE
    MaxCrashes = 0
INVARIANTS
    TypeOK
PROPERTIES
    GoneStaysGone
    SyncKeepsDeleting
CHECK_DEADLOCK FALSE
