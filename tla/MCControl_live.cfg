SPECIFICATION FairSpec
CONSTANTS
    Sandboxes = {s1}
    Nodes = {n1}
    HostPorts = {p1}
    NoNode = NoNode
    NoSandbox = NoSandbox
    Deleters = {}
    Reconciler = reconciler
    Removable = {}
    TTLSandboxes = {s1}
    PortsNeeded = 1
    UDPSandboxes = {}
    StaleSaves = TRUE
    ReuseIds = FALSE
    MaxCrashes = 1
PROPERTIES
    ExpiredRemoved
    ExpiredPortsFreed
CHECK_DEADLOCK FALSE
