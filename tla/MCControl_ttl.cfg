SPECIFICATION FairSpec
CONSTANTS
    Sandboxes = {s1}
    Nodes = {n1}
    HostPorts = {}
    NoNode = NoNode
    NoSandbox = NoSandbox
    Deleters = {}
    Reconciler = reconciler
    Removable = {}
    TTLSandboxes = {s1}
    PortsNeeded = 0
    UDPSandboxes = {}
    StaleSaves = FALSE
    ReuseIds = FALSE
    MaxCrashes = 0
PROPERTIES
    ExpiredTerminated
CHECK_DEADLOCK FALSE
