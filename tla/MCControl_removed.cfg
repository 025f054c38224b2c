SPECIFICATION Spec
CONSTANTS
    Sandboxes = {s1}
    Nodes = {n1}
    HostPorts = {p1}
    NoNode = NoNode
    NoSandbox = NoSandbox
    Deleters = {}
    Reconciler = reconciler
    Removable = {n1}
    TTLSandboxes = {}
    PortsNeeded = 1
    UDPSandboxes = {}
    StaleSaves = FALSE
    ReuseIds = FALSE
    MaxCrashes = 0
INVARIANTS
    RemovedNodeUnused
CHECK_DEADLOCK FALSE
