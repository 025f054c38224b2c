SPECIFICATION Spec
CONSTANTS
    Sandboxes = {s1}
    Nodes = {n1}
    HostPorts = {p1}
    NoNode = NoNode
    NoSandbox = NoSandbox
    Deleters = {d1}
    Reconciler = reconciler
    Removable = {}
    TTLSandboxes = {}
    PortsNeeded = 1
    UDPSandboxes = {}
    StaleSaves = FALSE
    ReuseIds = FALSE
    MaxCrashes = 0
PROPERTIES
    NoDestructiveOverride
CHECK_DEADLOCK FALSE
