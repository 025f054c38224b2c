SPECIFICATION Spec
CONSTANTS
    Sandboxes = {s1}
    Nodes = {n1}
    HostPorts = {}
    NoNode = NoNode
    NoSandbox = NoSandbox
    Deleters = {}
    Reconciler = reconciler
    Removable = {n1}
    TTLSandboxes = {s1}
    PortsNeeded = 0
    UDPSandboxes = {}
    StaleSaves = TRUE
    ReuseIds = FALSE
    MaxCrashes = 1
INVARIANTS
    ControlInv
CHECK_DEADLOCK FALSE
