SPECIFICATION Spec
CONSTANTS
    Sandboxes = {s1}
    Nodes = {n1, n2}
    HostPorts = {}
    NoNode = NoNode
    NoSandbox = NoSandbox
    Deleters = {}
    Reconciler = reconciler
    Removable = {n1, n2}
    TTLSandboxes = {s1}
    PortsNeeded = 0
    UDPSandboxes = {}
    StaleSaves = TRUE
    ReuseIds = FALSE
    MaxCrashes = 1
SYMMETRY NodeSymmetry
CONSTRAINT ExpiryOrRemoval
INVARIANTS
    AtMostOneNode
CHECK_DEADLOCK FALSE
