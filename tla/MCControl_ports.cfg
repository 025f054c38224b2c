SPECIFICATION Spec
CONSTANTS
    Sandboxes = {s1, s2}
    Nodes = {n1}
    HostPorts = {p1}
    NoNode = NoNode
    NoSandbox = NoSandbox
    Deleters = {}
    Reconciler = reconciler
    Removable = {}
    TTLSandboxes = {s1}
    PortsNeeded = 1
    UDPSandboxes = {}
    StaleSaves = FALSE
    ReuseIds = FALSE
    MaxCrashes = 0
INVARIANTS
    ReservationsAccounted
    PickedPortsFree
CHECK_DEADLOCK FALSE
