SPECIFICATION FairSpec
CONSTANTS
    Sandboxes = {s1}
    Nodes = {n1}
    HostPorts = {}
    NoNode = NoNode
    NoSandbox = NoSandbox
    Deleters = {}
    Reconciler = reconciler
    Removable = {}
    TTLSandboxes = {}
    PortsNeeded = 0
    UDPSandboxes = {}
    StaleSaves = FALSE
    ReuseIds = FALSE
    MaxCrashes = 0
PROPERTIES
    ScheduledProgresses
CHECK_DEADLOCK FALSE
