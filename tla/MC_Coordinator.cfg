CONSTANTS
    n1 = n1
    s1 = s1
    w1 = w1
    c1 = c1
    r1 = r1
    m1 = m1
    NoClient = NoClient
    NoOwner = NoOwner
    Namespaces <- MCNamespaces
    SystemObjs <- MCSystemObjs
    SystemNs <- MCSystemNs
    Workers <- MCWorkers
    Clients <- MCClients
    Resources <- MCResources
    Monitors <- MCMonitors
    IntWidth = 1
    ApiMayFail = TRUE
    MaxRestarts = 1
SPECIFICATION Spec
PROPERTIES
    MonitorCallsComplete
