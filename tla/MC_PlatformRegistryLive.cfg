CONSTANTS
    n1 = n1
    s1 = s1
    s2 = s2
    w1 = w1
    w2 = w2
    c1 = c1
    NoClient = NoClient
    NoOwner = NoOwner
    Namespaces <- MCNamespaces
    SystemObjs <- MCSystemObjs
    SystemNs <- MCSystemNs
    Workers <- MCOneWorker
    Clients <- MCClients
    IntWidth = 1
    ApiMayFail = TRUE
    MaxRestarts = 1
SPECIFICATION Spec
PROPERTIES
    RebuildRequestServed
