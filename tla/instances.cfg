SPECIFICATION SpecBoth
CONSTANTS
    Ingresses <- JustWeb
    Specs <- SpecsNone
    Services = {}
    PortNumbers = {80}
    FirstPorts = {0}
    NoAddress = NoAddress
    Addresses = {NoAddress, Address1}
    FirstGateways = {Address1}
    OtherFinalizers = {OtherFinalizer}
    FinalizerName = FinalizerName
    None = None
    Disturbances = {"edit", "finalizer"}
    MaxDisturbances = 1
    MaxIncarnations = 1
    IngressClass = "envoy"
    MaxIngressLag = 2
    MaxObjectLag = 1
INVARIANTS
    BothQuietImpliesSettled
    BothQuietImpliesStatus
CHECK_DEADLOCK FALSE
