SPECIFICATION Spec
CONSTANTS
    Ingresses <- WebAndApi
    Specs <- SpecsAB
    Services = {}
    PortNumbers = {80}
    FirstPorts = {0}
    NoAddress = NoAddress
    Addresses = {NoAddress}
    FirstGateways = {None}
    OtherFinalizers = {}
    FinalizerName = FinalizerName
    None = None
    Disturbances = {"edit"}
    MaxDisturbances = 1
    MaxIncarnations = 1
    IngressClass = "envoy"
PROPERTIES
    DeletesOnlyUnneeded
CHECK_DEADLOCK FALSE
