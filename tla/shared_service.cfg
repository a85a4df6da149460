SPECIFICATION Spec
CONSTANTS
    Ingresses <- WebAndApi
    Specs <- SpecsTls
    Services = {}
    PortNumbers = {80}
    FirstPorts = {0}
    NoAddress = NoAddress
    Addresses = {NoAddress}
    FirstGateways = {None}
    OtherFinalizers = {}
    FinalizerName = FinalizerName
    None = None
    Disturbances = {"edit"}
    MaxDisturbances = 1
    MaxIncarnations = 1
    IngressClass = "envoy"
PROPERTIES
    CleansUpOnlyUnneeded
CHECK_DEADLOCK FALSE
