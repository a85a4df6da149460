SPECIFICATION Spec
CONSTANTS
    Ingresses <- JustWeb
    Specs <- SpecsClass
    Services = {}
    PortNumbers = {80}
    FirstPorts = {0}
    NoAddress = NoAddress
    Addresses = {NoAddress}
    FirstGateways = {None}
    OtherFinalizers = {}
    FinalizerName = FinalizerName
    None = None
    Disturbances = {"edit"}
    MaxDisturbances = 1
    MaxIncarnations = 1
    IngressClass = "envoy"
INVARIANTS
    QuietImpliesNotHeldUp
CHECK_DEADLOCK FALSE
