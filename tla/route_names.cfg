SPECIFICATION Spec
CONSTANTS
    Ingresses <- JustWeb
    Specs <- SpecsDots
    Services = {}
    PortNumbers = {80}
    FirstPorts = {0}
    NoAddress = NoAddress
    Addresses = {NoAddress}
    FirstGateways = {None}
    OtherFinalizers = {}
    FinalizerName = FinalizerName
    None = None
    Disturbances = {}
    MaxDisturbances = 0
    MaxIncarnations = 1
    IngressClass = "envoy"
INVARIANTS
    RouteNamesUnique
CHECK_DEADLOCK FALSE
