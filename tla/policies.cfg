SPECIFICATION Spec
CONSTANTS
    Ingresses <- JustWeb
    Specs <- SpecsPolicies
    Services = {}
    PortNumbers = {80}
    FirstPorts = {0}
    NoAddress = NoAddress
    Addresses = {NoAddress}
    FirstGateways = {None}
    OtherFinalizers = {}
    FinalizerName = FinalizerName
    None = None
    Disturbances = {"edit", "tamper"}
    MaxDisturbances = 1
    MaxIncarnations = 1
    IngressClass = "envoy"
INVARIANTS
    QuietImpliesSettled
CHECK_DEADLOCK FALSE
