SPECIFICATION Spec
CONSTANTS
    Ingresses <- JustWeb
    Specs <- SpecsA
    Services = {}
    PortNumbers = {80}
    FirstPorts = {0}
    NoAddress = NoAddress
    Addresses = {NoAddress}
    FirstGateways = {None}
    OtherFinalizers = {OtherFinalizer}
    FinalizerName = FinalizerName
    None = None
    Disturbances = {"finalizer"}
    MaxDisturbances = 1
    MaxIncarnations = 1
    IngressClass = "envoy"
PROPERTIES
    OtherFinalizersKept
CHECK_DEADLOCK FALSE
