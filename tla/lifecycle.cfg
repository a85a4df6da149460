SPECIFICATION Spec
CONSTANTS
    Ingresses <- JustWeb
    Specs <- SpecsLife
    Services = {}
    PortNumbers = {80}
    FirstPorts = {0}
    NoAddress = NoAddress
    Addresses = {NoAddress}
    FirstGateways = {None}
    OtherFinalizers = {}
    FinalizerName = FinalizerName
    None = None
    Disturbances = {"edit", "fault", "crash"}
    MaxDisturbances = 2
    MaxIncarnations = 2
    IngressClass = "envoy"
INVARIANTS
    TypeOK
    FinalizerInv
    WritesUnderFinalizer
    MakeBeforeBreak
    QuietImpliesSettled
    SettlingInv
PROPERTIES
    KeepsProtocol
CHECK_DEADLOCK FALSE
