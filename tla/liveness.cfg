SPECIFICATION FairSpec
CONSTANTS
    Ingresses <- JustWeb
    Specs <- SpecsBothNamed
    Services <- TheService
    PortNumbers = {80, 8080}
    FirstPorts = {0}
    NoAddress = NoAddress
    Addresses = {NoAddress, Address1}
    FirstGateways = {None}
    OtherFinalizers = {}
    FinalizerName = FinalizerName
    None = None
    Disturbances = {"edit", "fault", "crash", "gateway", "port", "resync"}
    MaxDisturbances = 2
    MaxIncarnations = 1
    IngressClass = "envoy"
INVARIANTS
    QuietImpliesSettledButPorts
PROPERTIES
    EventuallySettled
    ResyncSettles
    ResyncBringsStatus
CHECK_DEADLOCK FALSE
