CONSTANTS
    Factories <- MCFactories
    Parent <- MCParent
    NoParent = NoParent
    Kinds <- MCKinds
    Plugins <- MCPlugins
    Names <- MCNames
    ExecContents <- MCExecContents
    Types <- MCTypes
    NameSpaces <- MCNameSpaces
    DefaultNS = "scxmlns"
    Throw = Throw
    MaxRegs = 3
    Locs <- MCLocs
    Events = {"ev1"}
    MaxOps = 2
    SessionFactory = "session"
    DataModelOf <- MCDataModelOf
    SentEvents <- MCSentEvents
    EventTypes = {"scxmltype"}
    Origins = {"", "http"}
    InvokeIds = {"", "inv"}
    MaxDelivered = 1
SPECIFICATION Spec
INVARIANT HasAgreesWithCreate JSCForeachBindsEveryElement
CHECK_DEADLOCK FALSE
