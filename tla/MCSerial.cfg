\* Stock handlers one at a time, with no direct edit of the stock; or administrators
\* of the finance module one at a time, while a call records a transaction.
CONSTANTS
    Product = {p1}
    NoProduct = NoProduct
    StockJob = {j1, j2}
    StockLevel = {0, 2}
    Quantity = {1, 2}
    Price = {5, 7}
    EditColumns <- HideOrPrice
    EditStatus = {"ACTIVE", "INACTIVE"}
    MaxStock = 4
    MaxMoves = 5
    OrderId = {o1}
    NoOrder = NoOrder
    Call = {c1}
    Filing = {f1, f2}
    MethodId = {m1}
    NoMethod = NoMethod
    Provider = {"PAYPAL", "OTHER"}
    MethodEdits <- MethodEdit
    Percentage = {5, 10}
    Reference = {r1}
    NoReference = NoReference
    InitialConfigs <- NothingConfigured
    InitialMethods <- NoMethodYet
    MaxAmount = 150
    MaxConfigs = 2
    MaxAudit = 2
    Faults = FALSE
SPECIFICATION SceneSpec
SYMMETRY Symmetry
INVARIANTS
    LedgerExplainsStock
    OneActiveConfig
    AuditTellsStatus
PROPERTIES
    HiddenStaysHidden
CHECK_DEADLOCK FALSE
