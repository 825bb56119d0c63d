\* Two administrators' requests overlap and may fail, while a call records a transaction.
CONSTANTS
    OrderId = {o1}
    NoOrder = NoOrder
    Call = {c1}
    Filing = {f1, f2}
    MethodId = {m1}
    NoMethod = NoMethod
    Provider = {"PAYPAL", "OTHER"}
    MethodEdits <- MethodEdit
    Percentage = {5, 10}
    Reference = {r1}
    m1 = m1
    NoReference = NoReference
    InitialConfigs <- FiveOrNothing
    InitialMethods <- OtherOnly
    MaxAmount = 155
    MaxConfigs = 2
    MaxAudit = 2
    Faults = TRUE
SPECIFICATION FewSpec
INVARIANTS CommissionWasConfigured
PROPERTIES ConfiguredForGood
CHECK_DEADLOCK FALSE
