\* Two administrators create a commission config at the same time.
CONSTANTS
    OrderId = {o1}
    NoOrder = NoOrder
    Call = {c1}
    Filing = {f1, f2}
    MethodId = {m1}
    NoMethod = NoMethod
    Provider = {"OTHER"}
    MethodEdits <- NoEdit
    Percentage = {5, 10}
    Reference = {r1}
    m1 = m1
    NoReference = NoReference
    InitialConfigs <- NothingConfigured
    InitialMethods <- OtherOnly
    MaxAmount = 150
    MaxConfigs = 2
    MaxAudit = 2
    Faults = FALSE
SPECIFICATION FinSpec
INVARIANTS OneActiveConfig
CHECK_DEADLOCK FALSE
