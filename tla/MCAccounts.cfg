\* Two requests about accounts overlap and may fail.
CONSTANTS
    OrderId = {}
    NoOrder = NoOrder
    Faults = TRUE
    Slot = {r1, r2}
    NoArgs = NoArgs
    MaxRequests = 5
    MaxClashing = 3
    User = {u1, u2}
    NoUser = NoUser
    Email = {e1}
    NoEmail = NoEmail
    Google = {g1}
    NoGoogle = NoGoogle
    EmailOf <- FirstEmail
    Password = {p1, p2}
    NoPassword = NoPassword
    Code = {c1}
    NoCode = NoCode
    Dni = {d1}
    NoDni = NoDni
    MaxTokens = 3
    InitialTables <- Beginnings
    u1 = u1
    u2 = u2
    e1 = e1
    g1 = g1
    d1 = d1
SPECIFICATION SVSpec
SYMMETRY Symmetry
INVARIANTS
    AccTypeOK
    OneSessionPerLogin
    SessionsDieWithPassword
    NoHeirAfterDeletion
    SellersAreComplete
    DecisionsAreAudited
    ReopeningsAreFounded
CHECK_DEADLOCK FALSE
