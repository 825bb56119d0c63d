\* A customer who came through Google deletes the account and comes back.
CONSTANTS
    OrderId = {}
    NoOrder = NoOrder
    Faults = FALSE
    Slot = {r1}
    NoArgs = NoArgs
    MaxRequests = 4
    MaxClashing = 3
    User = {u1, u2}
    NoUser = NoUser
    Email = {e1}
    NoEmail = NoEmail
    Google = {g1}
    NoGoogle = NoGoogle
    EmailOf <- FirstEmail
    Password = {p1, p2}
    NoPassword = NoPassword
    Code = {c1}
    NoCode = NoCode
    Dni = {d1}
    NoDni = NoDni
    MaxTokens = 3
    InitialTables <- FromGoogle
    u1 = u1
    u2 = u2
    e1 = e1
    g1 = g1
    d1 = d1
SPECIFICATION SVSpec
INVARIANTS
    FreedAddressIsUsable
CHECK_DEADLOCK FALSE
