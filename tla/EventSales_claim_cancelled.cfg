SPECIFICATION Spec
CONSTANTS
    a1 = a1
    a2 = a2
    k1 = k1
    k2 = k2
    r1 = r1
    r2 = r2
    Request <- OneRequest
    PayKey <- TwoKeys
    Attendee <- TwoAttendees
    Settings <- SalesSettings
    Handlers <- MoneyHandlers
    Horizon = 1
    NewSettings <- Fresh
    NoKey = NoKey
    NoMax = NoMax
    NoSession = NoSession
PROPERTIES
    CancelReturnsPayments
