SPECIFICATION FairSpec
CONSTANTS
    a1 = a1
    a2 = a2
    k1 = k1
    k2 = k2
    r1 = r1
    r2 = r2
    Request <- OneRequest
    PayKey <- OneKey
    Attendee <- OneAttendee
    Settings <- NeedsTwoSettings
    Handlers <- MoneyHandlers
    Horizon = 3
    NewSettings <- Fresh
    NoKey = NoKey
    NoMax = NoMax
    NoSession = NoSession
PROPERTIES
    UnderfilledIsRefunded
