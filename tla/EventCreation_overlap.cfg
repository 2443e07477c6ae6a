SPECIFICATION Spec
CONSTANTS
    v1 = v1
    v2 = v2
    u1 = u1
    u2 = u2
    p1 = p1
    r1 = r1
    r2 = r2
    Request <- TwoRequests
    Traffic <- TicketFormAside
    EventId <- TwoEvents
    Url <- TwoUrls
    PayPal <- OnePayPal
    Choices <- SaleOrDeletion
    Edits = 1
    NoPayPal = NoPayPal
    NoEvent = NoEvent
    NoSession = NoSession
INVARIANTS
    CreationTypeOK
    OneEventSellsPerUrl
PROPERTIES
    DetailsLandWhereFound
    DeletedComesBackOnlyByKnownWays
SYMMETRY CreationSymmetry
