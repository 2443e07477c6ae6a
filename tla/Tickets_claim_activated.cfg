SPECIFICATION SpecH
CONSTANTS
    e1 = e1
    e2 = e2
    a1 = a1
    a2 = a2
    a3 = a3
    a4 = a4
    n1 = n1
    n2 = n2
    n3 = n3
    r1 = r1
    r2 = r2
    Request <- OneRequest
    Event <- TwoEvents
    Attendee <- FourAttendees
    Sold <- TwoEventsSold
    Number <- ThreeNumbers
    NoNumber = NoNumber
    NoFile = NoFile
    NoSession = NoSession
PROPERTIES
    ActivatedHasTickets
SYMMETRY NumberSymmetry
