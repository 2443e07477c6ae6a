---------------------------- MODULE MCEventSales ----------------------------
(***************************************************************************)
(* Instances of EventSales for TLC.                                        *)
(***************************************************************************)
EXTENDS EventSalesLedger, TLC

CONSTANTS a1, a2,       \* attendee records
          k1, k2,       \* PayPal keys
          r1, r2        \* request slots

\* CreateEvent leaves minimum 0, no maximum and a sales end in the far past.
Fresh == [min |-> 0, max |-> NoMax, salesEnd |-> 0, start |-> 3]

\* One participant puts the event on, two fill it.  With the clock at 1, 2 and 3
\* sales are open, at their last instant, and over; the event starts at 3.
OnSale == [min |-> 1, max |-> 2, salesEnd |-> 2, start |-> 3]

\* Two participants are needed.
Raised == [min |-> 2, max |-> 2, salesEnd |-> 2, start |-> 3]

SalesSettings == {Fresh, OnSale}

TwoAttendees == {a1, a2}

OneAttendee == {a1}

TwoKeys == {k1, k2}

OneKey == {k1}

OneRequest == {r1}

TwoRequests == {r1, r2}

\* One space only: an event that is not on yet still takes a party of two.
OneSpace == [min |-> 1, max |-> 1, salesEnd |-> 2, start |-> 3]

OneSpaceSettings == {Fresh, OneSpace}

\* Two attendees are needed, so that one who paid leaves the event underfilled.
NeedsTwoSettings == {Fresh, Raised}

\* The handlers that enrol, confirm and refund; the handlers that move the money of
\* attendees who have paid.
SalesHandlers == {"tickets", "pledge", "confirm", "refund"}

MoneyHandlers == SalesHandlers \cup {"execute", "activate", "cancel"}

\* Attendees, keys and request slots are interchangeable.
SerialSymmetry == Permutations(TwoAttendees) \cup Permutations(TwoKeys)

OneKeySymmetry == Permutations(TwoAttendees) \cup Permutations(TwoRequests)
=============================================================================
