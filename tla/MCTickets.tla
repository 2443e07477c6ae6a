----------------------------- MODULE MCTickets ------------------------------
(***************************************************************************)
(* Instances of Tickets for TLC.                                           *)
(***************************************************************************)
EXTENDS TicketsHistory, TLC

CONSTANTS e1, e2,               \* events
          a1, a2, a3, a4,       \* attendee records
          n1, n2, n3,           \* GUIDs
          r1, r2                \* request slots

OneEvent == {e1}

TwoEvents == {e1, e2}

TwoAttendees == {a1, a2}

FourAttendees == {a1, a2, a3, a4}

\* Two pledges to mail, so that something happens between one mail and the next.
TwoPledgesSold ==
    (e1 :> << [order |-> 1, paid |-> TRUE, attendees |-> <<a1>>],
              [order |-> 2, paid |-> TRUE, attendees |-> <<a2>>] >>)

\* An order number is the number of attendees before it plus one, in every event, so
\* order 1 is there twice: the administrator's pages refuse it unless the index lags.
TwoEventsSold ==
    (e1 :> << [order |-> 1, paid |-> FALSE, attendees |-> <<a1>>],
              [order |-> 2, paid |-> TRUE, attendees |-> <<a2, a3>>] >>)
    @@ (e2 :> << [order |-> 1, paid |-> TRUE, attendees |-> <<a4>>] >>)

TwoNumbers == {n1, n2}

ThreeNumbers == {n1, n2, n3}

OneRequest == {r1}

TwoRequests == {r1, r2}

NumberSymmetry == Permutations(ThreeNumbers)

\* Bounds of the overlapping run: handlers that are at work together, and that they are
\* until an update is lost.
Together == {{"create"}, {"sendAll"}, {"create", "sendAll"},
             {"create", "download"}, {"sendAll", "activate"}}

Overlaps ==
    \A q, r \in Request :
        (q # r /\ InProgress(q) /\ InProgress(r))
            => ~lost /\ {req[q].op, req[r].op} \in Together

OverlapSymmetry == Permutations(TwoNumbers) \cup Permutations(TwoRequests)
=============================================================================
