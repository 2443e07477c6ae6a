--------------------------- MODULE MCEventCreation ---------------------------
(***************************************************************************)
(* Instances of EventCreation for TLC.                                     *)
(***************************************************************************)
EXTENDS EventCreation, TLC

CONSTANTS v1, v2,       \* event documents
          u1, u2,       \* short urls
          p1,           \* PayPal accounts
          r1, r2        \* request slots

TwoEvents == {v1, v2}

TwoUrls == {u1, u2}

OnePayPal == {p1}

TwoRequests == {r1, r2}

\* One slot is the ticket form; the other serves the rest, and creates a second event of
\* a url while the index lags behind the first.
TicketFormAside == (r1 :> Ops \ {"set"}) @@ (r2 :> {"set"})

\* An edit form puts the event on sale or deletes it.
SaleOrDeletion == {"SalesReady", "Deleted"}

CreationSymmetry == Permutations(TwoEvents) \cup Permutations(TwoUrls)
=============================================================================
