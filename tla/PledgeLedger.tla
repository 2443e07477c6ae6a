---------------------------- MODULE PledgeLedger ----------------------------
(***************************************************************************)
(* What ticket sales promise about each payment: one entry of the books,   *)
(* the pledge of the event, beside the money as PayPal holds it.           *)
(*                                                                         *)
(* A payer can authorise a payment only once its pledge is on the books;   *)
(* money is taken only for a pledge that was confirmed; a pledge is        *)
(* settled after its money was asked for, and a refund on the books means  *)
(* that nothing taken is kept.                                             *)
(*                                                                         *)
(* The books follow the money.  When one request is served after the other *)
(* nothing comes between; when requests overlap, the money of a payment    *)
(* may be in one of the Late places by the time the books follow.          *)
(***************************************************************************)
CONSTANTS
    Key,        \* payments
    Late        \* where money may have gone on to before the books follow

VARIABLES
    book,       \* what the event's document says of the pledge with each key
    money       \* where the money of each payment is

ledger == <<book, money>>

Entries == {"none", "pledged", "pending", "settled", "refunded"}

Places == {"payer", "authorised", "taken", "failed", "returned"}

Enter(k, entry) == book' = [book EXCEPT ![k] = entry]

Move(k, place) == money' = [money EXCEPT ![k] = place]

\* The event accepts a pledge.
Accept(k) ==
    /\ book[k] = "none" /\ money[k] = "payer"
    /\ Enter(k, "pledged")
    /\ UNCHANGED money

\* The payer lets the money go.
Authorise(k) ==
    /\ book[k] # "none" /\ money[k] = "payer"
    /\ Move(k, "authorised")
    /\ UNCHANGED book

\* The event takes notice of the payer's approval.
Confirm(k) ==
    /\ book[k] = "pledged" /\ money[k] \in {"authorised"} \cup Late
    /\ Enter(k, "pending")
    /\ UNCHANGED money

\* A payment that PayPal calls created is settled without having been taken.
Presume(k) ==
    /\ book[k] = "pledged" /\ money[k] \in {"payer", "authorised"} \cup Late
    /\ Enter(k, "settled")
    /\ UNCHANGED money

\* The money is taken, or the attempt fails, for a confirmed pledge.
Take(k) ==
    /\ book[k] = "pending" /\ money[k] = "authorised"
    /\ \E place \in {"taken", "failed"} : Move(k, place)
    /\ UNCHANGED book

\* The books follow an attempt to take the money.
Settle(k) ==
    /\ book[k] = "pending" /\ money[k] \in {"taken", "failed"} \cup Late
    /\ Enter(k, "settled")
    /\ UNCHANGED money

\* The money goes back to the payer.
Return(k) ==
    /\ book[k] # "none" /\ money[k] \in {"authorised", "taken"}
    /\ Move(k, "returned")
    /\ UNCHANGED book

\* The refund is entered: nothing that was taken is kept.
Refund(k) ==
    /\ book[k] \in {"pledged", "pending", "settled"} /\ money[k] # "taken"
    /\ Enter(k, "refunded")
    /\ UNCHANGED money

Init ==
    /\ book = [k \in Key |-> "none"]
    /\ money = [k \in Key |-> "payer"]

Step(k) ==
    \/ Accept(k) \/ Authorise(k) \/ Confirm(k) \/ Presume(k)
    \/ Take(k) \/ Settle(k) \/ Return(k) \/ Refund(k)

Next == \E k \in Key : Step(k)

Spec == Init /\ [][Next]_ledger

LedgerTypeOK ==
    /\ book \in [Key -> Entries]
    /\ money \in [Key -> Places]

\* Money that left the payer belongs to a pledge on the books, and money that was
\* taken to one that is not refunded.
MoneyIsOnTheBooks ==
    \A k \in Key :
        /\ money[k] # "payer" => book[k] # "none"
        /\ money[k] = "taken" => book[k] \in {"pending", "settled"}
=============================================================================
