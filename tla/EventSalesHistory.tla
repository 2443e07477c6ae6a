------------------------- MODULE EventSalesHistory -------------------------
(***************************************************************************)
(* Ticket sales with a memory of lost updates.                             *)
(*                                                                         *)
(* Two history variables observe the steps of EventSales and restrict      *)
(* none: which sessions hold a document that somebody else has saved since *)
(* they loaded it, and whether one of those has written it back.  RavenDB  *)
(* would refuse that save if IoCConfiguration asked for optimistic         *)
(* concurrency.  The properties say what sales promise until it happens,   *)
(* however requests overlap, PayPal's answers get lost and workers die.    *)
(***************************************************************************)
EXTENDS EventSalesLedger

VARIABLES
    stale,      \* sessions whose document has changed in the store under their hands
    lost        \* whether such a session has saved: an update was undone

varsH == <<vars, stale, lost>>

\* This step is a save of session r's that changes the stored document.
Writes(r) == store' # store /\ req'[r] # req[r]

InProgress(r) == req[r] # NoSession

Observe ==
    /\ lost' = (lost \/ \E r \in stale : Writes(r))
    /\ stale' = {r \in Request :
                    /\ InProgress(r) /\ InProgress(r)'
                    /\ r \in stale \/ store' # store
                    /\ ~Writes(r)}

InitH == Init /\ stale = {} /\ lost = FALSE

NextH == Next /\ Observe

SpecH == InitH /\ [][NextH]_varsH

\* Until an update is lost a payer who was sent to PayPal has a pledge in the document,
\* whatever requests overlap: MakePledgeAction's save is the only one it takes.
KeptUntilLost == lost \/ AcceptedPledgesKept

\* Until an update is lost captured money lies on a pledge CancelEventAction will refund,
\* though a session with an old copy still calls PayPal and a refund and a capture of
\* one pledge may be under way at once.
RefundableUntilLost == lost \/ CapturedMoneyIsRefundable

\* Until an update is lost no refunded pledge is revived: a late confirmation or capture
\* has a copy from before the refund.
RefundFinalUntilLost == [][lost' \/ RefundsKept]_varsH

\* Until an update is lost a cancellation or deletion that gets through leaves no captured
\* money at PayPal, though it only looks at its copy and others capture meanwhile; money
\* a payer approved and nobody captured may be left.
CancelReturnsCaptured ==
    [][SavedAs("Cancelled", {"cancel", "delete"}) =>
          lost' \/ \A k \in PayKey : payments'[k] # "executed"]_varsH

LateLedger ==
    INSTANCE PledgeLedger WITH
        Key <- PayKey, Late <- {"returned"}, book <- Book, money <- Money

\* Until an update is lost document and payments move as the ledger allows, if a refund
\* of the same pledge may have come between PayPal's answer and the save.
LedgerUntilLost == [][lost' \/ [LateLedger!Next]_(LateLedger!ledger)]_varsH
=============================================================================
