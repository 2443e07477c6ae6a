-------------------------- MODULE EventSalesLedger --------------------------
(***************************************************************************)
(* The event document and PayPal's payments, seen as a PledgeLedger.       *)
(***************************************************************************)
EXTENDS EventSales

EntryOf(status) ==
    CASE status = "Unpaid"                    -> "pledged"
      [] status = "PaidPendingReconciliation" -> "pending"
      [] status = "Reconciled"                -> "settled"
      [] status = "Refunded"                  -> "refunded"

\* What a document says of key k: MakePledgeAction gives every pledge its own.
Entry(doc, k) ==
    IF \E i \in DOMAIN doc.pledges : doc.pledges[i].key = k
    THEN LET i == CHOOSE j \in DOMAIN doc.pledges : doc.pledges[j].key = k
         IN  EntryOf(doc.pledges[i].status)
    ELSE "none"

Book == [k \in PayKey |-> Entry(store, k)]

PlaceOf(payment) ==
    CASE payment \in {"none", "created"} -> "payer"
      [] payment = "approved"            -> "authorised"
      [] payment = "executed"            -> "taken"
      [] payment = "failed"              -> "failed"
      [] payment = "refunded"            -> "returned"

Money == [k \in PayKey |-> PlaceOf(payments[k])]

Ledger ==
    INSTANCE PledgeLedger WITH Key <- PayKey, Late <- {}, book <- Book, money <- Money

\* Every step of the site, PayPal and the payers is a step of the ledger for one
\* payment: MakePledgeAction, ConfirmPledgePaymentAction, RefundPledgeAction and
\* ExecutePaymentAction keep document and payment in line, across the call, the lost
\* answer and the save.
KeepsLedger == Ledger!Spec
=============================================================================
