----------------------------- MODULE EventSales -----------------------------
(***************************************************************************)
(* Ticket sales of one TicketMuffin event.                                 *)
(*                                                                         *)
(* The event and all of its pledges are one RavenDB document.  Every web   *)
(* request opens its own session, loads that document, talks to PayPal and *)
(* writes the WHOLE document back: no optimistic concurrency is configured *)
(* so the last write wins.  A request is modelled by the steps at which    *)
(* another request, the payer or a crash can intervene:                    *)
(*                                                                         *)
(*      Begin  ->  a PayPal call (or a form update)  ->  Save              *)
(*                      ^                                  |               *)
(*                      +-------- Cancel, Activate --------+               *)
(*                                                                         *)
(* PayPal is external: its side of a payment is the variable payments.     *)
(*                                                                         *)
(* Definitions named ...Fault are faulty variants of the definition that   *)
(* follows them, for mutation runs; no action uses them.                   *)
(***************************************************************************)
EXTENDS Integers, FiniteSets, Sequences

CONSTANTS
    Request,        \* slots for web requests that are in progress
    Handlers,       \* the request handlers that receive traffic
    PayKey,         \* keys PayPal issues for payments
    NoKey,          \* TransactionId of a pledge PayPal refused to create
    Attendee,       \* attendee records (EventPledgeAttendee objects)
    Settings,       \* values the forms give to min, max, salesEnd and start
    NewSettings,    \* the settings of a freshly created event
    NoMax,          \* MaximumParticipants = null
    Horizon,        \* bound on the clock
    NoSession       \* a free request slot

Statuses == {"Unpaid", "PaidPendingReconciliation", "Reconciled", "Refunded"}

States == {"Creating", "SalesReady", "Activated", "SalesClosed",
           "Completed", "Cancelled", "Deleted"}

AllHandlers == {"pledge", "confirm", "refund", "execute", "activate", "cancel",
                "delete", "edit", "adminEdit", "tickets", "upload"}

Setting == [min : Nat, max : Nat \cup {NoMax}, salesEnd : Nat, start : Nat]

ASSUME ConstantsAssumption ==
    /\ Handlers \subseteq AllHandlers
    /\ NoKey \notin PayKey
    /\ IsFiniteSet(Attendee)
    /\ NewSettings \in Settings
    /\ Settings \subseteq Setting
    /\ NoMax \notin Nat
    /\ Horizon \in Nat \ {0}

VARIABLES
    store,            \* the event document as RavenDB holds it
    req,              \* the session of each request in progress
    payments,         \* PayPal's side of every payment
    redirected,       \* keys whose payer was sent to PayPal's payment page
    now               \* the clock that sales end and start are compared with

vars == <<store, req, payments, redirected, now>>

(***************************************************************************)
(* The document                                                            *)
(***************************************************************************)
Pledge == [order     : Nat,
           key       : PayKey \cup {NoKey},
           attendees : SUBSET Attendee,
           status    : Statuses,
           paid      : BOOLEAN]

Document == [state : States, settings : Settings, pledges : Seq(Pledge)]

PaymentState == {"none", "created", "approved", "executed", "failed", "refunded"}

Session == [op   : AllHandlers,
            step : {"call", "save", "last"},
            doc  : Document,
            at   : Nat]

Retained == {"PaidPendingReconciliation", "Reconciled"}

Counts(p) == p.paid /\ p.status \in Retained

AttendeesOf(doc) == UNION {doc.pledges[i].attendees : i \in DOMAIN doc.pledges}

AttendeeCount(doc) == Cardinality(AttendeesOf(doc))

PaidIndices(doc) == {i \in DOMAIN doc.pledges : Counts(doc.pledges[i])}

PaidAttendeeCount(doc) ==
    Cardinality(UNION {doc.pledges[i].attendees : i \in PaidIndices(doc)})

IsOn(doc) == PaidAttendeeCount(doc) >= doc.settings.min

IsFull(doc) == /\ doc.settings.max # NoMax
               /\ PaidAttendeeCount(doc) >= doc.settings.max

SpacesLeft(doc) ==
    (IF doc.settings.max = NoMax THEN 0 ELSE doc.settings.max)
        - PaidAttendeeCount(doc)

SalesEnded(doc) == doc.settings.salesEnd < now

ReadyToActivateFault(doc) == doc.state = "SalesReady"

ReadyToActivate(doc) == IsOn(doc) /\ doc.state = "SalesReady"

NextOrderNumberFault(doc) == PaidAttendeeCount(doc) + 1

\* Order numbers are the number of attendees so far plus one.
NextOrderNumber(doc) == AttendeeCount(doc) + 1

\* Pledges.Where(p => p.OrderNumber == n).FirstOrDefault()
FirstByOrder(doc, n) ==
    CHOOSE i \in DOMAIN doc.pledges :
        /\ doc.pledges[i].order = n
        /\ \A j \in DOMAIN doc.pledges : doc.pledges[j].order = n => i <= j

AddPledgeFault(doc, k, names) ==
    [doc EXCEPT !.pledges = Append(SelectSeq(@, Counts), [order     |-> NextOrderNumber(doc),
                                                          key       |-> k,
                                                          attendees |-> names,
                                                          status    |-> "Unpaid",
                                                          paid      |-> FALSE])]

AddPledge(doc, k, names) ==
    [doc EXCEPT !.pledges = Append(@, [order     |-> NextOrderNumber(doc),
                                       key       |-> k,
                                       attendees |-> names,
                                       status    |-> "Unpaid",
                                       paid      |-> FALSE])]

SetStatus(doc, i, s, p) ==
    [doc EXCEPT !.pledges[i].status = s, !.pledges[i].paid = p]

MarkRefundedFault(doc, i) == SetStatus(doc, i, "Refunded", doc.pledges[i].paid)

MarkRefunded(doc, i) == SetStatus(doc, i, "Refunded", FALSE)

MarkReconciled(doc, i) == SetStatus(doc, i, "Reconciled", doc.pledges[i].paid)

(***************************************************************************)
(* PayPal (external): the answers a payment in state s can give.           *)
(***************************************************************************)
DetailsAnswers(s) ==
    CASE s = "created"  -> {"CREATED"}
      [] s = "approved" -> {"INCOMPLETE", "PENDING"}
      [] OTHER          -> {"OTHER"}

\* An answer and the payment's next state.  "lost": PayPal acted, no answer came.
RefundOutcomes(s) ==
    {<<"fault", s>>} \cup
    (IF s \in {"approved", "executed"}
     THEN {<<"success", "refunded">>, <<"lost", "refunded">>, <<"declined", s>>}
     ELSE {<<"success", s>>})

\* "answered" is any response that is not a fault, whatever came of the payment.
ExecuteOutcomes(s) ==
    {<<"fault", s>>} \cup
    (IF s = "approved"
     THEN {<<"answered", "executed">>, <<"answered", "failed">>, <<"lost", "executed">>}
     ELSE {})

(***************************************************************************)
(* Sessions                                                                *)
(***************************************************************************)
Begin(r, h, i) ==
    /\ h \in Handlers
    /\ req[r] = NoSession
    /\ req' = [req EXCEPT ![r] = [op |-> h, step |-> "call", doc |-> store, at |-> i]]
    /\ UNCHANGED <<store, payments, redirected, now>>

InCall(r, ops) ==
    /\ req[r] # NoSession
    /\ req[r].op \in ops
    /\ req[r].step = "call"

\* The handler goes on to step s with document doc, looking at pledge i next.
Continue(r, s, doc, i) ==
    req' = [req EXCEPT ![r] = [@ EXCEPT !.step = s, !.doc = doc, !.at = i]]

End(r) == req' = [req EXCEPT ![r] = NoSession]

\* The pledge an action finds again by the order number of the pledge at hand.
Target(r, i) == FirstByOrder(req[r].doc, req[r].doc.pledges[i].order)

\* PayPal's answer moves the payment of pledge i to state s.
PayPalMoves(doc, i, s) ==
    payments' = [payments EXCEPT ![doc.pledges[i].key] = s]

(***************************************************************************)
(* MakePledgeAction: pledge to attend                                      *)
(***************************************************************************)
BeginPledge(r) ==
    /\ store.state # "Deleted"
    /\ ~IsFull(store)
    /\ ~SalesEnded(store)
    /\ Begin(r, "pledge", 0)

\* The party a pledger names; an event that is on takes no more than fit.
Party(doc) ==
    {names \in SUBSET (Attendee \ AttendeesOf(doc)) :
        /\ names # {}
        /\ IsOn(doc) => Cardinality(names) <= SpacesLeft(doc)}

CreatePayment(r) ==
    /\ InCall(r, {"pledge"})
    /\ \E names \in Party(req[r].doc), k \in PayKey :
        /\ payments[k] = "none"
        /\ payments' = [payments EXCEPT ![k] = "created"]
        /\ Continue(r, "last", AddPledge(req[r].doc, k, names), 0)
    /\ UNCHANGED <<store, redirected, now>>

\* PayPal answers with a fault: the pledge is kept, without a key.
CreatePaymentRefused(r) ==
    /\ InCall(r, {"pledge"})
    /\ \E names \in Party(req[r].doc) :
          Continue(r, "last", AddPledge(req[r].doc, NoKey, names), 0)
    /\ UNCHANGED <<store, payments, redirected, now>>

(***************************************************************************)
(* OrderController.Success and ConfirmPledgePaymentAction                  *)
(***************************************************************************)
BeginConfirmFault(r) ==
    \E i \in DOMAIN store.pledges :
        /\ store.pledges[i].key \in redirected
        /\ ~store.pledges[i].paid
        /\ Begin(r, "confirm", i)

BeginConfirm(r) ==
    \E i \in DOMAIN store.pledges :
        /\ store.pledges[i].key \in redirected
        /\ store.pledges[i].status = "Unpaid"
        /\ ~store.pledges[i].paid
        /\ Begin(r, "confirm", i)

ConfirmedFault(doc, i, answer) ==
    CASE answer = "CREATED"    -> SetStatus(doc, i, "PaidPendingReconciliation", TRUE)
      [] answer = "INCOMPLETE" -> SetStatus(doc, i, "Reconciled", TRUE)
      [] OTHER                 -> doc

Confirmed(doc, i, answer) ==
    CASE answer = "INCOMPLETE" -> SetStatus(doc, i, "PaidPendingReconciliation", TRUE)
      [] answer = "CREATED"    -> SetStatus(doc, i, "Reconciled", TRUE)
      [] OTHER                 -> doc

\* "this pledge has activated the event": mails are sent before the document is saved.
AnnouncesActivation(doc, i) ==
    /\ IsOn(doc)
    /\ PaidAttendeeCount(doc) - Cardinality(doc.pledges[i].attendees) < doc.settings.min

\* Whether the mails go out or sending one throws, the session is saved when the
\* request ends (OnDeactivation in IoCConfiguration).  A payer who has no account gets
\* one first, and inviting them saves the session, event and all ("save").
RetrievePaymentDetails(r) ==
    /\ InCall(r, {"confirm"})
    /\ LET i == req[r].at
           k == req[r].doc.pledges[i].key
       IN  \E answer \in DetailsAnswers(payments[k]), s \in {"save", "last"} :
             Continue(r, s, Confirmed(req[r].doc, i, answer), i)
    /\ UNCHANGED <<store, payments, redirected, now>>

(***************************************************************************)
(* RefundPledgeAction, alone and inside CancelEventAction                  *)
(***************************************************************************)
\* A pledge without a key makes the gateway throw before PayPal is asked.
BeginRefund(r) ==
    \E i \in DOMAIN store.pledges :
        /\ store.pledges[i].key # NoKey
        /\ Begin(r, "refund", i)

RefundPledge(r) ==
    /\ InCall(r, {"refund"})
    /\ LET doc == req[r].doc
           i   == Target(r, req[r].at)
       IN  \E out \in RefundOutcomes(payments[doc.pledges[i].key]) :
             /\ PayPalMoves(doc, i, out[2])
             /\ CASE out[1] = "success" -> Continue(r, "last", MarkRefunded(doc, i), i)
                  [] out[1] = "lost"    -> End(r)
                  [] OTHER              -> Continue(r, "last", doc, i)
    /\ UNCHANGED <<store, redirected, now>>

RetainedIndices(doc) ==
    {i \in DOMAIN doc.pledges : doc.pledges[i].status \in Retained}

RetainedFromFault(doc, n) ==
    {i \in RetainedIndices(doc) :
        i >= n /\ doc.pledges[i].status = "PaidPendingReconciliation"}

\* What a loop over the pledges still has before it at position n.
RetainedFrom(doc, n) == {i \in RetainedIndices(doc) : i >= n}

MayCancel(doc) == doc.state \notin {"Cancelled", "Completed"}

BeginCancel(r) ==
    /\ MayCancel(store)
    /\ store.state # "Deleted"
    /\ Begin(r, "cancel", 1)

BeginDelete(r) == Begin(r, "delete", 1)

\* One turn of CancelEventAction's loop: any failure ends it.
CancelRefund(r) ==
    /\ InCall(r, {"cancel", "delete"})
    /\ MayCancel(req[r].doc)
    /\ LET doc == req[r].doc
       IN  \E n \in RetainedFrom(doc, req[r].at) :
             /\ \A j \in RetainedFrom(doc, req[r].at) : n <= j
             /\ LET i == Target(r, n)
                IN  \E out \in RefundOutcomes(payments[doc.pledges[i].key]) :
                      /\ PayPalMoves(doc, i, out[2])
                      /\ CASE out[1] = "success" ->
                                  Continue(r, "save", MarkRefunded(doc, i), n + 1)
                           [] out[1] = "lost"    -> End(r)
                           [] OTHER              -> Continue(r, "last", doc, n)
    /\ UNCHANGED <<store, redirected, now>>

\* No refund failed; DeleteEvent goes on after the save.
CancelDone(r) ==
    /\ InCall(r, {"cancel", "delete"})
    /\ MayCancel(req[r].doc)
    /\ RetainedFrom(req[r].doc, req[r].at) = {}
    /\ Continue(r, IF req[r].op = "cancel" THEN "last" ELSE "save",
                [req[r].doc EXCEPT !.state = "Cancelled"], req[r].at)
    /\ UNCHANGED <<store, payments, redirected, now>>

\* The event was cancelled just now, or could not be cancelled any more.
MarkDeleted(r) ==
    /\ InCall(r, {"delete"})
    /\ ~MayCancel(req[r].doc)
    /\ Continue(r, "last", [req[r].doc EXCEPT !.state = "Deleted"], 0)
    /\ UNCHANGED <<store, payments, redirected, now>>

(***************************************************************************)
(* ExecutePaymentAction, alone and inside ActivateEventAction              *)
(***************************************************************************)
BeginExecuteFault(r) ==
    \E i \in DOMAIN store.pledges :
        /\ store.pledges[i].key # NoKey
        /\ Begin(r, "execute", i)

BeginExecute(r) ==
    \E i \in DOMAIN store.pledges :
        /\ store.pledges[i].status = "PaidPendingReconciliation"
        /\ Begin(r, "execute", i)

\* Any answer that is not a fault counts as executed; a failure ends the request.
ExecutePayment(r) ==
    /\ InCall(r, {"execute"})
    /\ LET doc == req[r].doc
           i   == Target(r, req[r].at)
       IN  \E out \in ExecuteOutcomes(payments[doc.pledges[i].key]) :
             /\ PayPalMoves(doc, i, out[2])
             /\ IF out[1] = "answered"
                THEN Continue(r, "last", MarkReconciled(doc, i), i)
                ELSE End(r)
    /\ UNCHANGED <<store, redirected, now>>

PendingFrom(doc, n) ==
    {i \in DOMAIN doc.pledges :
        i >= n /\ doc.pledges[i].status = "PaidPendingReconciliation"}

BeginActivate(r) == ReadyToActivate(store) /\ Begin(r, "activate", 1)

\* One turn of ActivateEventAction's loop: a failure is noted and passed over.
ActivateExecute(r) ==
    /\ InCall(r, {"activate"})
    /\ LET doc == req[r].doc
       IN  \E n \in PendingFrom(doc, req[r].at) :
             /\ \A j \in PendingFrom(doc, req[r].at) : n <= j
             /\ LET i == Target(r, n)
                IN  \E out \in ExecuteOutcomes(payments[doc.pledges[i].key]) :
                      /\ PayPalMoves(doc, i, out[2])
                      /\ IF out[1] = "answered"
                         THEN Continue(r, "save", MarkReconciled(doc, i), n + 1)
                         ELSE Continue(r, "call", doc, n + 1)
    /\ UNCHANGED <<store, redirected, now>>

ActivateDone(r) ==
    /\ InCall(r, {"activate"})
    /\ PendingFrom(req[r].doc, req[r].at) = {}
    /\ Continue(r, "last", [req[r].doc EXCEPT !.state = "Activated"], 0)
    /\ UNCHANGED <<store, payments, redirected, now>>

(***************************************************************************)
(* Form handlers that rewrite the document                                 *)
(***************************************************************************)
\* Handlers that load the event by short url do not see a deleted one.
BeginForm(r) ==
    \E h \in {"edit", "adminEdit", "tickets", "upload"} :
        /\ h \in {"tickets", "upload"} => store.state # "Deleted"
        /\ Begin(r, h, 0)

StateAfterEdit(s) ==
    IF s.salesEnd > now THEN "SalesReady"
    ELSE IF s.start > now THEN "SalesClosed" ELSE "Completed"

EditedFault(doc, s) ==
    [state |-> StateAfterEdit(s), settings |-> s, pledges |-> <<>>]

\* EventController.Edit: the state follows the dates, whatever it was.
Edited(doc, s) == [doc EXCEPT !.settings = s, !.state = StateAfterEdit(s)]

EditEvent(r) ==
    /\ InCall(r, {"edit"})
    /\ \E s \in Settings : Continue(r, "last", Edited(req[r].doc, s), 0)
    /\ UNCHANGED <<store, payments, redirected, now>>

\* The administrator's form offers every state in a list.
EditEventDetails(r) ==
    /\ InCall(r, {"adminEdit"})
    /\ \E s \in Settings, st \in States :
          Continue(r, "last", [req[r].doc EXCEPT !.settings = s, !.state = st], 0)
    /\ UNCHANGED <<store, payments, redirected, now>>

\* The start date is not on the ticket form.
SetTicketDetails(r) ==
    /\ InCall(r, {"tickets"})
    /\ \E s \in Settings :
          /\ s.min >= 1
          /\ s.max # NoMax
          /\ s.max >= s.min
          /\ s.salesEnd >= now
          /\ s.start = req[r].doc.settings.start
          /\ Continue(r, "last",
                      [req[r].doc EXCEPT !.settings = s, !.state = "SalesReady"], 0)
    /\ UNCHANGED <<store, payments, redirected, now>>

UploadEventImage(r) ==
    /\ InCall(r, {"upload"})
    /\ Continue(r, "last", req[r].doc, 0)
    /\ UNCHANGED <<store, payments, redirected, now>>

(***************************************************************************)
(* SaveChanges, crashes, the payer and the clock                           *)
(***************************************************************************)
PledgedKeyFault(s) ==
    IF s.op = "pledge" THEN {s.doc.pledges[Len(s.doc.pledges)].key} ELSE {}

\* The key of the pledge MakePledgeAction just added, if PayPal gave one.
PledgedKey(s) ==
    IF s.op = "pledge" THEN {s.doc.pledges[Len(s.doc.pledges)].key} \ {NoKey} ELSE {}

\* The whole document is written; the payer of a new pledge goes to PayPal.
SaveChanges(r) ==
    /\ req[r] # NoSession
    /\ req[r].step \in {"save", "last"}
    /\ store' = req[r].doc
    /\ redirected' = redirected \cup PledgedKey(req[r])
    /\ IF req[r].step = "last"
       THEN End(r)
       ELSE Continue(r, IF req[r].op = "confirm" THEN "last" ELSE "call",
                     req[r].doc, req[r].at)
    /\ UNCHANGED <<payments, now>>

\* The worker process is recycled, or the handler throws before it changed anything.
Abort(r) ==
    /\ req[r] # NoSession
    /\ End(r)
    /\ UNCHANGED <<store, payments, redirected, now>>

\* The payer approves the payment on PayPal's page.
Approve(k) ==
    /\ k \in redirected
    /\ payments[k] = "created"
    /\ payments' = [payments EXCEPT ![k] = "approved"]
    /\ UNCHANGED <<store, req, redirected, now>>

Tick ==
    /\ now < Horizon
    /\ now' = now + 1
    /\ UNCHANGED <<store, req, payments, redirected>>

Init ==
    /\ store = [state |-> "Creating", settings |-> NewSettings, pledges |-> <<>>]
    /\ req = [r \in Request |-> NoSession]
    /\ payments = [k \in PayKey |-> "none"]
    /\ redirected = {}
    /\ now = 1

Start(r) ==
    \/ BeginPledge(r) \/ BeginConfirm(r) \/ BeginRefund(r) \/ BeginExecute(r)
    \/ BeginActivate(r) \/ BeginCancel(r) \/ BeginDelete(r) \/ BeginForm(r)

Work(r) ==
    \/ CreatePayment(r) \/ CreatePaymentRefused(r) \/ RetrievePaymentDetails(r)
    \/ RefundPledge(r) \/ CancelRefund(r) \/ CancelDone(r) \/ MarkDeleted(r)
    \/ ExecutePayment(r) \/ ActivateExecute(r) \/ ActivateDone(r)
    \/ EditEvent(r) \/ EditEventDetails(r) \/ SetTicketDetails(r)
    \/ UploadEventImage(r) \/ SaveChanges(r)

Next ==
    \/ \E r \in Request : Start(r) \/ Work(r) \/ Abort(r)
    \/ \E k \in PayKey : Approve(k)
    \/ Tick

Spec == Init /\ [][Next]_vars

(***************************************************************************)
(* Fairness: a request that was started goes on (ASP.NET runs it); nobody  *)
(* has to start one, PayPal's payer may stay away and a worker may crash.  *)
(***************************************************************************)
FairSpec == Spec /\ (\A r \in Request : WF_vars(Work(r))) /\ WF_vars(Tick)

(***************************************************************************)
(* What holds whatever requests overlap                                    *)
(***************************************************************************)
\* Every variable holds a value of its kind; a session's pledge exists.
TypeOK ==
    /\ store \in Document
    /\ req \in [Request -> Session \cup {NoSession}]
    /\ payments \in [PayKey -> PaymentState]
    /\ redirected \subseteq PayKey
    /\ now \in 1..Horizon

\* Two pledges of an event never carry the same order number: pledges are found
\* by it (Where(p => p.OrderNumber == n)) for refunds, captures and tickets, and it
\* is computed from a count that lost updates can set back (OrderNumberGenerator).
OrderNumbersUnique ==
    \A i, j \in DOMAIN store.pledges :
        store.pledges[i].order = store.pledges[j].order => i = j

\* A pledge waiting to be captured was approved by its payer at PayPal, even when
\* the document it stands in is an old copy written over a newer one.
PendingIsApproved ==
    \A i \in DOMAIN store.pledges :
        store.pledges[i].status = "PaidPendingReconciliation" =>
            /\ store.pledges[i].key \in PayKey
            /\ payments[store.pledges[i].key] \in {"approved", "executed", "failed", "refunded"}

\* Paid and PaymentStatus agree: PaidAttendeeCount asks for both, CancelEventAction
\* looks at the status alone, OrderController.Success at Paid first.
PaidMatchesStatus ==
    \A i \in DOMAIN store.pledges :
        store.pledges[i].paid <=> store.pledges[i].status \in Retained

(***************************************************************************)
(* What holds when requests do not overlap (one request slot), whatever    *)
(* crashes and lost answers happen inside a request                        *)
(***************************************************************************)
\* A payer who was sent to PayPal has a pledge in the document: the pledge is
\* accepted (MakePledgeAction.Attempt) and stays, so OrderController.Success finds it.
AcceptedPledgesKept ==
    \A k \in redirected : \E i \in DOMAIN store.pledges : store.pledges[i].key = k

\* Captured money always lies on a pledge CancelEventAction will refund, also when
\* PayPal's answer to the capture was lost or the worker died before saving it.
CapturedMoneyIsRefundable ==
    \A k \in PayKey : payments[k] = "executed" =>
        \E i \in DOMAIN store.pledges :
            store.pledges[i].key = k /\ store.pledges[i].status \in Retained

RefundsKept ==
    \A i \in DOMAIN store.pledges : store.pledges[i].status = "Refunded" =>
        /\ i \in DOMAIN store'.pledges
        /\ store'.pledges[i].status = "Refunded"

\* A refunded pledge is never revived: not by a late confirmation, not by a capture.
RefundIsFinal == [][RefundsKept]_vars

\* The document is saved by a request of one of the handlers hs, into state st.
SavedAs(st, hs) ==
    /\ store'.state = st /\ store.state # st
    /\ \E r \in Request : req[r] # NoSession /\ req[r].op \in hs /\ req[r] # req'[r]

\* When an event is cancelled no pledge keeps a payment: CancelEventAction refunds one
\* pledge after the other and may stop, be retried, or lose an answer half way.
CancelLeavesNothingRetained ==
    [][SavedAs("Cancelled", {"cancel", "delete"}) => RetainedIndices(store') = {}]_vars

\* An event is activated only while enough paid attendees are on it: captures of
\* ActivateEventAction that fail half way do not take them off again.
ActivatedIsOn ==
    [][SavedAs("Activated", {"activate"}) => IsOn(store')]_vars

(***************************************************************************)
(* What documents and comments of the repository say, and the code does not *)
(***************************************************************************)
\* Pledging.feature, "an event which doesn't have enough spaces left": a pledge for
\* more attendees than there are spaces is not accepted.
AcceptedPledgesFit ==
    [][Len(store'.pledges) > Len(store.pledges) =>
        Cardinality(store'.pledges[Len(store'.pledges)].attendees) <= SpacesLeft(store)]_vars

\* OrderController.Success, "this pledge has activated the event": EventActivated
\* mails are sent for a pledge whose confirmation counted it as paid.
AnnouncedPledgeIsPaid ==
    [][\A r \in Request :
          ( /\ InCall(r, {"confirm"})
            /\ req'[r] # NoSession
            /\ AnnouncesActivation(req'[r].doc, req'[r].at))
          => Counts(req'[r].doc.pledges[req'[r].at])]_vars

\* ExecutePaymentAction, "if successful mark the pledge as fully paid": a pledge that
\* was pending becomes Reconciled only if PayPal executed its payment.
ReconciledWasExecuted ==
    [][\A i \in DOMAIN store.pledges :
          (/\ i \in DOMAIN store'.pledges
           /\ store.pledges[i].status = "PaidPendingReconciliation"
           /\ store'.pledges[i].status = "Reconciled")
          => payments[store.pledges[i].key] = "executed"]_vars

\* cancel-event.cshtml, "Refunds will be sent to each person who purchased tickets":
\* a cancelled event keeps no money, of payers who have not come back from PayPal either.
CancelReturnsPayments ==
    [][SavedAs("Cancelled", {"cancel", "delete"}) =>
        \A k \in PayKey : payments'[k] \notin {"approved", "executed"}]_vars

\* Pledge.cshtml, "The money will be refunded if the minimum amount of participants is
\* not reached before" the end of sales: a paid pledge of such an event is refunded.
UnderfilledIsRefunded ==
    (SalesEnded(store) /\ ~IsOn(store) /\ RetainedIndices(store) # {})
        ~> (IsOn(store) \/ ~SalesEnded(store) \/ RetainedIndices(store) = {})
=============================================================================
