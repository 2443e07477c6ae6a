----------------------- MODULE EventSalesLoops_proofs -----------------------
(***************************************************************************)
(* The two loops of calls to PayPal, CancelEventAction and                 *)
(* ActivateEventAction, whatever other requests do in between.             *)
(*                                                                         *)
(* A loop works on its own copy of the event and that copy is what it      *)
(* saves, so what it promises of the saved document is a fact about the    *)
(* session alone (Loop).                                                   *)
(***************************************************************************)
EXTENDS EventSales_proofs

\* While a loop cancels, the pledges it passed keep no payment; an event that is
\* being activated is on.
Loop(s) ==
    /\ s.op = "activate" => IsOn(s.doc)
    /\ s.op \in {"cancel", "delete"} =>
          /\ MayCancel(s.doc) => \A i \in RetainedIndices(s.doc) : i >= s.at
          /\ s.step # "call" /\ s.doc.state = "Cancelled" => RetainedIndices(s.doc) = {}

LoopInv == \A r \in Request : req[r] # NoSession => Loop(req[r])

\* Only the session of one request changes.
LEMMA OneSessionLoop ==
    ASSUME IInv, LoopInv, NEW r \in Request, NEW new,
           req' = [req EXCEPT ![r] = new],
           new # NoSession => Loop(new)
    PROVE  LoopInv'
<1>1. req \in [Request -> Session \cup {NoSession}]
  BY DEF IInv
<1>2. \A q \in Request : req'[q] # NoSession => Loop(req'[q])
  BY <1>1 DEF LoopInv
<1>3. QED
  BY <1>2 DEF LoopInv

\* What a session becomes when its handler goes on.
LEMMA ContinueLoop ==
    ASSUME IInv, LoopInv, NEW r \in Request, req[r] # NoSession,
           NEW s, NEW doc, NEW i, Continue(r, s, doc, i),
           req[r].op = "activate" => IsOn(doc),
           req[r].op \in {"cancel", "delete"} =>
              /\ MayCancel(doc) => \A j \in RetainedIndices(doc) : j >= i
              /\ s # "call" /\ doc.state = "Cancelled" => RetainedIndices(doc) = {}
    PROVE  LoopInv'
<1> DEFINE new == [req[r] EXCEPT !.step = s, !.doc = doc, !.at = i]
<1>1. req[r] \in Session
  BY DEF IInv
<1>2. new.op = req[r].op /\ new.step = s /\ new.doc = doc /\ new.at = i
  BY <1>1 DEF Session
<1>3. req' = [req EXCEPT ![r] = new]
  BY DEF Continue
<1> HIDE DEF new
<1>4. Loop(new)
  BY <1>2 DEF Loop
<1>5. QED
  BY <1>3, <1>4, OneSessionLoop

\* A session that ends promises nothing more.
LEMMA EndLoop ==
    ASSUME IInv, LoopInv, NEW r \in Request, End(r)
    PROVE  LoopInv'
BY OneSessionLoop DEF End

\* A handler with no loop does not matter to LoopInv.
LEMMA OtherLoop ==
    ASSUME IInv, LoopInv, NEW r \in Request, req[r] # NoSession,
           req[r].op \notin {"activate", "cancel", "delete"},
           NEW s, NEW doc, NEW i, Continue(r, s, doc, i)
    PROVE  LoopInv'
BY ContinueLoop

\* A loop begins before the first pledge, an activation with an event that is on.
LEMMA BeginLoop ==
    ASSUME IInv, LoopInv, NEW r \in Request, NEW h, NEW i, Begin(r, h, i),
           h = "activate" => IsOn(store),
           h \in {"cancel", "delete"} => i = 1
    PROVE  LoopInv'
<1> DEFINE new == [op |-> h, step |-> "call", doc |-> store, at |-> i]
<1>1. req' = [req EXCEPT ![r] = new]
  BY DEF Begin
<1>2. DOMAIN store.pledges = 1..Len(store.pledges) /\ Len(store.pledges) \in Nat
  BY DocumentParts DEF IInv, Good
<1>3. \A j \in RetainedIndices(store) : j >= 1
  BY <1>2 DEF RetainedIndices
<1>4. Loop(new)
  BY <1>3 DEF Loop
<1> HIDE DEF new
<1>5. QED
  BY <1>1, <1>4, OneSessionLoop

LEMMA StartLoop ==
    ASSUME IInv, LoopInv, NEW r \in Request, Start(r)
    PROVE  LoopInv'
<1>1. CASE BeginPledge(r)
  BY <1>1, BeginLoop DEF BeginPledge
<1>2. CASE BeginConfirm(r)
  BY <1>2, BeginLoop DEF BeginConfirm
<1>3. CASE BeginRefund(r)
  BY <1>3, BeginLoop DEF BeginRefund
<1>4. CASE BeginExecute(r)
  BY <1>4, BeginLoop DEF BeginExecute
<1>5. CASE BeginActivate(r)
  BY <1>5, BeginLoop DEF BeginActivate, ReadyToActivate
<1>6. CASE BeginCancel(r)
  BY <1>6, BeginLoop DEF BeginCancel
<1>7. CASE BeginDelete(r)
  BY <1>7, BeginLoop DEF BeginDelete
<1>8. CASE BeginForm(r)
  <2>1. PICK h \in {"edit", "adminEdit", "tickets", "upload"} : Begin(r, h, 0)
    BY <1>8 DEF BeginForm
  <2>2. QED
    BY <2>1, BeginLoop
<1>9. QED
  BY <1>1, <1>2, <1>3, <1>4, <1>5, <1>6, <1>7, <1>8 DEF Start

(***************************************************************************)
(* What the loops do to their copy of the event                            *)
(***************************************************************************)
\* Changing status and paid of one pledge leaves everything else as it was.
LEMMA SetStatusParts ==
    ASSUME NEW doc \in Document, NEW i \in DOMAIN doc.pledges,
           NEW s \in Statuses, NEW p \in BOOLEAN
    PROVE  LET new == SetStatus(doc, i, s, p)
           IN  /\ new.state = doc.state
               /\ new.settings = doc.settings
               /\ DOMAIN new.pledges = DOMAIN doc.pledges
               /\ \A j \in DOMAIN doc.pledges : j # i => new.pledges[j] = doc.pledges[j]
               /\ new.pledges[i].key = doc.pledges[i].key
               /\ new.pledges[i].attendees = doc.pledges[i].attendees
               /\ new.pledges[i].status = s
               /\ new.pledges[i].paid = p
<1> DEFINE new == SetStatus(doc, i, s, p)
           pledge == [doc.pledges[i] EXCEPT !.status = s, !.paid = p]
<1>1. /\ pledge.key = doc.pledges[i].key
      /\ pledge.attendees = doc.pledges[i].attendees
      /\ pledge.status = s
      /\ pledge.paid = p
  BY DocumentParts DEF Pledge
<1>2. new = [doc EXCEPT !.pledges = [doc.pledges EXCEPT ![i] = pledge]]
  BY DEF SetStatus
<1> HIDE DEF pledge
<1>3. /\ new.state = doc.state
      /\ new.settings = doc.settings
      /\ new.pledges = [doc.pledges EXCEPT ![i] = pledge]
  BY <1>2 DEF Document
<1>4. QED
  BY <1>1, <1>3

\* A refund takes exactly its own pledge from those that keep a payment.
LEMMA RefundTakesOne ==
    ASSUME NEW doc \in Document, NEW i \in DOMAIN doc.pledges
    PROVE  /\ MarkRefunded(doc, i).state = doc.state
           /\ RetainedIndices(MarkRefunded(doc, i)) = RetainedIndices(doc) \ {i}
<1>1. "Refunded" \in Statuses /\ "Refunded" \notin Retained /\ FALSE \in BOOLEAN
  BY DEF Statuses, Retained
<1> DEFINE new == MarkRefunded(doc, i)
<1>2. /\ new.state = doc.state
      /\ DOMAIN new.pledges = DOMAIN doc.pledges
      /\ \A j \in DOMAIN doc.pledges : j # i => new.pledges[j] = doc.pledges[j]
      /\ new.pledges[i].status = "Refunded"
  <2>1. \A s \in Statuses, p \in BOOLEAN :
           LET next == SetStatus(doc, i, s, p)
           IN  /\ next.state = doc.state
               /\ DOMAIN next.pledges = DOMAIN doc.pledges
               /\ \A j \in DOMAIN doc.pledges : j # i => next.pledges[j] = doc.pledges[j]
               /\ next.pledges[i].status = s
    BY SetStatusParts
  <2>2. QED
    BY <1>1, <2>1 DEF MarkRefunded
<1> HIDE DEF new
<1>3. RetainedIndices(new) = RetainedIndices(doc) \ {i}
  BY <1>1, <1>2 DEF RetainedIndices
<1>4. QED
  BY <1>2, <1>3 DEF new

\* A capture leaves the paid attendees, and so whether the event is on, as they were.
LEMMA CaptureKeepsOn ==
    ASSUME NEW doc, NEW pay, Good(doc, pay), NEW i \in DOMAIN doc.pledges,
           doc.pledges[i].status = "PaidPendingReconciliation", IsOn(doc)
    PROVE  IsOn(MarkReconciled(doc, i))
<1> DEFINE new == MarkReconciled(doc, i)
<1>1. doc \in Document /\ doc.pledges[i].paid \in BOOLEAN
  BY DocumentParts DEF Good
<1>2. "Reconciled" \in Statuses /\ "Reconciled" \in Retained
      /\ "PaidPendingReconciliation" \in Retained
  BY DEF Statuses, Retained
<1>3. /\ new.settings = doc.settings
      /\ DOMAIN new.pledges = DOMAIN doc.pledges
      /\ \A j \in DOMAIN doc.pledges : j # i => new.pledges[j] = doc.pledges[j]
      /\ new.pledges[i].attendees = doc.pledges[i].attendees
      /\ new.pledges[i].status = "Reconciled"
      /\ new.pledges[i].paid = doc.pledges[i].paid
  BY <1>1, <1>2, SetStatusParts DEF MarkReconciled
<1> HIDE DEF new
<1>4. PaidIndices(new) = PaidIndices(doc)
  BY <1>2, <1>3 DEF PaidIndices, Counts
<1>5. \A j \in PaidIndices(doc) : new.pledges[j].attendees = doc.pledges[j].attendees
  BY <1>3 DEF PaidIndices
<1>6. UNION {new.pledges[j].attendees : j \in PaidIndices(new)}
          = UNION {doc.pledges[j].attendees : j \in PaidIndices(doc)}
  BY <1>4, <1>5
<1>7. PaidAttendeeCount(new) = PaidAttendeeCount(doc)
  BY <1>6 DEF PaidAttendeeCount
<1>8. QED
  BY <1>3, <1>7 DEF IsOn, new

\* The settings and pledges decide whether an event is on, the state does not.
LEMMA StateKeepsOn ==
    ASSUME NEW doc \in Document, NEW st \in States
    PROVE  LET new == [doc EXCEPT !.state = st]
           IN  /\ new.state = st
               /\ IsOn(new) <=> IsOn(doc)
               /\ RetainedIndices(new) = RetainedIndices(doc)
<1> DEFINE new == [doc EXCEPT !.state = st]
<1>1. new.state = st /\ new.pledges = doc.pledges /\ new.settings = doc.settings
  BY DEF Document
<1> HIDE DEF new
<1>2. IsOn(new) <=> IsOn(doc)
  BY <1>1 DEF IsOn, PaidAttendeeCount, PaidIndices
<1>3. RetainedIndices(new) = RetainedIndices(doc)
  BY <1>1 DEF RetainedIndices
<1>4. QED
  BY <1>1, <1>2, <1>3 DEF new

(***************************************************************************)
(* The actions of the loops                                                *)
(***************************************************************************)
\* One turn of cancelling passes the first pledge that keeps a payment.
LEMMA CancelRefundLoop ==
    ASSUME IInv, LoopInv, NEW r \in Request, CancelRefund(r)
    PROVE  LoopInv'
<1> DEFINE doc == req[r].doc
           at == req[r].at
<1>1. InCall(r, {"cancel", "delete"})
  BY DEF CancelRefund
<1>2. /\ req[r] # NoSession /\ req[r].op \in {"cancel", "delete"}
      /\ Good(doc, payments) /\ doc \in Document /\ MayCancel(doc) /\ at \in Nat
  BY <1>1, InCallGood DEF CancelRefund, Good
<1>3. \A j \in RetainedIndices(doc) : j >= at
  BY <1>2 DEF LoopInv, Loop
<1>4. DOMAIN doc.pledges \subseteq Nat
  BY <1>2, DocumentParts
<1>5. PICK n \in RetainedFrom(doc, at) :
         /\ \A j \in RetainedFrom(doc, at) : n <= j
         /\ \E out \in RefundOutcomes(payments[doc.pledges[Target(r, n)].key]) :
               CASE out[1] = "success" ->
                        Continue(r, "save", MarkRefunded(doc, Target(r, n)), n + 1)
                 [] out[1] = "lost"    -> End(r)
                 [] OTHER              -> Continue(r, "last", doc, n)
  BY DEF CancelRefund
<1>6. n \in DOMAIN doc.pledges /\ n \in Nat
  BY <1>4, <1>5 DEF RetainedFrom, RetainedIndices
<1>7. Target(r, n) = n
  BY <1>2, <1>6, FoundAgain DEF Target
<1>8. \A j \in RetainedIndices(doc) : n <= j
  BY <1>3, <1>5 DEF RetainedFrom
<1>9. CASE Continue(r, "save", MarkRefunded(doc, n), n + 1)
  <2>1. /\ MarkRefunded(doc, n).state = doc.state
        /\ RetainedIndices(MarkRefunded(doc, n)) = RetainedIndices(doc) \ {n}
    BY <1>2, <1>6, RefundTakesOne
  <2>2. \A j \in RetainedIndices(MarkRefunded(doc, n)) : j >= n + 1
    BY <1>4, <1>6, <1>8, <2>1 DEF RetainedIndices
  <2>3. MarkRefunded(doc, n).state # "Cancelled"
    BY <1>2, <2>1 DEF MayCancel
  <2> HIDE DEF doc, at
  <2>4. QED
    BY <1>2, <1>9, <2>2, <2>3, ContinueLoop
<1>10. CASE End(r)
  BY <1>10, EndLoop
<1>11. CASE Continue(r, "last", doc, n)
  <2>1. doc.state # "Cancelled"
    BY <1>2 DEF MayCancel
  <2>2. \A j \in RetainedIndices(doc) : j >= n
    BY <1>4, <1>6, <1>8 DEF RetainedIndices
  <2> HIDE DEF doc, at
  <2>3. QED
    BY <1>2, <1>11, <2>1, <2>2, ContinueLoop
<1>12. QED
  BY <1>5, <1>7, <1>9, <1>10, <1>11

\* The loop is through: every pledge that kept a payment has been refunded.
LEMMA CancelDoneLoop ==
    ASSUME IInv, LoopInv, NEW r \in Request, CancelDone(r)
    PROVE  LoopInv'
<1> DEFINE doc == req[r].doc
           new == [doc EXCEPT !.state = "Cancelled"]
<1>1. InCall(r, {"cancel", "delete"})
  BY DEF CancelDone
<1>2. /\ req[r] # NoSession /\ req[r].op \in {"cancel", "delete"}
      /\ doc \in Document /\ MayCancel(doc)
  BY <1>1, InCallGood DEF CancelDone, Good
<1>3. RetainedIndices(doc) = {}
  <2>1. \A j \in RetainedIndices(doc) : j >= req[r].at
    BY <1>2 DEF LoopInv, Loop
  <2>2. RetainedFrom(doc, req[r].at) = {}
    BY DEF CancelDone
  <2>3. QED
    BY <2>1, <2>2 DEF RetainedFrom
<1>4. RetainedIndices(new) = {}
  BY <1>2, <1>3, StateKeepsOn DEF States
<1>5. PICK s \in {"last", "save"} : Continue(r, s, new, req[r].at)
  BY DEF CancelDone
<1> HIDE DEF doc, new
<1>6. QED
  BY <1>2, <1>4, <1>5, ContinueLoop

\* A deleted event is not a cancelled one.
LEMMA MarkDeletedLoop ==
    ASSUME IInv, LoopInv, NEW r \in Request, MarkDeleted(r)
    PROVE  LoopInv'
<1> DEFINE doc == req[r].doc
           new == [doc EXCEPT !.state = "Deleted"]
<1>1. InCall(r, {"delete"})
  BY DEF MarkDeleted
<1>2. req[r] # NoSession /\ req[r].op = "delete" /\ doc \in Document
  BY <1>1, InCallGood DEF Good
<1>3. new.state = "Deleted"
  BY <1>2 DEF Document
<1>4. \A j \in RetainedIndices(new) : j >= 0
  <2>1. new.pledges = doc.pledges
    BY <1>2 DEF Document
  <2>2. DOMAIN new.pledges \subseteq Nat
    BY <1>2, <2>1, DocumentParts
  <2> HIDE DEF new
  <2>3. QED
    BY <2>2 DEF RetainedIndices
<1>5. Continue(r, "last", new, 0)
  BY DEF MarkDeleted
<1> HIDE DEF doc, new
<1>6. QED
  BY <1>2, <1>3, <1>4, <1>5, ContinueLoop

\* One turn of activating captures a pledge that already counted as paid.
LEMMA ActivateExecuteLoop ==
    ASSUME IInv, LoopInv, NEW r \in Request, ActivateExecute(r)
    PROVE  LoopInv'
<1> DEFINE doc == req[r].doc
           at == req[r].at
<1>1. InCall(r, {"activate"})
  BY DEF ActivateExecute
<1>2. /\ req[r] # NoSession /\ req[r].op = "activate"
      /\ Good(doc, payments) /\ doc \in Document
  BY <1>1, InCallGood DEF Good
<1>3. IsOn(doc)
  BY <1>2 DEF LoopInv, Loop
<1>4. PICK n \in PendingFrom(doc, at) :
         \E out \in ExecuteOutcomes(payments[doc.pledges[Target(r, n)].key]) :
            IF out[1] = "answered"
            THEN Continue(r, "save", MarkReconciled(doc, Target(r, n)), n + 1)
            ELSE Continue(r, "call", doc, n + 1)
  BY DEF ActivateExecute
<1>5. n \in DOMAIN doc.pledges /\ doc.pledges[n].status = "PaidPendingReconciliation"
  BY <1>4 DEF PendingFrom
<1>6. Target(r, n) = n
  BY <1>2, <1>5, FoundAgain DEF Target
<1>7. IsOn(MarkReconciled(doc, n))
  BY <1>2, <1>3, <1>5, CaptureKeepsOn
<1>8. \/ Continue(r, "save", MarkReconciled(doc, n), n + 1)
      \/ Continue(r, "call", doc, n + 1)
  BY <1>4, <1>6
<1> HIDE DEF doc, at
<1>9. QED
  BY <1>2, <1>3, <1>7, <1>8, ContinueLoop

LEMMA ActivateDoneLoop ==
    ASSUME IInv, LoopInv, NEW r \in Request, ActivateDone(r)
    PROVE  LoopInv'
<1> DEFINE doc == req[r].doc
           new == [doc EXCEPT !.state = "Activated"]
<1>1. InCall(r, {"activate"})
  BY DEF ActivateDone
<1>2. req[r] # NoSession /\ req[r].op = "activate" /\ doc \in Document
  BY <1>1, InCallGood DEF Good
<1>3. IsOn(doc)
  BY <1>2 DEF LoopInv, Loop
<1>4. IsOn(new)
  BY <1>2, <1>3, StateKeepsOn DEF States
<1>5. Continue(r, "last", new, 0)
  BY DEF ActivateDone
<1> HIDE DEF doc, new
<1>6. QED
  BY <1>2, <1>4, <1>5, ContinueLoop

\* A save goes on with the document it wrote.
LEMMA SaveLoop ==
    ASSUME IInv, LoopInv, NEW r \in Request, SaveChanges(r)
    PROVE  LoopInv'
<1>1. /\ req[r] # NoSession /\ Loop(req[r])
      /\ \/ End(r)
         \/ Continue(r, "call", req[r].doc, req[r].at)
         \/ req[r].op = "confirm" /\ Continue(r, "last", req[r].doc, req[r].at)
  BY DEF SaveChanges, LoopInv
<1>2. CASE End(r)
  BY <1>2, EndLoop
<1>3. CASE Continue(r, "call", req[r].doc, req[r].at)
  BY <1>1, <1>3, ContinueLoop DEF Loop
<1>4. CASE req[r].op = "confirm" /\ Continue(r, "last", req[r].doc, req[r].at)
  BY <1>1, <1>4, OtherLoop
<1>5. QED
  BY <1>1, <1>2, <1>3, <1>4

\* Every step keeps what the loops promise.
LEMMA NextLoop == IInv /\ LoopInv /\ [Next]_vars => LoopInv'
<1> SUFFICES ASSUME IInv, LoopInv, [Next]_vars PROVE LoopInv'
  OBVIOUS
<1>1. CASE \E r \in Request : Start(r)
  BY <1>1, StartLoop
<1>2. CASE \E r \in Request : Work(r)
  <2> SUFFICES ASSUME NEW r \in Request, Work(r) PROVE LoopInv'
    BY <1>2
  <2>1. CASE CreatePayment(r) \/ CreatePaymentRefused(r)
    BY <2>1, OtherLoop DEF CreatePayment, CreatePaymentRefused, InCall
  <2>2. CASE RetrievePaymentDetails(r)
    BY <2>2, OtherLoop DEF RetrievePaymentDetails, InCall
  <2>3. CASE RefundPledge(r)
    <3>1. \/ End(r)
          \/ \E doc, i : Continue(r, "last", doc, i)
      BY <2>3 DEF RefundPledge
    <3>2. req[r] # NoSession /\ req[r].op = "refund"
      BY <2>3 DEF RefundPledge, InCall
    <3>3. QED
      BY <3>1, <3>2, EndLoop, OtherLoop
  <2>4. CASE ExecutePayment(r)
    <3>1. \/ End(r)
          \/ \E doc, i : Continue(r, "last", doc, i)
      BY <2>4 DEF ExecutePayment
    <3>2. req[r] # NoSession /\ req[r].op = "execute"
      BY <2>4 DEF ExecutePayment, InCall
    <3>3. QED
      BY <3>1, <3>2, EndLoop, OtherLoop
  <2>5. CASE EditEvent(r) \/ EditEventDetails(r) \/ SetTicketDetails(r) \/ UploadEventImage(r)
    BY <2>5, OtherLoop
    DEF EditEvent, EditEventDetails, SetTicketDetails, UploadEventImage, InCall
  <2>6. CASE CancelRefund(r)
    BY <2>6, CancelRefundLoop
  <2>7. CASE CancelDone(r)
    BY <2>7, CancelDoneLoop
  <2>8. CASE MarkDeleted(r)
    BY <2>8, MarkDeletedLoop
  <2>9. CASE ActivateExecute(r)
    BY <2>9, ActivateExecuteLoop
  <2>10. CASE ActivateDone(r)
    BY <2>10, ActivateDoneLoop
  <2>11. CASE SaveChanges(r)
    BY <2>11, SaveLoop
  <2>12. QED
    BY <2>1, <2>2, <2>3, <2>4, <2>5, <2>6, <2>7, <2>8, <2>9, <2>10, <2>11 DEF Work
<1>3. CASE \E r \in Request : Abort(r)
  BY <1>3, EndLoop DEF Abort
<1>4. CASE \/ \E k \in PayKey : Approve(k)
           \/ Tick
           \/ UNCHANGED vars
  BY <1>4 DEF Approve, Tick, vars, LoopInv
<1>5. QED
  BY <1>1, <1>2, <1>3, <1>4 DEF Next

THEOREM LoopInvariance == Spec => [](IInv /\ LoopInv)
<1>1. Init => LoopInv
  BY DEF Init, LoopInv
<1>2. QED
  BY <1>1, InitIInv, NextIInv, NextLoop, PTL DEF Spec

(***************************************************************************)
(* What the loops promise of the document they save                        *)
(***************************************************************************)
\* The document that is stored comes from a save, by the one session that moves.
LEMMA OnlySavesStore ==
    ASSUME IInv, [Next]_vars, store' # store
    PROVE  \E r \in Request :
              /\ req[r] # NoSession
              /\ req[r].step \in {"save", "last"}
              /\ store' = req[r].doc
              /\ req'[r] # req[r]
              /\ \A q \in Request \ {r} : req'[q] = req[q]
<1>1. PICK r \in Request : SaveChanges(r)
  <2>1. ASSUME NEW r \in Request, Start(r)
        PROVE  UNCHANGED store
    BY <2>1 DEF Start, Begin, BeginPledge, BeginConfirm, BeginRefund, BeginExecute,
           BeginActivate, BeginCancel, BeginDelete, BeginForm
  <2>2. ASSUME NEW r \in Request, Work(r), ~SaveChanges(r)
        PROVE  UNCHANGED store
    BY <2>2 DEF Work, CreatePayment, CreatePaymentRefused, RetrievePaymentDetails,
           RefundPledge, CancelRefund, CancelDone, MarkDeleted, ExecutePayment,
           ActivateExecute, ActivateDone, EditEvent, EditEventDetails, SetTicketDetails,
           UploadEventImage
  <2>3. CASE \/ \E r \in Request : Abort(r)
             \/ \E k \in PayKey : Approve(k)
             \/ Tick
             \/ UNCHANGED vars
    BY <2>3 DEF Abort, Approve, Tick, vars
  <2>4. QED
    BY <2>1, <2>2, <2>3 DEF Next
<1>2. \E s : req' = [req EXCEPT ![r] = s]
  BY <1>1 DEF SaveChanges, End, Continue
<1>3. \A q \in Request \ {r} : req'[q] = req[q]
  BY <1>2 DEF IInv
<1>4. req'[r] # req[r]
  BY <1>1 DEF SaveChanges, End, Continue, IInv, Session
<1>5. QED
  BY <1>1, <1>3, <1>4 DEF SaveChanges

\* A cancelled event keeps no payment, however often the loop was cut short and begun
\* again, and whatever other requests wrote in the meantime.
THEOREM CancelledKeepsNothing == Spec => CancelLeavesNothingRetained
<1>1. IInv /\ LoopInv /\ [Next]_vars =>
         [SavedAs("Cancelled", {"cancel", "delete"}) => RetainedIndices(store') = {}]_vars
  <2> SUFFICES ASSUME IInv, LoopInv, [Next]_vars, SavedAs("Cancelled", {"cancel", "delete"})
               PROVE  RetainedIndices(store') = {}
    OBVIOUS
  <2>1. store' # store /\ store'.state = "Cancelled"
    BY DEF SavedAs
  <2>2. PICK r \in Request : /\ req[r] # NoSession
                             /\ req[r].step \in {"save", "last"}
                             /\ store' = req[r].doc
                             /\ \A q \in Request \ {r} : req'[q] = req[q]
    BY <2>1, OnlySavesStore
  <2>3. req[r].op \in {"cancel", "delete"}
    BY <2>2 DEF SavedAs
  <2>4. QED
    BY <2>1, <2>2, <2>3 DEF LoopInv, Loop
<1>2. QED
  BY <1>1, LoopInvariance, PTL DEF Spec, CancelLeavesNothingRetained

\* ActivateEventAction never activates an event that is not on, whatever captures fail.
THEOREM ActivatedStaysOn == Spec => ActivatedIsOn
<1>1. IInv /\ LoopInv /\ [Next]_vars =>
         [SavedAs("Activated", {"activate"}) => IsOn(store')]_vars
  <2> SUFFICES ASSUME IInv, LoopInv, [Next]_vars, SavedAs("Activated", {"activate"})
               PROVE  IsOn(store')
    OBVIOUS
  <2>1. store' # store
    BY DEF SavedAs
  <2>2. PICK r \in Request : /\ req[r] # NoSession
                             /\ store' = req[r].doc
                             /\ \A q \in Request \ {r} : req'[q] = req[q]
    BY <2>1, OnlySavesStore
  <2>3. req[r].op = "activate"
    BY <2>2 DEF SavedAs
  <2>4. IsOn(req[r].doc)
    BY <2>2, <2>3 DEF LoopInv, Loop
  <2>5. QED
    BY <2>2, <2>4
<1>2. QED
  BY <1>1, LoopInvariance, PTL DEF Spec, ActivatedIsOn
=============================================================================
