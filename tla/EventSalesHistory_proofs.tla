---------------------- MODULE EventSalesHistory_proofs ----------------------
(***************************************************************************)
(* What ticket sales promise until an update is lost, however requests     *)
(* overlap, and so whenever requests do not overlap.                       *)
(*                                                                         *)
(* A session with an old copy cannot do harm by saving until then, but it  *)
(* goes on calling PayPal.  So the invariant compares every document that  *)
(* PayPal may be asked about (Asking) with every document that is or may   *)
(* become the store (Coming): the pledges of the one are those of the      *)
(* other, and if one that was pending is not any more, its payment is over.*)
(*                                                                         *)
(* The sets of stale sessions before and after a step are parameters of    *)
(* the lemmas: {} when requests do not overlap, the history otherwise.     *)
(***************************************************************************)
EXTENDS EventSalesLoops_proofs, EventSalesHistory

\* Requests do not overlap: there is one slot for them.
Serial == \A q, r \in Request : q = r

\* Captured money lies on a pledge that cancelling the event refunds.
Covered(doc, pay) ==
    \A k \in PayKey : pay[k] = "executed" =>
        \E i \in DOMAIN doc.pledges :
            doc.pledges[i].key = k /\ doc.pledges[i].status \in Retained

\* No pledge is lost or changes its key, and none comes back from a refund.
Follows(new, old) ==
    \A i \in DOMAIN old.pledges :
        /\ i \in DOMAIN new.pledges
        /\ new.pledges[i].key = old.pledges[i].key
        /\ old.pledges[i].status = "Refunded" => new.pledges[i].status = "Refunded"

\* What becomes of a pending pledge.
Disposed(status, payment) ==
    \/ status = "PaidPendingReconciliation"
    \/ status = "Reconciled" /\ payment \in {"executed", "failed", "refunded"}
    \/ status = "Refunded" /\ payment \in {"failed", "refunded"}

Accounted(old, new, pay) ==
    /\ Follows(new, old)
    /\ \A i \in DOMAIN old.pledges : old.pledges[i].status = "PaidPendingReconciliation" =>
          Disposed(new.pledges[i].status, pay[old.pledges[i].key])

Calling == {r \in Request : InProgress(r) /\ req[r].step = "call"}

\* The documents a call to PayPal may be made from.
Asking == {store} \cup {req[r].doc : r \in Calling}

Fresh(S) == {r \in Request : InProgress(r) /\ r \notin S}

\* The documents that are, or may become, the store while the sessions in S do not save.
Coming(S) == {store} \cup {req[r].doc : r \in Fresh(S)}

KeptInv(S) ==
    /\ AcceptedPledgesKept
    /\ \A r \in Calling : req[r].op = "confirm" => req[r].doc.pledges[req[r].at].status = "Unpaid"
    /\ \A r \in Calling : r \notin S => req[r].doc = store
    /\ \A new \in Coming(S) : Covered(new, payments)
    /\ \A old \in Asking, new \in Coming(S) : Accounted(old, new, payments)

\* T may be the stale sessions after a step if S were those before.
Observed(S, T) ==
    \A r \in Request : InProgress(r)' /\ r \notin T =>
        \/ ~InProgress(r)
        \/ r \notin S /\ store' = store
        \/ Writes(r)

\* Nothing is captured between two states of PayPal.
NoCapture(pay, pay2) == \A k \in PayKey : pay2[k] = "executed" => pay[k] = "executed"

\* A payment that is over stays over.
Settles(pay, pay2) ==
    \A k \in PayKey :
        /\ pay[k] \in {"executed", "failed", "refunded"} =>
              pay2[k] \in {"executed", "failed", "refunded"}
        /\ pay[k] \in {"failed", "refunded"} => pay2[k] \in {"failed", "refunded"}

(***************************************************************************)
(* Documents                                                               *)
(***************************************************************************)
\* What is covered stays covered while nothing is captured.
LEMMA StillCovered ==
    ASSUME NEW doc, NEW pay, NEW pay2, Covered(doc, pay), NoCapture(pay, pay2)
    PROVE  Covered(doc, pay2)
BY DEF Covered, NoCapture

\* What is accounted for stays so: the keys of pending pledges are PayPal's.
LEMMA StillAccounted ==
    ASSUME NEW old, NEW new, NEW pay, NEW pay2, Accounted(old, new, pay),
           Backed(old, pay), Settles(pay, pay2)
    PROVE  Accounted(old, new, pay2)
BY DEF Accounted, Backed, Settles, Disposed

\* Every document accounts for itself, and for one with the same pledges.
LEMMA SameAccounted ==
    ASSUME NEW doc, NEW pay
    PROVE  Accounted(doc, doc, pay)
BY DEF Accounted, Follows, Disposed

\* What leaves the pledges alone neither uncovers nor forgets anything.
LEMMA RewriteAccounted ==
    ASSUME NEW old, NEW doc, NEW new, NEW pay, new.pledges = doc.pledges
    PROVE  /\ Covered(doc, pay) => Covered(new, pay)
           /\ Accounted(old, doc, pay) => Accounted(old, new, pay)
BY DEF Accounted, Follows, Covered

\* A changed status accounts for what the document did, unless it brings a refunded
\* pledge back or takes a pending one away too early.
LEMMA SetStatusAccounted ==
    ASSUME NEW old, NEW doc \in Document, NEW pay, Accounted(old, doc, pay),
           NEW i \in DOMAIN doc.pledges, NEW s \in Statuses, NEW p \in BOOLEAN,
           doc.pledges[i].status = "Refunded" => s = "Refunded",
           i \in DOMAIN old.pledges /\ old.pledges[i].status = "PaidPendingReconciliation" =>
               Disposed(s, pay[doc.pledges[i].key])
    PROVE  Accounted(old, SetStatus(doc, i, s, p), pay)
<1> DEFINE new == SetStatus(doc, i, s, p)
<1>1. /\ DOMAIN new.pledges = DOMAIN doc.pledges
      /\ \A j \in DOMAIN doc.pledges : j # i => new.pledges[j] = doc.pledges[j]
      /\ new.pledges[i].key = doc.pledges[i].key
      /\ new.pledges[i].status = s
  BY SetStatusParts
<1> HIDE DEF new
<1>2. Follows(new, old)
  BY <1>1 DEF Accounted, Follows
<1>3. ASSUME NEW j \in DOMAIN old.pledges,
             old.pledges[j].status = "PaidPendingReconciliation"
      PROVE  Disposed(new.pledges[j].status, pay[old.pledges[j].key])
  <2>1. /\ j \in DOMAIN doc.pledges /\ doc.pledges[j].key = old.pledges[j].key
        /\ Disposed(doc.pledges[j].status, pay[old.pledges[j].key])
    BY <1>3 DEF Accounted, Follows
  <2>2. CASE j = i
    BY <1>1, <1>3, <2>1, <2>2
  <2>3. CASE j # i
    BY <1>1, <2>1, <2>3
  <2>4. QED
    BY <2>2, <2>3
<1>4. QED
  BY <1>2, <1>3 DEF Accounted, new

\* A changed status covers what another pledge covered, and what it retains itself.
LEMMA SetStatusCovered ==
    ASSUME NEW doc \in Document, NEW pay, NEW i \in DOMAIN doc.pledges,
           NEW s \in Statuses, NEW p \in BOOLEAN,
           \A k \in PayKey : pay[k] = "executed" =>
               \E j \in DOMAIN doc.pledges :
                  /\ doc.pledges[j].key = k
                  /\ doc.pledges[j].status \in Retained
                  /\ j = i => s \in Retained
    PROVE  Covered(SetStatus(doc, i, s, p), pay)
<1> DEFINE new == SetStatus(doc, i, s, p)
<1>1. /\ DOMAIN new.pledges = DOMAIN doc.pledges
      /\ \A j \in DOMAIN doc.pledges : j # i => new.pledges[j] = doc.pledges[j]
      /\ new.pledges[i].key = doc.pledges[i].key
      /\ new.pledges[i].status = s
  BY SetStatusParts
<1> HIDE DEF new
<1>2. Covered(new, pay)
  BY <1>1 DEF Covered
<1>3. QED
  BY <1>2 DEF new

\* A new pledge takes nothing away.
LEMMA AddPledgeAccounted ==
    ASSUME NEW old, NEW doc \in Document, NEW pay, NEW k, NEW names
    PROVE  /\ Covered(doc, pay) => Covered(AddPledge(doc, k, names), pay)
           /\ Accounted(old, doc, pay) => Accounted(old, AddPledge(doc, k, names), pay)
<1> DEFINE new == AddPledge(doc, k, names)
           pledge == [order |-> NextOrderNumber(doc), key |-> k, attendees |-> names,
                      status |-> "Unpaid", paid |-> FALSE]
<1>1. new.pledges = Append(doc.pledges, pledge)
  BY DEF AddPledge, Document
<1> HIDE DEF pledge
<1>2. /\ Len(doc.pledges) \in Nat
      /\ DOMAIN doc.pledges = 1..Len(doc.pledges)
      /\ DOMAIN new.pledges = 1..(Len(doc.pledges) + 1)
      /\ \A i \in DOMAIN doc.pledges : new.pledges[i] = doc.pledges[i]
  BY <1>1, DocumentParts
<1> HIDE DEF new
<1>3. \A i \in DOMAIN doc.pledges :
          i \in DOMAIN new.pledges /\ new.pledges[i] = doc.pledges[i]
  BY <1>2
<1>4. Covered(doc, pay) => Covered(new, pay)
  BY <1>3 DEF Covered
<1>5. Accounted(old, doc, pay) => Accounted(old, new, pay)
  BY <1>3 DEF Accounted, Follows
<1>6. QED
  BY <1>4, <1>5 DEF new

\* The refund of a pledge whose payment PayPal does not hold any more.
LEMMA RefundAccounted ==
    ASSUME NEW doc \in Document, NEW pay, Covered(doc, pay),
           NEW i \in DOMAIN doc.pledges,
           doc.pledges[i].key \in PayKey => pay[doc.pledges[i].key] # "executed"
    PROVE  /\ Covered(MarkRefunded(doc, i), pay)
           /\ \A old : /\ Accounted(old, doc, pay)
                       /\ i \in DOMAIN old.pledges
                             /\ old.pledges[i].status = "PaidPendingReconciliation" =>
                                pay[doc.pledges[i].key] \in {"failed", "refunded"}
                       => Accounted(old, MarkRefunded(doc, i), pay)
<1>1. \A k \in PayKey : pay[k] = "executed" =>
         \E j \in DOMAIN doc.pledges :
            doc.pledges[j].key = k /\ doc.pledges[j].status \in Retained /\ j # i
  BY DEF Covered
<1>2. "Refunded" \in Statuses /\ FALSE \in BOOLEAN
  BY DEF Statuses
<1>3. Covered(MarkRefunded(doc, i), pay)
  <2>1. \A s \in Statuses, p \in BOOLEAN : Covered(SetStatus(doc, i, s, p), pay)
    BY <1>1, SetStatusCovered
  <2>2. QED
    BY <1>2, <2>1 DEF MarkRefunded
<1>4. ASSUME NEW old, Accounted(old, doc, pay),
             i \in DOMAIN old.pledges
                 /\ old.pledges[i].status = "PaidPendingReconciliation" =>
                    pay[doc.pledges[i].key] \in {"failed", "refunded"}
      PROVE  Accounted(old, MarkRefunded(doc, i), pay)
  BY <1>2, <1>4, SetStatusAccounted DEF MarkRefunded, Disposed
<1>5. QED
  BY <1>3, <1>4

\* The capture of a pending pledge covers its own payment.
LEMMA CaptureAccounted ==
    ASSUME NEW doc \in Document, NEW pay, Covered(doc, pay),
           NEW i \in DOMAIN doc.pledges,
           doc.pledges[i].status = "PaidPendingReconciliation",
           pay[doc.pledges[i].key] \in {"executed", "failed"}
    PROVE  /\ Covered(MarkReconciled(doc, i), pay)
           /\ \A old : Accounted(old, doc, pay) => Accounted(old, MarkReconciled(doc, i), pay)
<1>1. "Reconciled" \in Statuses /\ "Reconciled" \in Retained
  BY DEF Statuses, Retained
<1>2. doc.pledges[i].paid \in BOOLEAN
  BY DocumentParts
<1>3. Covered(MarkReconciled(doc, i), pay)
  BY <1>1, <1>2, SetStatusCovered DEF MarkReconciled, Covered
<1>4. ASSUME NEW old, Accounted(old, doc, pay)
      PROVE  Accounted(old, MarkReconciled(doc, i), pay)
  BY <1>1, <1>2, <1>4, SetStatusAccounted DEF MarkReconciled, Disposed
<1>5. QED
  BY <1>3, <1>4

\* The confirmation of an unpaid pledge.
LEMMA ConfirmAccounted ==
    ASSUME NEW doc \in Document, NEW pay, Covered(doc, pay),
           NEW i \in DOMAIN doc.pledges, doc.pledges[i].status = "Unpaid", NEW answer
    PROVE  /\ Covered(Confirmed(doc, i, answer), pay)
           /\ \A old : Accounted(old, doc, pay) => Accounted(old, Confirmed(doc, i, answer), pay)
<1>1. ASSUME NEW s \in Statuses, NEW p \in BOOLEAN
      PROVE  /\ Covered(SetStatus(doc, i, s, p), pay)
             /\ \A old : Accounted(old, doc, pay) => Accounted(old, SetStatus(doc, i, s, p), pay)
  <2>1. \A k \in PayKey : pay[k] = "executed" =>
           \E j \in DOMAIN doc.pledges :
              doc.pledges[j].key = k /\ doc.pledges[j].status \in Retained /\ j # i
    BY DEF Covered, Retained
  <2>2. Covered(SetStatus(doc, i, s, p), pay)
    BY <1>1, <2>1, SetStatusCovered
  <2>3. ASSUME NEW old, Accounted(old, doc, pay)
        PROVE  Accounted(old, SetStatus(doc, i, s, p), pay)
    <3>1. ~(i \in DOMAIN old.pledges /\ old.pledges[i].status = "PaidPendingReconciliation")
      BY <2>3 DEF Accounted, Disposed
    <3>2. QED
      BY <1>1, <2>3, <3>1, SetStatusAccounted
  <2>4. QED
    BY <2>2, <2>3
<1>2. {"PaidPendingReconciliation", "Reconciled"} \subseteq Statuses /\ TRUE \in BOOLEAN
  BY DEF Statuses
<1>3. CASE answer = "INCOMPLETE"
  BY <1>1, <1>2, <1>3 DEF Confirmed
<1>4. CASE answer = "CREATED"
  BY <1>1, <1>2, <1>4 DEF Confirmed
<1>5. CASE answer \notin {"INCOMPLETE", "CREATED"}
  BY <1>5 DEF Confirmed
<1>6. QED
  BY <1>3, <1>4, <1>5

(***************************************************************************)
(* Sessions                                                                *)
(***************************************************************************)
\* What PayPal may be asked about, and what may be stored, are good documents.
LEMMA AskingGood ==
    ASSUME IInv, NEW old \in Asking
    PROVE  Good(old, payments)
BY DEF IInv, Asking, Calling, InProgress, GoodSession

LEMMA ComingGood ==
    ASSUME IInv, NEW S, NEW new \in Coming(S)
    PROVE  Good(new, payments)
BY DEF IInv, Coming, Fresh, InProgress, GoodSession

\* A step that leaves the store alone keeps the invariant if the documents it adds to
\* those asked about are there, and those it adds to the coming ones are sound.
LEMMA StoreStaysKept ==
    ASSUME IInv, NEW S, NEW T, KeptInv(S),
           store' = store, AcceptedPledgesKept',
           Settles(payments, payments'),
           \A new \in Coming(S) : Covered(new, payments'),
           Asking' \subseteq Asking,
           \A new \in Coming(T)' :
               \/ new \in Coming(S)
               \/ /\ Covered(new, payments')
                  /\ \A old \in Asking : Accounted(old, new, payments'),
           \A r \in Calling' : req'[r].op = "confirm" =>
               req'[r].doc.pledges[req'[r].at].status = "Unpaid",
           \A r \in Calling' : r \notin T => req'[r].doc = store
    PROVE  KeptInv(T)'
<1>1. \A new \in Coming(T)' : Covered(new, payments')
  OBVIOUS
<1>2. ASSUME NEW old \in Asking, NEW new \in Coming(S)
      PROVE  Accounted(old, new, payments')
  <2>1. Accounted(old, new, payments)
    BY <1>2 DEF KeptInv
  <2>2. Backed(old, payments)
    BY <1>2, AskingGood DEF Good
  <2>3. QED
    BY <2>1, <2>2, StillAccounted
<1>3. \A old \in Asking', new \in Coming(T)' : Accounted(old, new, payments')
  BY <1>2
<1>4. (\A new \in Coming(T) : Covered(new, payments))'
  BY <1>1
<1>5. (\A old \in Asking, new \in Coming(T) : Accounted(old, new, payments))'
  BY <1>3
<1>6. (\A r \in Calling : req[r].op = "confirm" =>
                              req[r].doc.pledges[req[r].at].status = "Unpaid")'
  OBVIOUS
<1>7. (\A r \in Calling : r \notin T => req[r].doc = store)'
  OBVIOUS
<1>8. QED
  BY <1>4, <1>5, <1>6, <1>7 DEF KeptInv

\* A session goes on with a document; what it holds matters if it is not stale.
LEMMA ContinueKept ==
    ASSUME IInv, NEW S, NEW T, KeptInv(S), Observed(S, T),
           NEW r \in Request, req[r] # NoSession,
           NEW s, NEW doc, NEW i, Continue(r, s, doc, i),
           UNCHANGED <<store, redirected>>,
           Settles(payments, payments'),
           \A new \in Coming(S) : Covered(new, payments'),
           r \notin S => /\ Covered(doc, payments')
                         /\ \A old \in Asking : Accounted(old, doc, payments'),
           s = "call" => doc = req[r].doc /\ r \in Calling /\ req[r].op # "confirm"
    PROVE  KeptInv(T)'
<1> DEFINE new == [req[r] EXCEPT !.step = s, !.doc = doc, !.at = i]
<1>1. /\ new.op = req[r].op /\ new.step = s /\ new.doc = doc /\ new.at = i
  BY DEF IInv, Session
<1>2. req' = [req EXCEPT ![r] = new] /\ req \in [Request -> Session \cup {NoSession}]
  BY DEF Continue, IInv
<1> HIDE DEF new
<1>3. /\ req'[r] = new
      /\ \A q \in Request : q # r => req'[q] = req[q]
  BY <1>2
<1>4. \A q \in Request : InProgress(q)' => InProgress(q)
  BY <1>3 DEF InProgress
<1>5. \A q \in Request : InProgress(q)' /\ q \notin T => q \notin S
  BY <1>4 DEF Observed, Writes
<1>6. \A q \in Calling' : /\ q \in Calling /\ req'[q].doc = req[q].doc
                          /\ req'[q].op = req[q].op
                          /\ q = r => req'[q].op # "confirm"
                          /\ q # r => req'[q].at = req[q].at
  BY <1>1, <1>3, <1>4 DEF Calling
<1>7. Asking' \subseteq Asking
  BY <1>6 DEF Asking
<1>8. \A q \in Fresh(T)' : q \in Fresh(S) /\ (req'[q].doc = req[q].doc \/ q = r)
  BY <1>3, <1>4, <1>5 DEF Fresh
<1>9. \A x \in Coming(T)' : x \in Coming(S) \/ (x = doc /\ r \notin S)
  BY <1>1, <1>3, <1>8 DEF Coming, Fresh
<1>10. \A q \in Calling' : req'[q].op = "confirm" =>
          req'[q].doc.pledges[req'[q].at].status = "Unpaid"
  BY <1>5, <1>6 DEF KeptInv, Calling
<1>11. \A q \in Calling' : q \notin T => req'[q].doc = store
  BY <1>5, <1>6 DEF KeptInv, Calling
<1>12. AcceptedPledgesKept'
  BY DEF KeptInv, AcceptedPledgesKept
<1>13. QED
  BY <1>7, <1>9, <1>10, <1>11, <1>12, StoreStaysKept

\* A session that ends leaves the others as they were.
LEMMA EndKept ==
    ASSUME IInv, NEW S, NEW T, KeptInv(S), Observed(S, T),
           NEW r \in Request, End(r), UNCHANGED <<store, redirected>>,
           Settles(payments, payments'),
           \A new \in Coming(S) : Covered(new, payments')
    PROVE  KeptInv(T)'
<1>1. \A q \in Request : InProgress(q)' => InProgress(q) /\ req'[q] = req[q]
  BY DEF End, IInv, InProgress
<1>2. \A q \in Request : InProgress(q)' /\ q \notin T => q \notin S
  BY <1>1 DEF Observed, Writes
<1>3. \A q \in Calling' : q \in Calling /\ req'[q] = req[q]
  BY <1>1 DEF Calling
<1>4. Asking' \subseteq Asking
  BY <1>3 DEF Asking
<1>5. Coming(T)' \subseteq Coming(S)
  BY <1>1, <1>2 DEF Coming, Fresh
<1>6. \A q \in Calling' : req'[q].op = "confirm" =>
         req'[q].doc.pledges[req'[q].at].status = "Unpaid"
  BY <1>2, <1>3 DEF KeptInv, Calling
<1>7. \A q \in Calling' : q \notin T => req'[q].doc = store
  BY <1>2, <1>3 DEF KeptInv, Calling
<1>8. AcceptedPledgesKept'
  BY DEF KeptInv, AcceptedPledgesKept
<1>9. QED
  BY <1>4, <1>5, <1>6, <1>7, <1>8, StoreStaysKept

\* A session begins with the stored document.
LEMMA BeginKept ==
    ASSUME IInv, NEW S, NEW T, KeptInv(S), Observed(S, T),
           NEW r \in Request, NEW h, NEW i, Begin(r, h, i),
           h = "confirm" => store.pledges[i].status = "Unpaid"
    PROVE  KeptInv(T)'
<1>1. /\ req'[r] = [op |-> h, step |-> "call", doc |-> store, at |-> i]
      /\ \A q \in Request : q # r => req'[q] = req[q]
      /\ UNCHANGED <<store, payments, redirected>>
  BY DEF Begin, IInv
<1>2. \A q \in Request : InProgress(q)' /\ q \notin T => q = r \/ q \notin S
  BY <1>1 DEF Observed, Writes, InProgress
<1>3. \A q \in Calling' : \/ q = r /\ req'[q].doc = store
                          \/ q # r /\ q \in Calling /\ req'[q] = req[q]
  BY <1>1 DEF Calling, InProgress
<1>4. Asking' \subseteq Asking
  BY <1>1, <1>3 DEF Asking
<1>5. \A q \in Fresh(T)' : \/ q = r /\ req'[q].doc = store
                           \/ q # r /\ q \in Fresh(S) /\ req'[q] = req[q]
  BY <1>1, <1>2 DEF Fresh, InProgress
<1>6. Coming(T)' \subseteq Coming(S)
  BY <1>1, <1>5 DEF Coming
<1>7. \A q \in Calling' : q # r =>
          q \in Calling /\ req'[q] = req[q] /\ (q \notin T => q \notin S)
  BY <1>2, <1>3 DEF Calling
<1>8. \A q \in Calling' : req'[q].op = "confirm" =>
         req'[q].doc.pledges[req'[q].at].status = "Unpaid"
  BY <1>1, <1>7 DEF KeptInv
<1>9. \A q \in Calling' : q \notin T => req'[q].doc = store
  BY <1>1, <1>7 DEF KeptInv
<1>10. Settles(payments, payments') /\ \A new \in Coming(S) : Covered(new, payments')
  BY <1>1 DEF Settles, KeptInv
<1>11. AcceptedPledgesKept'
  BY <1>1 DEF KeptInv, AcceptedPledgesKept
<1>12. QED
  BY <1>1, <1>4, <1>6, <1>8, <1>9, <1>10, <1>11, StoreStaysKept

LEMMA StartKept ==
    ASSUME IInv, NEW S, NEW T, KeptInv(S), Observed(S, T), NEW r \in Request, Start(r)
    PROVE  KeptInv(T)'
<1>1. CASE BeginPledge(r)
  BY <1>1, BeginKept DEF BeginPledge
<1>2. CASE BeginConfirm(r)
  BY <1>2, BeginKept DEF BeginConfirm
<1>3. CASE BeginRefund(r)
  BY <1>3, BeginKept DEF BeginRefund
<1>4. CASE BeginExecute(r)
  BY <1>4, BeginKept DEF BeginExecute
<1>5. CASE BeginActivate(r)
  BY <1>5, BeginKept DEF BeginActivate
<1>6. CASE BeginCancel(r)
  BY <1>6, BeginKept DEF BeginCancel
<1>7. CASE BeginDelete(r)
  BY <1>7, BeginKept DEF BeginDelete
<1>8. CASE BeginForm(r)
  <2>1. PICK h \in {"edit", "adminEdit", "tickets", "upload"} : Begin(r, h, 0)
    BY <1>8 DEF BeginForm
  <2>2. QED
    BY <2>1, BeginKept
<1>9. QED
  BY <1>1, <1>2, <1>3, <1>4, <1>5, <1>6, <1>7, <1>8 DEF Start

(***************************************************************************)
(* What the handlers do with the documents they hold                       *)
(***************************************************************************)
\* A session in a call holds a good document that PayPal may be asked about.
LEMMA CallingDocument ==
    ASSUME IInv, NEW r \in Request, NEW ops, InCall(r, ops)
    PROVE  /\ req[r] # NoSession /\ req[r].op \in ops
           /\ r \in Calling /\ req[r].doc \in Asking
           /\ req[r].doc \in Document /\ Good(req[r].doc, payments)
<1>1. /\ req[r] # NoSession /\ req[r].op \in ops /\ req[r].step = "call"
      /\ Good(req[r].doc, payments)
  BY InCallGood
<1>2. QED
  BY <1>1 DEF Calling, InProgress, Asking, Good

\* MakePledgeAction adds a pledge, with its payment or without.
LEMMA PledgeTurn ==
    ASSUME IInv, NEW r \in Request, CreatePayment(r) \/ CreatePaymentRefused(r)
    PROVE  /\ req[r] # NoSession /\ r \in Calling
           /\ req[r].doc \in Document /\ Good(req[r].doc, payments)
           /\ UNCHANGED <<store, redirected>>
           /\ \E names \in Party(req[r].doc), k \in PayKey \cup {NoKey} :
                /\ AddPledge(req[r].doc, k, names) \in Document
                /\ Continue(r, "last", AddPledge(req[r].doc, k, names), 0)
                /\ \/ k = NoKey /\ UNCHANGED payments
                   \/ /\ k \in PayKey /\ payments[k] = "none"
                      /\ payments' = [payments EXCEPT ![k] = "created"]
<1> DEFINE doc == req[r].doc
<1>1. InCall(r, {"pledge"}) /\ UNCHANGED <<store, redirected>>
  BY DEF CreatePayment, CreatePaymentRefused
<1>2. req[r] # NoSession /\ r \in Calling /\ doc \in Document /\ Good(doc, payments)
  BY <1>1, CallingDocument
<1>3. PICK names \in Party(doc), k \in PayKey \cup {NoKey} :
         /\ Continue(r, "last", AddPledge(doc, k, names), 0)
         /\ \/ k = NoKey /\ UNCHANGED payments
            \/ /\ k \in PayKey /\ payments[k] = "none"
               /\ payments' = [payments EXCEPT ![k] = "created"]
  BY DEF CreatePayment, CreatePaymentRefused
<1>4. names \in SUBSET (Attendee \ AttendeesOf(doc)) /\ names # {}
  BY DEF Party
<1> HIDE DEF doc
<1>5. AddPledge(doc, k, names) \in Document
  BY <1>2, <1>4, AddPledgeGood DEF Good
<1>6. QED
  BY <1>1, <1>2, <1>3, <1>5 DEF doc

\* ConfirmPledgePaymentAction is called for a pledge that is unpaid in its document.
LEMMA ConfirmTurn ==
    ASSUME IInv, NEW S, KeptInv(S), NEW r \in Request, RetrievePaymentDetails(r)
    PROVE  /\ req[r] # NoSession /\ r \in Calling /\ req[r].doc \in Document
           /\ UNCHANGED <<store, payments, redirected>>
           /\ \E i \in DOMAIN req[r].doc.pledges :
                /\ req[r].doc.pledges[i].status = "Unpaid"
                /\ \E answer \in DetailsAnswers(payments[req[r].doc.pledges[i].key]),
                      s \in {"save", "last"} :
                      Continue(r, s, Confirmed(req[r].doc, i, answer), i)
<1>1. InCall(r, {"confirm"}) /\ UNCHANGED <<store, payments, redirected>>
  BY DEF RetrievePaymentDetails
<1>2. /\ req[r] # NoSession /\ req[r].op = "confirm" /\ r \in Calling
      /\ req[r].doc \in Document
  BY <1>1, CallingDocument
<1>3. /\ req[r].at \in DOMAIN req[r].doc.pledges
      /\ req[r].doc.pledges[req[r].at].status = "Unpaid"
  <2>1. Ready(req[r]) /\ req[r].step = "call"
    BY <1>1, InCallGood DEF InCall
  <2>2. QED
    BY <1>2, <2>1 DEF Ready, KeptInv
<1>4. \E answer \in DetailsAnswers(payments[req[r].doc.pledges[req[r].at].key]),
         s \in {"save", "last"} :
          Continue(r, s, Confirmed(req[r].doc, req[r].at, answer), req[r].at)
  BY DEF RetrievePaymentDetails
<1>5. QED
  BY <1>1, <1>2, <1>3, <1>4

\* A refund, alone or as a turn of the cancelling loop, is one of a pledge of its document.
LEMMA RefundTurn ==
    ASSUME IInv, NEW r \in Request, RefundPledge(r) \/ CancelRefund(r)
    PROVE  /\ req[r] # NoSession /\ r \in Calling
           /\ req[r].doc \in Document /\ Good(req[r].doc, payments)
           /\ UNCHANGED <<store, redirected>>
           /\ \E n \in DOMAIN req[r].doc.pledges :
                \E out \in RefundOutcomes(payments[req[r].doc.pledges[n].key]) :
                  /\ PayPalMoves(req[r].doc, n, out[2])
                  /\ \/ /\ out[1] = "success"
                        /\ \E s \in {"save", "last"} :
                              \E j : Continue(r, s, MarkRefunded(req[r].doc, n), j)
                     \/ End(r)
                     \/ \E j : Continue(r, "last", req[r].doc, j)
<1> DEFINE doc == req[r].doc
<1>1. InCall(r, {"refund", "cancel", "delete"}) /\ UNCHANGED <<store, redirected>>
  BY DEF RefundPledge, CancelRefund, InCall
<1>2. req[r] # NoSession /\ r \in Calling /\ doc \in Document /\ Good(doc, payments)
  BY <1>1, CallingDocument
<1>3. \E n \in DOMAIN doc.pledges :
         \E out \in RefundOutcomes(payments[doc.pledges[n].key]) :
            /\ PayPalMoves(doc, n, out[2])
            /\ \/ /\ out[1] = "success"
                  /\ \E s \in {"save", "last"} : \E j : Continue(r, s, MarkRefunded(doc, n), j)
               \/ End(r)
               \/ \E j : Continue(r, "last", doc, j)
  <2>1. CASE RefundPledge(r)
    <3>1. req[r].at \in DOMAIN doc.pledges
      BY <2>1, <1>1, InCallGood DEF RefundPledge, InCall, Ready
    <3>2. Target(r, req[r].at) = req[r].at
      BY <1>2, <3>1, FoundAgain DEF Target
    <3>3. QED
      BY <2>1, <3>1, <3>2 DEF RefundPledge
  <2>2. CASE CancelRefund(r)
    <3>1. PICK n \in RetainedFrom(doc, req[r].at) :
             \E out \in RefundOutcomes(payments[doc.pledges[Target(r, n)].key]) :
                /\ PayPalMoves(doc, Target(r, n), out[2])
                /\ CASE out[1] = "success" ->
                            Continue(r, "save", MarkRefunded(doc, Target(r, n)), n + 1)
                     [] out[1] = "lost"    -> End(r)
                     [] OTHER              -> Continue(r, "last", doc, n)
      BY <2>2 DEF CancelRefund
    <3>2. n \in DOMAIN doc.pledges
      BY DEF RetainedFrom, RetainedIndices
    <3>3. Target(r, n) = n
      BY <1>2, <3>2, FoundAgain DEF Target
    <3>4. QED
      BY <3>1, <3>2, <3>3
  <2>3. QED
    BY <2>1, <2>2
<1>4. QED
  BY <1>1, <1>2, <1>3

\* A capture, alone or as a turn of the activating loop, is one of a pledge that is
\* pending in its document.
LEMMA CaptureTurn ==
    ASSUME IInv, NEW r \in Request, ExecutePayment(r) \/ ActivateExecute(r)
    PROVE  /\ req[r] # NoSession /\ r \in Calling /\ req[r].op \in {"execute", "activate"}
           /\ req[r].doc \in Document /\ Good(req[r].doc, payments)
           /\ UNCHANGED <<store, redirected>>
           /\ \E n \in DOMAIN req[r].doc.pledges :
                /\ req[r].doc.pledges[n].status = "PaidPendingReconciliation"
                /\ \E out \in ExecuteOutcomes(payments[req[r].doc.pledges[n].key]) :
                     /\ PayPalMoves(req[r].doc, n, out[2])
                     /\ \/ /\ out[1] = "answered"
                           /\ \E s \in {"save", "last"} :
                                 \E j : Continue(r, s, MarkReconciled(req[r].doc, n), j)
                        \/ End(r)
                        \/ \E j : Continue(r, "call", req[r].doc, j)
<1> DEFINE doc == req[r].doc
<1>1. InCall(r, {"execute", "activate"}) /\ UNCHANGED <<store, redirected>>
  BY DEF ExecutePayment, ActivateExecute, InCall
<1>2. /\ req[r] # NoSession /\ r \in Calling /\ req[r].op \in {"execute", "activate"}
      /\ doc \in Document /\ Good(doc, payments)
  BY <1>1, CallingDocument
<1>3. \E n \in DOMAIN doc.pledges :
         /\ doc.pledges[n].status = "PaidPendingReconciliation"
         /\ \E out \in ExecuteOutcomes(payments[doc.pledges[n].key]) :
               /\ PayPalMoves(doc, n, out[2])
               /\ \/ /\ out[1] = "answered"
                     /\ \E s \in {"save", "last"} :
                           \E j : Continue(r, s, MarkReconciled(doc, n), j)
                  \/ End(r)
                  \/ \E j : Continue(r, "call", doc, j)
  <2>1. CASE ExecutePayment(r)
    <3>1. /\ req[r].at \in DOMAIN doc.pledges
          /\ doc.pledges[req[r].at].status = "PaidPendingReconciliation"
      BY <2>1, <1>1, InCallGood DEF ExecutePayment, InCall, Ready
    <3>2. Target(r, req[r].at) = req[r].at
      BY <1>2, <3>1, FoundAgain DEF Target
    <3>3. QED
      BY <2>1, <3>1, <3>2 DEF ExecutePayment
  <2>2. CASE ActivateExecute(r)
    <3>1. PICK n \in PendingFrom(doc, req[r].at) :
             \E out \in ExecuteOutcomes(payments[doc.pledges[Target(r, n)].key]) :
                /\ PayPalMoves(doc, Target(r, n), out[2])
                /\ IF out[1] = "answered"
                   THEN Continue(r, "save", MarkReconciled(doc, Target(r, n)), n + 1)
                   ELSE Continue(r, "call", doc, n + 1)
      BY <2>2 DEF ActivateExecute
    <3>2. /\ n \in DOMAIN doc.pledges
          /\ doc.pledges[n].status = "PaidPendingReconciliation"
      BY DEF PendingFrom
    <3>3. Target(r, n) = n
      BY <1>2, <3>2, FoundAgain DEF Target
    <3>4. QED
      BY <3>1, <3>2, <3>3
  <2>3. QED
    BY <2>1, <2>2
<1>4. QED
  BY <1>1, <1>2, <1>3

\* The forms and the ends of the loops leave the pledges alone.
LEMMA RewriteTurn ==
    ASSUME IInv, NEW r \in Request,
           \/ CancelDone(r) \/ MarkDeleted(r) \/ ActivateDone(r) \/ EditEvent(r)
           \/ EditEventDetails(r) \/ SetTicketDetails(r) \/ UploadEventImage(r)
    PROVE  /\ req[r] # NoSession /\ r \in Calling
           /\ UNCHANGED <<store, payments, redirected>>
           /\ \E s \in {"save", "last"} : \E new, i :
                new.pledges = req[r].doc.pledges /\ Continue(r, s, new, i)
<1> DEFINE doc == req[r].doc
<1>1. PICK ops : InCall(r, ops)
  BY DEF CancelDone, MarkDeleted, ActivateDone, EditEvent, EditEventDetails,
         SetTicketDetails, UploadEventImage
<1>2. UNCHANGED <<store, payments, redirected>>
  BY DEF CancelDone, MarkDeleted, ActivateDone, EditEvent, EditEventDetails,
         SetTicketDetails, UploadEventImage
<1>3. req[r] # NoSession /\ r \in Calling /\ doc \in Document
  BY <1>1, CallingDocument
<1>4. \A st, set : /\ [doc EXCEPT !.state = st].pledges = doc.pledges
                   /\ [doc EXCEPT !.settings = set, !.state = st].pledges = doc.pledges
  BY <1>3 DEF Document
<1>5. \E s \in {"save", "last"} : \E new, i :
         new.pledges = doc.pledges /\ Continue(r, s, new, i)
  <2>1. CASE CancelDone(r)
    BY <2>1, <1>4 DEF CancelDone
  <2>2. CASE MarkDeleted(r)
    BY <2>2, <1>4 DEF MarkDeleted
  <2>3. CASE ActivateDone(r)
    BY <2>3, <1>4 DEF ActivateDone
  <2>4. CASE EditEvent(r)
    BY <2>4, <1>4 DEF EditEvent, Edited
  <2>5. CASE EditEventDetails(r)
    BY <2>5, <1>4 DEF EditEventDetails
  <2>6. CASE SetTicketDetails(r)
    BY <2>6, <1>4 DEF SetTicketDetails
  <2>7. CASE UploadEventImage(r)
    BY <2>7 DEF UploadEventImage
  <2>8. QED
    BY <2>1, <2>2, <2>3, <2>4, <2>5, <2>6, <2>7
<1>6. QED
  BY <1>2, <1>3, <1>5

\* A session that is not stale holds the store when it calls PayPal, and has accounted
\* for every document that PayPal may be asked about.
LEMMA FreshAccounted ==
    ASSUME IInv, NEW S, KeptInv(S), NEW r \in Calling, r \notin S,
           Settles(payments, payments')
    PROVE  /\ req[r].doc \in Coming(S)
           /\ \A old \in Asking : Accounted(old, req[r].doc, payments')
<1>1. req[r].doc = store /\ store \in Coming(S)
  BY DEF KeptInv, Coming
<1>2. ASSUME NEW old \in Asking
      PROVE  Accounted(old, store, payments')
  <2>1. Accounted(old, store, payments)
    BY <1>1 DEF KeptInv
  <2>2. Backed(old, payments)
    BY AskingGood DEF Good
  <2>3. QED
    BY <2>1, <2>2, StillAccounted
<1>3. QED
  BY <1>1, <1>2

\* Whatever PayPal answers to a refund it captures nothing, and when the refund
\* succeeded it holds no captured money of that pledge.
LEMMA RefundOutcome ==
    ASSUME IInv, NEW doc, NEW i,
           NEW out \in RefundOutcomes(payments[doc.pledges[i].key]),
           PayPalMoves(doc, i, out[2])
    PROVE  /\ NoCapture(payments, payments')
           /\ Settles(payments, payments')
           /\ out[1] = "success" /\ doc.pledges[i].key \in PayKey =>
                 /\ payments'[doc.pledges[i].key] # "executed"
                 /\ payments[doc.pledges[i].key] \in Approved =>
                       payments'[doc.pledges[i].key] \in {"failed", "refunded"}
<1> DEFINE k == doc.pledges[i].key
<1>1. payments' = [payments EXCEPT ![k] = out[2]]
  BY DEF PayPalMoves
<1>2. /\ \/ out[2] = payments[k]
         \/ payments[k] \in {"approved", "executed"} /\ out[2] = "refunded"
      /\ out[1] = "success" =>
            \/ out[2] = "refunded"
            \/ out[2] = payments[k] /\ payments[k] \notin {"approved", "executed"}
  BY DEF RefundOutcomes
<1> HIDE DEF k
<1>3. payments \in [PayKey -> PaymentState]
  BY DEF IInv
<1>4. NoCapture(payments, payments') /\ Settles(payments, payments')
  BY <1>1, <1>2, <1>3 DEF NoCapture, Settles
<1>5. k \in PayKey => payments'[k] = out[2]
  BY <1>1, <1>3
<1>6. QED
  BY <1>2, <1>4, <1>5 DEF k, Approved

\* A capture takes the money of an approved payment, and the documents to come still
\* have the pledge pending that it was made for.
LEMMA CaptureOutcome ==
    ASSUME IInv, NEW S, KeptInv(S), NEW doc \in Asking, NEW i \in DOMAIN doc.pledges,
           doc.pledges[i].status = "PaidPendingReconciliation",
           NEW out \in ExecuteOutcomes(payments[doc.pledges[i].key]),
           PayPalMoves(doc, i, out[2])
    PROVE  /\ Settles(payments, payments')
           /\ \A new \in Coming(S) : Covered(new, payments')
           /\ out[1] = "answered" => payments'[doc.pledges[i].key] \in {"executed", "failed"}
<1> DEFINE k == doc.pledges[i].key
<1>1. payments' = [payments EXCEPT ![k] = out[2]]
  BY DEF PayPalMoves
<1>2. /\ \/ out[2] = payments[k]
         \/ payments[k] = "approved" /\ out[2] \in {"executed", "failed"}
      /\ out[1] = "answered" => out[2] \in {"executed", "failed"}
  BY DEF ExecuteOutcomes
<1>3. k \in PayKey
  BY AskingGood DEF Good, Backed
<1>4. \A new \in Coming(S) :
         /\ Covered(new, payments)
         /\ payments[k] = "approved" =>
               /\ i \in DOMAIN new.pledges
               /\ new.pledges[i].key = k
               /\ new.pledges[i].status = "PaidPendingReconciliation"
  BY DEF KeptInv, Accounted, Follows, Disposed
<1> HIDE DEF k
<1>5. payments \in [PayKey -> PaymentState]
  BY DEF IInv
<1>6. Settles(payments, payments') /\ payments'[k] = out[2]
  BY <1>1, <1>2, <1>3, <1>5 DEF Settles
<1>7. \A x \in PayKey : payments'[x] = "executed" =>
         payments[x] = "executed" \/ (x = k /\ payments[k] = "approved")
  BY <1>1, <1>2, <1>3, <1>5
<1>8. \A new \in Coming(S) : Covered(new, payments')
  BY <1>4, <1>7 DEF Covered, Retained
<1>9. QED
  BY <1>2, <1>6, <1>8 DEF k

(***************************************************************************)
(* The actions                                                             *)
(***************************************************************************)
\* A new pledge takes no pledge away.
LEMMA PledgeKept ==
    ASSUME IInv, NEW S, NEW T, KeptInv(S), Observed(S, T), NEW r \in Request,
           CreatePayment(r) \/ CreatePaymentRefused(r)
    PROVE  KeptInv(T)'
<1> DEFINE doc == req[r].doc
<1>1. /\ req[r] # NoSession /\ r \in Calling /\ doc \in Document
      /\ UNCHANGED <<store, redirected>>
  BY PledgeTurn
<1>2. PICK names \in Party(doc), k \in PayKey \cup {NoKey} :
         /\ Continue(r, "last", AddPledge(doc, k, names), 0)
         /\ \/ k = NoKey /\ UNCHANGED payments
            \/ /\ k \in PayKey /\ payments[k] = "none"
               /\ payments' = [payments EXCEPT ![k] = "created"]
  BY PledgeTurn
<1>3. NoCapture(payments, payments') /\ Settles(payments, payments')
  BY <1>2 DEF NoCapture, Settles, IInv
<1>4. \A new \in Coming(S) : Covered(new, payments')
  BY <1>3, StillCovered DEF KeptInv
<1>5. r \notin S => doc \in Coming(S) /\ \A old \in Asking : Accounted(old, doc, payments')
  BY <1>1, <1>3, FreshAccounted
<1> HIDE DEF doc
<1>6. r \notin S => /\ Covered(AddPledge(doc, k, names), payments')
                    /\ \A old \in Asking : Accounted(old, AddPledge(doc, k, names), payments')
  BY <1>1, <1>4, <1>5, AddPledgeAccounted
<1>7. QED
  BY <1>1, <1>2, <1>3, <1>4, <1>6, ContinueKept

\* A confirmation changes a pledge that was unpaid, and so not asked about.
LEMMA ConfirmKept ==
    ASSUME IInv, NEW S, NEW T, KeptInv(S), Observed(S, T), NEW r \in Request,
           RetrievePaymentDetails(r)
    PROVE  KeptInv(T)'
<1> DEFINE doc == req[r].doc
<1>1. /\ req[r] # NoSession /\ r \in Calling /\ doc \in Document
      /\ UNCHANGED <<store, payments, redirected>>
  BY ConfirmTurn
<1>2. PICK i \in DOMAIN doc.pledges :
         /\ doc.pledges[i].status = "Unpaid"
         /\ \E answer, s : s # "call" /\ Continue(r, s, Confirmed(doc, i, answer), i)
  BY ConfirmTurn
<1>3. PICK answer, s : s # "call" /\ Continue(r, s, Confirmed(doc, i, answer), i)
  BY <1>2
<1>4. Settles(payments, payments')
  BY <1>1 DEF Settles
<1>5. \A new \in Coming(S) : Covered(new, payments')
  BY <1>1 DEF KeptInv
<1>6. r \notin S => doc \in Coming(S) /\ \A old \in Asking : Accounted(old, doc, payments')
  BY <1>1, <1>4, FreshAccounted
<1> HIDE DEF doc
<1>7. r \notin S => /\ Covered(Confirmed(doc, i, answer), payments')
                    /\ \A old \in Asking : Accounted(old, Confirmed(doc, i, answer), payments')
  BY <1>1, <1>2, <1>5, <1>6, ConfirmAccounted
<1>8. QED
  BY <1>1, <1>3, <1>4, <1>5, <1>7, ContinueKept

\* A refund covers what is captured without its pledge, and ends its payment.
LEMMA RefundKept ==
    ASSUME IInv, NEW S, NEW T, KeptInv(S), Observed(S, T), NEW r \in Request,
           RefundPledge(r) \/ CancelRefund(r)
    PROVE  KeptInv(T)'
<1> DEFINE doc == req[r].doc
<1>1. /\ req[r] # NoSession /\ r \in Calling /\ doc \in Document
      /\ UNCHANGED <<store, redirected>>
  BY RefundTurn
<1>2. PICK n \in DOMAIN doc.pledges :
         \E out \in RefundOutcomes(payments[doc.pledges[n].key]) :
            /\ PayPalMoves(doc, n, out[2])
            /\ \/ /\ out[1] = "success"
                  /\ \E s \in {"save", "last"} : \E j : Continue(r, s, MarkRefunded(doc, n), j)
               \/ End(r)
               \/ \E j : Continue(r, "last", doc, j)
  BY RefundTurn
<1>3. PICK out \in RefundOutcomes(payments[doc.pledges[n].key]) :
         /\ PayPalMoves(doc, n, out[2])
         /\ \/ /\ out[1] = "success"
               /\ \E s \in {"save", "last"} : \E j : Continue(r, s, MarkRefunded(doc, n), j)
            \/ End(r)
            \/ \E j : Continue(r, "last", doc, j)
  BY <1>2
<1>4. /\ NoCapture(payments, payments') /\ Settles(payments, payments')
      /\ out[1] = "success" /\ doc.pledges[n].key \in PayKey =>
            /\ payments'[doc.pledges[n].key] # "executed"
            /\ payments[doc.pledges[n].key] \in Approved =>
                  payments'[doc.pledges[n].key] \in {"failed", "refunded"}
  BY <1>3, RefundOutcome
<1>5. \A new \in Coming(S) : Covered(new, payments')
  BY <1>4, StillCovered DEF KeptInv
<1>6. r \notin S => doc \in Coming(S) /\ \A old \in Asking : Accounted(old, doc, payments')
  BY <1>1, <1>4, FreshAccounted
<1>7. \A old \in Asking : \A i \in DOMAIN old.pledges :
         old.pledges[i].status = "PaidPendingReconciliation" =>
            /\ old.pledges[i].key \in PayKey
            /\ payments[old.pledges[i].key] \in Approved
  BY AskingGood DEF Good, Backed
<1> HIDE DEF doc
<1>8. ASSUME r \notin S, out[1] = "success"
      PROVE  /\ Covered(MarkRefunded(doc, n), payments')
             /\ \A old \in Asking : Accounted(old, MarkRefunded(doc, n), payments')
  <2>1. Covered(doc, payments')
    BY <1>5, <1>6, <1>8
  <2>2. ASSUME NEW old \in Asking, n \in DOMAIN old.pledges,
               old.pledges[n].status = "PaidPendingReconciliation"
        PROVE  payments'[doc.pledges[n].key] \in {"failed", "refunded"}
    <3>1. doc.pledges[n].key = old.pledges[n].key
      BY <1>6, <1>8, <2>2 DEF Accounted, Follows
    <3>2. QED
      BY <1>4, <1>7, <1>8, <2>2, <3>1
  <2>3. QED
    BY <1>1, <1>4, <1>6, <1>8, <2>1, <2>2, RefundAccounted
<1>9. CASE End(r)
  BY <1>1, <1>4, <1>5, <1>9, EndKept
<1>10. CASE \E j : Continue(r, "last", doc, j)
  BY <1>1, <1>4, <1>5, <1>6, <1>10, ContinueKept
<1>11. CASE /\ out[1] = "success"
            /\ \E s \in {"save", "last"} : \E j : Continue(r, s, MarkRefunded(doc, n), j)
  BY <1>1, <1>4, <1>5, <1>8, <1>11, ContinueKept
<1>12. QED
  BY <1>3, <1>9, <1>10, <1>11

\* A capture covers its own payment, answered or not.
LEMMA CaptureKept ==
    ASSUME IInv, NEW S, NEW T, KeptInv(S), Observed(S, T), NEW r \in Request,
           ExecutePayment(r) \/ ActivateExecute(r)
    PROVE  KeptInv(T)'
<1> DEFINE doc == req[r].doc
<1>1. /\ req[r] # NoSession /\ r \in Calling /\ req[r].op # "confirm"
      /\ doc \in Document /\ doc \in Asking
      /\ UNCHANGED <<store, redirected>>
  BY CaptureTurn DEF Asking
<1>2. PICK n \in DOMAIN doc.pledges :
         /\ doc.pledges[n].status = "PaidPendingReconciliation"
         /\ \E out \in ExecuteOutcomes(payments[doc.pledges[n].key]) :
               /\ PayPalMoves(doc, n, out[2])
               /\ \/ /\ out[1] = "answered"
                     /\ \E s \in {"save", "last"} :
                           \E j : Continue(r, s, MarkReconciled(doc, n), j)
                  \/ End(r)
                  \/ \E j : Continue(r, "call", doc, j)
  BY CaptureTurn
<1>3. PICK out \in ExecuteOutcomes(payments[doc.pledges[n].key]) :
         /\ PayPalMoves(doc, n, out[2])
         /\ \/ /\ out[1] = "answered"
               /\ \E s \in {"save", "last"} :
                     \E j : Continue(r, s, MarkReconciled(doc, n), j)
            \/ End(r)
            \/ \E j : Continue(r, "call", doc, j)
  BY <1>2
<1>4. /\ Settles(payments, payments')
      /\ \A new \in Coming(S) : Covered(new, payments')
      /\ out[1] = "answered" => payments'[doc.pledges[n].key] \in {"executed", "failed"}
  <2> HIDE DEF doc
  <2>1. QED
    BY <1>1, <1>2, <1>3, CaptureOutcome
<1>5. r \notin S => doc \in Coming(S) /\ \A old \in Asking : Accounted(old, doc, payments')
  BY <1>1, <1>4, FreshAccounted
<1>6. out[1] = "answered" /\ r \notin S =>
         /\ Covered(MarkReconciled(doc, n), payments')
         /\ \A old \in Asking : Accounted(old, MarkReconciled(doc, n), payments')
  <2> HIDE DEF doc
  <2>1. QED
    BY <1>1, <1>2, <1>4, <1>5, CaptureAccounted
<1>7. CASE End(r)
  BY <1>1, <1>4, <1>7, EndKept
<1>8. CASE \E j : Continue(r, "call", doc, j)
  BY <1>1, <1>4, <1>5, <1>8, ContinueKept
<1>9. CASE /\ out[1] = "answered"
           /\ \E s \in {"save", "last"} : \E j : Continue(r, s, MarkReconciled(doc, n), j)
  <2> HIDE DEF doc
  <2>1. QED
    BY <1>1, <1>4, <1>6, <1>9, ContinueKept
<1>10. QED
  BY <1>3, <1>7, <1>8, <1>9

\* What leaves the pledges alone loses none.
LEMMA RewriteKept ==
    ASSUME IInv, NEW S, NEW T, KeptInv(S), Observed(S, T), NEW r \in Request,
           \/ CancelDone(r) \/ MarkDeleted(r) \/ ActivateDone(r) \/ EditEvent(r)
           \/ EditEventDetails(r) \/ SetTicketDetails(r) \/ UploadEventImage(r)
    PROVE  KeptInv(T)'
<1> DEFINE doc == req[r].doc
<1>1. /\ req[r] # NoSession /\ r \in Calling
      /\ UNCHANGED <<store, payments, redirected>>
  BY RewriteTurn
<1>2. PICK s \in {"save", "last"} :
         \E new, i : new.pledges = doc.pledges /\ Continue(r, s, new, i)
  BY RewriteTurn
<1>3. PICK new, i : new.pledges = doc.pledges /\ Continue(r, s, new, i)
  BY <1>2
<1>4. Settles(payments, payments')
  BY <1>1 DEF Settles
<1>5. \A x \in Coming(S) : Covered(x, payments')
  BY <1>1 DEF KeptInv
<1>6. r \notin S => doc \in Coming(S) /\ \A old \in Asking : Accounted(old, doc, payments')
  BY <1>1, <1>4, FreshAccounted
<1> HIDE DEF doc
<1>7. r \notin S => /\ Covered(new, payments')
                    /\ \A old \in Asking : Accounted(old, new, payments')
  BY <1>3, <1>5, <1>6, RewriteAccounted
<1>8. QED
  BY <1>1, <1>3, <1>4, <1>5, <1>7, ContinueKept

\* A save by a session that is not stale loses no pledge and brings none back; it puts a
\* redirected payer's pledge in the document and makes the other sessions stale.
LEMMA SaveKept ==
    ASSUME IInv, NEW S, NEW T, KeptInv(S), Observed(S, T), NEW r \in Request, SaveChanges(r),
           \A q \in S : ~Writes(q)
    PROVE  KeptInv(T)'
<1> DEFINE doc == req[r].doc
<1>1. /\ req[r] # NoSession /\ GoodSession(req[r], payments)
      /\ store' = doc
      /\ redirected' = redirected \cup PledgedKey(req[r])
      /\ UNCHANGED payments
      /\ \/ End(r)
         \/ \E s \in {"call", "last"} :
              /\ Continue(r, s, doc, req[r].at) /\ req[r].step = "save"
              /\ s = "call" => req[r].op # "confirm"
  <2>1. req[r] # NoSession /\ GoodSession(req[r], payments)
    BY DEF SaveChanges, IInv
  <2>2. \/ End(r)
        \/ \E s \in {"call", "last"} :
              /\ Continue(r, s, req[r].doc, req[r].at) /\ req[r].step = "save"
              /\ s = "call" => req[r].op # "confirm"
    BY DEF SaveChanges
  <2>3. QED
    BY <2>1, <2>2 DEF SaveChanges
<1>2. \A q \in Request : q # r => req'[q] = req[q]
  BY <1>1 DEF End, Continue, IInv
<1>3. \/ req'[r] = NoSession
      \/ /\ req'[r].op = req[r].op /\ req'[r].doc = doc
         /\ req'[r].step = "call" => req[r].op # "confirm"
  <2>1. CASE End(r)
    BY <2>1 DEF End, IInv
  <2>2. CASE \E s \in {"call", "last"} :
               /\ Continue(r, s, doc, req[r].at)
               /\ s = "call" => req[r].op # "confirm"
    BY <1>1, <2>2 DEF Continue, IInv, Session
  <2>3. QED
    BY <1>1, <2>1, <2>2
<1>4. \A k \in PledgedKey(req[r]) : \E i \in DOMAIN doc.pledges : doc.pledges[i].key = k
  <2>1. CASE req[r].op = "pledge"
    <3>1. doc.pledges # <<>> /\ doc \in Document
      BY <1>1, <2>1 DEF GoodSession, Ready, Good, SaveChanges
    <3>2. Len(doc.pledges) \in DOMAIN doc.pledges
      BY <3>1, EmptySeq, DocumentParts
    <3>3. QED
      BY <2>1, <3>2 DEF PledgedKey
  <2>2. CASE req[r].op # "pledge"
    BY <2>2 DEF PledgedKey
  <2>3. QED
    BY <2>1, <2>2
<1> HIDE DEF doc
<1>5. \A q \in Calling' : q # r => q \in Calling
  BY <1>2 DEF Calling, InProgress
<1>6. \A q \in Calling' : q = r => req'[q].doc = doc /\ req'[q].op # "confirm"
  BY <1>3 DEF Calling, InProgress
<1>7. \A old \in Asking' : old \in Asking \/ old = doc
  <2> TAKE old \in Asking'
  <2>1. CASE old = store'
    BY <1>1, <2>1 DEF doc
  <2>2. ASSUME NEW q \in Calling', old = req'[q].doc
        PROVE  old \in Asking \/ old = doc
    <3>1. CASE q = r
      BY <1>6, <2>2, <3>1
    <3>2. CASE q # r
      <4>1. q \in Calling /\ req'[q] = req[q]
        BY <1>2, <1>5, <3>2 DEF Calling
      <4>2. QED
        BY <2>2, <4>1 DEF Asking
    <3>3. QED
      BY <3>1, <3>2
  <2>3. QED
    BY <2>1, <2>2 DEF Asking
<1>8. \A q \in Calling' : req'[q].op = "confirm" =>
         req'[q].doc.pledges[req'[q].at].status = "Unpaid"
  <2> TAKE q \in Calling'
  <2>1. CASE q = r
    BY <1>6, <2>1
  <2>2. CASE q # r
    <3>1. q \in Calling /\ req'[q] = req[q]
      BY <1>2, <1>5, <2>2 DEF Calling
    <3>2. QED
      BY <3>1 DEF KeptInv
  <2>3. QED
    BY <2>1, <2>2
<1>9. CASE store' = store
  <2>1. doc = store
    BY <1>1, <1>9 DEF doc
  <2>2. \A q \in Request : InProgress(q)' /\ q \notin T => q \notin S
    <3>1. \A q \in Request : InProgress(q)' => InProgress(q)
      BY <1>1, <1>2 DEF InProgress
    <3>2. QED
      BY <1>9, <3>1 DEF Observed, Writes
  <2>3. AcceptedPledgesKept'
    BY <1>1, <1>4, <1>9, <2>1 DEF KeptInv, AcceptedPledgesKept
  <2>4. Asking' \subseteq Asking
    BY <1>7, <2>1 DEF Asking
  <2>5. \A q \in Fresh(T)' : /\ q = r => req'[q].doc = store
                             /\ q # r => q \in Fresh(S) /\ req'[q] = req[q]
    <3> TAKE q \in Fresh(T)'
    <3>1. q \in Request /\ InProgress(q)' /\ q \notin S
      BY <2>2 DEF Fresh
    <3>2. CASE q = r
      BY <1>3, <2>1, <3>1, <3>2 DEF InProgress
    <3>3. CASE q # r
      BY <1>2, <3>1, <3>3 DEF Fresh, InProgress
    <3>4. QED
      BY <3>2, <3>3
  <2>6. Coming(T)' \subseteq Coming(S)
    BY <1>9, <2>5 DEF Coming
  <2>7. \A q \in Calling' : q \notin T => req'[q].doc = store
    <3> TAKE q \in Calling'
    <3> HAVE q \notin T
    <3>1. q \in Request /\ q \notin S
      BY <2>2 DEF Calling
    <3>2. CASE q = r
      BY <1>6, <2>1, <3>2
    <3>3. CASE q # r
      BY <1>2, <1>5, <3>1, <3>3 DEF KeptInv
    <3>4. QED
      BY <3>2, <3>3
  <2>8. Settles(payments, payments') /\ \A new \in Coming(S) : Covered(new, payments')
    BY <1>1 DEF Settles, KeptInv
  <2>9. QED
    BY <1>8, <1>9, <2>3, <2>4, <2>6, <2>7, <2>8, StoreStaysKept
<1>10. CASE store' # store
  <2>1. req'[r] # req[r]
    <3>1. CASE req'[r] = NoSession
      BY <1>1, <3>1
    <3>2. CASE req'[r] # NoSession
      BY <1>1, <3>2 DEF End, IInv, Continue, Session
    <3>3. QED
      BY <3>1, <3>2
  <2>2. r \in Fresh(S)
    BY <1>1, <1>10, <2>1 DEF Fresh, Writes, InProgress
  <2>3. doc \in Coming(S)
    BY <2>2 DEF Coming, doc
  <2>4. Covered(doc, payments) /\ \A old \in Asking : Accounted(old, doc, payments)
    BY <2>3 DEF KeptInv
  <2>5. Follows(doc, store)
    BY <2>4 DEF Asking, Accounted
  <2>6. AcceptedPledgesKept'
    BY <1>1, <1>4, <2>5 DEF KeptInv, AcceptedPledgesKept, Follows, doc
  <2>7. \A q \in Request : InProgress(q)' /\ q \notin T => q = r
    <3>1. \A q \in Request : InProgress(q)' => InProgress(q)
      BY <1>1, <1>2 DEF InProgress
    <3>2. QED
      BY <1>2, <1>10, <3>1 DEF Observed, Writes
  <2>8. \A new \in Coming(T)' : new = doc
    <3>1. \A q \in Fresh(T)' : req'[q].doc = doc
      BY <1>3, <2>7 DEF Fresh, InProgress
    <3>2. QED
      BY <1>1, <3>1 DEF Coming, doc
  <2>9. \A old \in Asking' : Accounted(old, doc, payments)
    BY <1>7, <2>4, SameAccounted
  <2>10. (\A new \in Coming(T) : Covered(new, payments))'
    BY <1>1, <2>4, <2>8
  <2>11. (\A old \in Asking, new \in Coming(T) : Accounted(old, new, payments))'
    BY <1>1, <2>8, <2>9
  <2>12. (\A q \in Calling : q \notin T => req[q].doc = store)'
    <3>1. \A q \in Calling' : q \notin T => q = r
      BY <2>7 DEF Calling
    <3>2. QED
      BY <1>1, <1>6, <3>1 DEF doc
  <2>13. (\A q \in Calling : req[q].op = "confirm" =>
                                req[q].doc.pledges[req[q].at].status = "Unpaid")'
    BY <1>8
  <2>14. QED
    BY <2>6, <2>10, <2>11, <2>12, <2>13 DEF KeptInv
<1>11. QED
  BY <1>9, <1>10

\* The payer's approval and the clock change no document and capture nothing.
LEMMA WorldKept ==
    ASSUME IInv, NEW S, NEW T, KeptInv(S), Observed(S, T),
           UNCHANGED <<store, req, redirected>>,
           NoCapture(payments, payments'), Settles(payments, payments')
    PROVE  KeptInv(T)'
<1>1. \A q \in Request : InProgress(q)' /\ q \notin T => q \notin S
  BY DEF Observed, Writes, InProgress
<1>2. Calling' = Calling /\ Asking' = Asking
  BY DEF Calling, InProgress, Asking
<1>3. Coming(T)' \subseteq Coming(S)
  BY <1>1 DEF Coming, Fresh, InProgress
<1>4. \A new \in Coming(S) : Covered(new, payments')
  BY StillCovered DEF KeptInv
<1>5. \A q \in Calling' : req'[q].op = "confirm" =>
         req'[q].doc.pledges[req'[q].at].status = "Unpaid"
  BY <1>2 DEF KeptInv
<1>6. \A q \in Calling' : q \notin T => req'[q].doc = store
  BY <1>1, <1>2 DEF KeptInv, Calling
<1>7. AcceptedPledgesKept'
  BY DEF KeptInv, AcceptedPledgesKept
<1>8. QED
  BY <1>2, <1>3, <1>4, <1>5, <1>6, <1>7, StoreStaysKept

(***************************************************************************)
(* The invariant and what follows from it                                  *)
(***************************************************************************)
LEMMA NextKept ==
    ASSUME IInv, NEW S, NEW T, KeptInv(S), Observed(S, T), [Next]_vars,
           \A q \in S : ~Writes(q)
    PROVE  KeptInv(T)'
<1>1. CASE \E r \in Request : Start(r)
  BY <1>1, StartKept
<1>2. CASE \E r \in Request : Work(r)
  BY <1>2, PledgeKept, ConfirmKept, RefundKept, CaptureKept, RewriteKept, SaveKept DEF Work
<1>3. CASE \E r \in Request : Abort(r)
  <2>1. PICK r \in Request : End(r) /\ UNCHANGED <<store, payments, redirected>>
    BY <1>3 DEF Abort
  <2>2. Settles(payments, payments') /\ \A new \in Coming(S) : Covered(new, payments')
    BY <2>1 DEF Settles, KeptInv
  <2>3. QED
    BY <2>1, <2>2, EndKept
<1>4. CASE \E k \in PayKey : Approve(k)
  <2>1. /\ UNCHANGED <<store, req, redirected>>
        /\ NoCapture(payments, payments') /\ Settles(payments, payments')
    BY <1>4 DEF Approve, NoCapture, Settles, IInv
  <2>2. QED
    BY <2>1, WorldKept
<1>5. CASE Tick \/ UNCHANGED vars
  <2>1. /\ UNCHANGED <<store, req, redirected>>
        /\ NoCapture(payments, payments') /\ Settles(payments, payments')
    BY <1>5 DEF Tick, vars, NoCapture, Settles
  <2>2. QED
    BY <2>1, WorldKept
<1>6. QED
  BY <1>1, <1>2, <1>3, <1>4, <1>5 DEF Next

LEMMA InitKept == ASSUME Init, NEW S PROVE KeptInv(S)
<1>1. /\ store.pledges = <<>> /\ redirected = {}
      /\ \A r \in Request : req[r] = NoSession
      /\ \A k \in PayKey : payments[k] # "executed"
  BY DEF Init
<1>2. Asking = {store} /\ Coming(S) = {store} /\ Calling = {}
  BY <1>1 DEF Asking, Coming, Calling, Fresh, InProgress
<1>3. Covered(store, payments) /\ Accounted(store, store, payments)
  BY <1>1, SameAccounted DEF Covered
<1>4. QED
  BY <1>1, <1>2, <1>3 DEF KeptInv, AcceptedPledgesKept

HistoryInv == lost \/ KeptInv(stale)

\* Until an update is lost nothing stale is saved, so the invariant is kept for what the
\* history calls stale.
LEMMA NextHistory ==
    ASSUME IInv, HistoryInv, [NextH]_varsH
    PROVE  /\ [Next]_vars
           /\ HistoryInv'
           /\ ~lost' => KeptInv(stale) /\ \A q \in stale : ~Writes(q)
<1>1. [Next]_vars
  BY DEF NextH, varsH, vars
<1>2. ~lost' => ~lost /\ \A q \in stale : ~Writes(q)
  BY DEF NextH, Observe, varsH, vars, Writes
<1>3. ASSUME ~lost' PROVE KeptInv(stale)'
  <2>1. PICK S, T : S = stale /\ T = stale'
    OBVIOUS
  <2>2. Observed(S, T)
    BY <2>1 DEF NextH, Observe, varsH, vars, Observed, Writes, InProgress
  <2>3. KeptInv(S)
    BY <1>2, <1>3, <2>1 DEF HistoryInv
  <2>4. KeptInv(T)'
    BY <1>1, <1>2, <1>3, <2>1, <2>2, <2>3, NextKept
  <2>5. QED
    BY <2>1, <2>4 DEF KeptInv, Coming, Fresh
<1>4. QED
  BY <1>1, <1>2, <1>3 DEF HistoryInv

LEMMA HistoryInvariance == SpecH => [](IInv /\ HistoryInv)
<1>1. InitH => IInv /\ HistoryInv
  <2>1. PICK S : S = stale
    OBVIOUS
  <2>2. InitH => KeptInv(S)
    BY InitKept DEF InitH
  <2>3. KeptInv(S) => KeptInv(stale)
    BY <2>1
  <2>4. QED
    BY <2>2, <2>3, InitIInv DEF InitH, HistoryInv
<1>2. IInv /\ HistoryInv /\ [NextH]_varsH => IInv' /\ HistoryInv'
  BY NextHistory, NextIInv
<1>3. QED
  BY <1>1, <1>2, PTL DEF SpecH

\* A payer who was sent to PayPal comes back to a pledge that is there, until an update
\* is lost, for any number of requests that overlap.
THEOREM PledgesKeptUntilLost == SpecH => []KeptUntilLost
<1>1. HistoryInv => KeptUntilLost
  BY DEF HistoryInv, KeptInv, KeptUntilLost
<1>2. QED
  BY <1>1, HistoryInvariance, PTL

\* Money PayPal captured can be given back by cancelling the event until an update is
\* lost, though sessions with old copies refund and capture meanwhile.
THEOREM MoneyRefundableUntilLost == SpecH => []RefundableUntilLost
<1>1. HistoryInv => RefundableUntilLost
  BY DEF HistoryInv, KeptInv, Coming, Covered, CapturedMoneyIsRefundable, RefundableUntilLost
<1>2. QED
  BY <1>1, HistoryInvariance, PTL

\* A step that loses no update revives no refunded pledge.
LEMMA RefundsKeptByNext ==
    ASSUME IInv, NEW S, KeptInv(S), [Next]_vars, \A q \in S : ~Writes(q)
    PROVE  RefundsKept
<1>1. CASE store' = store
  BY <1>1 DEF RefundsKept
<1>2. CASE store' # store
  <2>1. PICK r \in Request : /\ req[r] # NoSession /\ store' = req[r].doc
                             /\ req'[r] # req[r]
    BY <1>2, OnlySavesStore
  <2>2. req[r].doc \in Coming(S)
    BY <1>2, <2>1 DEF Writes, Coming, Fresh, InProgress
  <2>3. Follows(store', store)
    BY <2>1, <2>2 DEF KeptInv, Accounted, Asking
  <2>4. QED
    BY <2>3 DEF Follows, RefundsKept
<1>3. QED
  BY <1>1, <1>2

\* Until an update is lost no handler revives a refunded pledge.
THEOREM RefundsFinalUntilLost == SpecH => RefundFinalUntilLost
<1>1. IInv /\ HistoryInv /\ [NextH]_varsH => [lost' \/ RefundsKept]_varsH
  <2> SUFFICES ASSUME IInv, HistoryInv, [NextH]_varsH, ~lost'
               PROVE  RefundsKept
    OBVIOUS
  <2>1. PICK S : S = stale
    OBVIOUS
  <2>2. [Next]_vars /\ KeptInv(S) /\ \A q \in S : ~Writes(q)
    BY <2>1, NextHistory
  <2>3. QED
    BY <2>2, RefundsKeptByNext
<1>2. QED
  BY <1>1, HistoryInvariance, PTL DEF SpecH, RefundFinalUntilLost

\* The history restricts no behaviour of the sales.
LEMMA HistoryIsSales == SpecH => Spec
<1>1. InitH => Init
  BY DEF InitH
<1>2. [NextH]_varsH => [Next]_vars
  BY DEF NextH, varsH, vars
<1>3. QED
  BY <1>1, <1>2, PTL DEF SpecH, Spec

\* Until an update is lost a cancellation that gets through, refunding pledge by pledge
\* from its own copy, leaves no captured money, whatever was captured in the meantime.
THEOREM CancellationsReturnCaptured == SpecH => CancelReturnsCaptured
<1> DEFINE Cancelled == SavedAs("Cancelled", {"cancel", "delete"})
<1>1. [Cancelled => RetainedIndices(store') = {}]_vars /\ RefundableUntilLost' =>
         [Cancelled => lost' \/ \A k \in PayKey : payments'[k] # "executed"]_varsH
  <2> SUFFICES ASSUME Cancelled, ~lost', RefundableUntilLost',
                      [Cancelled => RetainedIndices(store') = {}]_vars
               PROVE  \A k \in PayKey : payments'[k] # "executed"
    OBVIOUS
  <2>1. store' # store
    BY DEF SavedAs
  <2>2. RetainedIndices(store') = {}
    BY <2>1 DEF vars
  <2>3. CapturedMoneyIsRefundable'
    BY DEF RefundableUntilLost
  <2>4. QED
    BY <2>2, <2>3 DEF CapturedMoneyIsRefundable, RetainedIndices
<1>2. QED
  BY <1>1, HistoryIsSales, CancelledKeepsNothing, MoneyRefundableUntilLost, PTL
     DEF CancelReturnsCaptured, CancelLeavesNothingRetained

(***************************************************************************)
(* Requests that do not overlap                                            *)
(***************************************************************************)
\* Nothing gets stale while there is one slot for requests.
LEMMA SerialObserved ==
    ASSUME Serial, IInv, [Next]_vars
    PROVE  Observed({}, {})
<1>1. CASE store' = store
  BY <1>1 DEF Observed
<1>2. CASE store' # store
  <2>1. PICK r \in Request : req'[r] # req[r]
    BY <1>2, OnlySavesStore
  <2>2. \A q \in Request : Writes(q)
    BY <1>2, <2>1 DEF Serial, Writes
  <2>3. QED
    BY <2>2 DEF Observed
<1>3. QED
  BY <1>1, <1>2

LEMMA SerialInvariance == ASSUME Serial PROVE Spec => [](IInv /\ KeptInv({}))
<1>1. Init => KeptInv({})
  BY InitKept
<1>2. IInv /\ KeptInv({}) /\ [Next]_vars => KeptInv({})'
  BY SerialObserved, NextKept
<1>3. QED
  BY <1>1, <1>2, InitIInv, NextIInv, PTL DEF Spec

\* While requests do not overlap a payer who was sent to PayPal comes back to a pledge
\* that is there.
THEOREM SerialKeepsPledges == ASSUME Serial PROVE Spec => []AcceptedPledgesKept
<1>1. KeptInv({}) => AcceptedPledgesKept
  BY DEF KeptInv
<1>2. QED
  BY <1>1, SerialInvariance, PTL

\* While requests do not overlap money PayPal captured can be given back by cancelling
\* the event, though the capture's answer was lost or the worker died before its save.
THEOREM SerialKeepsMoneyRefundable == ASSUME Serial PROVE Spec => []CapturedMoneyIsRefundable
<1>1. KeptInv({}) => CapturedMoneyIsRefundable
  BY DEF KeptInv, Coming, Covered, CapturedMoneyIsRefundable
<1>2. QED
  BY <1>1, SerialInvariance, PTL

\* While requests do not overlap no handler revives a refunded pledge.
THEOREM SerialRefundIsFinal == ASSUME Serial PROVE Spec => RefundIsFinal
<1>1. IInv /\ KeptInv({}) /\ [Next]_vars => [RefundsKept]_vars
  BY RefundsKeptByNext
<1>2. QED
  BY <1>1, SerialInvariance, PTL DEF Spec, RefundIsFinal
=============================================================================
