------------------------- MODULE EventSales_proofs -------------------------
(***************************************************************************)
(* Proofs about EventSales for any number of requests, keys, attendees and *)
(* settings, and whatever requests overlap.                                *)
(*                                                                         *)
(* A stale document can be written back at any time, so a document must be *)
(* good by itself: Good says so of the stored document and of the copy in  *)
(* every session.  The one fact about the world outside a document, that a *)
(* pending pledge was approved at PayPal, never stops being true: payments *)
(* only move on (Grows).                                                   *)
(***************************************************************************)
EXTENDS EventSales, FiniteSetTheorems, SequenceTheorems, TLAPS

Approved == {"approved", "executed", "failed", "refunded"}

\* Order numbers lie within the attendees counted so far, and are distinct.
Numbered(doc) ==
    /\ \A i \in DOMAIN doc.pledges : doc.pledges[i].order <= AttendeeCount(doc)
    /\ \A i, j \in DOMAIN doc.pledges :
          doc.pledges[i].order = doc.pledges[j].order => i = j

\* Paid and PaymentStatus agree.
Agreed(doc) ==
    \A i \in DOMAIN doc.pledges :
        doc.pledges[i].paid <=> doc.pledges[i].status \in Retained

\* Pending pledges were approved by their payers.
Backed(doc, pay) ==
    \A i \in DOMAIN doc.pledges :
        doc.pledges[i].status = "PaidPendingReconciliation" =>
            /\ doc.pledges[i].key \in PayKey
            /\ pay[doc.pledges[i].key] \in Approved

Good(doc, pay) ==
    doc \in Document /\ Numbered(doc) /\ Agreed(doc) /\ Backed(doc, pay)

\* Handlers that call PayPal once.
SingleCall == {"pledge", "confirm", "refund", "execute"}

\* What a handler found out about its pledge before it called PayPal.
Ready(s) ==
    /\ s.op \in SingleCall /\ s.step = "save" => s.op = "confirm"
    /\ s.op = "pledge" /\ s.step # "call" => s.doc.pledges # <<>>
    /\ s.op = "confirm" /\ s.step = "call" =>
          s.at \in DOMAIN s.doc.pledges /\ s.doc.pledges[s.at].key \in PayKey
    /\ s.op = "refund" /\ s.step = "call" => s.at \in DOMAIN s.doc.pledges
    /\ s.op = "execute" /\ s.step = "call" =>
          /\ s.at \in DOMAIN s.doc.pledges
          /\ s.doc.pledges[s.at].status = "PaidPendingReconciliation"

GoodSession(s, pay) == s \in Session /\ Good(s.doc, pay) /\ Ready(s)

IInv ==
    /\ Good(store, payments)
    /\ req \in [Request -> Session \cup {NoSession}]
    /\ \A r \in Request : req[r] # NoSession => GoodSession(req[r], payments)
    /\ payments \in [PayKey -> PaymentState]
    /\ redirected \subseteq PayKey
    /\ now \in 1..Horizon

\* Payments stay known to PayPal, and what was approved once stays approved or beyond.
Grows(pay, pay2) ==
    /\ pay2 \in [PayKey -> PaymentState]
    /\ \A k \in PayKey : pay[k] \in Approved => pay2[k] \in Approved

(***************************************************************************)
(* The document                                                            *)
(***************************************************************************)
\* The pledges of a document, one by one.
LEMMA DocumentParts ==
    ASSUME NEW doc \in Document
    PROVE  /\ doc.pledges \in Seq(Pledge)
           /\ Len(doc.pledges) \in Nat
           /\ DOMAIN doc.pledges = 1..Len(doc.pledges)
           /\ \A i \in DOMAIN doc.pledges :
                 /\ doc.pledges[i] \in Pledge
                 /\ doc.pledges[i].order \in Nat
                 /\ doc.pledges[i].key \in PayKey \cup {NoKey}
                 /\ doc.pledges[i].attendees \subseteq Attendee
                 /\ doc.pledges[i].status \in Statuses
                 /\ doc.pledges[i].paid \in BOOLEAN
<1>1. doc.pledges \in Seq(Pledge)
  BY DEF Document
<1>2. Len(doc.pledges) \in Nat /\ DOMAIN doc.pledges = 1..Len(doc.pledges)
  BY <1>1
<1>3. \A i \in 1..Len(doc.pledges) : doc.pledges[i] \in Pledge
  BY <1>1
<1>4. QED
  BY <1>1, <1>2, <1>3 DEF Pledge

\* Attendees are counted over a finite set.
LEMMA AttendeesFinite ==
    ASSUME NEW doc \in Document
    PROVE  /\ AttendeesOf(doc) \subseteq Attendee
           /\ IsFiniteSet(AttendeesOf(doc))
           /\ AttendeeCount(doc) \in Nat
<1>1. AttendeesOf(doc) \subseteq Attendee
  BY DocumentParts DEF AttendeesOf
<1>2. IsFiniteSet(AttendeesOf(doc))
  BY <1>1, FS_Subset, ConstantsAssumption
<1>3. QED
  BY <1>1, <1>2, FS_CardinalityType DEF AttendeeCount

\* A later state of PayPal backs what an earlier one backed.
LEMMA GrowsKeepsGood ==
    ASSUME NEW doc, NEW pay, NEW pay2, Good(doc, pay), Grows(pay, pay2)
    PROVE  Good(doc, pay2)
BY DEF Good, Backed, Grows

\* A pledge found again by its own order number is the same pledge.
LEMMA FoundAgain ==
    ASSUME NEW doc, NEW pay, Good(doc, pay), NEW i \in DOMAIN doc.pledges
    PROVE  FirstByOrder(doc, doc.pledges[i].order) = i
<1> DEFINE n == doc.pledges[i].order
           P(x) == /\ doc.pledges[x].order = n
                   /\ \A j \in DOMAIN doc.pledges : doc.pledges[j].order = n => x <= j
<1>1. DOMAIN doc.pledges \subseteq Nat
  BY DocumentParts DEF Good
<1>2. \A j \in DOMAIN doc.pledges : doc.pledges[j].order = n => j = i
  BY DEF Good, Numbered
<1>3. P(i)
  BY <1>1, <1>2
<1>4. \A x \in DOMAIN doc.pledges : P(x) => x = i
  BY <1>2
<1>5. QED
  BY <1>3, <1>4 DEF FirstByOrder

\* Changing status and paid of a pledge keeps every order number and attendee.
LEMMA SetStatusGood ==
    ASSUME NEW doc, NEW pay, Good(doc, pay), NEW i \in DOMAIN doc.pledges,
           NEW s \in Statuses, NEW p \in BOOLEAN,
           p <=> s \in Retained,
           s = "PaidPendingReconciliation" =>
               doc.pledges[i].key \in PayKey /\ pay[doc.pledges[i].key] \in Approved
    PROVE  Good(SetStatus(doc, i, s, p), pay)
<1> DEFINE new == SetStatus(doc, i, s, p)
           pledge == [doc.pledges[i] EXCEPT !.status = s, !.paid = p]
<1>1. doc \in Document
  BY DEF Good
<1>2. /\ pledge \in Pledge
      /\ pledge.order = doc.pledges[i].order
      /\ pledge.key = doc.pledges[i].key
      /\ pledge.attendees = doc.pledges[i].attendees
      /\ pledge.status = s
      /\ pledge.paid = p
  BY <1>1, DocumentParts DEF Pledge
<1>3. new = [doc EXCEPT !.pledges = [doc.pledges EXCEPT ![i] = pledge]]
  BY DEF SetStatus
<1>4. new.pledges = [doc.pledges EXCEPT ![i] = pledge]
  BY <1>1, <1>3 DEF Document
<1>5. new \in Document
  <2>1. new.pledges \in Seq(Pledge)
    BY <1>1, <1>2, <1>4, DocumentParts, ExceptSeq
  <2>2. QED
    BY <1>1, <1>3, <1>4, <2>1 DEF Document
<1>6. /\ DOMAIN new.pledges = DOMAIN doc.pledges
      /\ new.pledges[i] = pledge
      /\ \A j \in DOMAIN doc.pledges : j # i => new.pledges[j] = doc.pledges[j]
  BY <1>4
<1>7. \A j \in DOMAIN doc.pledges :
          /\ new.pledges[j].order = doc.pledges[j].order
          /\ new.pledges[j].attendees = doc.pledges[j].attendees
  BY <1>2, <1>6
<1>8. AttendeeCount(new) = AttendeeCount(doc)
  <2>1. AttendeesOf(new) = AttendeesOf(doc)
    BY <1>6, <1>7 DEF AttendeesOf
  <2>2. QED
    BY <2>1 DEF AttendeeCount
<1>9. Numbered(new)
  BY <1>6, <1>7, <1>8 DEF Good, Numbered
<1>10. /\ new.pledges[i].key = doc.pledges[i].key
       /\ new.pledges[i].status = s
       /\ new.pledges[i].paid = p
  BY <1>2, <1>6
<1> HIDE DEF new, pledge
<1>11. Agreed(new)
  BY <1>6, <1>10 DEF Good, Agreed
<1>12. Backed(new, pay)
  BY <1>6, <1>10 DEF Good, Backed
<1>13. QED
  BY <1>5, <1>9, <1>11, <1>12 DEF Good, new

\* A refunded pledge is neither paid nor pending.
LEMMA MarkRefundedGood ==
    ASSUME NEW doc, NEW pay, Good(doc, pay), NEW i \in DOMAIN doc.pledges
    PROVE  Good(MarkRefunded(doc, i), pay)
BY SetStatusGood DEF MarkRefunded, Statuses, Retained

\* Only a pending pledge, which counts as paid, is captured.
LEMMA MarkReconciledGood ==
    ASSUME NEW doc, NEW pay, Good(doc, pay), NEW i \in DOMAIN doc.pledges,
           doc.pledges[i].status = "PaidPendingReconciliation"
    PROVE  Good(MarkReconciled(doc, i), pay)
<1>1. doc.pledges[i].paid = TRUE
  BY DocumentParts DEF Good, Agreed, Retained
<1>2. QED
  BY <1>1, SetStatusGood DEF MarkReconciled, Statuses, Retained

\* The settings and the state are not looked at by the invariant.
LEMMA RewriteGood ==
    ASSUME NEW doc, NEW pay, Good(doc, pay), NEW new \in Document,
           new.pledges = doc.pledges
    PROVE  Good(new, pay)
BY DEF Good, Numbered, Agreed, Backed, AttendeeCount, AttendeesOf

\* The forms a handler can give to the state and the settings.
LEMMA Rewrites ==
    ASSUME NEW doc \in Document, NEW st \in States, NEW set \in Settings
    PROVE  /\ [doc EXCEPT !.state = st] \in Document
           /\ [doc EXCEPT !.state = st].pledges = doc.pledges
           /\ [doc EXCEPT !.settings = set, !.state = st] \in Document
           /\ [doc EXCEPT !.settings = set, !.state = st].pledges = doc.pledges
BY DEF Document

\* A party of new attendees makes the next order number larger than any before.
LEMMA AddPledgeGood ==
    ASSUME NEW doc, NEW pay, Good(doc, pay), NEW k \in PayKey \cup {NoKey},
           NEW names \in SUBSET (Attendee \ AttendeesOf(doc)), names # {}
    PROVE  Good(AddPledge(doc, k, names), pay) /\ AddPledge(doc, k, names).pledges # <<>>
<1> DEFINE new == AddPledge(doc, k, names)
           len == Len(doc.pledges)
           pledge == [order |-> NextOrderNumber(doc), key |-> k, attendees |-> names,
                      status |-> "Unpaid", paid |-> FALSE]
<1>1. doc \in Document
  BY DEF Good
<1>2. pledge \in Pledge
  BY <1>1, AttendeesFinite DEF Pledge, NextOrderNumber, Statuses
<1>3. new.pledges = Append(doc.pledges, pledge)
  BY <1>1 DEF AddPledge, Document
<1>4. /\ new.pledges \in Seq(Pledge)
      /\ new.pledges # <<>>
      /\ Len(new.pledges) = len + 1
      /\ \A i \in 1..len : new.pledges[i] = doc.pledges[i]
      /\ new.pledges[len + 1] = pledge
  BY <1>1, <1>2, <1>3, DocumentParts, AppendProperties
<1>5. new \in Document
  BY <1>1, <1>3, <1>4 DEF AddPledge, Document
<1>6. len \in Nat /\ DOMAIN doc.pledges = 1..len /\ DOMAIN new.pledges = 1..(len + 1)
  BY <1>1, <1>4, <1>5, DocumentParts
<1>7. /\ pledge.order = AttendeeCount(doc) + 1 /\ pledge.attendees = names
      /\ pledge.status = "Unpaid" /\ pledge.paid = FALSE /\ pledge.key = k
  BY DEF NextOrderNumber
<1> HIDE DEF new, pledge, len
<1>8. AttendeeCount(new) >= AttendeeCount(doc) + 1
  <2>1. AttendeesOf(new) = AttendeesOf(doc) \cup names
    <3>1. DOMAIN new.pledges = (DOMAIN doc.pledges) \cup {len + 1}
      BY <1>6
    <3>2. AttendeesOf(new) = (UNION {new.pledges[i].attendees : i \in DOMAIN doc.pledges})
                                 \cup new.pledges[len + 1].attendees
      BY <3>1 DEF AttendeesOf
    <3>3. \A i \in DOMAIN doc.pledges : new.pledges[i] = doc.pledges[i]
      BY <1>4, <1>6
    <3>4. QED
      BY <1>4, <1>7, <3>2, <3>3 DEF AttendeesOf
  <2>2. IsFiniteSet(names) /\ Cardinality(names) \in Nat /\ Cardinality(names) # 0
    BY FS_Subset, FS_EmptySet, FS_CardinalityType, ConstantsAssumption
  <2>3. AttendeesOf(doc) \cap names = {}
    OBVIOUS
  <2>4. Cardinality(AttendeesOf(new))
            = Cardinality(AttendeesOf(doc)) + Cardinality(names) - 0
    BY <1>1, <2>1, <2>2, <2>3, AttendeesFinite, FS_Union, FS_EmptySet
  <2>5. QED
    BY <1>1, <2>2, <2>4, AttendeesFinite DEF AttendeeCount
<1>9. Numbered(new)
  <2>1. \A i \in 1..len : /\ new.pledges[i].order \in Nat
                          /\ new.pledges[i].order <= AttendeeCount(doc)
    BY <1>1, <1>4, <1>6, DocumentParts DEF Good, Numbered
  <2>2. new.pledges[len + 1].order = AttendeeCount(doc) + 1
    BY <1>4, <1>7
  <2>3. AttendeeCount(doc) \in Nat /\ AttendeeCount(new) \in Nat
    BY <1>1, <1>5, AttendeesFinite
  <2>4. ASSUME NEW i \in DOMAIN new.pledges
        PROVE  new.pledges[i].order <= AttendeeCount(new)
    <3>1. i \in 1..len \/ i = len + 1
      BY <1>6
    <3>2. CASE i \in 1..len
      BY <1>8, <2>1, <2>3, <3>2
    <3>3. CASE i = len + 1
      BY <1>8, <2>2, <2>3, <3>3
    <3>4. QED
      BY <3>1, <3>2, <3>3
  <2>5. \A i, j \in 1..len : new.pledges[i].order = new.pledges[j].order => i = j
    BY <1>4, <1>6 DEF Good, Numbered
  <2>6. ASSUME NEW i \in 1..len
        PROVE  new.pledges[i].order # new.pledges[len + 1].order
    BY <2>1, <2>2, <2>3
  <2>7. ASSUME NEW i \in DOMAIN new.pledges, NEW j \in DOMAIN new.pledges,
               new.pledges[i].order = new.pledges[j].order
        PROVE  i = j
    <3>1. (i \in 1..len \/ i = len + 1) /\ (j \in 1..len \/ j = len + 1)
      BY <1>6
    <3>2. QED
      BY <2>5, <2>6, <2>7, <3>1
  <2>8. QED
    BY <2>4, <2>7 DEF Numbered
<1>10. Agreed(new)
  <2>1. \A i \in 1..len : new.pledges[i].paid <=> new.pledges[i].status \in Retained
    BY <1>4, <1>6 DEF Good, Agreed
  <2>2. new.pledges[len + 1].paid <=> new.pledges[len + 1].status \in Retained
    BY <1>4, <1>7 DEF Retained
  <2>3. QED
    BY <1>6, <2>1, <2>2 DEF Agreed
<1>11. Backed(new, pay)
  BY <1>4, <1>6, <1>7 DEF Good, Backed
<1>12. QED
  BY <1>4, <1>5, <1>9, <1>10, <1>11 DEF Good, new

(***************************************************************************)
(* Sessions                                                                *)
(***************************************************************************)
\* A session that begins copies the store, which is good.
LEMMA BeginKeepsIInv ==
    ASSUME IInv, NEW r \in Request, NEW h \in AllHandlers, NEW i \in Nat, Begin(r, h, i),
           h = "confirm" =>
               i \in DOMAIN store.pledges /\ store.pledges[i].key \in PayKey,
           h = "refund" => i \in DOMAIN store.pledges,
           h = "execute" =>
               /\ i \in DOMAIN store.pledges
               /\ store.pledges[i].status = "PaidPendingReconciliation"
    PROVE  IInv'
<1> DEFINE new == [op |-> h, step |-> "call", doc |-> store, at |-> i]
<1>1. new \in Session
  BY DEF IInv, Good, Session
<1>2. GoodSession(new, payments)
  BY <1>1 DEF GoodSession, IInv, Ready
<1>3. req' = [req EXCEPT ![r] = new]
      /\ UNCHANGED <<store, payments, redirected, now>>
  BY DEF Begin
<1> HIDE DEF new
<1>4. req' \in [Request -> Session \cup {NoSession}]
  BY <1>1, <1>3 DEF IInv
<1>5. \A q \in Request : req'[q] # NoSession => GoodSession(req'[q], payments)
  BY <1>2, <1>3 DEF IInv
<1>6. QED
  BY <1>3, <1>4, <1>5 DEF IInv

\* A session goes on with a good document while payments grow; the others keep theirs.
LEMMA ContinueKeepsIInv ==
    ASSUME IInv, NEW r \in Request, req[r] # NoSession,
           NEW s \in {"call", "save", "last"}, NEW doc, NEW i \in Nat,
           Continue(r, s, doc, i),
           Grows(payments, payments'),
           Good(doc, payments'),
           req[r].op = "pledge" => doc.pledges # <<>>,
           req[r].op \in SingleCall => s = "last" \/ (s = "save" /\ req[r].op = "confirm"),
           Good(store', payments'),
           redirected' \subseteq PayKey,
           UNCHANGED now
    PROVE  IInv'
<1> DEFINE new == [req[r] EXCEPT !.step = s, !.doc = doc, !.at = i]
<1>1. GoodSession(req[r], payments)
  BY DEF IInv
<1>2. /\ new \in Session
      /\ new.op = req[r].op /\ new.step = s /\ new.doc = doc /\ new.at = i
  BY <1>1 DEF GoodSession, Session, Good
<1>3. GoodSession(new, payments')
  BY <1>2 DEF GoodSession, Ready, SingleCall
<1>4. req' = [req EXCEPT ![r] = new]
  BY DEF Continue
<1> HIDE DEF new
<1>5. req' \in [Request -> Session \cup {NoSession}]
  BY <1>2, <1>4 DEF IInv
<1>6. \A q \in Request : req'[q] # NoSession => GoodSession(req'[q], payments')
  <2> SUFFICES ASSUME NEW q \in Request, req'[q] # NoSession
               PROVE  GoodSession(req'[q], payments')
    OBVIOUS
  <2>1. CASE q = r
    BY <2>1, <1>3, <1>4 DEF IInv
  <2>2. CASE q # r
    <3>1. req'[q] = req[q] /\ GoodSession(req[q], payments)
      BY <2>2, <1>4 DEF IInv
    <3>2. QED
      BY <3>1, GrowsKeepsGood DEF GoodSession
  <2>3. QED
    BY <2>1, <2>2
<1>7. payments' \in [PayKey -> PaymentState] /\ now' \in 1..Horizon
  BY DEF Grows, IInv
<1>8. QED
  BY <1>5, <1>6, <1>7 DEF IInv

\* A session ends while payments grow.
LEMMA EndKeepsIInv ==
    ASSUME IInv, NEW r \in Request, End(r),
           Grows(payments, payments'),
           Good(store', payments'),
           redirected' \subseteq PayKey,
           UNCHANGED now
    PROVE  IInv'
<1>1. req' \in [Request -> Session \cup {NoSession}]
  BY DEF IInv, End
<1>2. \A q \in Request : req'[q] # NoSession => GoodSession(req'[q], payments')
  <2> SUFFICES ASSUME NEW q \in Request, req'[q] # NoSession
               PROVE  GoodSession(req'[q], payments')
    OBVIOUS
  <2>1. req'[q] = req[q] /\ GoodSession(req[q], payments)
    BY DEF IInv, End
  <2>2. QED
    BY <2>1, GrowsKeepsGood DEF GoodSession
<1>3. payments' \in [PayKey -> PaymentState] /\ now' \in 1..Horizon
  BY DEF Grows, IInv
<1>4. QED
  BY <1>1, <1>2, <1>3 DEF IInv

\* Payments that do not change grow.
LEMMA StillGrows ==
    ASSUME IInv, UNCHANGED payments
    PROVE  Grows(payments, payments')
BY DEF Grows, IInv

\* The document of a session in a call, and what its handler knows about it.
LEMMA InCallGood ==
    ASSUME IInv, NEW r \in Request, NEW ops, InCall(r, ops)
    PROVE  /\ req[r] # NoSession
           /\ req[r].op \in ops
           /\ req[r].step = "call"
           /\ req[r].at \in Nat
           /\ req[r].op \in AllHandlers
           /\ Good(req[r].doc, payments)
           /\ Ready(req[r])
BY DEF IInv, InCall, GoodSession, Session

\* Whatever PayPal answers to a refund, payments grow.
LEMMA RefundGrows ==
    ASSUME IInv, NEW doc, NEW i,
           NEW out \in RefundOutcomes(payments[doc.pledges[i].key]),
           PayPalMoves(doc, i, out[2])
    PROVE  Grows(payments, payments')
<1> DEFINE k == doc.pledges[i].key
<1>1. payments' = [payments EXCEPT ![k] = out[2]]
  BY DEF PayPalMoves
<1>2. \/ out[2] = payments[k]
      \/ out[2] = "refunded" /\ payments[k] \in {"approved", "executed"}
  BY DEF RefundOutcomes
<1>3. QED
  BY <1>1, <1>2 DEF Grows, IInv, PaymentState, Approved

\* Whatever PayPal answers to a capture, payments grow.
LEMMA ExecuteGrows ==
    ASSUME IInv, NEW doc, NEW i,
           NEW out \in ExecuteOutcomes(payments[doc.pledges[i].key]),
           PayPalMoves(doc, i, out[2])
    PROVE  Grows(payments, payments')
<1> DEFINE k == doc.pledges[i].key
<1>1. payments' = [payments EXCEPT ![k] = out[2]]
  BY DEF PayPalMoves
<1>2. \/ out[2] = payments[k]
      \/ out[2] \in {"executed", "failed"} /\ payments[k] = "approved"
  BY DEF ExecuteOutcomes
<1>3. QED
  BY <1>1, <1>2 DEF Grows, IInv, PaymentState, Approved

(***************************************************************************)
(* One lemma per group of actions                                          *)
(***************************************************************************)
\* Every request begins with what its handler checks on the stored document.
LEMMA StartKeepsIInv ==
    ASSUME IInv, NEW r \in Request, Start(r)
    PROVE  IInv'
<1> USE DEF AllHandlers
<1>1. DOMAIN store.pledges \subseteq Nat
  BY DocumentParts DEF IInv, Good
<1>2. CASE BeginPledge(r)
  BY <1>2, BeginKeepsIInv DEF BeginPledge
<1>3. CASE BeginConfirm(r)
  BY <1>1, <1>3, BeginKeepsIInv DEF BeginConfirm, IInv
<1>4. CASE BeginRefund(r)
  BY <1>1, <1>4, BeginKeepsIInv DEF BeginRefund
<1>5. CASE BeginExecute(r)
  BY <1>1, <1>5, BeginKeepsIInv DEF BeginExecute
<1>6. CASE BeginActivate(r)
  BY <1>6, BeginKeepsIInv DEF BeginActivate
<1>7. CASE BeginCancel(r)
  BY <1>7, BeginKeepsIInv DEF BeginCancel
<1>8. CASE BeginDelete(r)
  BY <1>8, BeginKeepsIInv DEF BeginDelete
<1>9. CASE BeginForm(r)
  <2>1. PICK h \in {"edit", "adminEdit", "tickets", "upload"} : Begin(r, h, 0)
    BY <1>9 DEF BeginForm
  <2>2. QED
    BY <2>1, BeginKeepsIInv
<1>10. QED
  BY <1>2, <1>3, <1>4, <1>5, <1>6, <1>7, <1>8, <1>9 DEF Start

\* A new pledge, with a payment just created or without one.
LEMMA PledgeKeepsIInv ==
    ASSUME IInv, NEW r \in Request, CreatePayment(r) \/ CreatePaymentRefused(r)
    PROVE  IInv'
<1> DEFINE doc == req[r].doc
<1>1. /\ req[r] # NoSession /\ req[r].op = "pledge"
      /\ Good(doc, payments) /\ Good(store, payments)
  BY InCallGood DEF CreatePayment, CreatePaymentRefused, IInv
<1>2. \A names \in Party(doc) : names \in SUBSET (Attendee \ AttendeesOf(doc)) /\ names # {}
  BY DEF Party
<1>3. CASE CreatePayment(r)
  <2>1. PICK names \in Party(doc), k \in PayKey :
          /\ payments[k] = "none"
          /\ payments' = [payments EXCEPT ![k] = "created"]
          /\ Continue(r, "last", AddPledge(doc, k, names), 0)
    BY <1>3 DEF CreatePayment
  <2>2. Grows(payments, payments')
    BY <2>1 DEF Grows, IInv, PaymentState, Approved
  <2>3. Good(doc, payments') /\ Good(store', payments')
    BY <1>1, <1>3, <2>2, GrowsKeepsGood DEF CreatePayment
  <2>4. /\ Good(AddPledge(doc, k, names), payments')
        /\ AddPledge(doc, k, names).pledges # <<>>
    BY <1>2, <2>3, AddPledgeGood
  <2>5. UNCHANGED <<redirected, now>>
    BY <1>3 DEF CreatePayment
  <2> HIDE DEF doc
  <2>6. QED
    BY <1>1, <2>1, <2>2, <2>3, <2>4, <2>5, ContinueKeepsIInv DEF IInv
<1>4. CASE CreatePaymentRefused(r)
  <2>1. PICK names \in Party(doc) : Continue(r, "last", AddPledge(doc, NoKey, names), 0)
    BY <1>4 DEF CreatePaymentRefused
  <2>2. UNCHANGED <<store, payments, redirected, now>>
    BY <1>4 DEF CreatePaymentRefused
  <2>3. /\ Good(AddPledge(doc, NoKey, names), payments')
        /\ AddPledge(doc, NoKey, names).pledges # <<>>
    BY <1>1, <1>2, <2>2, AddPledgeGood
  <2> HIDE DEF doc
  <2>4. Grows(payments, payments')
    BY <2>2, StillGrows
  <2>5. QED
    BY <1>1, <2>1, <2>2, <2>3, <2>4, ContinueKeepsIInv DEF IInv
<1>5. QED
  BY <1>3, <1>4

\* Only an approved payment is INCOMPLETE, so a pledge that becomes pending is backed.
LEMMA ConfirmKeepsIInv ==
    ASSUME IInv, NEW r \in Request, RetrievePaymentDetails(r)
    PROVE  IInv'
<1> DEFINE doc == req[r].doc
           i == req[r].at
<1>1. /\ req[r] # NoSession /\ req[r].op = "confirm"
      /\ Good(doc, payments) /\ Good(store, payments)
      /\ i \in Nat /\ i \in DOMAIN doc.pledges /\ doc.pledges[i].key \in PayKey
  <2>1. InCall(r, {"confirm"})
    BY DEF RetrievePaymentDetails
  <2>2. /\ req[r] # NoSession /\ req[r].op = "confirm" /\ req[r].step = "call"
        /\ req[r].at \in Nat /\ Good(doc, payments) /\ Ready(req[r])
    BY <2>1, InCallGood
  <2>3. Good(store, payments)
    BY DEF IInv
  <2>4. QED
    BY <2>2, <2>3 DEF Ready
<1>2. PICK answer \in DetailsAnswers(payments[doc.pledges[i].key]), s \in {"save", "last"} :
         Continue(r, s, Confirmed(doc, i, answer), i)
  BY DEF RetrievePaymentDetails
<1>3. UNCHANGED <<store, payments, redirected, now>>
  BY DEF RetrievePaymentDetails
<1>4. answer = "INCOMPLETE" => payments[doc.pledges[i].key] = "approved"
  BY DEF DetailsAnswers
<1> HIDE DEF doc, i
<1>5. Good(Confirmed(doc, i, answer), payments)
  <2>1. CASE answer = "INCOMPLETE"
    BY <1>1, <1>4, <2>1, SetStatusGood DEF Confirmed, Statuses, Retained, Approved
  <2>2. CASE answer = "CREATED"
    BY <1>1, <2>2, SetStatusGood DEF Confirmed, Statuses, Retained
  <2>3. CASE answer \notin {"INCOMPLETE", "CREATED"}
    BY <1>1, <2>3 DEF Confirmed
  <2>4. QED
    BY <2>1, <2>2, <2>3
<1>6. Grows(payments, payments')
  BY <1>3, StillGrows
<1>7. QED
  BY <1>1, <1>2, <1>3, <1>5, <1>6, ContinueKeepsIInv DEF IInv, SingleCall

\* A refund, alone: PayPal may move the payment whatever becomes of the answer.
LEMMA RefundKeepsIInv ==
    ASSUME IInv, NEW r \in Request, RefundPledge(r)
    PROVE  IInv'
<1> DEFINE doc == req[r].doc
           i == req[r].at
<1>1. /\ req[r] # NoSession /\ req[r].op = "refund"
      /\ Good(doc, payments) /\ Good(store, payments)
      /\ i \in Nat /\ i \in DOMAIN doc.pledges
  <2>1. InCall(r, {"refund"})
    BY DEF RefundPledge
  <2>2. /\ req[r] # NoSession /\ req[r].op = "refund" /\ req[r].step = "call"
        /\ req[r].at \in Nat /\ Good(doc, payments) /\ Ready(req[r])
    BY <2>1, InCallGood
  <2>3. Good(store, payments)
    BY DEF IInv
  <2>4. QED
    BY <2>2, <2>3 DEF Ready
<1>2. Target(r, i) = i
  BY <1>1, FoundAgain DEF Target
<1>3. PICK out \in RefundOutcomes(payments[doc.pledges[i].key]) :
         /\ PayPalMoves(doc, i, out[2])
         /\ CASE out[1] = "success" -> Continue(r, "last", MarkRefunded(doc, i), i)
              [] out[1] = "lost"    -> End(r)
              [] OTHER              -> Continue(r, "last", doc, i)
  BY <1>2 DEF RefundPledge
<1>4. UNCHANGED <<store, redirected, now>>
  BY DEF RefundPledge
<1> HIDE DEF doc, i
<1>5. Grows(payments, payments')
  BY <1>3, RefundGrows
<1>6. Good(doc, payments') /\ Good(store', payments')
  BY <1>1, <1>4, <1>5, GrowsKeepsGood
<1>7. Good(MarkRefunded(doc, i), payments')
  BY <1>1, <1>6, MarkRefundedGood
<1>8. CASE out[1] = "success"
  BY <1>8, <1>1, <1>3, <1>4, <1>5, <1>6, <1>7, ContinueKeepsIInv DEF IInv
<1>9. CASE out[1] = "lost"
  BY <1>9, <1>3, <1>4, <1>5, <1>6, EndKeepsIInv DEF IInv
<1>10. CASE out[1] \notin {"success", "lost"}
  BY <1>10, <1>1, <1>3, <1>4, <1>5, <1>6, ContinueKeepsIInv DEF IInv
<1>11. QED
  BY <1>8, <1>9, <1>10

\* One turn of the cancelling loop.
LEMMA CancelRefundKeepsIInv ==
    ASSUME IInv, NEW r \in Request, CancelRefund(r)
    PROVE  IInv'
<1> DEFINE doc == req[r].doc
<1>1. /\ req[r] # NoSession /\ req[r].op \notin SingleCall /\ req[r].op # "pledge"
      /\ Good(doc, payments) /\ Good(store, payments)
      /\ DOMAIN doc.pledges \subseteq Nat
  BY InCallGood, DocumentParts DEF CancelRefund, IInv, Good, SingleCall
<1>2. PICK n \in RetainedFrom(doc, req[r].at) :
         \E out \in RefundOutcomes(payments[doc.pledges[Target(r, n)].key]) :
           /\ PayPalMoves(doc, Target(r, n), out[2])
           /\ CASE out[1] = "success" ->
                       Continue(r, "save", MarkRefunded(doc, Target(r, n)), n + 1)
                [] out[1] = "lost"    -> End(r)
                [] OTHER              -> Continue(r, "last", doc, n)
  BY DEF CancelRefund
<1>3. n \in DOMAIN doc.pledges /\ n \in Nat
  BY <1>1 DEF RetainedFrom, RetainedIndices
<1>4. Target(r, n) = n
  BY <1>1, <1>3, FoundAgain DEF Target
<1>5. UNCHANGED <<store, redirected, now>>
  BY DEF CancelRefund
<1>6. PICK out \in RefundOutcomes(payments[doc.pledges[n].key]) :
         /\ PayPalMoves(doc, n, out[2])
         /\ CASE out[1] = "success" ->
                     Continue(r, "save", MarkRefunded(doc, n), n + 1)
              [] out[1] = "lost"    -> End(r)
              [] OTHER              -> Continue(r, "last", doc, n)
  BY <1>2, <1>4
<1> HIDE DEF doc
<1>7. Grows(payments, payments')
  BY <1>6, RefundGrows
<1>8. Good(doc, payments') /\ Good(store', payments')
  BY <1>1, <1>5, <1>7, GrowsKeepsGood
<1>9. Good(MarkRefunded(doc, n), payments')
  BY <1>3, <1>8, MarkRefundedGood
<1>10. CASE out[1] = "success"
  BY <1>10, <1>1, <1>6, <1>3, <1>4, <1>5, <1>7, <1>8, <1>9, ContinueKeepsIInv DEF IInv
<1>11. CASE out[1] = "lost"
  BY <1>11, <1>6, <1>5, <1>7, <1>8, EndKeepsIInv DEF IInv
<1>12. CASE out[1] \notin {"success", "lost"}
  BY <1>12, <1>1, <1>6, <1>3, <1>5, <1>7, <1>8, ContinueKeepsIInv DEF IInv
<1>13. QED
  BY <1>10, <1>11, <1>12

\* A capture, alone.
LEMMA ExecuteKeepsIInv ==
    ASSUME IInv, NEW r \in Request, ExecutePayment(r)
    PROVE  IInv'
<1> DEFINE doc == req[r].doc
           i == req[r].at
<1>1. /\ req[r] # NoSession /\ req[r].op = "execute"
      /\ Good(doc, payments) /\ Good(store, payments)
      /\ i \in Nat /\ i \in DOMAIN doc.pledges
      /\ doc.pledges[i].status = "PaidPendingReconciliation"
  <2>1. InCall(r, {"execute"})
    BY DEF ExecutePayment
  <2>2. /\ req[r] # NoSession /\ req[r].op = "execute" /\ req[r].step = "call"
        /\ req[r].at \in Nat /\ Good(doc, payments) /\ Ready(req[r])
    BY <2>1, InCallGood
  <2>3. Good(store, payments)
    BY DEF IInv
  <2>4. QED
    BY <2>2, <2>3 DEF Ready
<1>2. Target(r, i) = i
  BY <1>1, FoundAgain DEF Target
<1>3. PICK out \in ExecuteOutcomes(payments[doc.pledges[i].key]) :
         /\ PayPalMoves(doc, i, out[2])
         /\ IF out[1] = "answered"
            THEN Continue(r, "last", MarkReconciled(doc, i), i)
            ELSE End(r)
  BY <1>2 DEF ExecutePayment
<1>4. UNCHANGED <<store, redirected, now>>
  BY DEF ExecutePayment
<1> HIDE DEF doc, i
<1>5. Grows(payments, payments')
  BY <1>3, ExecuteGrows
<1>6. Good(doc, payments') /\ Good(store', payments')
  BY <1>1, <1>4, <1>5, GrowsKeepsGood
<1>7. Good(MarkReconciled(doc, i), payments')
  BY <1>1, <1>6, MarkReconciledGood
<1>8. CASE out[1] = "answered"
  BY <1>8, <1>1, <1>3, <1>4, <1>5, <1>6, <1>7, ContinueKeepsIInv DEF IInv
<1>9. CASE out[1] # "answered"
  BY <1>9, <1>3, <1>4, <1>5, <1>6, EndKeepsIInv DEF IInv
<1>10. QED
  BY <1>8, <1>9

\* One turn of the activating loop.
LEMMA ActivateExecuteKeepsIInv ==
    ASSUME IInv, NEW r \in Request, ActivateExecute(r)
    PROVE  IInv'
<1> DEFINE doc == req[r].doc
<1>1. /\ req[r] # NoSession /\ req[r].op \notin SingleCall /\ req[r].op # "pledge"
      /\ Good(doc, payments) /\ Good(store, payments)
      /\ DOMAIN doc.pledges \subseteq Nat
  BY InCallGood, DocumentParts DEF ActivateExecute, IInv, Good, SingleCall
<1>2. PICK n \in PendingFrom(doc, req[r].at) :
         \E out \in ExecuteOutcomes(payments[doc.pledges[Target(r, n)].key]) :
           /\ PayPalMoves(doc, Target(r, n), out[2])
           /\ IF out[1] = "answered"
              THEN Continue(r, "save", MarkReconciled(doc, Target(r, n)), n + 1)
              ELSE Continue(r, "call", doc, n + 1)
  BY DEF ActivateExecute
<1>3. /\ n \in DOMAIN doc.pledges /\ n \in Nat
      /\ doc.pledges[n].status = "PaidPendingReconciliation"
  BY <1>1 DEF PendingFrom
<1>4. Target(r, n) = n
  BY <1>1, <1>3, FoundAgain DEF Target
<1>5. UNCHANGED <<store, redirected, now>>
  BY DEF ActivateExecute
<1>6. PICK out \in ExecuteOutcomes(payments[doc.pledges[n].key]) :
         /\ PayPalMoves(doc, n, out[2])
         /\ IF out[1] = "answered"
            THEN Continue(r, "save", MarkReconciled(doc, n), n + 1)
            ELSE Continue(r, "call", doc, n + 1)
  BY <1>2, <1>4
<1> HIDE DEF doc
<1>7. Grows(payments, payments')
  BY <1>6, ExecuteGrows
<1>8. Good(doc, payments') /\ Good(store', payments')
  BY <1>1, <1>5, <1>7, GrowsKeepsGood
<1>9. Good(MarkReconciled(doc, n), payments')
  BY <1>3, <1>8, MarkReconciledGood
<1>10. CASE out[1] = "answered"
  BY <1>10, <1>1, <1>6, <1>3, <1>4, <1>5, <1>7, <1>8, <1>9, ContinueKeepsIInv DEF IInv
<1>11. CASE out[1] # "answered"
  BY <1>11, <1>1, <1>6, <1>3, <1>5, <1>7, <1>8, ContinueKeepsIInv DEF IInv
<1>12. QED
  BY <1>10, <1>11

\* Handlers that change the state or the settings and leave the pledges alone.
LEMMA RewriteKeepsIInv ==
    ASSUME IInv, NEW r \in Request, req[r] # NoSession, req[r].op \notin SingleCall,
           NEW s \in {"save", "last"}, NEW i \in Nat,
           NEW new \in Document, new.pledges = req[r].doc.pledges,
           Continue(r, s, new, i),
           UNCHANGED <<store, payments, redirected, now>>
    PROVE  IInv'
<1>1. Good(req[r].doc, payments) /\ Good(store, payments)
  BY DEF IInv, GoodSession
<1>2. Good(new, payments)
  BY <1>1, RewriteGood
<1>3. Grows(payments, payments')
  BY StillGrows
<1>4. QED
  BY <1>1, <1>2, <1>3, ContinueKeepsIInv DEF IInv, SingleCall

\* The ends of the loops and the forms rewrite the state or the settings only.
LEMMA FormKeepsIInv ==
    ASSUME IInv, NEW r \in Request,
           \/ CancelDone(r) \/ MarkDeleted(r) \/ ActivateDone(r) \/ EditEvent(r)
           \/ EditEventDetails(r) \/ SetTicketDetails(r) \/ UploadEventImage(r)
    PROVE  IInv'
<1>1. PICK ops \in SUBSET (AllHandlers \ SingleCall) : InCall(r, ops)
  <2> USE DEF AllHandlers, SingleCall
  <2>1. CASE CancelDone(r)
    BY <2>1, {"cancel", "delete"} \subseteq AllHandlers \ SingleCall DEF CancelDone
  <2>2. CASE MarkDeleted(r)
    BY <2>2, {"delete"} \subseteq AllHandlers \ SingleCall DEF MarkDeleted
  <2>3. CASE ActivateDone(r)
    BY <2>3, {"activate"} \subseteq AllHandlers \ SingleCall DEF ActivateDone
  <2>4. CASE EditEvent(r)
    BY <2>4, {"edit"} \subseteq AllHandlers \ SingleCall DEF EditEvent
  <2>5. CASE EditEventDetails(r)
    BY <2>5, {"adminEdit"} \subseteq AllHandlers \ SingleCall DEF EditEventDetails
  <2>6. CASE SetTicketDetails(r)
    BY <2>6, {"tickets"} \subseteq AllHandlers \ SingleCall DEF SetTicketDetails
  <2>7. CASE UploadEventImage(r)
    BY <2>7, {"upload"} \subseteq AllHandlers \ SingleCall DEF UploadEventImage
  <2>8. QED
    BY <2>1, <2>2, <2>3, <2>4, <2>5, <2>6, <2>7
<1>2. /\ req[r] # NoSession /\ req[r].op \notin SingleCall
      /\ req[r].doc \in Document /\ req[r].at \in Nat
  BY <1>1, InCallGood DEF Good
<1>3. UNCHANGED <<store, payments, redirected, now>>
  BY DEF CancelDone, MarkDeleted, ActivateDone, EditEvent, EditEventDetails,
         SetTicketDetails, UploadEventImage
<1>4. {"Cancelled", "Deleted", "Activated", "SalesReady"} \subseteq States
  BY DEF States
<1>5. SUFFICES \E s \in {"save", "last"}, i \in Nat, new \in Document :
         new.pledges = req[r].doc.pledges /\ Continue(r, s, new, i)
  BY <1>2, <1>3, RewriteKeepsIInv
<1>6. CASE CancelDone(r)
  <2>1. PICK s \in {"save", "last"} :
           Continue(r, s, [req[r].doc EXCEPT !.state = "Cancelled"], req[r].at)
    BY <1>6 DEF CancelDone
  <2>2. QED
    BY <1>2, <1>4, <2>1, Rewrites, ConstantsAssumption
<1>7. CASE MarkDeleted(r)
  <2>1. Continue(r, "last", [req[r].doc EXCEPT !.state = "Deleted"], 0)
    BY <1>7 DEF MarkDeleted
  <2>2. QED
    BY <1>2, <1>4, <2>1, Rewrites, ConstantsAssumption
<1>8. CASE ActivateDone(r)
  <2>1. Continue(r, "last", [req[r].doc EXCEPT !.state = "Activated"], 0)
    BY <1>8 DEF ActivateDone
  <2>2. QED
    BY <1>2, <1>4, <2>1, Rewrites, ConstantsAssumption
<1>9. CASE EditEvent(r)
  <2>1. PICK set \in Settings : Continue(r, "last", Edited(req[r].doc, set), 0)
    BY <1>9 DEF EditEvent
  <2>2. StateAfterEdit(set) \in States
    BY DEF StateAfterEdit, States
  <2>3. Edited(req[r].doc, set) \in Document
        /\ Edited(req[r].doc, set).pledges = req[r].doc.pledges
    BY <1>2, <2>2, Rewrites DEF Edited
  <2>4. QED
    BY <2>1, <2>3
<1>10. CASE EditEventDetails(r)
  <2>1. PICK set \in Settings, st \in States :
           Continue(r, "last", [req[r].doc EXCEPT !.settings = set, !.state = st], 0)
    BY <1>10 DEF EditEventDetails
  <2>2. QED
    BY <1>2, <2>1, Rewrites
<1>11. CASE SetTicketDetails(r)
  <2>1. PICK set \in Settings :
           Continue(r, "last",
                    [req[r].doc EXCEPT !.settings = set, !.state = "SalesReady"], 0)
    BY <1>11 DEF SetTicketDetails
  <2>2. QED
    BY <1>2, <1>4, <2>1, Rewrites
<1>12. CASE UploadEventImage(r)
  BY <1>2, <1>12 DEF UploadEventImage
<1>13. QED
  BY <1>6, <1>7, <1>8, <1>9, <1>10, <1>11, <1>12

\* What is written is the good document of a session; a new pledge has a key to pay.
LEMMA SaveKeepsIInv ==
    ASSUME IInv, NEW r \in Request, SaveChanges(r)
    PROVE  IInv'
<1> DEFINE doc == req[r].doc
<1>1. /\ req[r] # NoSession /\ req[r].step \in {"save", "last"}
      /\ GoodSession(req[r], payments)
      /\ store' = doc
      /\ redirected' = redirected \cup PledgedKey(req[r])
      /\ UNCHANGED <<payments, now>>
  BY DEF SaveChanges, IInv
<1>2. Good(doc, payments) /\ req[r].at \in Nat
  BY <1>1 DEF GoodSession, Session
<1>3. redirected' \subseteq PayKey
  <2>1. PledgedKey(req[r]) \subseteq PayKey
    <3>1. CASE req[r].op = "pledge"
      <4>1. doc.pledges # <<>>
        BY <3>1, <1>1 DEF GoodSession, Ready
      <4>2. doc.pledges \in Seq(Pledge) /\ doc \in Document
        BY <1>2, DocumentParts DEF Good
      <4>3. Len(doc.pledges) \in DOMAIN doc.pledges
        BY <4>1, <4>2, EmptySeq, DocumentParts
      <4>4. QED
        BY <3>1, <4>2, <4>3, DocumentParts DEF PledgedKey
    <3>2. CASE req[r].op # "pledge"
      BY <3>2 DEF PledgedKey
    <3>3. QED
      BY <3>1, <3>2
  <2>2. QED
    BY <1>1, <2>1 DEF IInv
<1>4. Grows(payments, payments')
  BY <1>1, StillGrows
<1>5. Good(doc, payments') /\ Good(store', payments')
  BY <1>1, <1>2
<1>6. CASE req[r].step = "last"
  <2>1. End(r)
    BY <1>6 DEF SaveChanges
  <2>2. QED
    BY <1>1, <1>3, <1>4, <1>5, <2>1, EndKeepsIInv
<1>7. CASE req[r].step = "save"
  <2>1. PICK s \in {"call", "last"} : /\ Continue(r, s, doc, req[r].at)
                                      /\ req[r].op = "confirm" => s = "last"
    BY <1>7 DEF SaveChanges
  <2>2. req[r].op \notin SingleCall \ {"confirm"} /\ req[r].op # "pledge"
    BY <1>1, <1>7 DEF GoodSession, Ready, SingleCall
  <2> HIDE DEF doc
  <2>3. QED
    BY <1>1, <1>2, <1>3, <1>4, <1>5, <2>1, <2>2, ContinueKeepsIInv
<1>8. QED
  BY <1>1, <1>6, <1>7

\* The payer's approval, the clock and a session that is lost touch no document.
LEMMA WorldKeepsIInv ==
    ASSUME IInv, \/ \E r \in Request : Abort(r)
                 \/ \E k \in PayKey : Approve(k)
                 \/ Tick
    PROVE  IInv'
<1>1. CASE \E r \in Request : Abort(r)
  <2>1. PICK r \in Request : Abort(r)
    BY <1>1
  <2>2. End(r) /\ UNCHANGED <<store, payments, redirected, now>>
    BY <2>1 DEF Abort
  <2>3. QED
    BY <2>2, StillGrows, EndKeepsIInv DEF IInv
<1>2. CASE \E k \in PayKey : Approve(k)
  <2>1. PICK k \in PayKey : /\ payments[k] = "created"
                            /\ payments' = [payments EXCEPT ![k] = "approved"]
                            /\ UNCHANGED <<store, req, redirected, now>>
    BY <1>2 DEF Approve
  <2>2. Grows(payments, payments')
    BY <2>1 DEF Grows, IInv, PaymentState, Approved
  <2>3. \A q \in Request : req[q] # NoSession => GoodSession(req[q], payments')
    BY <2>2, GrowsKeepsGood DEF IInv, GoodSession
  <2>4. Good(store, payments')
    BY <2>2, GrowsKeepsGood DEF IInv
  <2>5. QED
    BY <2>1, <2>2, <2>3, <2>4 DEF IInv, Grows
<1>3. CASE Tick
  <2>1. now' \in 1..Horizon /\ UNCHANGED <<store, req, payments, redirected>>
    BY <1>3, ConstantsAssumption DEF Tick, IInv
  <2>2. QED
    BY <2>1 DEF IInv
<1>4. QED
  BY <1>1, <1>2, <1>3

\* Every step a request takes between its begin and its end.
LEMMA WorkKeepsIInv ==
    ASSUME IInv, NEW r \in Request, Work(r)
    PROVE  IInv'
<1>1. CASE CreatePayment(r) \/ CreatePaymentRefused(r)
  BY <1>1, PledgeKeepsIInv
<1>2. CASE RetrievePaymentDetails(r)
  BY <1>2, ConfirmKeepsIInv
<1>3. CASE RefundPledge(r)
  BY <1>3, RefundKeepsIInv
<1>4. CASE CancelRefund(r)
  BY <1>4, CancelRefundKeepsIInv
<1>5. CASE ExecutePayment(r)
  BY <1>5, ExecuteKeepsIInv
<1>6. CASE ActivateExecute(r)
  BY <1>6, ActivateExecuteKeepsIInv
<1>7. CASE \/ CancelDone(r) \/ MarkDeleted(r) \/ ActivateDone(r) \/ EditEvent(r)
           \/ EditEventDetails(r) \/ SetTicketDetails(r) \/ UploadEventImage(r)
  BY <1>7, FormKeepsIInv
<1>8. CASE SaveChanges(r)
  BY <1>8, SaveKeepsIInv
<1>9. QED
  BY <1>1, <1>2, <1>3, <1>4, <1>5, <1>6, <1>7, <1>8 DEF Work

(***************************************************************************)
(* The invariant                                                           *)
(***************************************************************************)
\* A fresh event has no pledges, and nobody is at work on it.
LEMMA InitIInv == Init => IInv
<1> SUFFICES ASSUME Init PROVE IInv
  OBVIOUS
<1>1. /\ store.state = "Creating" /\ store.settings = NewSettings
      /\ store.pledges = <<>>
      /\ store = [state |-> "Creating", settings |-> NewSettings, pledges |-> <<>>]
  BY DEF Init
<1>2. <<>> \in Seq(Pledge) /\ DOMAIN <<>> = {}
  OBVIOUS
<1>3. store \in Document
  BY <1>1, <1>2, ConstantsAssumption DEF Document, States
<1>4. Good(store, payments)
  BY <1>1, <1>2, <1>3 DEF Good, Numbered, Agreed, Backed
<1>5. QED
  BY <1>4, ConstantsAssumption DEF Init, IInv, PaymentState

\* Every step keeps the invariant.
LEMMA NextIInv == IInv /\ [Next]_vars => IInv'
<1> SUFFICES ASSUME IInv, [Next]_vars PROVE IInv'
  OBVIOUS
<1>1. CASE \E r \in Request : Start(r)
  BY <1>1, StartKeepsIInv
<1>2. CASE \E r \in Request : Work(r)
  BY <1>2, WorkKeepsIInv
<1>3. CASE \/ \E r \in Request : Abort(r)
           \/ \E k \in PayKey : Approve(k)
           \/ Tick
  BY <1>3, WorldKeepsIInv
<1>4. CASE UNCHANGED vars
  BY <1>4 DEF vars, IInv, GoodSession, Good, Backed, Ready
<1>5. QED
  BY <1>1, <1>2, <1>3, <1>4 DEF Next

\* The invariant holds of every run.
THEOREM Invariance == Spec => []IInv
<1>1. QED
  BY InitIInv, NextIInv, PTL DEF Spec

\* Every variable keeps its kind, whatever requests overlap and whatever PayPal answers.
THEOREM TypeCorrect == Spec => []TypeOK
<1>1. IInv => TypeOK
  BY DEF IInv, Good, TypeOK
<1>2. QED
  BY <1>1, Invariance, PTL

\* OrderNumberGenerator never gives a number twice that is still in the document, however
\* many requests save however old copies of it.
THEOREM OrderNumbersNeverRepeat == Spec => []OrderNumbersUnique
<1>1. IInv => OrderNumbersUnique
  BY DEF IInv, Good, Numbered, OrderNumbersUnique
<1>2. QED
  BY <1>1, Invariance, PTL

\* A pledge that ExecutePaymentAction may capture has been approved by its payer.
THEOREM PendingStaysApproved == Spec => []PendingIsApproved
<1>1. IInv => PendingIsApproved
  BY DEF IInv, Good, Backed, Approved, PendingIsApproved
<1>2. QED
  BY <1>1, Invariance, PTL

\* The two flags of a pledge agree in every document that is ever saved.
THEOREM PaidAgreesWithStatus == Spec => []PaidMatchesStatus
<1>1. IInv => PaidMatchesStatus
  BY DEF IInv, Good, Agreed, PaidMatchesStatus
<1>2. QED
  BY <1>1, Invariance, PTL
=============================================================================
