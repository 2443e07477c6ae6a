---------------------- MODULE EventSalesLedger_proofs ----------------------
(***************************************************************************)
(* EventSales implements PledgeLedger while requests do not overlap, and a *)
(* ledger whose books may follow late until an update is lost.             *)
(*                                                                         *)
(* A step either moves the money of one payment and leaves the store       *)
(* alone, or saves a document.  What a session is about to save is entered *)
(* into its copy before, so an invariant says that the copy is one entry   *)
(* of the ledger ahead of the store (Ahead), with the money as it is now.  *)
(* Another session may have given that money back meanwhile, but it cannot *)
(* have taken it: it asks PayPal with a document that is accounted for.    *)
(*                                                                         *)
(* L is where a payment may have gone on to: {} when requests do not       *)
(* overlap, else {"refunded"}.                                             *)
(***************************************************************************)
EXTENDS EventSalesHistory_proofs

\* Pledges with a key of PayPal's have it for themselves.
Distinct(doc) ==
    \A i, j \in DOMAIN doc.pledges :
        doc.pledges[i].key = doc.pledges[j].key /\ doc.pledges[i].key \in PayKey => i = j

\* PayPal issued every key of a document.
Issued(doc, pay) ==
    \A i \in DOMAIN doc.pledges :
        doc.pledges[i].key \in PayKey => pay[doc.pledges[i].key] # "none"

Keyed(doc, pay) == Distinct(doc) /\ Issued(doc, pay)

\* What the ledger allows the entry of one payment to become.
Allowed(old, new, payment, L) ==
    \/ old = "none" /\ new = "pledged" /\ payment = "created"
    \/ old = "pledged" /\ new = "pending" /\ payment \in {"approved"} \cup L
    \/ old = "pledged" /\ new = "settled" /\ payment \in {"created", "approved"} \cup L
    \/ old = "pending" /\ new = "settled" /\ payment \in {"executed", "failed"} \cup L
    \/ old \in {"pledged", "pending", "settled"} /\ new = "refunded" /\ payment # "executed"

SameEntries(new, old) == \A k \in PayKey : Entry(new, k) = Entry(old, k)

OneEntry(new, old, pay, k, L) ==
    /\ Allowed(Entry(old, k), Entry(new, k), pay[k], L)
    /\ \A x \in PayKey : x # k => Entry(new, x) = Entry(old, x)

\* A document is at most one entry of the ledger ahead of another.
Ahead(new, old, pay, L) ==
    SameEntries(new, old) \/ \E k \in PayKey : OneEntry(new, old, pay, k, L)

KeyInv(S, L) ==
    /\ Keyed(store, payments)
    /\ \A k \in PayKey : payments[k] \in Approved => k \in redirected
    /\ \A r \in Request : InProgress(r) => Keyed(req[r].doc, payments)
    /\ \A r \in Fresh(S) : Ahead(req[r].doc, store, payments, L)

\* The books follow the money at once only when requests do not overlap.
Lateness(L) == L = {"refunded"} \/ (L = {} /\ Serial)

\* PayPal never takes a key back.
Issues(pay, pay2) == \A k \in PayKey : pay[k] # "none" => pay2[k] # "none"

(***************************************************************************)
(* Entries                                                                 *)
(***************************************************************************)
\* The entry of a key is that of the one pledge that has it.
LEMMA EntryOfPledge ==
    ASSUME NEW doc, Distinct(doc), NEW i \in DOMAIN doc.pledges, doc.pledges[i].key \in PayKey
    PROVE  Entry(doc, doc.pledges[i].key) = EntryOf(doc.pledges[i].status)
<1> DEFINE k == doc.pledges[i].key
           c == CHOOSE j \in DOMAIN doc.pledges : doc.pledges[j].key = k
<1>1. c \in DOMAIN doc.pledges /\ doc.pledges[c].key = k
  OBVIOUS
<1>2. c = i
  BY <1>1 DEF Distinct
<1>3. QED
  BY <1>2 DEF Entry

\* A key that no pledge has, has no entry.
LEMMA NoEntry ==
    ASSUME NEW doc, NEW k, \A i \in DOMAIN doc.pledges : doc.pledges[i].key # k
    PROVE  Entry(doc, k) = "none"
BY DEF Entry

\* Documents with the same pledges have the same entries.
LEMMA SamePledges ==
    ASSUME NEW doc, NEW new, NEW pay, new.pledges = doc.pledges, Keyed(doc, pay)
    PROVE  SameEntries(new, doc) /\ Keyed(new, pay)
BY DEF SameEntries, Entry, Keyed, Distinct, Issued

\* Pledges that agree on a key's pledge agree on its entry.
LEMMA EntryMoves ==
    ASSUME NEW doc, NEW new, Distinct(doc), Distinct(new), NEW k \in PayKey,
           \A i \in DOMAIN doc.pledges : doc.pledges[i].key = k =>
               /\ i \in DOMAIN new.pledges
               /\ new.pledges[i] = doc.pledges[i],
           \A i \in DOMAIN new.pledges : new.pledges[i].key = k =>
               i \in DOMAIN doc.pledges /\ doc.pledges[i].key = k
    PROVE  Entry(new, k) = Entry(doc, k)
<1>1. CASE \E i \in DOMAIN doc.pledges : doc.pledges[i].key = k
  <2>1. PICK i \in DOMAIN doc.pledges : doc.pledges[i].key = k
    BY <1>1
  <2>2. i \in DOMAIN new.pledges /\ new.pledges[i] = doc.pledges[i]
    BY <2>1
  <2>3. Entry(doc, k) = EntryOf(doc.pledges[i].status)
    BY <2>1, EntryOfPledge
  <2>4. Entry(new, k) = EntryOf(new.pledges[i].status)
    BY <2>1, <2>2, EntryOfPledge
  <2>5. QED
    BY <2>2, <2>3, <2>4
<1>2. CASE \A i \in DOMAIN doc.pledges : doc.pledges[i].key # k
  <2>1. \A i \in DOMAIN new.pledges : new.pledges[i].key # k
    BY <1>2
  <2>2. QED
    BY <1>2, <2>1, NoEntry
<1>3. QED
  BY <1>1, <1>2

\* A changed status changes the entry of that pledge only.
LEMMA SetStatusEntry ==
    ASSUME NEW doc \in Document, NEW pay, Keyed(doc, pay), NEW i \in DOMAIN doc.pledges,
           NEW s \in Statuses, NEW p \in BOOLEAN
    PROVE  /\ Keyed(SetStatus(doc, i, s, p), pay)
           /\ \A k \in PayKey : k # doc.pledges[i].key =>
                 Entry(SetStatus(doc, i, s, p), k) = Entry(doc, k)
           /\ doc.pledges[i].key \in PayKey =>
                 Entry(SetStatus(doc, i, s, p), doc.pledges[i].key) = EntryOf(s)
<1> DEFINE new == SetStatus(doc, i, s, p)
<1>1. /\ DOMAIN new.pledges = DOMAIN doc.pledges
      /\ \A j \in DOMAIN doc.pledges : j # i => new.pledges[j] = doc.pledges[j]
      /\ new.pledges[i].key = doc.pledges[i].key
      /\ new.pledges[i].status = s
  BY SetStatusParts
<1> HIDE DEF new
<1>2. \A j \in DOMAIN doc.pledges : new.pledges[j].key = doc.pledges[j].key
  BY <1>1
<1>3. Keyed(new, pay)
  BY <1>1, <1>2 DEF Keyed, Distinct, Issued
<1>4. \A k \in PayKey : k # doc.pledges[i].key => Entry(new, k) = Entry(doc, k)
  <2> TAKE k \in PayKey
  <2> HAVE k # doc.pledges[i].key
  <2>1. \A j \in DOMAIN doc.pledges : doc.pledges[j].key = k =>
            j \in DOMAIN new.pledges /\ new.pledges[j] = doc.pledges[j]
    BY <1>1
  <2>2. \A j \in DOMAIN new.pledges : new.pledges[j].key = k =>
            j \in DOMAIN doc.pledges /\ doc.pledges[j].key = k
    BY <1>1, <1>2
  <2>3. QED
    BY <1>3, <2>1, <2>2, EntryMoves DEF Keyed
<1>5. doc.pledges[i].key \in PayKey => Entry(new, doc.pledges[i].key) = EntryOf(s)
  BY <1>1, <1>3, EntryOfPledge DEF Keyed
<1>6. QED
  BY <1>3, <1>4, <1>5 DEF new

\* A changed status that the ledger allows is one entry ahead.
LEMMA SetStatusAhead ==
    ASSUME NEW L, NEW doc \in Document, NEW pay, Keyed(doc, pay), NEW i \in DOMAIN doc.pledges,
           NEW s \in Statuses, NEW p \in BOOLEAN,
           doc.pledges[i].key \in PayKey =>
               \/ doc.pledges[i].status = s
               \/ Allowed(EntryOf(doc.pledges[i].status), EntryOf(s), pay[doc.pledges[i].key], L)
    PROVE  /\ Keyed(SetStatus(doc, i, s, p), pay)
           /\ Ahead(SetStatus(doc, i, s, p), doc, pay, L)
<1> DEFINE new == SetStatus(doc, i, s, p)
           k == doc.pledges[i].key
<1>1. /\ Keyed(new, pay)
      /\ \A x \in PayKey : x # k => Entry(new, x) = Entry(doc, x)
      /\ k \in PayKey => Entry(new, k) = EntryOf(s)
  BY SetStatusEntry
<1>2. k \in PayKey => Entry(doc, k) = EntryOf(doc.pledges[i].status)
  BY EntryOfPledge DEF Keyed
<1> HIDE DEF new, k
<1>3. CASE k \notin PayKey
  BY <1>1, <1>3 DEF Ahead, SameEntries, new
<1>4. CASE k \in PayKey /\ doc.pledges[i].status = s
  BY <1>1, <1>2, <1>4 DEF Ahead, SameEntries, new
<1>5. CASE k \in PayKey /\ doc.pledges[i].status # s
  <2>1. OneEntry(new, doc, pay, k, L)
    BY <1>1, <1>2, <1>5 DEF OneEntry, k
  <2>2. QED
    BY <1>1, <1>5, <2>1 DEF Ahead, new
<1>6. QED
  BY <1>3, <1>4, <1>5

\* A new pledge adds the entry of its key.
LEMMA AddPledgeEntry ==
    ASSUME NEW L, NEW doc \in Document, NEW pay, Keyed(doc, pay),
           NEW k \in PayKey \cup {NoKey}, NEW names,
           k \in PayKey => \A i \in DOMAIN doc.pledges : doc.pledges[i].key # k,
           NEW pay2, Issues(pay, pay2), k \in PayKey => pay2[k] = "created",
           AddPledge(doc, k, names) \in Document
    PROVE  /\ Keyed(AddPledge(doc, k, names), pay2)
           /\ Ahead(AddPledge(doc, k, names), doc, pay2, L)
<1> DEFINE new == AddPledge(doc, k, names)
           pledge == [order |-> NextOrderNumber(doc), key |-> k, attendees |-> names,
                      status |-> "Unpaid", paid |-> FALSE]
           last == Len(doc.pledges) + 1
<1>1. new.pledges = Append(doc.pledges, pledge)
  BY DEF AddPledge, Document
<1>2. /\ Len(doc.pledges) \in Nat
      /\ DOMAIN doc.pledges = 1..Len(doc.pledges)
      /\ DOMAIN new.pledges = 1..last
      /\ \A i \in DOMAIN doc.pledges : new.pledges[i] = doc.pledges[i]
      /\ new.pledges[last] = pledge
  BY <1>1, DocumentParts
<1>3. pledge.key = k /\ pledge.status = "Unpaid"
  OBVIOUS
<1> HIDE DEF new, pledge
<1>4. /\ last \in DOMAIN new.pledges
      /\ new.pledges[last].key = k /\ new.pledges[last].status = "Unpaid"
      /\ \A i \in DOMAIN new.pledges : i = last \/ i \in DOMAIN doc.pledges
      /\ \A i \in DOMAIN doc.pledges : i \in DOMAIN new.pledges
  BY <1>2, <1>3
<1> HIDE DEF last
<1>5. Keyed(new, pay2)
  <2>1. Distinct(new)
    BY <1>2, <1>4 DEF Keyed, Distinct
  <2>2. Issued(new, pay2)
    BY <1>2, <1>4 DEF Keyed, Issued, Issues
  <2>3. QED
    BY <2>1, <2>2 DEF Keyed
<1>6. \A x \in PayKey : x # k => Entry(new, x) = Entry(doc, x)
  <2> TAKE x \in PayKey
  <2> HAVE x # k
  <2>1. \A j \in DOMAIN doc.pledges : doc.pledges[j].key = x =>
            j \in DOMAIN new.pledges /\ new.pledges[j] = doc.pledges[j]
    BY <1>2, <1>4
  <2>2. \A j \in DOMAIN new.pledges : new.pledges[j].key = x =>
            j \in DOMAIN doc.pledges /\ doc.pledges[j].key = x
    BY <1>2, <1>4
  <2>3. QED
    BY <1>5, <2>1, <2>2, EntryMoves DEF Keyed
<1>7. CASE k \in PayKey
  <2>1. Entry(doc, k) = "none"
    BY <1>7, NoEntry
  <2>2. Entry(new, k) = "pledged"
    BY <1>4, <1>5, <1>7, EntryOfPledge DEF Keyed, EntryOf
  <2>3. OneEntry(new, doc, pay2, k, L)
    BY <1>6, <1>7, <2>1, <2>2 DEF OneEntry, Allowed
  <2>4. QED
    BY <1>5, <1>7, <2>3 DEF Ahead, new
<1>8. CASE k \notin PayKey
  BY <1>5, <1>6, <1>8 DEF Ahead, SameEntries, new
<1>9. QED
  BY <1>7, <1>8

(***************************************************************************)
(* Steps of the ledger                                                     *)
(***************************************************************************)
LedgerStep == [Ledger!Next]_(Ledger!ledger)

LateStep == [LateLedger!Next]_(LateLedger!ledger)

\* Books that may follow late may also follow at once.
LEMMA StrictIsLate == LedgerStep => LateStep
<1>1. ASSUME NEW k \in PayKey, Ledger!Step(k)
      PROVE  LateLedger!Step(k)
  BY <1>1
     DEF Ledger!Step, Ledger!Accept, Ledger!Authorise, Ledger!Confirm, Ledger!Presume,
         Ledger!Take, Ledger!Settle, Ledger!Return, Ledger!Refund, Ledger!Enter, Ledger!Move,
         LateLedger!Step, LateLedger!Accept, LateLedger!Authorise, LateLedger!Confirm,
         LateLedger!Presume, LateLedger!Take, LateLedger!Settle, LateLedger!Return,
         LateLedger!Refund, LateLedger!Enter, LateLedger!Move
<1>2. QED
  BY <1>1 DEF LedgerStep, LateStep, Ledger!Next, LateLedger!Next, Ledger!ledger,
              LateLedger!ledger

\* The store and every payment of it stay: the ledger stutters.
LEMMA LedgerStutters ==
    ASSUME UNCHANGED <<store, payments>>
    PROVE  LedgerStep
BY DEF LedgerStep, Ledger!ledger, Book, Money

\* The store stays and the money of one payment moves.
LEMMA MoneyStep ==
    ASSUME payments \in [PayKey -> PaymentState], UNCHANGED store,
           NEW k, NEW s, payments' = [payments EXCEPT ![k] = s],
           k \in PayKey =>
             \/ PlaceOf(s) = PlaceOf(payments[k])
             \/ /\ payments[k] = "created" /\ s = "approved"
                /\ Entry(store, k) # "none"
             \/ /\ payments[k] = "approved" /\ s \in {"executed", "failed"}
                /\ Entry(store, k) = "pending"
             \/ /\ payments[k] \in {"approved", "executed"} /\ s = "refunded"
                /\ Entry(store, k) # "none"
    PROVE  LedgerStep
<1>1. Book' = Book
  BY DEF Book
<1>2. CASE k \notin PayKey \/ PlaceOf(s) = PlaceOf(payments[k])
  <2>1. Money' = Money
    BY <1>2 DEF Money
  <2>2. QED
    BY <1>1, <2>1 DEF LedgerStep, Ledger!ledger
<1>3. CASE k \in PayKey /\ PlaceOf(s) # PlaceOf(payments[k])
  <2>1. Money' = [Money EXCEPT ![k] = PlaceOf(s)]
    BY <1>3 DEF Money
  <2>2. Book[k] = Entry(store, k) /\ Money[k] = PlaceOf(payments[k])
    BY <1>3 DEF Book, Money
  <2>3. Ledger!Step(k)
    <3>1. CASE payments[k] = "created" /\ s = "approved" /\ Entry(store, k) # "none"
      BY <1>1, <2>1, <2>2, <3>1 DEF PlaceOf, Ledger!Step, Ledger!Authorise, Ledger!Move
    <3>2. CASE /\ payments[k] = "approved" /\ s \in {"executed", "failed"}
               /\ Entry(store, k) = "pending"
      BY <1>1, <2>1, <2>2, <3>2 DEF PlaceOf, Ledger!Step, Ledger!Take, Ledger!Move
    <3>3. CASE /\ payments[k] \in {"approved", "executed"} /\ s = "refunded"
               /\ Entry(store, k) # "none"
      BY <1>1, <2>1, <2>2, <3>3 DEF PlaceOf, Ledger!Step, Ledger!Return, Ledger!Move
    <3>4. QED
      BY <1>3, <3>1, <3>2, <3>3
  <2>4. QED
    BY <1>3, <2>3 DEF LedgerStep, Ledger!Next
<1>4. QED
  BY <1>2, <1>3

\* A document one entry ahead is saved.
LEMMA BookStep ==
    ASSUME NEW L, Lateness(L), payments \in [PayKey -> PaymentState], UNCHANGED payments,
           Ahead(store', store, payments, L)
    PROVE  LateStep /\ (L = {} => LedgerStep)
<1>1. Money' = Money
  BY DEF Money
<1>2. CASE SameEntries(store', store)
  <2>1. Book' = Book
    BY <1>2 DEF Book, SameEntries
  <2>2. QED
    BY <1>1, <2>1 DEF LedgerStep, Ledger!ledger, LateStep, LateLedger!ledger
<1>3. CASE \E k \in PayKey : OneEntry(store', store, payments, k, L)
  <2>1. PICK k \in PayKey : OneEntry(store', store, payments, k, L)
    BY <1>3
  <2> DEFINE old == Entry(store, k)
             new == Entry(store', k)
             place == PlaceOf(payments[k])
             late == IF L = {} THEN {} ELSE {"returned"}
  <2>2. Book' = [Book EXCEPT ![k] = new]
    BY <2>1 DEF Book, OneEntry
  <2>3. Book[k] = old /\ Money[k] = place
    BY DEF Book, Money
  <2>4. Allowed(old, new, payments[k], L)
    BY <2>1 DEF OneEntry
  <2> HIDE DEF old, new
  <2>5. \/ old = "none" /\ new = "pledged" /\ place = "payer"
        \/ old = "pledged" /\ new = "pending" /\ place \in {"authorised"} \cup late
        \/ old = "pledged" /\ new = "settled" /\ place \in {"payer", "authorised"} \cup late
        \/ old = "pending" /\ new = "settled" /\ place \in {"taken", "failed"} \cup late
        \/ old \in {"pledged", "pending", "settled"} /\ new = "refunded" /\ place # "taken"
    <3>1. payments[k] \in PaymentState
      OBVIOUS
    <3>2. CASE L = {}
      BY <2>4, <3>1, <3>2 DEF Allowed, PlaceOf, PaymentState
    <3>3. CASE L = {"refunded"}
      BY <2>4, <3>1, <3>3 DEF Allowed, PlaceOf, PaymentState
    <3>4. QED
      BY <3>2, <3>3 DEF Lateness
  <2> HIDE DEF place
  <2>6. LateLedger!Step(k)
    BY <1>1, <2>2, <2>3, <2>5
       DEF LateLedger!Step, LateLedger!Accept, LateLedger!Confirm, LateLedger!Presume,
           LateLedger!Settle, LateLedger!Refund, LateLedger!Enter
  <2>7. L = {} => Ledger!Step(k)
    BY <1>1, <2>2, <2>3, <2>5
       DEF Ledger!Step, Ledger!Accept, Ledger!Confirm, Ledger!Presume, Ledger!Settle,
           Ledger!Refund, Ledger!Enter
  <2>8. QED
    BY <2>6, <2>7 DEF LedgerStep, LateStep, Ledger!Next, LateLedger!Next
<1>4. QED
  BY <1>2, <1>3 DEF Ahead

(***************************************************************************)
(* Sessions                                                                *)
(***************************************************************************)
\* A key once issued stays so.
LEMMA StillKeyed ==
    ASSUME NEW doc, NEW pay, NEW pay2, Keyed(doc, pay), Issues(pay, pay2)
    PROVE  Keyed(doc, pay2)
BY DEF Keyed, Issued, Issues

\* A document stays ahead while the money it is entered for does not move, or moves where
\* the ledger still allows the entry.
LEMMA StillAhead ==
    ASSUME NEW L, NEW doc, Ahead(doc, store, payments, L),
           payments \in [PayKey -> PaymentState],
           NEW k, NEW s, payments' = [payments EXCEPT ![k] = s],
           k \in PayKey /\ Allowed(Entry(store, k), Entry(doc, k), payments[k], L) =>
               Allowed(Entry(store, k), Entry(doc, k), s, L)
    PROVE  Ahead(doc, store, payments', L)
<1>1. CASE SameEntries(doc, store)
  BY <1>1 DEF Ahead
<1>2. CASE \E x \in PayKey : OneEntry(doc, store, payments, x, L)
  <2>1. PICK x \in PayKey : OneEntry(doc, store, payments, x, L)
    BY <1>2
  <2>2. Allowed(Entry(store, x), Entry(doc, x), payments'[x], L)
    <3>1. CASE x = k
      <4>1. payments'[x] = s
        BY <3>1
      <4>2. QED
        BY <2>1, <3>1, <4>1 DEF OneEntry
    <3>2. CASE x # k
      <4>1. payments'[x] = payments[x]
        BY <3>2
      <4>2. QED
        BY <2>1, <4>1 DEF OneEntry
    <3>3. QED
      BY <3>1, <3>2
  <2>3. QED
    BY <2>1, <2>2 DEF OneEntry, Ahead
<1>3. QED
  BY <1>1, <1>2 DEF Ahead

\* A session goes on with a document; it is at most one entry ahead if it is not stale.
LEMMA ContinueKeyed ==
    ASSUME IInv, NEW S, NEW T, NEW L, KeyInv(S, L), Observed(S, T),
           NEW r \in Request, req[r] # NoSession,
           NEW s, NEW doc, NEW i, Continue(r, s, doc, i),
           UNCHANGED <<store, redirected>>,
           Issues(payments, payments'),
           \A k \in PayKey : payments'[k] \in Approved => payments[k] \in Approved,
           \A q \in Fresh(S) : q # r => Ahead(req[q].doc, store, payments', L),
           Keyed(doc, payments'),
           r \notin S => Ahead(doc, store, payments', L)
    PROVE  KeyInv(T, L)'
<1>1. Keyed(store, payments')
  BY StillKeyed DEF KeyInv
<1>2. /\ req'[r].doc = doc
      /\ \A q \in Request : q # r => req'[q] = req[q]
  BY DEF Continue, IInv, Session
<1>3. \A q \in Request : InProgress(q)' => InProgress(q)
  BY <1>2 DEF InProgress
<1>4. \A q \in Request : InProgress(q)' => Keyed(req'[q].doc, payments')
  <2> TAKE q \in Request
  <2> HAVE InProgress(q)'
  <2>1. CASE q = r
    BY <1>2, <2>1
  <2>2. CASE q # r
    BY <1>2, <1>3, <2>2, StillKeyed DEF KeyInv
  <2>3. QED
    BY <2>1, <2>2
<1>5. \A q \in Fresh(T)' : Ahead(req'[q].doc, store, payments', L)
  <2> TAKE q \in Fresh(T)'
  <2>1. q \in Fresh(S)
    BY <1>3 DEF Fresh, Observed, Writes
  <2>2. CASE q = r
    BY <1>2, <2>1, <2>2 DEF Fresh
  <2>3. CASE q # r
    BY <1>2, <2>1, <2>3 DEF Fresh
  <2>4. QED
    BY <2>2, <2>3
<1>6. \A k \in PayKey : payments'[k] \in Approved => k \in redirected
  BY DEF KeyInv
<1>7. QED
  BY <1>1, <1>4, <1>5, <1>6 DEF KeyInv

\* A session that ends leaves the others as they were.
LEMMA EndKeyed ==
    ASSUME IInv, NEW S, NEW T, NEW L, KeyInv(S, L), Observed(S, T),
           NEW r \in Request, End(r),
           UNCHANGED <<store, redirected>>,
           Issues(payments, payments'),
           \A k \in PayKey : payments'[k] \in Approved => payments[k] \in Approved,
           \A q \in Fresh(S) : q # r => Ahead(req[q].doc, store, payments', L)
    PROVE  KeyInv(T, L)'
<1>1. Keyed(store, payments')
  BY StillKeyed DEF KeyInv
<1>2. \A q \in Request : InProgress(q)' => q # r /\ InProgress(q) /\ req'[q] = req[q]
  BY DEF End, IInv, InProgress
<1>3. \A q \in Request : InProgress(q)' => Keyed(req'[q].doc, payments')
  BY <1>2, StillKeyed DEF KeyInv
<1>4. \A q \in Fresh(T)' : Ahead(req'[q].doc, store, payments', L)
  BY <1>2 DEF Fresh, Observed, Writes
<1>5. \A k \in PayKey : payments'[k] \in Approved => k \in redirected
  BY DEF KeyInv
<1>6. QED
  BY <1>1, <1>3, <1>4, <1>5 DEF KeyInv

\* A session begins with the stored document.
LEMMA StartKeyed ==
    ASSUME IInv, NEW S, NEW T, NEW L, KeyInv(S, L), Observed(S, T),
           NEW r \in Request, Start(r)
    PROVE  KeyInv(T, L)' /\ UNCHANGED <<store, payments>>
<1>1. PICK h, i : Begin(r, h, i)
  BY DEF Start, BeginPledge, BeginConfirm, BeginRefund, BeginExecute, BeginActivate,
         BeginCancel, BeginDelete, BeginForm
<1>2. /\ req'[r] = [op |-> h, step |-> "call", doc |-> store, at |-> i]
      /\ \A q \in Request : q # r => req'[q] = req[q]
      /\ UNCHANGED <<store, payments, redirected>>
  BY <1>1 DEF Begin, IInv
<1>3. req'[r].doc = store
  BY <1>2
<1>4. \A q \in Request : InProgress(q)' => Keyed(req'[q].doc, payments)
  <2> TAKE q \in Request
  <2> HAVE InProgress(q)'
  <2>1. CASE q = r
    BY <1>3, <2>1 DEF KeyInv
  <2>2. CASE q # r
    BY <1>2, <2>2 DEF KeyInv, InProgress
  <2>3. QED
    BY <2>1, <2>2
<1>5. \A q \in Fresh(T)' : Ahead(req'[q].doc, store, payments, L)
  <2> TAKE q \in Fresh(T)'
  <2>1. CASE q = r
    BY <1>3, <2>1 DEF Ahead, SameEntries
  <2>2. CASE q # r
    <3>1. req'[q] = req[q] /\ q \in Fresh(S)
      BY <1>2, <2>2 DEF Fresh, Observed, Writes, InProgress
    <3>2. QED
      BY <3>1 DEF KeyInv
  <2>3. QED
    BY <2>1, <2>2
<1>6. QED
  BY <1>2, <1>4, <1>5 DEF KeyInv

(***************************************************************************)
(* The actions                                                             *)
(***************************************************************************)
\* A new pledge has a new key: no other session has entered anything for it.
LEMMA PledgeKeyed ==
    ASSUME IInv, NEW S, NEW T, NEW L, KeptInv(S), KeyInv(S, L), Observed(S, T),
           NEW r \in Request, CreatePayment(r) \/ CreatePaymentRefused(r)
    PROVE  KeyInv(T, L)' /\ LedgerStep
<1> DEFINE doc == req[r].doc
<1>1. /\ req[r] # NoSession /\ r \in Calling /\ doc \in Document
      /\ UNCHANGED <<store, redirected>>
      /\ payments \in [PayKey -> PaymentState]
  BY PledgeTurn DEF IInv
<1>2. PICK names \in Party(doc), k \in PayKey \cup {NoKey} :
         /\ AddPledge(doc, k, names) \in Document
         /\ Continue(r, "last", AddPledge(doc, k, names), 0)
         /\ \/ k = NoKey /\ UNCHANGED payments
            \/ /\ k \in PayKey /\ payments[k] = "none"
               /\ payments' = [payments EXCEPT ![k] = "created"]
  BY PledgeTurn
<1>3. Keyed(doc, payments) /\ Keyed(store, payments)
  BY <1>1 DEF KeyInv, InProgress
<1>4. r \notin S => doc = store
  BY <1>1 DEF KeptInv
<1> HIDE DEF doc
<1>5. NoKey \notin PayKey
  BY ConstantsAssumption
<1>6. /\ Issues(payments, payments')
      /\ k \in PayKey => payments'[k] = "created"
      /\ \A x \in PayKey : payments'[x] \in Approved => payments[x] \in Approved
  BY <1>1, <1>2, <1>5 DEF Issues, Approved
<1>7. k \in PayKey => \A i \in DOMAIN doc.pledges : doc.pledges[i].key # k
  BY <1>2, <1>3, <1>5 DEF Keyed, Issued
<1>8. /\ Keyed(AddPledge(doc, k, names), payments')
      /\ Ahead(AddPledge(doc, k, names), doc, payments', L)
  BY <1>1, <1>2, <1>3, <1>6, <1>7, AddPledgeEntry
<1>9. CASE k = NoKey /\ UNCHANGED payments
  <2>1. \A q \in Fresh(S) : Ahead(req[q].doc, store, payments', L)
    BY <1>9 DEF KeyInv
  <2>2. KeyInv(T, L)'
    BY <1>1, <1>2, <1>4, <1>6, <1>8, <2>1, ContinueKeyed
  <2>3. QED
    BY <1>1, <1>9, <2>2, LedgerStutters
<1>10. CASE /\ k \in PayKey /\ payments[k] = "none"
            /\ payments' = [payments EXCEPT ![k] = "created"]
  <2>1. ASSUME NEW q \in Fresh(S)
        PROVE  Ahead(req[q].doc, store, payments', L)
    <3>1. Keyed(req[q].doc, payments) /\ Ahead(req[q].doc, store, payments, L)
      BY DEF KeyInv, Fresh
    <3>2. Entry(req[q].doc, k) = "none" /\ Entry(store, k) = "none"
      BY <1>3, <1>10, <3>1, NoEntry DEF Keyed, Issued
    <3>3. ~Allowed(Entry(store, k), Entry(req[q].doc, k), payments[k], L)
      BY <3>2 DEF Allowed
    <3>4. QED
      BY <1>1, <1>10, <3>1, <3>3, StillAhead
  <2>2. KeyInv(T, L)'
    BY <1>1, <1>2, <1>4, <1>6, <1>8, <2>1, ContinueKeyed
  <2>3. PlaceOf("created") = PlaceOf(payments[k])
    BY <1>10 DEF PlaceOf
  <2>4. QED
    BY <1>1, <1>10, <2>2, <2>3, MoneyStep
<1>11. QED
  BY <1>2, <1>9, <1>10

\* A confirmation enters what PayPal said of the payment.
LEMMA ConfirmKeyed ==
    ASSUME IInv, NEW S, NEW T, NEW L, KeptInv(S), KeyInv(S, L), Observed(S, T),
           NEW r \in Request, RetrievePaymentDetails(r)
    PROVE  KeyInv(T, L)' /\ LedgerStep
<1> DEFINE doc == req[r].doc
<1>1. /\ req[r] # NoSession /\ r \in Calling /\ doc \in Document
      /\ UNCHANGED <<store, payments, redirected>>
  BY ConfirmTurn
<1>2. PICK i \in DOMAIN doc.pledges :
         /\ doc.pledges[i].status = "Unpaid"
         /\ \E answer \in DetailsAnswers(payments[doc.pledges[i].key]), s \in {"save", "last"} :
               Continue(r, s, Confirmed(doc, i, answer), i)
  BY ConfirmTurn
<1>3. PICK answer \in DetailsAnswers(payments[doc.pledges[i].key]), s \in {"save", "last"} :
         Continue(r, s, Confirmed(doc, i, answer), i)
  BY <1>2
<1>4. Keyed(doc, payments)
  BY <1>1 DEF KeyInv, InProgress
<1>5. r \notin S => doc = store
  BY <1>1 DEF KeptInv
<1> HIDE DEF doc
<1>6. Keyed(Confirmed(doc, i, answer), payments)
      /\ Ahead(Confirmed(doc, i, answer), doc, payments, L)
  <2>1. CASE answer = "INCOMPLETE"
    <3>1. payments[doc.pledges[i].key] = "approved"
      BY <1>3, <2>1 DEF DetailsAnswers
    <3>2. Allowed(EntryOf("Unpaid"), EntryOf("PaidPendingReconciliation"),
                  payments[doc.pledges[i].key], L)
      BY <3>1 DEF Allowed, EntryOf
    <3>3. "PaidPendingReconciliation" \in Statuses
      BY DEF Statuses
    <3>4. QED
      BY <1>1, <1>2, <1>4, <2>1, <3>2, <3>3, SetStatusAhead DEF Confirmed
  <2>2. CASE answer = "CREATED"
    <3>1. payments[doc.pledges[i].key] = "created"
      BY <1>3, <2>2 DEF DetailsAnswers
    <3>2. Allowed(EntryOf("Unpaid"), EntryOf("Reconciled"),
                  payments[doc.pledges[i].key], L)
      BY <3>1 DEF Allowed, EntryOf
    <3>3. "Reconciled" \in Statuses
      BY DEF Statuses
    <3>4. QED
      BY <1>1, <1>2, <1>4, <2>2, <3>2, <3>3, SetStatusAhead DEF Confirmed
  <2>3. CASE answer \notin {"INCOMPLETE", "CREATED"}
    BY <1>4, <2>3 DEF Confirmed, Ahead, SameEntries
  <2>4. QED
    BY <2>1, <2>2, <2>3
<1>7. /\ Issues(payments, payments')
      /\ \A k \in PayKey : payments'[k] \in Approved => payments[k] \in Approved
      /\ \A q \in Fresh(S) : Ahead(req[q].doc, store, payments', L)
  BY <1>1 DEF Issues, KeyInv
<1>8. KeyInv(T, L)'
  BY <1>1, <1>3, <1>5, <1>6, <1>7, ContinueKeyed
<1>9. QED
  BY <1>1, <1>8, LedgerStutters

\* A refund gives the money back, if the payer's had gone, and is entered when PayPal's
\* answer arrived; what other sessions have entered of that payment comes late.
LEMMA RefundKeyed ==
    ASSUME IInv, NEW S, NEW T, NEW L, Lateness(L), KeptInv(S), KeyInv(S, L), Observed(S, T),
           NEW r \in Request, RefundPledge(r) \/ CancelRefund(r)
    PROVE  KeyInv(T, L)' /\ LedgerStep
<1> DEFINE doc == req[r].doc
<1>1. /\ req[r] # NoSession /\ r \in Calling /\ doc \in Document /\ doc \in Asking
      /\ UNCHANGED <<store, redirected>>
      /\ payments \in [PayKey -> PaymentState]
  BY RefundTurn DEF IInv, Asking
<1>2. PICK n \in DOMAIN doc.pledges :
         \E out \in RefundOutcomes(payments[doc.pledges[n].key]) :
            /\ PayPalMoves(doc, n, out[2])
            /\ \/ /\ out[1] = "success"
                  /\ \E s \in {"save", "last"} : \E j : Continue(r, s, MarkRefunded(doc, n), j)
               \/ End(r)
               \/ \E j : Continue(r, "last", doc, j)
  BY RefundTurn
<1>3. PICK out \in RefundOutcomes(payments[doc.pledges[n].key]) :
         /\ PayPalMoves(doc, n, out[2])
         /\ \/ /\ out[1] = "success"
               /\ \E s \in {"save", "last"} : \E j : Continue(r, s, MarkRefunded(doc, n), j)
            \/ End(r)
            \/ \E j : Continue(r, "last", doc, j)
  BY <1>2
<1>4. Keyed(doc, payments) /\ Keyed(store, payments)
  BY <1>1 DEF KeyInv, InProgress
<1>5. r \notin S => doc = store
  BY <1>1 DEF KeptInv
<1> DEFINE k == doc.pledges[n].key
<1>6. payments' = [payments EXCEPT ![k] = out[2]]
  BY <1>3 DEF PayPalMoves
<1>7. /\ \/ out[2] = payments[k]
         \/ payments[k] \in {"approved", "executed"} /\ out[2] = "refunded"
      /\ out[1] = "success" => out[2] # "executed"
  BY DEF RefundOutcomes
<1>8. /\ n \in DOMAIN store.pledges /\ store.pledges[n].key = k
      /\ doc.pledges[n].status \in Statuses /\ store.pledges[n].status \in Statuses
  <2>1. Follows(store, doc)
    BY <1>1 DEF KeptInv, Accounted, Coming
  <2>2. n \in DOMAIN store.pledges /\ store.pledges[n].key = k
    BY <2>1 DEF Follows
  <2>3. store \in Document
    BY DEF IInv, Good
  <2> HIDE DEF doc
  <2>4. QED
    BY <1>1, <2>2, <2>3, DocumentParts
<1>9. k \in PayKey => /\ payments[k] # "none"
                      /\ Entry(store, k) = EntryOf(store.pledges[n].status)
  BY <1>4, <1>8, EntryOfPledge DEF Keyed, Issued
<1> HIDE DEF doc, k
<1>10. /\ Issues(payments, payments')
       /\ \A x \in PayKey : payments'[x] \in Approved => payments[x] \in Approved
       /\ k \in PayKey /\ out[1] = "success" => payments'[k] # "executed"
  BY <1>1, <1>6, <1>7, <1>9 DEF Issues, Approved
<1>11. Keyed(doc, payments')
  BY <1>4, <1>10, StillKeyed
<1>12. out[1] = "success" => /\ Keyed(MarkRefunded(doc, n), payments')
                             /\ Ahead(MarkRefunded(doc, n), doc, payments', L)
  <2> HAVE out[1] = "success"
  <2>1. k \in PayKey => \/ doc.pledges[n].status = "Refunded"
                        \/ Allowed(EntryOf(doc.pledges[n].status), EntryOf("Refunded"),
                                   payments'[k], L)
    BY <1>8, <1>10 DEF Allowed, EntryOf, Statuses
  <2>2. "Refunded" \in Statuses
    BY DEF Statuses
  <2>3. QED
    BY <1>1, <1>11, <2>1, <2>2, SetStatusAhead DEF MarkRefunded, k
<1>13. Ahead(doc, doc, payments', L)
  BY DEF Ahead, SameEntries
<1>14. ASSUME NEW q \in Fresh(S), q # r
       PROVE  Ahead(req[q].doc, store, payments', L)
  <2>1. L = {"refunded"} /\ Ahead(req[q].doc, store, payments, L)
    BY <1>14 DEF Lateness, Serial, Fresh, KeyInv
  <2>2. k \in PayKey /\ Allowed(Entry(store, k), Entry(req[q].doc, k), payments[k], L) =>
           Allowed(Entry(store, k), Entry(req[q].doc, k), out[2], L)
    <3>1. CASE out[2] = payments[k]
      BY <3>1
    <3>2. CASE payments[k] \in {"approved", "executed"} /\ out[2] = "refunded"
      BY <2>1, <3>2 DEF Allowed
    <3>3. QED
      BY <1>7, <3>1, <3>2
  <2>3. QED
    BY <1>1, <1>6, <2>1, <2>2, StillAhead
<1>15. KeyInv(T, L)'
  <2>1. CASE End(r)
    BY <1>1, <1>10, <1>14, <2>1, EndKeyed
  <2>2. CASE \E j : Continue(r, "last", doc, j)
    BY <1>1, <1>5, <1>10, <1>11, <1>13, <1>14, <2>2, ContinueKeyed
  <2>3. CASE /\ out[1] = "success"
             /\ \E s \in {"save", "last"} : \E j : Continue(r, s, MarkRefunded(doc, n), j)
    BY <1>1, <1>5, <1>10, <1>12, <1>14, <2>3, ContinueKeyed
  <2>4. QED
    BY <1>3, <2>1, <2>2, <2>3
<1>16. LedgerStep
  <2>1. k \in PayKey => Entry(store, k) # "none"
    BY <1>8, <1>9 DEF EntryOf, Statuses
  <2>2. QED
    BY <1>1, <1>6, <1>7, <2>1, MoneyStep
<1>17. QED
  BY <1>15, <1>16

\* A capture takes the money of a pledge that is still pending in every document to come,
\* so nobody else has entered anything for it.
LEMMA CaptureKeyed ==
    ASSUME IInv, NEW S, NEW T, NEW L, KeptInv(S), KeyInv(S, L), Observed(S, T),
           NEW r \in Request, ExecutePayment(r) \/ ActivateExecute(r)
    PROVE  KeyInv(T, L)' /\ LedgerStep
<1> DEFINE doc == req[r].doc
<1>1. /\ req[r] # NoSession /\ r \in Calling /\ doc \in Document /\ doc \in Asking
      /\ Good(doc, payments)
      /\ UNCHANGED <<store, redirected>>
      /\ payments \in [PayKey -> PaymentState]
  BY CaptureTurn DEF IInv, Asking
<1>2. PICK n \in DOMAIN doc.pledges :
         /\ doc.pledges[n].status = "PaidPendingReconciliation"
         /\ \E out \in ExecuteOutcomes(payments[doc.pledges[n].key]) :
               /\ PayPalMoves(doc, n, out[2])
               /\ \/ /\ out[1] = "answered"
                     /\ \E s \in {"save", "last"} :
                           \E j : Continue(r, s, MarkReconciled(doc, n), j)
                  \/ End(r)
                  \/ \E j : Continue(r, "call", doc, j)
  BY CaptureTurn
<1>3. PICK out \in ExecuteOutcomes(payments[doc.pledges[n].key]) :
         /\ PayPalMoves(doc, n, out[2])
         /\ \/ /\ out[1] = "answered"
               /\ \E s \in {"save", "last"} :
                     \E j : Continue(r, s, MarkReconciled(doc, n), j)
            \/ End(r)
            \/ \E j : Continue(r, "call", doc, j)
  BY <1>2
<1>4. Keyed(doc, payments) /\ Keyed(store, payments)
  BY <1>1 DEF KeyInv, InProgress
<1>5. r \notin S => doc = store
  BY <1>1 DEF KeptInv
<1> DEFINE k == doc.pledges[n].key
<1>6. payments' = [payments EXCEPT ![k] = out[2]]
  BY <1>3 DEF PayPalMoves
<1>7. /\ \/ out[2] = payments[k]
         \/ payments[k] = "approved" /\ out[2] \in {"executed", "failed"}
      /\ out[1] = "answered" => out[2] \in {"executed", "failed"}
  BY DEF ExecuteOutcomes
<1>8. k \in PayKey /\ payments[k] # "none"
  BY <1>1, <1>2, <1>4 DEF Good, Backed, Keyed, Issued
<1>9. ASSUME NEW new \in Coming(S), Keyed(new, payments), payments[k] = "approved"
      PROVE  Entry(new, k) = "pending"
  <2>1. Accounted(doc, new, payments)
    BY <1>1 DEF KeptInv
  <2>2. /\ n \in DOMAIN new.pledges /\ new.pledges[n].key = k
        /\ new.pledges[n].status = "PaidPendingReconciliation"
    BY <1>2, <1>9, <2>1 DEF Accounted, Follows, Disposed
  <2>3. Entry(new, k) = EntryOf(new.pledges[n].status)
    BY <1>8, <1>9, <2>2, EntryOfPledge DEF Keyed
  <2>4. QED
    BY <2>2, <2>3 DEF EntryOf
<1> HIDE DEF doc, k
<1>10. /\ Issues(payments, payments')
       /\ \A x \in PayKey : payments'[x] \in Approved => payments[x] \in Approved
       /\ out[1] = "answered" => payments'[k] \in {"executed", "failed"}
  BY <1>1, <1>6, <1>7, <1>8 DEF Issues, Approved
<1>11. Keyed(doc, payments')
  BY <1>4, <1>10, StillKeyed
<1>12. out[1] = "answered" => /\ Keyed(MarkReconciled(doc, n), payments')
                              /\ Ahead(MarkReconciled(doc, n), doc, payments', L)
  <2> HAVE out[1] = "answered"
  <2>1. Allowed(EntryOf(doc.pledges[n].status), EntryOf("Reconciled"), payments'[k], L)
    BY <1>2, <1>10 DEF Allowed, EntryOf
  <2>2. "Reconciled" \in Statuses /\ doc.pledges[n].paid \in BOOLEAN
    BY <1>1, DocumentParts DEF Statuses
  <2>3. QED
    BY <1>1, <1>11, <2>1, <2>2, SetStatusAhead DEF MarkReconciled, k
<1>13. Ahead(doc, doc, payments', L)
  BY DEF Ahead, SameEntries
<1>14. ASSUME NEW q \in Fresh(S)
       PROVE  Ahead(req[q].doc, store, payments', L)
  <2>1. Keyed(req[q].doc, payments) /\ Ahead(req[q].doc, store, payments, L)
    BY DEF Fresh, KeyInv
  <2>2. req[q].doc \in Coming(S) /\ store \in Coming(S)
    BY DEF Coming
  <2>3. Allowed(Entry(store, k), Entry(req[q].doc, k), payments[k], L) =>
           Allowed(Entry(store, k), Entry(req[q].doc, k), out[2], L)
    <3>1. CASE out[2] = payments[k]
      BY <3>1
    <3>2. CASE payments[k] = "approved"
      <4>1. Entry(store, k) = "pending" /\ Entry(req[q].doc, k) = "pending"
        BY <1>4, <1>9, <2>1, <2>2, <3>2
      <4>2. QED
        BY <4>1 DEF Allowed
    <3>3. QED
      BY <1>7, <3>1, <3>2
  <2>4. QED
    BY <1>1, <1>6, <2>1, <2>3, StillAhead
<1>15. KeyInv(T, L)'
  <2>1. CASE End(r)
    BY <1>1, <1>10, <1>14, <2>1, EndKeyed
  <2>2. CASE \E j : Continue(r, "call", doc, j)
    BY <1>1, <1>5, <1>10, <1>11, <1>13, <1>14, <2>2, ContinueKeyed
  <2>3. CASE /\ out[1] = "answered"
             /\ \E s \in {"save", "last"} : \E j : Continue(r, s, MarkReconciled(doc, n), j)
    BY <1>1, <1>5, <1>10, <1>12, <1>14, <2>3, ContinueKeyed
  <2>4. QED
    BY <1>3, <2>1, <2>2, <2>3
<1>16. LedgerStep
  <2>1. payments[k] = "approved" => Entry(store, k) = "pending"
    BY <1>4, <1>9 DEF Coming
  <2>2. QED
    BY <1>1, <1>6, <1>7, <2>1, MoneyStep
<1>17. QED
  BY <1>15, <1>16

\* The forms and the ends of the loops enter nothing.
LEMMA RewriteKeyed ==
    ASSUME IInv, NEW S, NEW T, NEW L, KeptInv(S), KeyInv(S, L), Observed(S, T),
           NEW r \in Request,
           \/ CancelDone(r) \/ MarkDeleted(r) \/ ActivateDone(r) \/ EditEvent(r)
           \/ EditEventDetails(r) \/ SetTicketDetails(r) \/ UploadEventImage(r)
    PROVE  KeyInv(T, L)' /\ LedgerStep
<1> DEFINE doc == req[r].doc
<1>1. req[r] # NoSession /\ r \in Calling /\ UNCHANGED <<store, payments, redirected>>
  BY RewriteTurn
<1>2. PICK s \in {"save", "last"} :
         \E new, i : new.pledges = doc.pledges /\ Continue(r, s, new, i)
  BY RewriteTurn
<1>3. PICK new, i : new.pledges = doc.pledges /\ Continue(r, s, new, i)
  BY <1>2
<1>4. Keyed(doc, payments)
  BY <1>1 DEF KeyInv, InProgress
<1>5. r \notin S => doc = store
  BY <1>1 DEF KeptInv
<1> HIDE DEF doc
<1>6. Keyed(new, payments) /\ Ahead(new, doc, payments, L)
  BY <1>3, <1>4, SamePledges DEF Ahead
<1>7. /\ Issues(payments, payments')
      /\ \A k \in PayKey : payments'[k] \in Approved => payments[k] \in Approved
      /\ \A q \in Fresh(S) : Ahead(req[q].doc, store, payments', L)
  BY <1>1 DEF Issues, KeyInv
<1>8. KeyInv(T, L)'
  BY <1>1, <1>3, <1>5, <1>6, <1>7, ContinueKeyed
<1>9. QED
  BY <1>1, <1>8, LedgerStutters

\* A save enters what the session's document is ahead, and makes the others stale.
LEMMA SaveKeyed ==
    ASSUME IInv, NEW S, NEW T, NEW L, Lateness(L), KeptInv(S), KeyInv(S, L), Observed(S, T),
           NEW r \in Request, SaveChanges(r), \A q \in S : ~Writes(q)
    PROVE  KeyInv(T, L)' /\ LateStep /\ (L = {} => LedgerStep)
<1> DEFINE doc == req[r].doc
<1>1. /\ req[r] # NoSession /\ store' = doc /\ UNCHANGED payments
      /\ redirected \subseteq redirected'
      /\ \/ End(r)
         \/ \E s \in {"call", "last"} : req[r].step = "save" /\ Continue(r, s, doc, req[r].at)
  BY DEF SaveChanges
<1>2. \A q \in Request : q # r => req'[q] = req[q]
  BY <1>1 DEF End, Continue, IInv
<1>3. req'[r] # NoSession => req'[r].doc = doc
  BY <1>1 DEF End, Continue, IInv, Session
<1>4. Keyed(doc, payments)
  BY <1>1 DEF KeyInv, InProgress
<1> HIDE DEF doc
<1>5. \A q \in Request : InProgress(q)' => InProgress(q) /\ Keyed(req'[q].doc, payments)
  <2> TAKE q \in Request
  <2> HAVE InProgress(q)'
  <2>1. CASE q = r
    BY <1>1, <1>3, <1>4, <2>1 DEF InProgress
  <2>2. CASE q # r
    BY <1>2, <2>2 DEF InProgress, KeyInv
  <2>3. QED
    BY <2>1, <2>2
<1>6. \A k \in PayKey : payments'[k] \in Approved => k \in redirected'
  BY <1>1 DEF KeyInv
<1>7. CASE store' = store
  <2>1. ASSUME NEW q \in Fresh(T)'
        PROVE  Ahead(req'[q].doc, store, payments, L)
    <3>1. CASE q = r
      <4>1. req'[q].doc = store
        BY <1>1, <1>3, <1>7, <3>1 DEF Fresh, InProgress
      <4>2. QED
        BY <4>1 DEF Ahead, SameEntries
    <3>2. CASE q # r
      <4>1. req'[q] = req[q] /\ q \in Fresh(S)
        BY <1>2, <1>5, <1>7, <3>2 DEF Fresh, Observed, Writes
      <4>2. QED
        BY <4>1 DEF KeyInv
    <3>3. QED
      BY <3>1, <3>2
  <2>2. KeyInv(T, L)'
    BY <1>1, <1>4, <1>5, <1>6, <1>7, <2>1 DEF KeyInv
  <2>3. QED
    BY <1>1, <1>7, <2>2, LedgerStutters, StrictIsLate
<1>8. CASE store' # store
  <2>1. r \in Fresh(S)
    <3>1. req'[r] # req[r]
      BY <1>1 DEF SaveChanges, End, Continue, IInv, Session
    <3>2. QED
      BY <1>1, <1>8, <3>1 DEF Fresh, Writes, InProgress
  <2>2. Ahead(store', store, payments, L)
    BY <1>1, <2>1 DEF KeyInv, doc
  <2>3. \A q \in Fresh(T)' : req'[q].doc = store'
    BY <1>1, <1>2, <1>3, <1>5, <1>8 DEF Fresh, Observed, Writes, InProgress
  <2>4. \A q \in Fresh(T)' : Ahead(req'[q].doc, store', payments, L)
    BY <2>3 DEF Ahead, SameEntries
  <2>5. KeyInv(T, L)'
    BY <1>1, <1>4, <1>5, <1>6, <2>4 DEF KeyInv
  <2>6. QED
    BY <1>1, <2>2, <2>5, BookStep DEF IInv
<1>9. QED
  BY <1>7, <1>8

\* A payer approves a payment whose pledge was accepted; a pledge that is being made has
\* another key.
LEMMA ApproveKeyed ==
    ASSUME IInv, NEW S, NEW T, NEW L, Lateness(L), KeptInv(S), KeyInv(S, L), Observed(S, T),
           NEW k \in PayKey, Approve(k)
    PROVE  KeyInv(T, L)' /\ LedgerStep
<1>1. /\ k \in redirected /\ payments[k] = "created"
      /\ payments' = [payments EXCEPT ![k] = "approved"]
      /\ UNCHANGED <<store, req, redirected>>
      /\ payments \in [PayKey -> PaymentState]
  BY DEF Approve, IInv
<1>2. Entry(store, k) # "none"
  <2>1. PICK i \in DOMAIN store.pledges : store.pledges[i].key = k
    BY <1>1 DEF KeptInv, AcceptedPledgesKept
  <2>2. Entry(store, k) = EntryOf(store.pledges[i].status)
    BY <2>1, EntryOfPledge DEF KeyInv, Keyed
  <2>3. store.pledges[i].status \in Statuses
    BY DocumentParts DEF IInv, Good
  <2>4. QED
    BY <2>2, <2>3 DEF EntryOf, Statuses
<1>3. Issues(payments, payments')
  BY <1>1 DEF Issues
<1>4. ASSUME NEW q \in Fresh(S)
      PROVE  Ahead(req[q].doc, store, payments', L)
  <2>1. Ahead(req[q].doc, store, payments, L)
    BY DEF KeyInv
  <2>2. Allowed(Entry(store, k), Entry(req[q].doc, k), payments[k], L) =>
           Allowed(Entry(store, k), Entry(req[q].doc, k), "approved", L)
    BY <1>1, <1>2 DEF Allowed, Lateness
  <2>3. QED
    BY <1>1, <2>1, <2>2, StillAhead
<1>5. KeyInv(T, L)'
  <2>1. \A x \in PayKey : payments'[x] \in Approved => x \in redirected
    BY <1>1 DEF KeyInv
  <2>2. Keyed(store, payments')
    BY <1>3, StillKeyed DEF KeyInv
  <2>3. \A r \in Request : InProgress(r)' => Keyed(req[r].doc, payments')
    BY <1>1, <1>3, StillKeyed DEF KeyInv, InProgress
  <2>4. Fresh(T)' \subseteq Fresh(S)
    BY <1>1 DEF Fresh, Observed, Writes, InProgress
  <2>5. QED
    BY <1>1, <1>4, <2>1, <2>2, <2>3, <2>4 DEF KeyInv
<1>6. LedgerStep
  BY <1>1, <1>2, MoneyStep
<1>7. QED
  BY <1>5, <1>6

(***************************************************************************)
(* The refinement                                                          *)
(***************************************************************************)
LEMMA NextLedger ==
    ASSUME IInv, NEW S, NEW T, NEW L, Lateness(L), KeptInv(S), KeyInv(S, L), Observed(S, T),
           [Next]_vars, \A q \in S : ~Writes(q)
    PROVE  KeyInv(T, L)' /\ LateStep /\ (L = {} => LedgerStep)
<1>1. CASE \E r \in Request : Start(r)
  BY <1>1, StartKeyed, LedgerStutters, StrictIsLate
<1>2. CASE \E r \in Request : Work(r)
  <2>1. PICK r \in Request : Work(r)
    BY <1>2
  <2>2. CASE SaveChanges(r)
    BY <2>2, SaveKeyed
  <2>3. CASE ~SaveChanges(r)
    BY <2>1, <2>3, PledgeKeyed, ConfirmKeyed, RefundKeyed, CaptureKeyed, RewriteKeyed,
       StrictIsLate DEF Work
  <2>4. QED
    BY <2>2, <2>3
<1>3. CASE \E r \in Request : Abort(r)
  <2>1. PICK r \in Request : End(r) /\ UNCHANGED <<store, payments, redirected>>
    BY <1>3 DEF Abort
  <2>2. /\ Issues(payments, payments')
        /\ \A q \in Fresh(S) : Ahead(req[q].doc, store, payments', L)
    BY <2>1 DEF Issues, KeyInv
  <2>3. KeyInv(T, L)'
    BY <2>1, <2>2, EndKeyed
  <2>4. QED
    BY <2>1, <2>3, LedgerStutters, StrictIsLate
<1>4. CASE \E k \in PayKey : Approve(k)
  BY <1>4, ApproveKeyed, StrictIsLate
<1>5. CASE Tick \/ UNCHANGED vars
  <2>1. UNCHANGED <<store, req, payments, redirected>>
    BY <1>5 DEF Tick, vars
  <2>2. Fresh(T)' \subseteq Fresh(S)
    BY <2>1 DEF Fresh, Observed, Writes, InProgress
  <2>3. KeyInv(T, L)'
    BY <2>1, <2>2 DEF KeyInv, InProgress
  <2>4. QED
    BY <2>1, <2>3, LedgerStutters, StrictIsLate
<1>6. QED
  BY <1>1, <1>2, <1>3, <1>4, <1>5 DEF Next

LEMMA InitLedger ==
    ASSUME Init
    PROVE  Ledger!Init /\ \A S, L : KeyInv(S, L)
<1>1. /\ store.pledges = <<>>
      /\ \A r \in Request : ~InProgress(r)
      /\ payments = [k \in PayKey |-> "none"]
  BY DEF Init, InProgress
<1>2. \A S, L : KeyInv(S, L)
  BY <1>1 DEF KeyInv, Keyed, Distinct, Issued, Approved, Fresh
<1>3. Book = [k \in PayKey |-> "none"]
  BY <1>1 DEF Book, Entry
<1>4. Money = [k \in PayKey |-> "payer"]
  BY <1>1 DEF Money, PlaceOf
<1>5. QED
  BY <1>2, <1>3, <1>4 DEF Ledger!Init

\* While requests do not overlap, every behaviour of the site, PayPal and the payers is
\* one of the ledger: documents and payments stay in line whatever crashes and answers
\* get lost, for any number of payments.
THEOREM SerialImplementsLedger == ASSUME Serial PROVE Spec => KeepsLedger
<1>1. Init => KeyInv({}, {}) /\ Ledger!Init
  BY InitLedger
<1>2. IInv /\ KeptInv({}) /\ KeyInv({}, {}) /\ [Next]_vars =>
         KeyInv({}, {})' /\ [Ledger!Next]_(Ledger!ledger)
  BY SerialObserved, NextLedger DEF Lateness, LedgerStep
<1>3. QED
  BY <1>1, <1>2, SerialInvariance, PTL DEF Spec, KeepsLedger, Ledger!Spec

LateInv == lost \/ KeyInv(stale, {"refunded"})

\* A step that loses no update is one of the ledger, if its books may follow late.
LEMMA NextLate ==
    ASSUME IInv, HistoryInv, LateInv, [NextH]_varsH
    PROVE  LateInv' /\ (lost' \/ LateStep)
<1> SUFFICES ASSUME ~lost' PROVE KeyInv(stale, {"refunded"})' /\ LateStep
  BY DEF LateInv
<1>1. /\ [Next]_vars /\ KeptInv(stale)
      /\ \A q \in stale : ~Writes(q)
      /\ ~lost
  <2>1. ~lost
    BY DEF NextH, Observe, varsH
  <2>2. QED
    BY <2>1, NextHistory
<1>2. PICK S, T : S = stale /\ T = stale'
  OBVIOUS
<1>3. Observed(S, T)
  BY <1>2 DEF NextH, Observe, varsH, vars, Observed, Writes, InProgress
<1>4. KeptInv(S) /\ KeyInv(S, {"refunded"}) /\ \A q \in S : ~Writes(q)
  BY <1>1, <1>2 DEF LateInv
<1>5. KeyInv(T, {"refunded"})' /\ LateStep
  BY <1>1, <1>3, <1>4, NextLedger DEF Lateness
<1>6. QED
  BY <1>2, <1>5 DEF KeyInv, Fresh

\* Until an update is lost document and payments move as the ledger allows, however
\* requests overlap, if a refund may come between PayPal's answer and the save.
THEOREM LedgerKeptUntilLost == SpecH => LedgerUntilLost
<1>1. InitH => LateInv
  <2>1. PICK S : S = stale
    OBVIOUS
  <2>2. InitH => KeyInv(S, {"refunded"})
    BY InitLedger DEF InitH
  <2>3. KeyInv(S, {"refunded"}) => KeyInv(stale, {"refunded"})
    BY <2>1
  <2>4. QED
    BY <2>2, <2>3 DEF LateInv
<1>2. IInv /\ HistoryInv /\ LateInv /\ [NextH]_varsH =>
         LateInv' /\ [lost' \/ [LateLedger!Next]_(LateLedger!ledger)]_varsH
  BY NextLate DEF LateStep
<1>3. QED
  BY <1>1, <1>2, HistoryInvariance, PTL DEF SpecH, LedgerUntilLost
=============================================================================
