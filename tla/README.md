# TicketMuffin, verified

TLA+ models of TicketMuffin (`src/`), an ASP.NET MVC site on which an organiser
puts an event on sale, attendees *pledge* to come and pay through PayPal, and the
event is *activated* - the pledges are captured - once enough of them have paid.

## The system

| part | code | state | operations |
|---|---|---|---|
| Event and pledges | `TicketMuffin.Core/Domain/GroupGivingEvent.cs`, `EventPledge.cs`, `Actions/*`, `Services/OrderNumberGenerator.cs` | one RavenDB document per event: state, dates, minimum, maximum, list of pledges (order number, PayPal key, attendees, status, paid) | make, confirm, refund, execute a pledge; activate, cancel, delete, edit the event |
| Web handlers | `TicketMuffin.Web/Controllers`, `Areas/Admin` | a session per request | load, act, `SaveChanges`, redirect |
| RavenDB | `Conventions/IoCConfiguration.cs`, `RavenStore.cs` | documents, stale indexes | load, store whole document, no optimistic concurrency |
| PayPal | `TicketMuffin.PayPal` | payments (external) | create delayed payment, payment details, refund, execute |
| Event creation | `Services/EventService.cs`, `CreateEventController.cs` | short urls (a query over an index) | create, retrieve, ticket details, share |
| Tickets | `Services/TicketGenerator.cs`, `Actions/PledgeTicketSender.cs`, `PledgeController.cs`, `EventManagementController.SendTicketsToAttendees`, `TicketController.cs` | a ticket number in each attendee record; a folder of PDFs named after the numbers | create per attendee, send to one pledge or to all who paid, download |
| Accounts | `Services/AccountService.cs`, `AccountController.cs`, `UserManagementController.cs` | account documents with an address and a reset token; membership users (a library's documents), linked to them by the address alone | sign up, incomplete account for a payer, mail a token, reset the password, contact and PayPal details, administrator's list, form and fix |
| Site configuration | `Services/SiteConfigurationService.cs` | one configuration document | create on first use, edit |
| Content, countries, cultures | `RavenDbContentProvider.cs`, `CountryService.cs`, `CultureService.cs` | content and country documents | look up, create on first use, reload |
| Queue listener | `TicketMuffin.Service` | MSMQ queue, one outstanding receive per listener, a static table of counts per hour | receive, execute a command, dead-letter, count, receive again; no code starts a listener yet (`Service1.OnStart` is empty) |
| Warm-up | `Services/SiteWarmupService.cs` | a timer interval | ping, double the interval |
| E-mail | `Email/`, `EmailFacadeFactory.cs` | none | render and send |

**How they interact.** A handler opens a RavenDB session for its request
(`IoCConfiguration`), loads the event document, decides on what it loaded, calls
PayPal over HTTP, changes its copy and writes the whole document. Payers approve a
payment on PayPal's own page and come back to `OrderController.Success`; nothing
else tells the site about a payment. Refunds and captures find the pledge *again*,
in the same copy, by its order number.

**What is hard.** The document is read before a PayPal call and written after it, so
any other request can save in between and lose an update. PayPal may act and its
answer may not arrive; the worker may die between the call and the save. Cancelling,
activating and mailing everybody's tickets are loops of such calls that can stop half way
and be retried; nothing remembers who was mailed. The
edit form can put an event back on sale in any state. Order numbers are computed
from a count that lost updates set back. Events are found by short url in three ways
(an index that may lag; after waiting for it and without deleted events; without waiting
and with them), accounts by an address or a token in indexes that lag each for itself, and
tokens live on in stale copies that are written back. `PROJECT.json` lists each hazard at its line.

**What makes each part correct.**

* Sales: order numbers are distinct; `Paid` and `PaymentStatus` agree; what may be
  captured was approved; accepted pledges stay; captured money can be refunded;
  refunds are final; a cancelled event keeps no payment; an activated one is on.
* Event creation: one event sells per short url; ticket details land on the event they
  were sent for; a deleted event stays deleted unless somebody meant otherwise.
* Tickets: a PDF names its holder and is found by its number; a number is given once; when
  the mailing of all tickets gets to its end, everybody who paid has been mailed theirs.
* Accounts: a token names one account; a membership user has an account; a reset sets the
  password of the user it was mailed for. (That an address has one account, and that a
  token works once, the code does not achieve; see below.)

## Modules

**`EventSales`** models one event from its creation on (`EventService.CreateEvent`),
its pledges, PayPal's side of every payment, and the requests in progress.

| variable | code |
|---|---|
| `store` | the `GroupGivingEvent` document in RavenDB |
| `req[r]` | a request: its handler, its copy of the document, the pledge it looks at, and whether it is about to call PayPal (`call`), to save and go on (`save`) or to save and end (`last`) |
| `payments[k]` | PayPal's state of the payment with key `k` |
| `redirected` | keys whose payer was sent to PayPal after the pledge was saved |
| `now` | the clock that sales end and start are compared with |

A request is cut at the points where something else can happen: `Begin...` loads
the document and makes the checks the handler makes first; one action calls PayPal
and applies the answer to the copy (with every answer, decline, fault and lost
answer possible in that state of the payment); `SaveChanges` writes. `CancelRefund`
and `ActivateExecute` are one turn each of the loops in `CancelEventAction` and
`ActivateEventAction`, with a save after each turn. `Abort` is a worker that dies
(or a handler that throws) at any point. Handlers share actions where they share
code: a deletion is a cancellation that goes on to `MarkDeleted`. A confirmation saves at the
end of the request, and before it too when inviting the payer saves the session
(`AccountService.cs:92`). The saves of `TicketGenerator` write back a copy whose pledges and
state they leave alone, as `UploadEventImage` does, which stands for them here.

The document keeps what the properties tell apart. Names, e-mail addresses and
prices are dropped; attendees are records that are never shared between pledges
(`MakePledgeAction` creates new ones). `Settings` holds the combinations of minimum,
maximum, sales end and start that the forms may be given.

**`MCEventSales`**, **`MCEventSalesHistory`**, **`MCEventCreation`**, **`MCTickets`** and
**`MCAccounts`** give the instances their values. Definitions named `...Fault` in
the specifications are faulty variants of the definition below them for mutation
runs; no action uses them.

**`PledgeLedger`** is the abstract specification: what sales promise about each payment.
An entry of the books (`none`, `pledged`, `pending`, `settled`, `refunded`) stands beside
the place of the money (`payer`, `authorised`, `taken`, `failed`, `returned`), and each
of its eight actions says when one may move given the other: nobody can authorise a
payment whose pledge is not on the books, money is taken for a pending pledge only,
a refund is entered only when no taken money is left. It knows no sessions, no crashes
and no answers. `Late` are the places the money may have gone on to before the books
follow: none when one request is served after the other.

**`EventSalesLedger`** is the refinement mapping: `Book` reads the entry of a key off the
stored document, `Money` off PayPal's state of the payment, and `KeepsLedger` is the
ledger's specification under that mapping, with no `Late` places.

**`EventSalesHistory`** adds two history variables, which observe every step of `EventSales`
and restrict none (`SpecH`). They say when an overlap does harm.

| variable | meaning |
|---|---|
| `stale` | sessions whose document somebody else has saved since they loaded it |
| `lost` | whether such a session has saved its copy: the save that RavenDB would refuse if `IoCConfiguration` asked for optimistic concurrency |

`KeptUntilLost`, `RefundableUntilLost`, `RefundFinalUntilLost` and `LedgerUntilLost` are what
sales promise until that happens: the promises of requests that do not overlap, made for any
overlap. `CancelReturnsCaptured` adds what an organiser who cancels relies on: nothing that
was captured is left at PayPal, also what others captured while the refunds went on. They are
not those promises restated, because a stale session still *calls PayPal*:
one session may be refunding a payment that another is capturing, and only their saves are
in order. The ledger is kept with `Late = {"returned"}`: a refund of the same pledge may be
PayPal's answer to one session while another, whose confirmation or capture was answered
before, still saves first. That weakening is needed: with `Late = {}` TLC finds such a
step in a behaviour that loses no update.

**`Tickets`** models what happens to pledges that were sold: `TicketGenerator`, the mails of
`PledgeTicketSender`, the administrator's `PledgeController` and "Send tickets to paid
attendees" (`EventManagementController.SendTicketsToAttendees`), the download of
`TicketController`, and the ticket side of `ActivateEventAction`.

| variable | code |
|---|---|
| `docs[e]` | the event's document: whether it is activated, which pledges are reconciled, the `TicketNumber` of each attendee |
| `req[r]` | a request: its copy of the document, the pledge its loop is at, the attendees it still has to do (`todo`), where it is with the first of them, and the mail it is putting together |
| `files[n]` | the PDF named after `n`: whom it names, and whether it was written to its end |
| `held` | PDFs still open as attachments of a mail that nobody disposed of |
| `mails` | tickets attached to mails that were sent |
| `spent` | GUIDs generated so far |

`CreateTicket` is `IssueNumber` (if there is none; the document is saved), `OpenFile` (which
truncates, and fails while somebody else has the file open) and `CloseFile`; `LoadTicket`
is the same when number or file is missing, and then `Attach` or `Download`. `Abort` may come
between any two, and leaves what was written. Capturing a payment and saving it is one step
here: `EventSales` has it in detail. Which pledges are paid (`paid` in `Sold`) is fixed for the
same reason: confirmations and refunds belong to `EventSales`.

A pledge is reached in four ways. `PledgeController` looks its order number up over all events
the index has caught up with (`BeginByOrder`): a number that two events share makes
`SingleOrDefault` throw, or, while the index has seen only one of them, finds that one.
`TicketController` goes by the ticket's number (`BeginByNumber`). `SendTicketsToAttendees`
(`BeginSendAll`) and `ActivateEventAction` load one event by its id and go through its pledges
with that copy: `SendAllPledge` takes the attendees of a paid pledge in hand or passes over an
unpaid one, `SendAllMail` sends the pledge's mail and turns to the next, `SendAllDone` is the
end of the loop; in between come the steps all handlers share. The page offers the mailing for
an activated event only, the handler asks for nothing. A worker that dies between two mails
leaves numbers and files and no record of the mails; the request can only be made again. Which
text a PDF shows is left out but for the attendee it names.

**`TicketsHistory`** adds to `Tickets` the two history variables that `EventSalesHistory` adds
to `EventSales`, here over the documents of many events: two requests that number the same
attendee lose one of the numbers when the second saves, and not before. `MailedUntilLost` is
what the administrator relies on who asks for the mailing until it gets through: every attendee
of a paid pledge has been mailed the number that stands in the store, whichever attempt or
other request put it there.

**`EventCreation`** is about many events and their urls, where `EventSales` is about the
pledges of one. An event is its url, its state and the PayPal account it pays to.

| variable | code |
|---|---|
| `events[a]` | the event document, or none yet |
| `indexed[a]` | the same document as the index last saw it (`CatchUpEvents` brings it up to date); one index stands for all three lookups, see below |
| `req[r]` | a request: what it does next, the event and the copy it loaded, the url and the PayPal account of its form |
| `edited` | history: events an edit form gave another url |

`Available` is the check of `ShortUrlAvailable` and of `CreateEvent`, made twice
(`BeginCreate`, `CreateEvent`) before `StoreEvent` saves. The ticket form finds its event with
`Retrieve`, and `SetTicketDetails` saves to what `GetEventByShortUrl` finds: its rules differ,
and it may find a document of the session, of which the session has a copy (`Copy`). That the
second lookup reads the index the first one waited for is an assumption about RavenDB, which is
external: a query that names no index is answered from the one with the most fields that has
those it needs, so the index on url and state serves the lookup by url alone.
`BeginEdit`/`SaveEdit` are both edit forms, which set url and state from what was posted.
`BeginDelete`, `CancelToDelete`, `Remove` are the administrator's deletion with its two saves.
`BeginSales`/`SaveSales` stand for every handler of `EventSales` that saves the event, by
what each may do to the state. `Interrupt` is a worker that dies, a query that throws, or a
form that is refused.

**`Accounts`** has accounts, membership users and resets.

| variable | code |
|---|---|
| `accounts[a]` | the account document (address, token, expiry) |
| `indexed.email[a]`, `indexed.token[a]` | what the index of addresses and the index of tokens have seen of it; each catches up by itself (`CatchUpEmail`, `CatchUpToken`) |
| `users` | names of membership users |
| `mails` | mails with a token that were sent |
| `spent` | GUIDs generated so far |
| `req[r]` | a request: what it does next and the account it loaded |
| `now` | the clock tokens expire by |
| `cut`, `moved` | history: addresses whose sign-up was interrupted; accounts and the addresses they no longer have |

`SignUp` and `SignUpAccount` are the two saves of one form, `Register` the transaction of the
other. `LookUpPayer`, then `StorePayer` or `FindAnother` and `Invite`, is
`CreateIncompleteAccount`: the account it stores is not in the index when it looks the address
up, so no mail is sent (`StorePayer`) unless somebody else's account has come in between.
`BeginReset`, `SavePassword` and `ClearToken` are the reset with its two saves and its two
lookups of the token. Every other handler that saves an account (details, PayPal settings,
culture, the payee of the ticket form) is `BeginDetails`/`SaveDetails`: a copy written back.
The administrator's list (`BeginList`, `StoreMissing`) asks for all accounts and may get any of
those there are; it compares the addresses of the documents themselves.
Passwords are left out: what matters is for whom one is set, and why.

**`EventSales_proofs`** (any overlap), **`EventSalesLoops_proofs`** (the cancelling and
activating loops, any overlap), **`EventSalesHistory_proofs`** (any overlap until an update
is lost, and requests that do not overlap), **`EventSalesLedger_proofs`** (the refinement),
**`PledgeLedger_proofs`**,
**`EventCreation_proofs`**, **`Tickets_proofs`** and **`Accounts_proofs`** hold the theorems.

## What the runs check

| run | instance | shows |
|---|---|---|
| `serial` | one request slot, two keys, two attendees, two settings, three instants | `TypeOK`, `AcceptedPledgesKept`, `CapturedMoneyIsRefundable`, `RefundIsFinal`, `CancelLeavesNothingRetained`, `ActivatedIsOn`, `KeepsLedger`: with crashes and lost answers, but no overlap |
| `overlap` | two request slots, one key, two attendees, two settings; no edit forms but the ticket form, no deletion | `OrderNumbersUnique`, `PaidMatchesStatus`, `PendingIsApproved`: whatever save wins; `KeptUntilLost`, `RefundableUntilLost`, `RefundFinalUntilLost`, `CancelReturnsCaptured`, `LedgerUntilLost`: whatever overlaps, until a stale copy is saved |
| `claim_accepted` | two slots, sales only | an accepted pledge is lost when two requests overlap (`Pledging.feature`) |
| `claim_spaces` | one slot, one space | more attendees than spaces are accepted before the event is on (`Pledging.feature`) |
| `claim_announced` | one slot | a confirmation that is not paid announces the activation (`OrderController`) |
| `claim_reconciled` | one slot | a pledge is reconciled although PayPal did not execute it (`ExecutePaymentAction`) |
| `claim_cancelled` | one slot | a cancelled event keeps the money of a payer who approved and has not come back (`cancel-event.cshtml`) |
| `claim_refunded` | one slot, fairness | an underfilled event keeps the money for ever (`Pledge.cshtml`) |
| `tickets` | two slots, one event, two paid pledges of one attendee each, two numbers | `TicketsTypeOK`, `TicketBearsHolder`: through crashes at every step and whatever save wins; `FoundUntilLost`, `NumberFinalUntilLost`, `MailedUntilLost`: until a stale copy is saved |
| `claim_tickets` | one slot, two events that share an order number, three pledges of which one is unpaid, three numbers | an event is activated and its captured pledges have no tickets (`ActivateEventAction`) |
| `creation` | two slots (one is the ticket form, one serves the rest), two events, two urls, one edited url | `CreationTypeOK`, `OneEventSellsPerUrl`, `DetailsLandWhereFound`, `DeletedComesBackOnlyByKnownWays`: over a lagging index and overlapping saves |
| `accounts` | two slots (one is the administrator's form, one serves the rest), two accounts, two addresses, two tokens, a clock of two instants | `AccountsTypeOK`, `TokenNamesOneAccount`, `UserHasAccount`, `ResetFollowsMail`: over a lagging index, crashes and stale copies |

The `claim_` runs find the violation they look for; `PROJECT.json` quotes the
sentence of the repository and says what the code does.

**Bounds.** `Horizon` bounds the clock: 1, 2 and 3 are before, at and after the end of
sales, and the event starts at 3, so every comparison with the clock falls both ways.
Two attendees allow a party of two, two parties of one, a full event and one that is
one short. Each pledge takes at least one new attendee, so two attendees also bound
the pledges at two: enough for a repeated order number, a loop with a first and a
second turn, and a lost update. Two keys let both pledges have a payment. Two request
slots are enough for a stale copy to be written over a newer one. Symmetry is used in
runs of safety properties only, over attendees, keys and slots, none of which is
named by a definition. The serial and the overlapping questions are two runs because
most of the serial properties are false when requests overlap: `claim_accepted` shows
one of them. In `overlap` one key is enough for a refund, a capture and a confirmation of
one pledge to meet, and a refused pledge without a key is the second; the edit forms change
settings and state only and a deletion is a cancellation that goes on, so they are left to
`serial` (and to the proofs, which take every handler).

In `tickets` two pledges make the mailing and the activation loops of two turns, so that a
crash, another request or a second loop comes between one mail and the next, and two numbers
let both sessions number one attendee, or one number be given to both attendees by a fault;
when the numbers run out the requests that need one end. `Overlaps` bounds what is at work
at the same time: the pairs of handlers in `Together`, which leave out those that go through
the same steps as one of the pairs (sending to one pledge is a turn of the mailing loop),
and once an update is lost one request at a time, which starts from the document that won.
The proofs have neither bound. In `claim_tickets` order 1 is there in both events, so the
order pages find such a pledge only while their index has not seen the other event; order 2
is a party of two, and the first pledge is unpaid, so a loop has something to pass over. A
second event, an unpaid pledge or a party is too much for two slots: the proofs take any
number of each.

In `creation` two events are what a url can be shared by, and a second url lets an edit form
take one away (`Edits` bounds how many events that happens to; `Choices` are the states edit
forms lead to: on sale, which the dates give, and deleted, which the administrator's form
can). `Traffic` says which operations a slot serves: in one slot the ticket form, the only
handler that looks a url up twice, in the other everything that can come between. Two
creations side by side are covered by the index, which may miss the first for as long as it
likes.

In `accounts` two accounts with one address, or two tokens for one account, are the cases
that could go wrong; `Validity` and `Horizon` of 1 let a token run out, `Forever` is beyond
both, and `Moves` bounds the addresses an administrator changes; its form, which writes a
copy back whether or not it changes the address, has a slot to itself and overlaps all the
rest.

The exceptions these properties make are all needed: without `edited`, `cut` or `moved`, or
any of the ways in `Revives`, TLC finds a violation.

**Fairness.** Only `claim_refunded` uses it (`FairSpec`): a request that was started
goes on (ASP.NET runs it to its end) and time passes. Nothing obliges anybody to start
a request, a payer to come back, or a worker not to die. Deadlock is checked in every
run: a deletion, the creation of tickets for an order, or an administrator's action can always
begin while a slot is free, and a request in progress can always be interrupted.

## What is proved

`EventSales_proofs` proves for every number of requests, keys and attendees, every set
of settings and every interleaving (assumption `ConstantsAssumption`: attendees are
finitely many, a refused pledge's key is not a PayPal key, `NoMax` is not a number,
the clock has an instant):

* `TypeCorrect`: `Spec => []TypeOK`
* `OrderNumbersNeverRepeat`: `Spec => []OrderNumbersUnique`
* `PendingStaysApproved`: `Spec => []PendingIsApproved`
* `PaidAgreesWithStatus`: `Spec => []PaidMatchesStatus`

None of the four is inductive: a session's copy of the document is not the store, and
becomes the store when it is saved. So the invariant `IInv` asks of the store *and of
every copy* that it is `Good`: a document whose order numbers are at most its
attendee count and distinct (`Numbered`: that is why the next number is new, and why
the pledge found by an order number is the pledge it was taken from, `FoundAgain`),
whose flags agree (`Agreed`), and whose pending pledges were approved (`Backed`). The
first two are about the document alone, so a stale copy does no harm. `Backed` looks at
PayPal, and survives other requests because a payment never goes back behind its
approval (`Grows`). `Ready` records what a handler checked before its call: the
capture of a pending pledge, the confirmation of one whose key is PayPal's.

One lemma per group of actions shows that it keeps `IInv`; `Invariance` puts them
together.

`EventSalesLoops_proofs` proves, still for any overlap:

* `CancelledKeepsNothing`: `Spec => CancelLeavesNothingRetained`
* `ActivatedStaysOn`: `Spec => ActivatedIsOn`

The copy of a session is its own while it loops, whatever others save, so these need a
fact about the session alone (`LoopInv`): a cancelling session has no retained pledge
behind its position and, once it is `Cancelled`, none at all; an activating session is
still on. `OnlySavesStore` says that the store changes to nothing but such a copy.

`EventSalesHistory_proofs` proves for any number of overlapping requests

* `PledgesKeptUntilLost`: `SpecH => []KeptUntilLost`
* `MoneyRefundableUntilLost`: `SpecH => []RefundableUntilLost`
* `RefundsFinalUntilLost`: `SpecH => RefundFinalUntilLost`
* `CancellationsReturnCaptured`: `SpecH => CancelReturnsCaptured`, which follows from the second
  and `CancelledKeepsNothing`: what a cancellation saves retains no pledge, and captured money
  would lie on one

and, with the assumption `Serial` (there is one request slot), as corollaries

* `SerialKeepsPledges`: `Spec => []AcceptedPledgesKept`
* `SerialKeepsMoneyRefundable`: `Spec => []CapturedMoneyIsRefundable`
* `SerialRefundIsFinal`: `Spec => RefundIsFinal`

`claim_accepted` shows that the first of these is false without `Serial`, and without "until
an update is lost". All of them rest on one invariant, `KeptInv(S)`, where `S` is a set of
sessions that may hold old copies: the history's `stale`, or nobody when there is one slot.
The copies that matter are the ones somebody may still act on:

* `Asking`: the store and the copies of sessions about to call PayPal, *stale or not*; their
  answers move money now, although a stale session's save would come too late.
* `Coming(S)`: the store and the copies of sessions outside `S`; one of them may be the next
  store.

`KeptInv(S)` compares every document in `Asking` with every one in `Coming(S)`. The new one
`Follows` the old (no pledge lost, no key changed, no refund undone), and a pledge that the
old one calls pending and the new one does not is `Disposed` of: settled with its payment
over, or refunded with its payment returned or failed (`Accounted`). That is what makes a
stale capture harmless: the payment it asks for either still has a pledge to be refunded in
whatever will be the store, or is over, and PayPal captures nothing. Besides, captured money
is `Covered` in every document of `Coming(S)`, so neither a lost answer nor a crash before
the save uncovers it, and a session that is about to call and not stale holds exactly the
store. `Accounted` survives other requests because a payment that is over stays over
(`Settles`), `Covered` because only one payment is captured at a time and its pledge is
pending in `Asking`.

The set of stale sessions after a step is a parameter too (`Observed(S, T)`): `NextKept`
shows once that every step keeps `KeptInv`, `NextHistory` uses it with `stale` and `stale'`,
the serial corollaries with nobody, for whom it holds when there is one slot.

`EventSalesLedger_proofs` proves the refinement in the same two forms: `SerialImplementsLedger`,
`Spec => KeepsLedger` under `Serial`, and `LedgerKeptUntilLost`, `SpecH => LedgerUntilLost`.
`KeyInv` adds that keys are not shared and were issued by PayPal (`Keyed`) and that the copy
of a session outside `S` is at most one entry of the ledger ahead of the store, with the money
*as it is now* (`Ahead`): a payer may approve, and with overlap another session may refund,
between PayPal's answer and the save. A step then either moves the money of one payment
(`MoneyStep`) or saves a document that is one entry ahead (`BookStep`).

`PledgeLedger_proofs` proves `LedgerKeepsMoney`, what every implementation of the ledger
can rely on: money that left the payer belongs to a pledge on the books, and taken money
to one that is not refunded.

`Tickets_proofs` proves for every number of requests, events and attendees
(`SoldAssumption`: every pledge has attendee records of its own; `NoFileAssumption`)

* `TicketsTypeCorrect`: `Spec => []TicketsTypeOK`
* `TicketsBearTheirHolder`: `Spec => []TicketBearsHolder`, whatever requests overlap

A number stands in documents, in the copies of sessions, on files and in mails, and two
requests may well give one attendee two numbers. What they cannot do is give a number two
attendees: `Sole` says that everywhere a number stands it `Names` the same one, and `Working`
that a session past its number has one, and past its file has a file. Every action but
`IssueNumber` only repeats names that are there (`SoleKept`, `RequestStep`).

* `TicketsFoundUntilLost`: `SpecH => []FoundUntilLost`
* `NumbersFinalUntilLost`: `SpecH => NumberFinalUntilLost`

hold for any overlap too. A session with an old copy goes on writing files, so it has to be
shown that the number it writes under still stands in the store: `FoundInv(S)` says that the
store `Extends` every copy (every number of the copy stands in the store), that a copy outside
`S` *is* the store, and `IssuedTicketIsFound`. `StepOfOne` reduces all actions to two
kinds, a session that `Looks` and one that `Saves` a copy with more numbers than it had; a
save from outside `S` therefore only adds numbers to the store (`NumbersStay`). With `S` the
history's `stale` this gives the two theorems; with `S` empty and the assumption `Serial`

* `IssuedTicketsAreFound`: `Spec => []IssuedTicketIsFound`
* `NumbersAreFinal`: `Spec => NumberIsFinal`

Without one or the other both are false: an old copy written back takes a number off.

* `AttendeesMailedUntilLost`: `SpecH => []MailedUntilLost`

says that the mailing of all tickets leaves nobody out, for any number of events, pledges and
overlapping requests. `MailInv` follows a loop through its own copy: the attendees of the paid
pledges behind it have been mailed the number the copy has (`Reached`), and those of the pledge
it is at are still to do or attached (`InHand`). Numbers in a copy only grow, so what was mailed
stays right in it, whatever the other attempts and requests do. That the copy's number is the
store's is `FoundInv(stale)`: the store `Extends` every copy until an update is lost.

`EventCreation_proofs` proves for every number of requests, events and urls

* `CreationTypeCorrect`: `Spec => []CreationTypeOK`
* `OneEventSells`: `Spec => []OneEventSellsPerUrl`
* `DetailsLand`: `Spec => DetailsLandWhereFound`
* `DeletedComesBack`: `Spec => DeletedComesBackOnlyByKnownWays`

An index that lags turns out to do no harm here, as long as it is one index. `CopiesInv` says why: wherever a copy of an
event is (the store, the index, a session), the event exists, has the copy's url unless an
edit form has touched it, and is in the index if the copy has ticket details (`Known`). A
ticket form waited for the index at `Retrieve`, so the event it found stays in the index and
its second lookup, which insists on one answer and counts deleted events, finds that event
or throws (`Sound`). `SoldInv` adds that of the events some copy of which has ticket details,
no two unedited ones have one url: a second one never gets through the form.

`Accounts_proofs` proves for every number of requests, accounts, addresses and tokens

* `AccountsTypeCorrect`: `Spec => []AccountsTypeOK`
* `TokensAreKeys`: `Spec => []TokenNamesOneAccount`
* `UsersHaveAccounts`: `Spec => []UserHasAccount`
* `ResetsFollowMails`: `Spec => ResetFollowsMail`

`AInv` has four parts beside the types. `TokenInv`: wherever a token stands (a document, its
index, a copy) it was generated, belongs to one account with one expiry, and any mail with it
says the same, so a stale copy can bring back an account's old token but never another's.
`AddressInv`: an account has every address it was loaded with or mailed at, or has lost it
(`moved`), and a reset session is backed by a mail (`Sound`). `UserInv` is `UserHasAccount`
made inductive: the account has or had the address. `IndexInv`: what either index knows is
there. Nothing relates the two indexes, so they may lag apart.

**Only model-checked:** the `claim_` runs. **Out of the prover's reach:** liveness under
fairness (`UnderfilledIsRefunded`), ENABLED, and induction over data.

## What the code does that no run refutes

Met while modelling, in the models, and contradicted by no sentence of the repository that
a run could check:

* A url is free once its event is deleted, but the ticket form of the next event with that
  url throws for ever: `GetEventByShortUrl` counts the deleted one.
* Two requests that know no account for an address store two, and from then on every lookup
  by the address throws. A payer's incomplete account has no membership user, so its reset
  fails, and signing up makes the second account.
* A token that is spent works again while the index lags, or when an old copy of the account
  is written back.
* A deleted event saved by an edit form is live again.
* So is a cancelled or activated one: the edit form puts it back on sale with its old pledges
  (`EventController.cs:348-353`); only the link to the form is hidden (`management-console.cshtml:57`).
* An activation notes a capture that failed and goes on: the event is `Activated` with payments
  that were not executed, and cannot be activated again. They stay refundable, and an
  administrator can capture them one by one.
* The mailing of all tickets remembers nothing: made again after a failure it mails everybody
  again.

One more contradicts a message of the site, and is left without a run: `DeleteEvent` answers
an unconfirmed deletion "We won't do this unless you confirm it" and does it
(`EventManagementController.cs:279-284`).

## What is not modelled

* **Queue listener** (`TicketMuffin.Service`): not in use. `Service1.OnStart` is empty, nothing
  constructs a listener, the command only logs and the dead-letter handler is empty.
* **Site configuration, countries, content, cultures**: lookups, and documents created when
  they are missing: two first requests create two configurations (equal until one is edited),
  a reload of the countries that dies between its two saves leaves none until the next start,
  and a page's texts are kept on the first page a request asks for. Nothing else in the
  system depends on which document wins.
* **Site warm-up**: a timer whose interval only grows.
* **Mails and pages**: rendering, templates and SMTP; when a mail with a consequence is sent
  is modelled.
* **The membership provider** (`RavenDBMembership`, not in `src/`): passwords and roles.
  `AddUser` is what `AccountController` relies on: a name is given once.
* **Data no property tells apart**: requests' and answers' XML, signatures and currencies,
  charities, images of events, names of people, validation messages.
* **Third-party and generic code**: `BCrypt`, `CSVReader`, the packages, and the JavaScript and
  Flash under `TicketMuffin.Web` (jQuery, jQuery UI, Microsoft Ajax and their copies under
  `packages`). The site's own scripts (`createevent.js`, `verify-pp.js`, `content-editing.js`,
  `event.js`, `global.js`) show and hide parts of forms; the server trusts none of what they
  decide. The system's logic is C#, which is what the models are mapped to.
* The load tests and the deployment scripts.

PayPal and the payer are external: `payments` answers as the handlers in `src/` expect it to.

## How the project grew

1. `EventSales`, its runs and its invariant; its properties as theorems, for any overlap
   where they hold, and where they do not for requests that do not overlap.
2. `PledgeLedger`, refined by `EventSales`, checked and proved.
3. `Tickets`, with its theorems.
4. `Accounts` and `EventCreation`, with theirs.
5. `EventSalesHistory` and `TicketsHistory`: the serial promises for any overlap, up to the
   first lost update.
6. The mailing of all tickets (`SendTicketsToAttendees`) and `MailedUntilLost`, checked and
   proved; two indexes of accounts that lag apart; the save in the middle of a confirmation.

What would come next: a run for the unconfirmed deletion; the administrator's form of accounts
composed with the events and pledges it renames; and the listener, once something starts it.
