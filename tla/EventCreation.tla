---------------------------- MODULE EventCreation ----------------------------
(***************************************************************************)
(* Creating events, and the short urls they are found by.                  *)
(*                                                                         *)
(* An event is one RavenDB document; its organiser, its payers and its     *)
(* links know it by a short url, a field any document may hold.  A url is  *)
(* looked up in three ways: ShortUrlAvailable and CreateEvent ask an index *)
(* that may lag, Retrieve waits until the index is up to date and leaves   *)
(* out deleted events, GetEventByShortUrl does neither.  The module is     *)
(* about many events; what the handlers do with the pledges of one event   *)
(* is EventSales, and appears here as the document they load and save.     *)
(*                                                                         *)
(* One index stands for all three.  That is an assumption about RavenDB,   *)
(* which is not part of the repository: it answers a query that names no   *)
(* index from the one with the most fields that has those it needs, so the *)
(* index on url and state that the first two ask for serves the third.     *)
(*                                                                         *)
(* Definitions named ...Fault are faulty variants of the definition that   *)
(* follows them, for mutation runs; no action uses them.                   *)
(***************************************************************************)
EXTENDS Integers, FiniteSets

CONSTANTS
    Request,        \* slots for web requests that are in progress
    Traffic,        \* the operations each slot serves
    EventId,        \* the supply of event documents
    Url,            \* short urls
    PayPal,         \* PayPal accounts that organisers give
    Choices,        \* the states that edit forms lead to
    Edits,          \* bound on the events whose url an edit form changes
    NoPayPal,       \* an event without ticket details
    NoEvent,        \* no document of that id
    NoSession       \* a free request slot

States == {"Creating", "SalesReady", "Activated", "SalesClosed",
           "Completed", "Cancelled", "Deleted"}

Event == [url : Url, state : States, paypal : PayPal \cup {NoPayPal}]

Ops == {"create", "store", "set", "edit", "delete", "remove", "sales"}

\* op is what the request does next; id and doc are the event it has loaded, or for a
\* new event nothing; url and paypal are what its form says.
Session == [op     : Ops,
            id     : EventId \cup {NoEvent},
            doc    : Event \cup {NoEvent},
            url    : Url,
            paypal : PayPal \cup {NoPayPal}]

ASSUME CreationAssumption ==
    /\ Traffic \in [Request -> SUBSET Ops]
    /\ Edits \in Nat
    /\ Choices \subseteq States
    /\ NoPayPal \notin PayPal
    /\ NoEvent \notin EventId
    /\ NoEvent \notin Event
    /\ NoSession \notin Session

VARIABLES
    events,         \* the event documents as RavenDB holds them
    indexed,        \* the event documents as its index has seen them
    req,            \* the session of each request in progress
    edited          \* history: events whose url an edit form has changed

vars == <<events, indexed, req, edited>>

(***************************************************************************)
(* Looking a url up                                                        *)
(***************************************************************************)
Live(u) == {a \in EventId : /\ indexed[a] # NoEvent
                            /\ indexed[a].url = u
                            /\ indexed[a].state # "Deleted"}

\* ShortUrlAvailable, and the same query in CreateEvent.
Available(u) == Live(u) = {}

RetrieveFault(u, a) ==
    /\ indexed = events
    /\ {b \in EventId : indexed[b] # NoEvent /\ indexed[b].url = u} = {a}

\* Retrieve waits for the index; with two events of the url it throws.
Retrieve(u, a) ==
    /\ indexed = events
    /\ Live(u) = {a}

GetEventByShortUrlFault(u, a) == a \in Live(u)

\* GetEventByShortUrl does not wait, and counts deleted events.
GetEventByShortUrl(u, a) ==
    {b \in EventId : indexed[b] # NoEvent /\ indexed[b].url = u} = {a}

CatchUpEvents(a) ==
    /\ indexed[a] # events[a]
    /\ indexed' = [indexed EXCEPT ![a] = events[a]]
    /\ UNCHANGED <<events, req, edited>>

(***************************************************************************)
(* Sessions                                                                *)
(***************************************************************************)
Doing(r, op) == req[r] # NoSession /\ req[r].op = op

\* A request for a new event.
Blank(u) == [op |-> "create", id |-> NoEvent, doc |-> NoEvent, url |-> u,
             paypal |-> NoPayPal]

\* A request that has loaded an event.
Loaded(op, a, u, p) == [op |-> op, id |-> a, doc |-> events[a], url |-> u, paypal |-> p]

Begin(r, s) ==
    /\ req[r] = NoSession
    /\ s.op \in Traffic[r]
    /\ req' = [req EXCEPT ![r] = s]
    /\ UNCHANGED <<events, indexed, edited>>

GoOn(r, op) == req' = [req EXCEPT ![r].op = op]

End(r) == req' = [req EXCEPT ![r] = NoSession]

\* SaveChanges writes the session's copy of the event, whole.
Save(a, doc) == events' = [events EXCEPT ![a] = doc]

\* The process dies, a query or a form throws, or the form is refused.
Interrupt(r) ==
    /\ req[r] # NoSession
    /\ End(r)
    /\ UNCHANGED <<events, indexed, edited>>

(***************************************************************************)
(* Creating an event                                                       *)
(***************************************************************************)
\* The form is checked ...
BeginCreate(r) == \E u \in Url : Available(u) /\ Begin(r, Blank(u))

\* ... and after the image, the charity and the account have been dealt with, checked
\* again; the new event is in the session, not yet saved.
CreateEvent(r) ==
    /\ Doing(r, "create")
    /\ Available(req[r].url)
    /\ GoOn(r, "store")
    /\ UNCHANGED <<events, indexed, edited>>

NewEventFault(u) == [url |-> u, state |-> NoPayPal, paypal |-> NoPayPal]

NewEvent(u) == [url |-> u, state |-> "Creating", paypal |-> NoPayPal]

StoreEvent(r) ==
    /\ Doing(r, "store")
    /\ \E a \in EventId : events[a] = NoEvent /\ Save(a, NewEvent(req[r].url))
    /\ End(r)
    /\ UNCHANGED <<indexed, edited>>

(***************************************************************************)
(* The ticket form                                                         *)
(***************************************************************************)
\* The form is opened for the event Retrieve finds; PayPal is then asked whether the
\* account exists, and if it does not the request ends (Interrupt).
BeginTickets(r) ==
    \E u \in Url, a \in EventId, p \in PayPal :
        Retrieve(u, a) /\ Begin(r, Loaded("set", a, u, p))

\* The session hands out the copy it has; only another event is loaded now.
Copy(s, b) == IF b = s.id THEN s.doc ELSE events[b]

SetTicketDetailsFault(r) ==
    /\ Doing(r, "set")
    /\ Save(req[r].id, [req[r].doc EXCEPT !.state = "SalesReady", !.paypal = req[r].paypal])
    /\ End(r)
    /\ UNCHANGED <<indexed, edited>>

\* SetTicketDetails looks the url up once more and puts what it finds on sale.
SetTicketDetails(r) ==
    LET s == req[r]
    IN  /\ Doing(r, "set")
        /\ \E b \in EventId :
              /\ GetEventByShortUrl(s.url, b)
              /\ Save(b, [url |-> Copy(s, b).url, state |-> "SalesReady",
                          paypal |-> s.paypal])
        /\ End(r)
        /\ UNCHANGED <<indexed, edited>>

(***************************************************************************)
(* Other handlers that write events                                        *)
(***************************************************************************)
\* Both edit forms load the event by id and take the url, like every field, from the
\* form ...
BeginEdit(r) ==
    \E a \in EventId, u \in Url :
        /\ events[a] # NoEvent
        /\ u # events[a].url => Cardinality(edited \cup {a}) <= Edits
        /\ Begin(r, Loaded("edit", a, u, NoPayPal))

\* ... the organiser's sets the state to SalesReady, SalesClosed or Completed by the
\* dates, the administrator's to any state by the form; neither looks at what it was.
SaveEdit(r) ==
    LET s == req[r]
    IN  /\ Doing(r, "edit")
        /\ \E state \in Choices : Save(s.id, [s.doc EXCEPT !.url = s.url, !.state = state])
        /\ edited' = IF s.url = s.doc.url THEN edited ELSE edited \cup {s.id}
        /\ End(r)
        /\ UNCHANGED indexed

BeginDelete(r) ==
    \E a \in EventId :
        /\ events[a] # NoEvent
        /\ Begin(r, Loaded("delete", a, events[a].url, NoPayPal))

\* Deleting cancels the event and saves it, unless it is over or cancelled ...
CancelToDelete(r) ==
    LET s == req[r]
    IN  /\ Doing(r, "delete")
        /\ IF s.doc.state \in {"Cancelled", "Completed"}
           THEN GoOn(r, "remove") /\ UNCHANGED events
           ELSE /\ Save(s.id, [s.doc EXCEPT !.state = "Cancelled"])
                /\ req' = [req EXCEPT ![r] = [s EXCEPT !.op = "remove",
                              !.doc = [s.doc EXCEPT !.state = "Cancelled"]]]
        /\ UNCHANGED <<indexed, edited>>

\* ... and marks it deleted when the request ends.
Remove(r) ==
    /\ Doing(r, "remove")
    /\ Save(req[r].id, [req[r].doc EXCEPT !.state = "Deleted"])
    /\ End(r)
    /\ UNCHANGED <<indexed, edited>>

\* Pledges, payments, refunds, activation and the organiser's cancellation load the
\* event ...
BeginSales(r) ==
    \E a \in EventId :
        /\ events[a] # NoEvent
        /\ Begin(r, Loaded("sales", a, events[a].url, NoPayPal))

\* ... and leave its state, activate it when its sales are on, or cancel it, unless it
\* is over, cancelled or, which Retrieve sees to, deleted.
SalesStates(state) ==
    {state} \cup (IF state = "SalesReady" THEN {"Activated"} ELSE {})
            \cup (IF state \in {"Cancelled", "Completed", "Deleted"} THEN {}
                  ELSE {"Cancelled"})

SaveSales(r) ==
    /\ Doing(r, "sales")
    /\ \E state \in SalesStates(req[r].doc.state) :
          Save(req[r].id, [req[r].doc EXCEPT !.state = state])
    /\ End(r)
    /\ UNCHANGED <<indexed, edited>>

Init ==
    /\ events = [a \in EventId |-> NoEvent]
    /\ indexed = [a \in EventId |-> NoEvent]
    /\ req = [r \in Request |-> NoSession]
    /\ edited = {}

RequestNext(r) ==
    \/ BeginCreate(r) \/ CreateEvent(r) \/ StoreEvent(r)
    \/ BeginTickets(r) \/ SetTicketDetails(r)
    \/ BeginEdit(r) \/ SaveEdit(r)
    \/ BeginDelete(r) \/ CancelToDelete(r) \/ Remove(r)
    \/ BeginSales(r) \/ SaveSales(r)
    \/ Interrupt(r)

Next ==
    \/ \E r \in Request : RequestNext(r)
    \/ \E a \in EventId : CatchUpEvents(a)

Spec == Init /\ [][Next]_vars

(***************************************************************************)
(* Properties                                                              *)
(***************************************************************************)
\* Every variable has its type.
CreationTypeOK ==
    /\ events \in [EventId -> Event \cup {NoEvent}]
    /\ indexed \in [EventId -> Event \cup {NoEvent}]
    /\ req \in [Request -> Session \cup {NoSession}]
    /\ edited \subseteq EventId

\* The ticket form has been through for the event, and it is not deleted.
Offered(a) ==
    /\ events[a] # NoEvent
    /\ events[a].paypal # NoPayPal
    /\ events[a].state # "Deleted"

\* Two events never sell under one url, although two organisers can create events with
\* it at once, unless an edit form gave one of them the url
\* (EventService.CreateEvent, Retrieve and GetEventByShortUrl against a lagging index,
\* deletions and old copies written back).
OneEventSellsPerUrl ==
    \A a, b \in EventId :
        Offered(a) /\ Offered(b) /\ events[a].url = events[b].url /\ a # b
            => a \in edited \/ b \in edited

\* The ticket details, with the account the money goes to, land on the event the form
\* was sent for, though it is looked up again by other rules, unless an
\* edit form has changed its url meanwhile
\* (CreateEventController.TicketDetails, EventService.SetTicketDetails).
DetailsLandWhereFound ==
    [][\A r \in Request, b \in EventId :
         Doing(r, "set") /\ req'[r] # req[r] /\ events'[b] # events[b]
           => b = req[r].id \/ req[r].id \in edited]_vars

\* Who may bring a deleted event back.
Revives(r, a) ==
    \/ req[r].id = a /\ (req[r].doc.state # "Deleted" \/ req[r].op \in {"edit", "delete"})
    \/ Doing(r, "set") /\ req[r].id \in edited

\* A deleted event comes back only by an edit form, by a second deletion, which cancels
\* it first, by a request that loaded it before it was deleted, or by a ticket form
\* whose own event was given another url (every handler that saves events).
DeletedComesBackOnlyByKnownWays ==
    [][\A a \in EventId :
         events[a] # NoEvent /\ events[a].state = "Deleted" /\ events'[a].state # "Deleted"
           => \E r \in Request : req[r] # NoSession /\ req'[r] # req[r] /\ Revives(r, a)]_vars
=============================================================================
