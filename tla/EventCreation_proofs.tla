------------------------ MODULE EventCreation_proofs -------------------------
(***************************************************************************)
(* EventCreation, proved for every number of requests, events and urls.    *)
(*                                                                         *)
(* The url of an event no form has edited is the same in every copy: in    *)
(* the store, in the index and in sessions (Known).  An event with ticket  *)
(* details is in the index (which never forgets), so the second look-up of *)
(* the ticket form counts it, deleted or not: a second event of its url    *)
(* never gets through (SoldInv).                                           *)
(***************************************************************************)
EXTENDS EventCreation, TLAPS

WithEvent == {"set", "edit", "delete", "remove", "sales"}

\* doc is, or was, the document of event a.
Known(a, doc) ==
    /\ events[a] # NoEvent
    /\ a \notin edited => doc.url = events[a].url
    /\ doc.paypal # NoPayPal => indexed[a] # NoEvent

\* What a session has loaded, and what a ticket form has found.
Sound(s) ==
    /\ s.op \in WithEvent => s.id \in EventId /\ s.doc \in Event /\ Known(s.id, s.doc)
    /\ s.op = "set" =>
          /\ s.paypal \in PayPal
          /\ indexed[s.id] # NoEvent
          /\ s.id \notin edited => s.url = events[s.id].url
          /\ s.doc.state # "Deleted"

CopiesInv ==
    /\ \A a \in EventId : events[a] # NoEvent => Known(a, events[a])
    /\ \A a \in EventId : indexed[a] # NoEvent => Known(a, indexed[a])
    /\ \A r \in Request : req[r] # NoSession => Sound(req[r])

\* Some copy of the event has ticket details.
Sold(a) ==
    \/ events[a] # NoEvent /\ events[a].paypal # NoPayPal
    \/ \E r \in Request : /\ req[r] # NoSession /\ req[r].op \in WithEvent
                          /\ req[r].id = a /\ req[r].doc.paypal # NoPayPal

SoldInv ==
    \A a, b \in EventId :
        Sold(a) /\ Sold(b) /\ a \notin edited /\ b \notin edited
        /\ events[a].url = events[b].url => a = b

CInv == CreationTypeOK /\ CopiesInv /\ SoldInv

(***************************************************************************)
(* The parts of the invariant, by what a step leaves alone                 *)
(***************************************************************************)
\* No event is lost, and none is given another url but by an edit form.
Stays ==
    /\ edited \subseteq edited'
    /\ \A b \in EventId : events[b] # NoEvent =>
          events'[b] # NoEvent /\ (b \notin edited' => events'[b].url = events[b].url)
    /\ \A b \in EventId : indexed[b] # NoEvent => indexed'[b] # NoEvent

LEMMA KnownStays ==
    ASSUME Stays, NEW b \in EventId, NEW doc, Known(b, doc)
    PROVE  Known(b, doc)'
BY DEF Stays, Known

LEMMA SoldIsKnown ==
    ASSUME CopiesInv, NEW a \in EventId, Sold(a)
    PROVE  events[a] # NoEvent /\ indexed[a] # NoEvent
BY DEF CopiesInv, Sold, Sound, Known

\* Copies stay sound while nothing but known documents and sound sessions come about.
LEMMA CopiesKept ==
    ASSUME CreationTypeOK, CopiesInv, Stays,
           \A b \in EventId : \/ events'[b] = events[b]
                              \/ \E doc \in Event : events'[b] = doc /\ Known(b, doc)',
           \A b \in EventId : \/ indexed'[b] = indexed[b]
                              \/ indexed'[b] = events[b],
           \A r \in Request : \/ req'[r] = req[r]
                              \/ req'[r] = NoSession
                              \/ \E s \in Session : req'[r] = s /\ Sound(s)'
    PROVE  CopiesInv'
  <1>1. ASSUME NEW a \in EventId, events'[a] # NoEvent
        PROVE  Known(a, events[a])'
    BY <1>1 DEF CopiesInv, Known, Stays
  <1>2. ASSUME NEW a \in EventId, indexed'[a] # NoEvent
        PROVE  Known(a, indexed[a])'
    BY <1>2 DEF CopiesInv, Known, Stays
  <1>3. ASSUME NEW r \in Request, req'[r] # NoSession
        PROVE  Sound(req[r])'
    <2>1. PICK s \in Session : req'[r] = s /\ Sound(s)'
      <3>1. CASE req'[r] = req[r]
        <4>1. PICK s \in Session : req[r] = s
          BY <1>3, <3>1 DEF CreationTypeOK
        <4>2. Sound(s)
          BY <1>3, <3>1, <4>1 DEF CopiesInv
        <4>3. s.op \in WithEvent => Known(s.id, s.doc)'
          BY <4>2, KnownStays DEF Sound
        <4>4. Sound(s)'
          BY <4>2, <4>3 DEF Sound, Stays, Known, WithEvent
        <4>5. QED
          BY <3>1, <4>1, <4>4
      <3>2. QED
        BY <1>3, <3>1
    <2>2. QED
      BY <2>1 DEF Sound, Known
  <1>4. QED
    BY <1>1, <1>2, <1>3 DEF CopiesInv

\* No event gets ticket details.
LEMMA SoldKept ==
    ASSUME CopiesInv, SoldInv, Stays, \A b \in EventId : Sold(b)' => Sold(b)
    PROVE  SoldInv'
  <1> SUFFICES ASSUME NEW a \in EventId, NEW b \in EventId, Sold(a)', Sold(b)',
                      a \notin edited', b \notin edited', events'[a].url = events'[b].url
               PROVE  a = b
    BY DEF SoldInv
  <1>1. Sold(a) /\ Sold(b)
    OBVIOUS
  <1>2. events[a] # NoEvent /\ events[b] # NoEvent
    BY <1>1, SoldIsKnown
  <1>3. QED
    BY <1>1, <1>2 DEF SoldInv, Stays

(***************************************************************************)
(* Kinds of steps                                                          *)
(***************************************************************************)
\* A request loads an event, goes on, or ends; nothing is written.
LEMMA Opened ==
    ASSUME CInv, NEW r \in Request, NEW s \in Session \cup {NoSession},
           req' = [req EXCEPT ![r] = s],
           s # NoSession => Sound(s),
           s # NoSession /\ s.op \in WithEvent =>
               \/ s.doc = events[s.id]
               \/ /\ req[r] # NoSession /\ req[r].op \in WithEvent
                  /\ req[r].id = s.id /\ req[r].doc = s.doc,
           UNCHANGED <<events, indexed, edited>>
    PROVE  CInv'
  <1>0. CreationTypeOK
    BY DEF CInv
  <1>1. \A q \in Request : req'[q] = IF q = r THEN s ELSE req[q]
    BY <1>0 DEF CreationTypeOK
  <1>2. CreationTypeOK'
    BY <1>0 DEF CreationTypeOK
  <1>3. Stays
    BY DEF Stays
  <1>4. s # NoSession => s \in Session /\ Sound(s)'
    BY DEF Sound, Known
  <1>5. CopiesInv'
    BY <1>0, <1>1, <1>3, <1>4, CopiesKept DEF CInv
  <1>6. ASSUME NEW b \in EventId, Sold(b)'
        PROVE  Sold(b)
    <2>1. CASE events[b] # NoEvent /\ events[b].paypal # NoPayPal
      BY <2>1 DEF Sold
    <2>2. CASE \E q \in Request : /\ req'[q] # NoSession /\ req'[q].op \in WithEvent
                                  /\ req'[q].id = b /\ req'[q].doc.paypal # NoPayPal
      <3>1. PICK q \in Request : /\ req'[q] # NoSession /\ req'[q].op \in WithEvent
                                 /\ req'[q].id = b /\ req'[q].doc.paypal # NoPayPal
        BY <2>2
      <3>2. CASE q # r
        BY <1>1, <3>1, <3>2 DEF Sold
      <3>3. CASE q = r
        <4>1. events[b] # NoEvent
          BY <1>1, <3>1, <3>3 DEF Sound, Known
        <4>2. QED
          BY <1>1, <3>1, <3>3, <4>1 DEF Sold
      <3>4. QED
        BY <3>2, <3>3
    <2>3. QED
      BY <1>6, <2>1, <2>2 DEF Sold
  <1>7. SoldInv'
    BY <1>3, <1>6, SoldKept DEF CInv
  <1>8. QED
    BY <1>2, <1>5, <1>7 DEF CInv

\* A request writes an event, with ticket details only if it had them, and ends or goes
\* on with what it has written.
LEMMA Written ==
    ASSUME CInv, NEW r \in Request, NEW s \in Session \cup {NoSession},
           NEW a \in EventId, NEW doc \in Event, Save(a, doc),
           req' = [req EXCEPT ![r] = s],
           s # NoSession => s.op = "remove" /\ s.id = a /\ s.doc = doc,
           events[a] # NoEvent,
           a \notin edited' => doc.url = events[a].url,
           doc.paypal # NoPayPal => Sold(a),
           edited \subseteq edited', edited' \subseteq EventId, indexed' = indexed
    PROVE  CInv'
  <1>0. CreationTypeOK /\ doc # NoEvent
    BY CreationAssumption DEF CInv
  <1>1. \A q \in Request : req'[q] = IF q = r THEN s ELSE req[q]
    BY <1>0 DEF CreationTypeOK
  <1>2. \A b \in EventId : events'[b] = IF b = a THEN doc ELSE events[b]
    BY <1>0 DEF CreationTypeOK, Save
  <1>3. CreationTypeOK'
    BY <1>0 DEF CreationTypeOK, Save
  <1>4. Stays
    BY <1>0, <1>2 DEF Stays
  <1>5. Known(a, doc)'
    BY <1>0, <1>2, SoldIsKnown DEF Known, CInv
  <1>6. s # NoSession => s \in Session /\ Sound(s)'
    BY <1>5 DEF Sound, WithEvent
  <1>7. CopiesInv'
    BY <1>0, <1>1, <1>2, <1>4, <1>5, <1>6, CopiesKept DEF CInv
  <1>8. \A b \in EventId : Sold(b)' => Sold(b)
    BY <1>1, <1>2 DEF Sold
  <1>9. SoldInv'
    BY <1>4, <1>8, SoldKept DEF CInv
  <1>10. QED
    BY <1>3, <1>7, <1>9 DEF CInv

(***************************************************************************)
(* The actions                                                             *)
(***************************************************************************)
\* What a session that is under way has loaded.
LEMMA Underway ==
    ASSUME CInv, NEW r \in Request, req[r] # NoSession
    PROVE  /\ req[r] \in Session /\ Sound(req[r])
           /\ req[r].op \in WithEvent =>
                 /\ req[r].id \in EventId /\ req[r].doc \in Event
                 /\ Known(req[r].id, req[r].doc)
                 /\ req[r].doc.paypal # NoPayPal => Sold(req[r].id)
BY DEF CInv, CopiesInv, CreationTypeOK, Sound, Sold

\* A session that has loaded an event.
LEMMA LoadedSound ==
    ASSUME CInv, NEW op \in {"edit", "delete", "sales"}, NEW a \in EventId, NEW u \in Url,
           events[a] # NoEvent
    PROVE  /\ Loaded(op, a, u, NoPayPal) \in Session
           /\ Sound(Loaded(op, a, u, NoPayPal))
           /\ Loaded(op, a, u, NoPayPal).doc = events[Loaded(op, a, u, NoPayPal).id]
  <1>1. events[a] \in Event /\ Known(a, events[a])
    BY DEF CInv, CopiesInv, CreationTypeOK
  <1>2. QED
    BY <1>1 DEF Loaded, Session, Ops, Sound, WithEvent

LEMMA BeginsKeep ==
    ASSUME CInv, NEW r \in Request, BeginEdit(r) \/ BeginDelete(r) \/ BeginSales(r)
    PROVE  CInv'
  <1>1. PICK op \in {"edit", "delete", "sales"}, a \in EventId, u \in Url :
           events[a] # NoEvent /\ Begin(r, Loaded(op, a, u, NoPayPal))
    <2>1. \A a \in EventId : events[a] # NoEvent => events[a].url \in Url
      BY DEF CInv, CreationTypeOK, Event
    <2>2. QED
      BY <2>1 DEF BeginEdit, BeginDelete, BeginSales
  <1>2. PICK s : s = Loaded(op, a, u, NoPayPal)
    OBVIOUS
  <1>3. s \in Session /\ Sound(s) /\ s.doc = events[s.id]
    BY <1>1, <1>2, LoadedSound
  <1>4. QED
    BY <1>1, <1>2, <1>3, Opened DEF Begin

\* Retrieve has waited for the index, so it holds the event and knows it is not deleted.
LEMMA BeginTicketsKeeps ==
    ASSUME CInv, NEW r \in Request, BeginTickets(r)
    PROVE  CInv'
  <1>1. PICK u \in Url, a \in EventId, p \in PayPal :
           Retrieve(u, a) /\ Begin(r, Loaded("set", a, u, p))
    BY DEF BeginTickets
  <1>2. /\ indexed[a] # NoEvent /\ events[a] = indexed[a]
        /\ events[a].url = u /\ events[a].state # "Deleted"
    BY <1>1 DEF Retrieve, Live
  <1>3. events[a] \in Event /\ Known(a, events[a])
    BY <1>2 DEF CInv, CopiesInv, CreationTypeOK
  <1>4. PICK s : s = Loaded("set", a, u, p)
    OBVIOUS
  <1>5. /\ s \in Session /\ s.op = "set" /\ s.id = a /\ s.doc = events[a]
        /\ s.url = u /\ s.paypal = p
    BY <1>3, <1>4 DEF Loaded, Session, Ops
  <1>6. Sound(s)
    BY <1>2, <1>3, <1>5 DEF Sound
  <1>7. QED
    BY <1>1, <1>4, <1>5, <1>6, Opened DEF Begin

LEMMA CreatesKeep ==
    ASSUME CInv, NEW r \in Request, BeginCreate(r) \/ CreateEvent(r) \/ Interrupt(r)
    PROVE  CInv'
  <1>1. CASE BeginCreate(r)
    <2>1. PICK u \in Url : Begin(r, Blank(u))
      BY <1>1 DEF BeginCreate
    <2>2. Blank(u) \in Session /\ Sound(Blank(u)) /\ Blank(u).op \notin WithEvent
      BY DEF Blank, Session, Ops, Sound, WithEvent
    <2>3. QED
      BY <2>1, <2>2, Opened DEF Begin
  <1>2. CASE CreateEvent(r)
    <2>1. req[r] \in Session
      BY <1>2, Underway DEF CreateEvent, Doing
    <2>2. PICK s : s = [req[r] EXCEPT !.op = "store"]
      OBVIOUS
    <2>3. s \in Session /\ s.op = "store"
      BY <2>1, <2>2 DEF Session, Ops
    <2>4. Sound(s) /\ s.op \notin WithEvent
      BY <2>3 DEF Sound, WithEvent
    <2>5. req' = [req EXCEPT ![r] = s] /\ UNCHANGED <<events, indexed, edited>>
      BY <1>2, <2>2 DEF CreateEvent, GoOn
    <2>6. QED
      BY <2>3, <2>4, <2>5, Opened
  <1>3. CASE Interrupt(r)
    BY <1>3, Opened DEF Interrupt, End
  <1>4. QED
    BY <1>1, <1>2, <1>3

\* Sales leave an event in one of its states, and a deleted one deleted.
LEMMA SalesStatesAreStates ==
    ASSUME NEW state \in States
    PROVE  SalesStates(state) \subseteq States /\ (state = "Deleted" => SalesStates(state) = {state})
BY DEF SalesStates, States

LEMMA SaveEditKeeps ==
    ASSUME CInv, NEW r \in Request, SaveEdit(r)
    PROVE  CInv'
  <1>1. /\ req[r] \in Session /\ req[r].id \in EventId /\ req[r].doc \in Event
        /\ Known(req[r].id, req[r].doc)
        /\ req[r].doc.paypal # NoPayPal => Sold(req[r].id)
    BY Underway DEF SaveEdit, Doing, WithEvent
  <1>2. PICK state \in Choices :
           Save(req[r].id, [req[r].doc EXCEPT !.url = req[r].url, !.state = state])
    BY DEF SaveEdit
  <1>3. PICK doc : doc = [req[r].doc EXCEPT !.url = req[r].url, !.state = state]
    OBVIOUS
  <1>4. state \in States /\ req[r].url \in Url
    BY <1>1, <1>2, CreationAssumption DEF Session
  <1>5. doc \in Event /\ doc.url = req[r].url /\ doc.paypal = req[r].doc.paypal
    <2>1. PICK old \in Event : old = req[r].doc
      BY <1>1
    <2>2. doc = [old EXCEPT !.url = req[r].url, !.state = state]
      BY <1>3, <2>1
    <2>3. QED
      BY <1>4, <2>1, <2>2 DEF Event
  <1>6. /\ edited \subseteq edited' /\ edited' \subseteq EventId
        /\ req[r].id \notin edited' => doc.url = events[req[r].id].url
    BY <1>1, <1>5 DEF SaveEdit, Known, CInv, CreationTypeOK
  <1>7. req' = [req EXCEPT ![r] = NoSession] /\ indexed' = indexed
    BY DEF SaveEdit, End
  <1>8. QED
    BY <1>1, <1>2, <1>3, <1>5, <1>6, <1>7, Written DEF Known

LEMMA StateSavesKeep ==
    ASSUME CInv, NEW r \in Request, Remove(r) \/ SaveSales(r)
    PROVE  CInv'
  <1>1. /\ req[r].id \in EventId /\ req[r].doc \in Event
        /\ Known(req[r].id, req[r].doc)
        /\ req[r].doc.paypal # NoPayPal => Sold(req[r].id)
    BY Underway DEF Remove, SaveSales, Doing, WithEvent
  <1>2. PICK state \in States : Save(req[r].id, [req[r].doc EXCEPT !.state = state])
    <2>1. req[r].doc.state \in States /\ "Deleted" \in States
      BY <1>1 DEF Event, States
    <2>2. QED
      BY <2>1, SalesStatesAreStates DEF Remove, SaveSales
  <1>3. PICK doc : doc = [req[r].doc EXCEPT !.state = state]
    OBVIOUS
  <1>4. doc \in Event /\ doc.url = req[r].doc.url /\ doc.paypal = req[r].doc.paypal
    BY <1>1, <1>3 DEF Event
  <1>5. /\ req' = [req EXCEPT ![r] = NoSession] /\ indexed' = indexed /\ edited' = edited
        /\ edited \subseteq EventId
    BY DEF Remove, SaveSales, End, CInv, CreationTypeOK
  <1>6. QED
    BY <1>1, <1>2, <1>3, <1>4, <1>5, Written DEF Known

LEMMA CancelToDeleteKeeps ==
    ASSUME CInv, NEW r \in Request, CancelToDelete(r)
    PROVE  CInv'
  <1>1. /\ req[r] \in Session /\ req[r].id \in EventId /\ req[r].doc \in Event
        /\ req[r] # NoSession /\ req[r].op = "delete"
        /\ Known(req[r].id, req[r].doc)
        /\ req[r].doc.paypal # NoPayPal => Sold(req[r].id)
    BY Underway DEF CancelToDelete, Doing, WithEvent
  <1>2. CASE req[r].doc.state \in {"Cancelled", "Completed"}
    <2>1. PICK s : s = [req[r] EXCEPT !.op = "remove"]
      OBVIOUS
    <2>2. s \in Session /\ s.op = "remove" /\ s.id = req[r].id /\ s.doc = req[r].doc
      BY <1>1, <2>1 DEF Session, Ops
    <2>3. Sound(s)
      BY <1>1, <2>2 DEF Sound
    <2>4. req' = [req EXCEPT ![r] = s] /\ UNCHANGED <<events, indexed, edited>>
      BY <1>2, <2>1 DEF CancelToDelete, GoOn
    <2>5. QED
      BY <1>1, <2>2, <2>3, <2>4, Opened DEF WithEvent
  <1>3. CASE req[r].doc.state \notin {"Cancelled", "Completed"}
    <2>1. PICK doc : doc = [req[r].doc EXCEPT !.state = "Cancelled"]
      OBVIOUS
    <2>2. doc \in Event /\ doc.url = req[r].doc.url /\ doc.paypal = req[r].doc.paypal
      BY <1>1, <2>1 DEF Event, States
    <2>3. PICK s : s = [req[r] EXCEPT !.op = "remove", !.doc = doc]
      OBVIOUS
    <2>4. s \in Session /\ s.op = "remove" /\ s.id = req[r].id /\ s.doc = doc
      BY <1>1, <2>2, <2>3 DEF Session, Ops
    <2>5. Save(req[r].id, doc) /\ req' = [req EXCEPT ![r] = s]
      BY <1>3, <2>1, <2>3 DEF CancelToDelete
    <2>6. indexed' = indexed /\ edited' = edited /\ edited \subseteq EventId
      BY DEF CancelToDelete, CInv, CreationTypeOK
    <2>7. QED
      BY <1>1, <2>2, <2>4, <2>5, <2>6, Written DEF Known
  <1>4. QED
    BY <1>2, <1>3

LEMMA StoreEventKeeps ==
    ASSUME CInv, NEW r \in Request, StoreEvent(r)
    PROVE  CInv'
  <1>0. CreationTypeOK
    BY DEF CInv
  <1>1. req[r].url \in Url
    BY Underway DEF StoreEvent, Doing, Session
  <1>2. PICK a \in EventId : events[a] = NoEvent /\ Save(a, NewEvent(req[r].url))
    BY DEF StoreEvent
  <1>3. PICK doc : doc = NewEvent(req[r].url)
    OBVIOUS
  <1>4. doc \in Event /\ doc.paypal = NoPayPal /\ doc # NoEvent
    BY <1>1, <1>3, CreationAssumption DEF NewEvent, Event, States
  <1>5. \A b \in EventId : events'[b] = IF b = a THEN doc ELSE events[b]
    BY <1>0, <1>2, <1>3 DEF CreationTypeOK, Save
  <1>6. \A q \in Request : req'[q] = IF q = r THEN NoSession ELSE req[q]
    BY <1>0 DEF CreationTypeOK, StoreEvent, End
  <1>7. CreationTypeOK'
    BY <1>0, <1>2, <1>3, <1>4 DEF CreationTypeOK, Save, StoreEvent, End
  <1>8. Stays
    BY <1>2, <1>5 DEF Stays, StoreEvent
  <1>9. Known(a, doc)'
    BY <1>4, <1>5 DEF Known
  <1>10. CopiesInv'
    BY <1>0, <1>4, <1>5, <1>6, <1>8, <1>9, CopiesKept DEF CInv, StoreEvent
  <1>11. \A b \in EventId : Sold(b)' => Sold(b)
    BY <1>4, <1>5, <1>6 DEF Sold
  <1>12. SoldInv'
    BY <1>8, <1>11, SoldKept DEF CInv
  <1>13. QED
    BY <1>7, <1>10, <1>12 DEF CInv

\* The event that gets the details is alone in the index with its url.
LEMMA SetTicketDetailsKeeps ==
    ASSUME CInv, NEW r \in Request, SetTicketDetails(r)
    PROVE  CInv'
  <1>0. CreationTypeOK
    BY DEF CInv
  <1>1. /\ req[r] \in Session /\ Sound(req[r]) /\ req[r].paypal \in PayPal
        /\ req[r].id \in EventId /\ req[r].doc \in Event
        /\ Known(req[r].id, req[r].doc)
    BY Underway DEF SetTicketDetails, Doing, WithEvent, Sound
  <1>2. PICK b \in EventId :
           /\ GetEventByShortUrl(req[r].url, b)
           /\ Save(b, [url |-> Copy(req[r], b).url, state |-> "SalesReady",
                       paypal |-> req[r].paypal])
    BY DEF SetTicketDetails
  <1>3. /\ indexed[b] # NoEvent /\ indexed[b].url = req[r].url
        /\ \A c \in EventId : indexed[c] # NoEvent /\ indexed[c].url = req[r].url => c = b
    BY <1>2 DEF GetEventByShortUrl
  <1>4. Known(b, indexed[b]) /\ Known(b, events[b])
    BY <1>3 DEF CInv, CopiesInv, Known
  <1>5. Copy(req[r], b) \in Event /\ Known(b, Copy(req[r], b))
    BY <1>0, <1>1, <1>4 DEF Copy, CreationTypeOK, Known
  <1>6. PICK doc : doc = [url |-> Copy(req[r], b).url, state |-> "SalesReady",
                          paypal |-> req[r].paypal]
    OBVIOUS
  <1>7. /\ doc \in Event /\ doc # NoEvent
        /\ b \notin edited => doc.url = events[b].url
    BY <1>1, <1>5, <1>6, CreationAssumption DEF Event, States, Known
  <1>8. \A c \in EventId : events'[c] = IF c = b THEN doc ELSE events[c]
    BY <1>0, <1>2, <1>6 DEF CreationTypeOK, Save
  <1>9. \A q \in Request : req'[q] = IF q = r THEN NoSession ELSE req[q]
    BY <1>0 DEF CreationTypeOK, SetTicketDetails, End
  <1>10. CreationTypeOK'
    BY <1>0, <1>2, <1>6, <1>7 DEF CreationTypeOK, Save, SetTicketDetails, End
  <1>11. Stays
    BY <1>7, <1>8 DEF Stays, SetTicketDetails
  <1>12. Known(b, doc)'
    BY <1>3, <1>7, <1>8 DEF Known, SetTicketDetails
  <1>13. CopiesInv'
    BY <1>0, <1>7, <1>8, <1>9, <1>11, <1>12, CopiesKept DEF CInv, SetTicketDetails
  <1>14. SoldInv'
    <2> SUFFICES ASSUME NEW c \in EventId, NEW d \in EventId, Sold(c)', Sold(d)',
                        c \notin edited', d \notin edited', events'[c].url = events'[d].url
                 PROVE  c = d
      BY DEF SoldInv
    <2>1. ASSUME NEW e \in EventId, Sold(e)', e \notin edited'
          PROVE  /\ e = b \/ Sold(e)
                 /\ events'[e].url = events[e].url
                 /\ events[e].url = indexed[e].url /\ indexed[e] # NoEvent
      <3>1. e = b \/ Sold(e)
        BY <1>8, <1>9, <2>1 DEF Sold
      <3>2. events[e] # NoEvent /\ indexed[e] # NoEvent
        BY <1>3, <1>4, <3>1, SoldIsKnown DEF CInv, Known
      <3>3. events[e].url = indexed[e].url
        BY <2>1, <3>2 DEF CInv, CopiesInv, Known, SetTicketDetails
      <3>4. events'[e].url = events[e].url
        BY <1>11, <2>1, <3>2 DEF Stays
      <3>5. QED
        BY <3>1, <3>2, <3>3, <3>4
    <2>2. CASE c = b \/ d = b
      <3>1. indexed[c].url = indexed[d].url
        BY <2>1
      <3>2. QED
        BY <1>3, <2>1, <2>2, <3>1
    <2>3. CASE c # b /\ d # b
      BY <2>1, <2>3 DEF CInv, SoldInv, SetTicketDetails
    <2>4. QED
      BY <2>2, <2>3
  <1>15. QED
    BY <1>10, <1>13, <1>14 DEF CInv

LEMMA CatchUpKeeps ==
    ASSUME CInv, NEW a \in EventId, CatchUpEvents(a)
    PROVE  CInv'
  <1>0. CreationTypeOK /\ CreationTypeOK'
    BY DEF CInv, CreationTypeOK, CatchUpEvents
  <1>1. \A b \in EventId : indexed'[b] = IF b = a THEN events[a] ELSE indexed[b]
    BY <1>0 DEF CatchUpEvents, CreationTypeOK
  <1>2. UNCHANGED <<events, req, edited>>
    BY DEF CatchUpEvents
  <1>3. Stays
    BY <1>1, <1>2 DEF Stays, CInv, CopiesInv, Known
  <1>4. CopiesInv'
    BY <1>0, <1>1, <1>2, <1>3, CopiesKept DEF CInv
  <1>5. SoldInv'
    BY <1>2, <1>3, SoldKept DEF CInv, Sold
  <1>6. QED
    BY <1>0, <1>4, <1>5 DEF CInv

(***************************************************************************)
(* The theorems                                                            *)
(***************************************************************************)
LEMMA InitCInv == Init => CInv
BY CreationAssumption DEF Init, CInv, CreationTypeOK, CopiesInv, SoldInv, Sold

LEMMA NextCInv == CInv /\ [Next]_vars => CInv'
  <1> SUFFICES ASSUME CInv, [Next]_vars PROVE CInv'
    OBVIOUS
  <1>1. ASSUME NEW r \in Request, RequestNext(r)
        PROVE  CInv'
    BY <1>1, BeginsKeep, BeginTicketsKeeps, CreatesKeep, SaveEditKeeps, StateSavesKeep,
       CancelToDeleteKeeps, StoreEventKeeps, SetTicketDetailsKeeps
       DEF RequestNext
  <1>2. CASE \E a \in EventId : CatchUpEvents(a)
    BY <1>2, CatchUpKeeps
  <1>3. CASE UNCHANGED vars
    BY <1>3 DEF vars, CInv, CreationTypeOK, CopiesInv, Known, Sound, SoldInv, Sold
  <1>4. QED
    BY <1>1, <1>2, <1>3 DEF Next

\* The invariant holds throughout.
THEOREM CreationInvariant == Spec => []CInv
BY InitCInv, NextCInv, PTL DEF Spec

\* Every variable keeps its type (EventCreation!CreationTypeOK).
THEOREM CreationTypeCorrect == Spec => []CreationTypeOK
  <1>1. CInv => CreationTypeOK
    BY DEF CInv
  <1>2. QED
    BY <1>1, CreationInvariant, PTL

\* Two events never sell under one url, unless a form gave one of them the url
\* (EventService.CreateEvent, Retrieve, SetTicketDetails).
THEOREM OneEventSells == Spec => []OneEventSellsPerUrl
  <1>1. CInv => OneEventSellsPerUrl
    BY DEF CInv, SoldInv, Sold, Offered, OneEventSellsPerUrl
  <1>2. QED
    BY <1>1, CreationInvariant, PTL

\* A step is some request's, and touches no other's session, or changes no event.
LEMMA WhoseStep ==
    ASSUME CInv, [Next]_vars
    PROVE  \/ \E r \in Request : /\ RequestNext(r)
                                 /\ \A q \in Request : q # r => req'[q] = req[q]
           \/ UNCHANGED <<events, req>>
  <1>1. ASSUME NEW r \in Request, RequestNext(r)
        PROVE  \A q \in Request : q # r => req'[q] = req[q]
    <2>1. req \in [Request -> Session \cup {NoSession}]
      BY DEF CInv, CreationTypeOK
    <2>2. \E s : req' = [req EXCEPT ![r] = s]
      BY <1>1 DEF RequestNext, BeginCreate, CreateEvent, StoreEvent, BeginTickets,
         SetTicketDetails, BeginEdit, SaveEdit, BeginDelete, CancelToDelete, Remove,
         BeginSales, SaveSales, Interrupt, Begin, GoOn, End
    <2>3. QED
      BY <2>1, <2>2
  <1>2. QED
    BY <1>1 DEF Next, vars, CatchUpEvents

\* The second look-up finds the event of the first, unless a form has changed its url.
LEMMA FoundAgain ==
    ASSUME CInv, NEW r \in Request, SetTicketDetails(r), req[r].id \notin edited,
           NEW b \in EventId, events'[b] # events[b]
    PROVE  b = req[r].id
  <1>1. PICK c \in EventId :
           /\ GetEventByShortUrl(req[r].url, c)
           /\ Save(c, [url |-> Copy(req[r], c).url, state |-> "SalesReady",
                       paypal |-> req[r].paypal])
    BY DEF SetTicketDetails
  <1>2. b = c
    BY <1>1 DEF Save, CInv, CreationTypeOK
  <1>3. /\ req[r].id \in EventId /\ indexed[req[r].id] # NoEvent
        /\ req[r].url = events[req[r].id].url
    BY Underway DEF SetTicketDetails, Doing, Sound, WithEvent
  <1>4. indexed[req[r].id].url = req[r].url
    BY <1>3 DEF CInv, CopiesInv, Known
  <1>5. QED
    BY <1>1, <1>2, <1>3, <1>4 DEF GetEventByShortUrl

\* Ticket details land on the event the form was sent for
\* (CreateEventController.TicketDetails, EventService.SetTicketDetails).
THEOREM DetailsLand == Spec => DetailsLandWhereFound
  <1>1. ASSUME CInv, [Next]_vars, NEW r \in Request, NEW b \in EventId,
               Doing(r, "set"), req'[r] # req[r], events'[b] # events[b]
        PROVE  b = req[r].id \/ req[r].id \in edited
    <2>1. RequestNext(r)
      BY <1>1, WhoseStep
    <2>2. SetTicketDetails(r)
      BY <1>1, <2>1 DEF RequestNext, Doing, BeginCreate, CreateEvent, StoreEvent,
         BeginTickets, BeginEdit, SaveEdit, BeginDelete, CancelToDelete, Remove,
         BeginSales, SaveSales, Interrupt, Begin
    <2>3. QED
      BY <1>1, <2>2, FoundAgain
  <1>2. CInv /\ [Next]_vars =>
           [\A r \in Request, b \in EventId :
               Doing(r, "set") /\ req'[r] # req[r] /\ events'[b] # events[b]
                 => b = req[r].id \/ req[r].id \in edited]_vars
    BY <1>1
  <1>3. QED
    BY <1>2, CreationInvariant, PTL DEF Spec, DetailsLandWhereFound

LEMMA RevivedBy ==
    ASSUME CInv, NEW r \in Request, RequestNext(r), NEW a \in EventId,
           events[a] # NoEvent, events[a].state = "Deleted", events'[a].state # "Deleted"
    PROVE  req[r] # NoSession /\ req'[r] # req[r] /\ Revives(r, a)
  <1>0. CreationTypeOK /\ events'[a] # events[a]
    BY DEF CInv
  <1>1. ASSUME req[r] # NoSession, req[r].op \in WithEvent, NEW doc, Save(req[r].id, doc)
        PROVE  a = req[r].id /\ events'[a] = doc
    BY <1>0, <1>1, Underway DEF Save, CreationTypeOK
  <1>2. CASE StoreEvent(r)
    BY <1>0, <1>2 DEF StoreEvent, Save, CreationTypeOK
  <1>3. CASE SetTicketDetails(r)
    <2>1. req[r] # NoSession /\ req[r].op = "set" /\ req'[r] = NoSession
      BY <1>0, <1>3 DEF SetTicketDetails, Doing, End, CreationTypeOK
    <2>2. req[r].id \notin edited => a = req[r].id
      BY <1>0, <1>3, FoundAgain
    <2>3. req[r].doc.state # "Deleted"
      BY <2>1, Underway DEF Sound
    <2>4. QED
      BY <2>1, <2>2, <2>3 DEF Revives, Doing
  <1>4. CASE SaveEdit(r)
    <2>1. req[r] # NoSession /\ req[r].op = "edit" /\ req'[r] = NoSession
      BY <1>0, <1>4 DEF SaveEdit, Doing, End, CreationTypeOK
    <2>2. a = req[r].id
      BY <1>1, <1>4, <2>1 DEF SaveEdit, WithEvent
    <2>3. QED
      BY <2>1, <2>2 DEF Revives
  <1>5. CASE CancelToDelete(r)
    <2>1. req[r] # NoSession /\ req[r].op = "delete"
      BY <1>5 DEF CancelToDelete, Doing
    <2>2. a = req[r].id
      BY <1>0, <1>1, <1>5, <2>1 DEF CancelToDelete, WithEvent
    <2>3. req'[r] # req[r]
      <3>1. req[r] \in Session
        BY <2>1, Underway
      <3>2. req'[r].op = "remove"
        BY <1>0, <1>5, <3>1 DEF CancelToDelete, GoOn, CreationTypeOK, Session
      <3>3. QED
        BY <2>1, <3>2
    <2>4. QED
      BY <2>1, <2>2, <2>3 DEF Revives
  <1>6. CASE Remove(r)
    <2>1. req[r] # NoSession /\ req[r].op \in WithEvent /\ req[r].doc \in Event
      BY <1>6, Underway DEF Remove, Doing, WithEvent
    <2>2. events'[a] = [req[r].doc EXCEPT !.state = "Deleted"]
      BY <1>1, <1>6, <2>1 DEF Remove
    <2>3. QED
      BY <2>1, <2>2 DEF Event
  <1>7. CASE SaveSales(r)
    <2>1. /\ req[r] # NoSession /\ req[r].op \in WithEvent /\ req[r].doc \in Event
          /\ req'[r] = NoSession
      BY <1>0, <1>7, Underway DEF SaveSales, Doing, WithEvent, End, CreationTypeOK
    <2>2. PICK state \in SalesStates(req[r].doc.state) :
             Save(req[r].id, [req[r].doc EXCEPT !.state = state])
      BY <1>7 DEF SaveSales
    <2>3. a = req[r].id /\ events'[a] = [req[r].doc EXCEPT !.state = state]
      BY <1>1, <2>1, <2>2
    <2>4. state # "Deleted"
      BY <2>1, <2>3 DEF Event
    <2>5. req[r].doc.state # "Deleted"
      BY <2>2, <2>4, SalesStatesAreStates DEF States
    <2>6. QED
      BY <2>1, <2>3, <2>5 DEF Revives
  <1>8. QED
    BY <1>0, <1>2, <1>3, <1>4, <1>5, <1>6, <1>7
       DEF RequestNext, BeginCreate, CreateEvent, BeginTickets, BeginEdit, BeginDelete,
           BeginSales, Interrupt, Begin

\* How a deleted event comes back (every handler that saves events).
THEOREM DeletedComesBack == Spec => DeletedComesBackOnlyByKnownWays
  <1>1. ASSUME CInv, [Next]_vars, NEW a \in EventId,
               events[a] # NoEvent, events[a].state = "Deleted",
               events'[a].state # "Deleted"
        PROVE  \E r \in Request :
                  req[r] # NoSession /\ req'[r] # req[r] /\ Revives(r, a)
    BY <1>1, WhoseStep, RevivedBy
  <1>2. CInv /\ [Next]_vars =>
           [\A a \in EventId :
               events[a] # NoEvent /\ events[a].state = "Deleted"
               /\ events'[a].state # "Deleted"
                 => \E r \in Request :
                       req[r] # NoSession /\ req'[r] # req[r] /\ Revives(r, a)]_vars
    BY <1>1
  <1>3. QED
    BY <1>2, CreationInvariant, PTL DEF Spec, DeletedComesBackOnlyByKnownWays
=============================================================================
