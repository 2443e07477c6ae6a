------------------------------ MODULE Tickets -------------------------------
(***************************************************************************)
(* Tickets for pledges that have been sold.                                *)
(*                                                                         *)
(* A ticket is a number, kept in the attendee's record inside the event's  *)
(* document, and a PDF named after it in a folder of the web server.       *)
(* TicketGenerator.CreateTicket saves the number first and writes the file *)
(* afterwards; LoadTicket makes up for what is missing.  A request is cut  *)
(* where a crash, another request or a file lock can come in between:      *)
(*                                                                         *)
(*     Begin -> IssueNumber -> OpenFile -> CloseFile -> Attach / Download  *)
(*                  for every attendee of the pledge          -> SendMail  *)
(*                                                                         *)
(* "send" does this for one pledge; "sendAll" and "activate" loop over the *)
(* pledges of an event with one copy of its document.                      *)
(*                                                                         *)
(* Definitions named ...Fault are faulty variants of the definition that   *)
(* follows them, for mutation runs; no action uses them.                   *)
(***************************************************************************)
EXTENDS Integers, FiniteSets, Sequences

CONSTANTS
    Request,        \* slots for web requests that are in progress
    Event,          \* events whose sales are over
    Attendee,       \* attendee records
    Sold,           \* the pledges of each event
    Number,         \* the supply of GUIDs
    NoNumber,       \* TicketNumber = null
    NoFile,         \* no PDF of that name
    NoSession       \* a free request slot

\* paid: PaidPendingReconciliation or Reconciled, as payments and refunds left it.
PledgeRecord == [order : Nat, paid : BOOLEAN, attendees : Seq(Attendee)]

\* Every pledge has attendee records of its own (MakePledgeAction creates them).
ASSUME SoldAssumption ==
    /\ Sold \in [Event -> Seq(PledgeRecord)]
    /\ \A e, f \in Event :
          \A i \in DOMAIN Sold[e], j \in DOMAIN Sold[f] :
            \A m \in DOMAIN Sold[e][i].attendees, n \in DOMAIN Sold[f][j].attendees :
              Sold[e][i].attendees[m] = Sold[f][j].attendees[n]
                => e = f /\ i = j /\ m = n
    /\ NoNumber \notin Number

VARIABLES
    docs,       \* the event documents as RavenDB holds them
    req,        \* the session of each request in progress
    files,      \* the ticket folder
    held,       \* PDFs still open as attachments of a mail nobody disposed of
    mails,      \* the tickets attached to mails that were sent
    spent       \* GUIDs that have been generated

vars == <<docs, req, files, held, mails, spent>>

TicketNumber == Number \cup {NoNumber}

Document == [activated  : BOOLEAN,
             reconciled : SUBSET Nat,
             number     : [Attendee -> TicketNumber]]

Pdf == [bears : Attendee, whole : BOOLEAN]

\* No file is not a file.
ASSUME NoFileAssumption == NoFile \notin Pdf

Handlers == {"create", "send", "sendAll", "download", "activate"}

Session == [op     : Handlers,
            event  : Event,
            doc    : Document,
            step   : {"ticket", "open", "write", "read", "pledge"},
            todo   : Seq(Attendee),
            pledge : Nat,
            mail   : SUBSET (Attendee \X Number)]

\* The attendee and the number a session is working on.
Current(s) == Head(s.todo)

CurrentNumber(s) == s.doc.number[Current(s)]

AtStep(r, ops, steps) ==
    /\ req[r] # NoSession
    /\ req[r].op \in ops
    /\ req[r].step \in steps

AtAttendee(r, ops, steps) == AtStep(r, ops, steps) /\ req[r].todo # <<>>

Begin(r, h, e, step, todo) ==
    /\ req[r] = NoSession
    /\ req' = [req EXCEPT ![r] =
                  [op |-> h, event |-> e, doc |-> docs[e], step |-> step,
                   todo |-> todo, pledge |-> 1, mail |-> {}]]
    /\ UNCHANGED <<docs, files, held, mails, spent>>

End(r) == req' = [req EXCEPT ![r] = NoSession]

SaveDocumentFault(e, doc) == UNCHANGED docs

\* SaveChanges: the session's copy replaces whatever document is there.
SaveDocument(e, doc) == docs' = [docs EXCEPT ![e] = doc]

GoTo(r, step) == req' = [req EXCEPT ![r].step = step]

(***************************************************************************)
(* Finding the pledge                                                      *)
(***************************************************************************)
\* PledgeController: SingleOrDefault over all events the index has caught up with; a
\* second one with the same order number makes it throw.
BeginByOrder(r) ==
    \E h \in {"create", "send"}, known \in SUBSET Event :
      \E e \in known : \E i \in DOMAIN Sold[e] :
        /\ \A f \in known : \A j \in DOMAIN Sold[f] :
              Sold[f][j].order = Sold[e][i].order => f = e /\ j = i
        /\ Begin(r, h, e, "ticket", Sold[e][i].attendees)

\* TicketController.Index, by the number on the ticket.
BeginByNumber(r) ==
    \E e \in Event : \E i \in DOMAIN Sold[e] : \E m \in DOMAIN Sold[e][i].attendees :
        LET a == Sold[e][i].attendees[m]
        IN  /\ docs[e].number[a] # NoNumber
            /\ Begin(r, "download", e, "ticket", <<a>>)

\* SendTicketsToAttendees and Activate load the event by its id.
BeginSendAll(r) == \E e \in Event : Begin(r, "sendAll", e, "pledge", <<>>)

BeginActivate(r) ==
    \E e \in Event : ~docs[e].activated /\ Begin(r, "activate", e, "pledge", <<>>)

(***************************************************************************)
(* TicketGenerator.CreateTicket                                            *)
(***************************************************************************)
NumberedFault(doc, a, n) ==
    [doc EXCEPT !.number = [b \in Attendee |-> IF @[b] = NoNumber THEN n ELSE @[b]]]

NumberedNameFault(doc, a, n) == [doc EXCEPT !.number[a] = a]

Numbered(doc, a, n) == [doc EXCEPT !.number[a] = n]

MayIssueFault(s) == s.op = "create" \/ CurrentNumber(s) = NoNumber

MayIssue(s) == CurrentNumber(s) = NoNumber

\* A new GUID is put into the attendee's record and the document is saved, whole.
IssueNumber(r) ==
    /\ AtAttendee(r, Handlers, {"ticket"})
    /\ MayIssue(req[r])
    /\ \E n \in Number \ spent :
          LET doc == Numbered(req[r].doc, Current(req[r]), n)
          IN  /\ spent' = spent \cup {n}
              /\ SaveDocument(req[r].event, doc)
              /\ req' = [req EXCEPT ![r].doc = doc, ![r].step = "open"]
    /\ UNCHANGED <<files, held, mails>>

\* The number is there: CreateTicket goes on to write the file whether it exists or
\* not; LoadTicket calls it only when the file does not exist.
NumberKnown(r) ==
    /\ AtAttendee(r, Handlers, {"ticket"})
    /\ CurrentNumber(req[r]) # NoNumber
    /\ GoTo(r, IF req[r].op \in {"create", "activate"}
                  \/ files[CurrentNumber(req[r])] = NoFile
               THEN "open" ELSE "read")
    /\ UNCHANGED <<docs, files, held, mails, spent>>

BeingWritten(n) ==
    \E r \in Request : AtStep(r, Handlers, {"write"}) /\ CurrentNumber(req[r]) = n

\* FileMode.Create truncates; a file open elsewhere makes it throw.
OpenFile(r) ==
    /\ AtAttendee(r, Handlers, {"open"})
    /\ LET n == CurrentNumber(req[r])
       IN  /\ n \notin held
           /\ ~BeingWritten(n)
           /\ files' = [files EXCEPT ![n] = [bears |-> Current(req[r]), whole |-> FALSE]]
    /\ GoTo(r, "write")
    /\ UNCHANGED <<docs, held, mails, spent>>

\* The session turns to the next attendee, or is done with them.
NextAttendee(s) == [s EXCEPT !.todo = Tail(@), !.step = "ticket"]

CloseFile(r) ==
    /\ AtAttendee(r, Handlers, {"write"})
    /\ files' = [files EXCEPT ![CurrentNumber(req[r])] =
                    [bears |-> Current(req[r]), whole |-> TRUE]]
    /\ req' = [req EXCEPT ![r] = IF @.op \in {"create", "activate"}
                                 THEN NextAttendee(@)
                                 ELSE [@ EXCEPT !.step = "read"]]
    /\ UNCHANGED <<docs, held, mails, spent>>

\* PledgeController.CreateTickets is done.
CreateDone(r) ==
    /\ AtStep(r, {"create"}, {"ticket"})
    /\ req[r].todo = <<>>
    /\ End(r)
    /\ UNCHANGED <<docs, files, held, mails, spent>>

(***************************************************************************)
(* TicketGenerator.LoadTicket: File.OpenRead, refused while one writes     *)
(***************************************************************************)
Download(r) ==
    /\ AtAttendee(r, {"download"}, {"read"})
    /\ ~BeingWritten(CurrentNumber(req[r]))
    /\ End(r)
    /\ UNCHANGED <<docs, files, held, mails, spent>>

Attach(r) ==
    /\ AtAttendee(r, {"send", "sendAll"}, {"read"})
    /\ LET n == CurrentNumber(req[r])
           s == NextAttendee(req[r])
       IN  /\ ~BeingWritten(n)
           /\ held' = held \cup {n}
           /\ req' = [req EXCEPT ![r] =
                  [s EXCEPT !.mail = @ \cup {<<Current(req[r]), n>>}]]
    /\ UNCHANGED <<docs, files, mails, spent>>

\* PledgeTicketSender's mail goes out: one for the pledge.
MailOut(r, op) ==
    /\ AtStep(r, {op}, {"ticket"})
    /\ req[r].todo = <<>>
    /\ mails' = mails \cup req[r].mail
    /\ UNCHANGED <<docs, files, held, spent>>

SendMail(r) == MailOut(r, "send") /\ End(r)

(***************************************************************************)
(* EventManagementController.SendTicketsToAttendees: a mail for each paid  *)
(* pledge; nothing remembers which went out                                *)
(***************************************************************************)
Pledge(s) == Sold[s.event][s.pledge]

\* The loop is at a pledge, or has been through them all.
AtPledge(r, op) ==
    /\ AtStep(r, {op}, {"pledge"})
    /\ req[r].pledge \in DOMAIN Sold[req[r].event]

PastPledges(r, op) ==
    /\ AtStep(r, {op}, {"pledge"})
    /\ req[r].pledge \notin DOMAIN Sold[req[r].event]

NextPledge(s) == [s EXCEPT !.pledge = @ + 1, !.step = "pledge", !.mail = {}]

MailedFault(s) ==
    /\ Pledge(s).paid
    /\ \E m \in DOMAIN Pledge(s).attendees : s.doc.number[Pledge(s).attendees[m]] = NoNumber

Mailed(s) == Pledge(s).paid

SendAllPledge(r) ==
    /\ AtPledge(r, "sendAll")
    /\ LET s == req[r]
       IN  req' = [req EXCEPT ![r] =
              IF Mailed(s)
              THEN [s EXCEPT !.step = "ticket", !.todo = Pledge(s).attendees]
              ELSE NextPledge(s)]
    /\ UNCHANGED <<docs, files, held, mails, spent>>

SendAllMail(r) ==
    /\ MailOut(r, "sendAll")
    /\ req' = [req EXCEPT ![r] = NextPledge(@)]

SendAllDone(r) ==
    /\ PastPledges(r, "sendAll")
    /\ End(r)
    /\ UNCHANGED <<docs, files, held, mails, spent>>

(***************************************************************************)
(* ActivateEventAction: a ticket for each attendee of a captured pledge    *)
(***************************************************************************)
\* The action's filter: PaidPendingReconciliation.
Pending(s) == Pledge(s).paid /\ s.pledge \notin s.doc.reconciled

\* What ExecutePaymentAction returns when the payment went through.
ExecuteResponse == [successful |-> FALSE]

\* One turn of the loop: the capture is saved and then looked at, or it fails.
ActivateExecute(r) ==
    /\ AtPledge(r, "activate")
    /\ Pending(req[r])
    /\ LET s == req[r]
           doc == [s.doc EXCEPT !.reconciled = @ \cup {s.pledge}]
       IN  \/ /\ SaveDocument(s.event, doc)
              /\ req' = [req EXCEPT ![r] =
                    IF ExecuteResponse.successful
                    THEN [s EXCEPT !.doc = doc, !.step = "ticket",
                                   !.todo = Pledge(s).attendees]
                    ELSE NextPledge([s EXCEPT !.doc = doc])]
           \/ /\ req' = [req EXCEPT ![r] = NextPledge(s)]
              /\ UNCHANGED docs
    /\ UNCHANGED <<files, held, mails, spent>>

\* A pledge that is not pending is passed over; the tickets of one are done.
ActivateNext(r) ==
    /\ \/ AtPledge(r, "activate") /\ ~Pending(req[r])
       \/ AtStep(r, {"activate"}, {"ticket"}) /\ req[r].todo = <<>>
    /\ req' = [req EXCEPT ![r] = NextPledge(@)]
    /\ UNCHANGED <<docs, files, held, mails, spent>>

ActivateDone(r) ==
    /\ PastPledges(r, "activate")
    /\ SaveDocument(req[r].event, [req[r].doc EXCEPT !.activated = TRUE])
    /\ End(r)
    /\ UNCHANGED <<files, held, mails, spent>>

(***************************************************************************)
(* Failures and the garbage collector                                      *)
(***************************************************************************)
\* The worker dies or an exception ends the request: what was written stays.
Abort(r) ==
    /\ req[r] # NoSession
    /\ End(r)
    /\ UNCHANGED <<docs, files, held, mails, spent>>

\* A mail's attachments are never disposed of: the collector closes them some day.
Collect(n) ==
    /\ n \in held
    /\ \A r \in Request : req[r] # NoSession => \A t \in req[r].mail : t[2] # n
    /\ held' = held \ {n}
    /\ UNCHANGED <<docs, req, files, mails, spent>>

Init ==
    /\ docs = [e \in Event |-> [activated |-> FALSE, reconciled |-> {},
                                number |-> [a \in Attendee |-> NoNumber]]]
    /\ req = [r \in Request |-> NoSession]
    /\ files = [n \in Number |-> NoFile]
    /\ held = {}
    /\ mails = {}
    /\ spent = {}

Start(r) ==
    BeginByOrder(r) \/ BeginByNumber(r) \/ BeginSendAll(r) \/ BeginActivate(r)

Work(r) ==
    \/ IssueNumber(r) \/ NumberKnown(r) \/ OpenFile(r) \/ CloseFile(r)
    \/ CreateDone(r) \/ Download(r) \/ Attach(r) \/ SendMail(r)
    \/ SendAllPledge(r) \/ SendAllMail(r) \/ SendAllDone(r)
    \/ ActivateExecute(r) \/ ActivateNext(r) \/ ActivateDone(r)

Next ==
    \/ \E r \in Request : Start(r) \/ Work(r) \/ Abort(r)
    \/ \E n \in Number : Collect(n)

Spec == Init /\ [][Next]_vars

(***************************************************************************)
(* What holds whatever requests overlap                                    *)
(***************************************************************************)
\* Every variable holds a value of its kind.
TicketsTypeOK ==
    /\ docs \in [Event -> Document]
    /\ req \in [Request -> Session \cup {NoSession}]
    /\ files \in [Number -> Pdf \cup {NoFile}]
    /\ held \subseteq Number
    /\ mails \subseteq Attendee \X Number
    /\ spent \subseteq Number

\* The PDF found under an attendee's number, and every PDF attached to a mail for an
\* attendee, names that attendee: two requests may give one attendee two numbers, but
\* the file of neither is ever written for somebody else (CreateTicket, LoadTicket).
TicketBearsHolder ==
    /\ \A e \in Event, a \in Attendee :
          LET n == docs[e].number[a]
          IN  (n # NoNumber /\ files[n] # NoFile) => files[n].bears = a
    /\ \A t \in mails : files[t[2]] # NoFile /\ files[t[2]].bears = t[1]

(***************************************************************************)
(* What holds when requests do not overlap, whatever crashes leave behind  *)
(***************************************************************************)
\* A PDF on the disk, and so one that was mailed, is found by the number on it
\* (TicketController.Index), also after a crash between saving and writing.
IssuedTicketIsFound ==
    \A n \in Number : files[n] # NoFile =>
        \E e \in Event : docs[e].number[files[n].bears] = n

\* The number of a ticket is never replaced: creating tickets again, and making up
\* for a file that is missing, reuse it (CreateTicket's test for null).
NumbersKept ==
    \A e \in Event, a \in Attendee :
        docs[e].number[a] # NoNumber => docs'[e].number[a] = docs[e].number[a]

NumberIsFinal == [][NumbersKept]_vars

(***************************************************************************)
(* What a comment of the repository says, and the code does not            *)
(***************************************************************************)
\* ActivateEventAction, "create a ticket for each attendee": when an event becomes
\* activated the attendees of every pledge that was captured have tickets.
ActivatedHasTickets ==
    [][\A e \in Event : (~docs[e].activated /\ docs'[e].activated) =>
          \A i \in docs'[e].reconciled : \A m \in DOMAIN Sold[e][i].attendees :
              docs'[e].number[Sold[e][i].attendees[m]] # NoNumber]_vars
=============================================================================
