--------------------------- MODULE TicketsHistory ---------------------------
(***************************************************************************)
(* Tickets with a memory of lost updates.                                  *)
(*                                                                         *)
(* Two history variables observe the steps of Tickets and restrict none:   *)
(* which sessions hold a document that somebody else has saved since they  *)
(* loaded it, and whether one of those has written it back.  The           *)
(* properties say what tickets promise until that happens, however         *)
(* requests overlap and workers die.                                       *)
(***************************************************************************)
EXTENDS Tickets

VARIABLES
    stale,      \* sessions whose document has changed in the store under their hands
    lost        \* whether such a session has saved: an update was undone

varsH == <<vars, stale, lost>>

\* This step is a save of session r's that changes a stored document.
Writes(r) == docs' # docs /\ req'[r] # req[r]

InProgress(r) == req[r] # NoSession

Observe ==
    /\ lost' = (lost \/ \E r \in stale : Writes(r))
    /\ stale' = {r \in Request :
                    /\ InProgress(r) /\ InProgress(r)'
                    /\ r \in stale \/ docs'[req[r].event] # docs[req[r].event]
                    /\ ~Writes(r)}

InitH == Init /\ stale = {} /\ lost = FALSE

NextH == Next /\ Observe

SpecH == InitH /\ [][NextH]_varsH

\* Until an update is lost every PDF on the disk, and so every one that was mailed, is
\* found by its number, though a session with an old copy still writes and mails PDFs.
FoundUntilLost == lost \/ IssuedTicketIsFound

\* The number of a ticket is not replaced by anything but a lost update: of two sessions
\* that find no number, the second to save one has an old copy (CreateTicket).
NumberFinalUntilLost == [][lost' \/ NumbersKept]_varsH

\* When "Send tickets to paid attendees" gets to its end, every attendee of a paid pledge
\* has been mailed the ticket that is found by its number, whoever numbered it, however
\* many attempts died between two mails, and though the event is activated meanwhile
\* (SendTicketsToAttendees, PledgeTicketSender).
MailedUntilLost ==
    lost \/ \A r \in Request : PastPledges(r, "sendAll") =>
        \A i \in DOMAIN Sold[req[r].event] : Sold[req[r].event][i].paid =>
            \A m \in DOMAIN Sold[req[r].event][i].attendees :
                LET a == Sold[req[r].event][i].attendees[m]
                IN  <<a, docs[req[r].event].number[a]>> \in mails
=============================================================================
