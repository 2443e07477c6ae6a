--------------------------- MODULE Tickets_proofs ---------------------------
(***************************************************************************)
(* Tickets, proved for every number of requests, events and attendees.     *)
(*                                                                         *)
(* A ticket number stands in documents, in the copies of sessions, on      *)
(* files and in mails.  Wherever it stands it names the same attendee      *)
(* (Sole): that is what two overlapping requests cannot disturb.  Whether  *)
(* it stands in the stored document they can disturb, but only by saving   *)
(* an old copy (FoundInv).                                                 *)
(***************************************************************************)
EXTENDS TicketsHistory, TLAPS

\* Number n is given to attendee a somewhere.
Names(a, n) ==
    \/ \E e \in Event : docs[e].number[a] = n
    \/ \E r \in Request : req[r] # NoSession /\ req[r].doc.number[a] = n
    \/ \E r \in Request : req[r] # NoSession /\ <<a, n>> \in req[r].mail
    \/ files[n] # NoFile /\ files[n].bears = a
    \/ <<a, n>> \in mails

\* A number that is in use was generated, and names one attendee.
Sole ==
    \A n \in Number : \A a \in Attendee :
        Names(a, n) => n \in spent /\ \A b \in Attendee : Names(b, n) => a = b

\* A session between its number and its file has an attendee with a number; once the
\* file is opened it is there.
Working(s) ==
    /\ s.step \in {"open", "write", "read"} =>
          s.todo # <<>> /\ CurrentNumber(s) \in Number
    /\ s.step \in {"write", "read"} => files[CurrentNumber(s)] # NoFile
    /\ \A t \in s.mail : files[t[2]] # NoFile

TInv ==
    /\ TicketsTypeOK
    /\ Sole
    /\ \A r \in Request : req[r] # NoSession => Working(req[r])
    /\ \A t \in mails : files[t[2]] # NoFile

\* Nothing that was on the disk is taken off it.
FilesStay == \A n \in Number : files[n] # NoFile => files'[n] # NoFile

\* A step that gives no number keeps every number to its attendee.
LEMMA SoleKept ==
    ASSUME Sole, spent \subseteq spent',
           \A a \in Attendee, n \in Number : Names(a, n)' => Names(a, n)
    PROVE  Sole'
BY DEF Sole

\* A session that is at work keeps working while others write files.
LEMMA StillWorking ==
    ASSUME NEW s \in Session, Working(s), FilesStay
    PROVE  Working(s)'
BY DEF Working, FilesStay, Session, CurrentNumber, Current

\* The step of one request that gives no number: what it has to show.
LEMMA RequestStep ==
    ASSUME TInv, NEW r \in Request, NEW s,
           req' = [req EXCEPT ![r] = s],
           s = NoSession \/ (s \in Session /\ Working(s)'),
           docs' \in [Event -> Document],
           files' \in [Number -> Pdf \cup {NoFile}], FilesStay,
           held' \subseteq Number, spent' = spent,
           mails' \subseteq Attendee \X Number,
           \A t \in mails' : files'[t[2]] # NoFile,
           \A a \in Attendee, n \in Number : Names(a, n)' => Names(a, n)
    PROVE  TInv'
<1>1. TicketsTypeOK'
  BY DEF TInv, TicketsTypeOK
<1>2. Sole'
  BY SoleKept DEF TInv
<1>3. ASSUME NEW q \in Request, req'[q] # NoSession  PROVE Working(req[q])'
  <2>1. CASE q = r
    <3>1. req'[q] = s
      BY <2>1 DEF TInv, TicketsTypeOK
    <3>2. QED  BY <1>3, <3>1 DEF Working, CurrentNumber, Current
  <2>2. CASE q # r
    <3>1. req'[q] = req[q] /\ req[q] \in Session
      BY <1>3, <2>2 DEF TInv, TicketsTypeOK
    <3>2. Working(req[q])
      BY <1>3, <3>1 DEF TInv
    <3>3. QED  BY <3>1, <3>2, StillWorking DEF Working, CurrentNumber, Current
  <2>3. QED  BY <2>1, <2>2
<1>4. QED  BY <1>1, <1>2, <1>3 DEF TInv

\* The names a request's own session brings when it changes alone.
LEMMA OwnNames ==
    ASSUME NEW r \in Request, NEW s, TicketsTypeOK,
           req' = [req EXCEPT ![r] = s],
           UNCHANGED <<docs, files, mails>>,
           s # NoSession => \A a \in Attendee, n \in Number :
               s.doc.number[a] = n \/ <<a, n>> \in s.mail => Names(a, n)
    PROVE  \A a \in Attendee, n \in Number : Names(a, n)' => Names(a, n)
<1> SUFFICES ASSUME NEW a \in Attendee, NEW n \in Number, Names(a, n)'
             PROVE  Names(a, n)
  OBVIOUS
<1>1. \A q \in Request : req'[q] = IF q = r THEN s ELSE req[q]
  BY DEF TicketsTypeOK
<1>2. QED  BY <1>1 DEF Names

\* A session as it stands.
LEMMA AtWork ==
    ASSUME TInv, NEW r \in Request, NEW ops, NEW steps, AtStep(r, ops, steps)
    PROVE  /\ req[r] \in Session /\ req[r] # NoSession /\ Working(req[r])
           /\ req[r].op \in ops /\ req[r].step \in steps
           /\ \A a \in Attendee, n \in Number :
                 req[r].doc.number[a] = n \/ <<a, n>> \in req[r].mail => Names(a, n)
BY DEF TInv, TicketsTypeOK, AtStep, Names

\* The attendees of a sold pledge are attendee records.
LEMMA SoldAttendees ==
    ASSUME NEW e \in Event, NEW i \in DOMAIN Sold[e]
    PROVE  /\ Sold[e][i].attendees \in Seq(Attendee)
           /\ \A m \in DOMAIN Sold[e][i].attendees : Sold[e][i].attendees[m] \in Attendee
<1>1. Sold[e] \in Seq(PledgeRecord)
  BY SoldAssumption
<1>2. Sold[e][i] \in PledgeRecord
  BY <1>1
<1>3. Sold[e][i].attendees \in Seq(Attendee)
  BY <1>2 DEF PledgeRecord
<1>4. QED  BY <1>3

\* A request begins with a copy of a document.
LEMMA BeginKeeps ==
    ASSUME TInv, NEW r \in Request, NEW h \in Handlers, NEW e \in Event,
           NEW step \in {"ticket", "pledge"}, NEW todo \in Seq(Attendee),
           Begin(r, h, e, step, todo)
    PROVE  TInv'
<1>0. PICK s : s = [op |-> h, event |-> e, doc |-> docs[e], step |-> step,
                    todo |-> todo, pledge |-> 1, mail |-> {}]
  OBVIOUS
<1>1. s \in Session
  BY <1>0 DEF Session, TInv, TicketsTypeOK
<1>2. Working(s)'
  BY <1>0 DEF Working
<1>3. \A a \in Attendee, n \in Number :
          s.doc.number[a] = n \/ <<a, n>> \in s.mail => Names(a, n)
  BY <1>0 DEF Names
<1>4. req' = [req EXCEPT ![r] = s] /\ UNCHANGED <<docs, files, held, mails, spent>>
  BY <1>0 DEF Begin
<1>5. \A a \in Attendee, n \in Number : Names(a, n)' => Names(a, n)
  BY <1>3, <1>4, OwnNames DEF TInv
<1>6. QED  BY <1>1, <1>2, <1>4, <1>5, RequestStep DEF TInv, TicketsTypeOK, FilesStay

LEMMA StartKeeps ==
    ASSUME TInv, NEW r \in Request, Start(r)
    PROVE  TInv'
<1>1. CASE BeginByOrder(r)
  <2>1. PICK h \in {"create", "send"}, e \in Event : \E i \in DOMAIN Sold[e] :
            Begin(r, h, e, "ticket", Sold[e][i].attendees)
    BY <1>1 DEF BeginByOrder
  <2>2. PICK i \in DOMAIN Sold[e] : Begin(r, h, e, "ticket", Sold[e][i].attendees)
    BY <2>1
  <2>3. h \in Handlers /\ Sold[e][i].attendees \in Seq(Attendee)
    BY SoldAttendees DEF Handlers
  <2>4. QED  BY <2>2, <2>3, BeginKeeps
<1>2. CASE BeginByNumber(r)
  <2>1. PICK e \in Event : \E i \in DOMAIN Sold[e] :
            \E m \in DOMAIN Sold[e][i].attendees :
               Begin(r, "download", e, "ticket", <<Sold[e][i].attendees[m]>>)
    BY <1>2 DEF BeginByNumber
  <2>2. PICK i \in DOMAIN Sold[e] : \E m \in DOMAIN Sold[e][i].attendees :
               Begin(r, "download", e, "ticket", <<Sold[e][i].attendees[m]>>)
    BY <2>1
  <2>3. PICK m \in DOMAIN Sold[e][i].attendees :
               Begin(r, "download", e, "ticket", <<Sold[e][i].attendees[m]>>)
    BY <2>2
  <2>4. <<Sold[e][i].attendees[m]>> \in Seq(Attendee)
    BY SoldAttendees
  <2>5. "download" \in Handlers
    BY DEF Handlers
  <2>6. QED  BY <2>3, <2>4, <2>5, BeginKeeps
<1>3. CASE BeginSendAll(r) \/ BeginActivate(r)
  <2>1. PICK h \in {"sendAll", "activate"}, e \in Event : Begin(r, h, e, "pledge", <<>>)
    BY <1>3 DEF BeginSendAll, BeginActivate
  <2>2. <<>> \in Seq(Attendee) /\ h \in Handlers
    BY DEF Handlers
  <2>3. QED  BY <2>1, <2>2, BeginKeeps
<1>4. QED  BY <1>1, <1>2, <1>3 DEF Start

\* A session ends; mails it sent had their tickets attached.
LEMMA EndKeeps ==
    ASSUME TInv, NEW r \in Request,
           CreateDone(r) \/ Download(r) \/ SendMail(r) \/ SendAllDone(r) \/ Abort(r)
    PROVE  TInv'
<1>1. End(r) /\ UNCHANGED <<docs, files, held, spent>> /\ req[r] # NoSession
  BY DEF CreateDone, Download, SendMail, MailOut, SendAllDone, PastPledges, Abort,
         AtAttendee, AtStep
<1>2. req[r] \in Session /\ Working(req[r])
  BY <1>1 DEF TInv, TicketsTypeOK
<1>3. mails' = mails \/ mails' = mails \cup req[r].mail
  BY DEF CreateDone, Download, SendMail, MailOut, SendAllDone, Abort
<1>4. mails' \subseteq Attendee \X Number
  BY <1>2, <1>3 DEF TInv, TicketsTypeOK, Session
<1>5. \A t \in mails' : files'[t[2]] # NoFile
  BY <1>1, <1>2, <1>3 DEF TInv, Working
<1>6. ASSUME NEW a \in Attendee, NEW n \in Number, Names(a, n)'
      PROVE  Names(a, n)
  <2>1. \A q \in Request : req'[q] = IF q = r THEN NoSession ELSE req[q]
    BY <1>1 DEF End, TInv, TicketsTypeOK
  <2>2. QED  BY <1>1, <1>3, <1>6, <2>1 DEF Names
<1>7. req' = [req EXCEPT ![r] = NoSession]
  BY <1>1 DEF End
<1>8. QED  BY <1>1, <1>4, <1>5, <1>6, <1>7, RequestStep DEF TInv, TicketsTypeOK, FilesStay

\* The number is there: the session goes on to the file.
LEMMA NumberKnownKeeps ==
    ASSUME TInv, NEW r \in Request, NumberKnown(r)
    PROVE  TInv'
<1>0. PICK old : old = req[r]
  OBVIOUS
<1> DEFINE next == IF \/ old.op \in {"create", "activate"}
                      \/ files[CurrentNumber(old)] = NoFile
                   THEN "open" ELSE "read"
<1>a. PICK s : s = [old EXCEPT !.step = next]
  OBVIOUS
<1>1. /\ old \in Session /\ Working(old) /\ old.todo # <<>>
      /\ CurrentNumber(old) # NoNumber
      /\ \A a \in Attendee, n \in Number :
            old.doc.number[a] = n \/ <<a, n>> \in old.mail => Names(a, n)
  BY <1>0, AtWork DEF NumberKnown, AtAttendee
<1>2. CurrentNumber(old) \in Number
  BY <1>1 DEF CurrentNumber, Current, Session, Document, TicketNumber
<1>3. /\ s \in Session /\ s.todo = old.todo /\ s.mail = old.mail /\ s.doc = old.doc
      /\ s.step \in {"open", "read"}
      /\ s.step = "read" => files[CurrentNumber(old)] # NoFile
  BY <1>1, <1>a DEF Session
<1>4. req' = [req EXCEPT ![r] = s] /\ UNCHANGED <<docs, files, held, mails, spent>>
  BY <1>0, <1>a DEF NumberKnown, GoTo, TInv, TicketsTypeOK
<1> HIDE DEF next
<1>5. Working(s)'
  BY <1>1, <1>2, <1>3, <1>4 DEF Working, CurrentNumber, Current
<1>6. \A a \in Attendee, n \in Number : Names(a, n)' => Names(a, n)
  BY <1>1, <1>3, <1>4, OwnNames DEF TInv
<1>7. QED  BY <1>3, <1>4, <1>5, <1>6, RequestStep DEF TInv, TicketsTypeOK, FilesStay

\* A fresh number is given to one attendee, who had none, and the document is saved.
LEMMA IssueNumberKeeps ==
    ASSUME TInv, NEW r \in Request, IssueNumber(r)
    PROVE  TInv'
<1>0. PICK old : old = req[r]
  OBVIOUS
<1>1. PICK a : a = Current(old)
  OBVIOUS
<1>2. PICK n \in Number \ spent :
          /\ spent' = spent \cup {n}
          /\ SaveDocument(old.event, Numbered(old.doc, a, n))
          /\ req' = [req EXCEPT ![r].doc = Numbered(old.doc, a, n), ![r].step = "open"]
  BY <1>0, <1>1 DEF IssueNumber
<1>3. PICK doc : doc = Numbered(old.doc, a, n)
  OBVIOUS
<1>4. PICK s : s = [old EXCEPT !.doc = doc, !.step = "open"]
  OBVIOUS
<1>5. /\ old \in Session /\ Working(old) /\ old.todo # <<>>
      /\ \A b \in Attendee, m \in Number :
            old.doc.number[b] = m \/ <<b, m>> \in old.mail => Names(b, m)
  BY <1>0, AtWork DEF IssueNumber, AtAttendee
<1>6. a \in Attendee /\ old.event \in Event /\ old.doc \in Document
  BY <1>1, <1>5 DEF Current, Session
<1>7. /\ doc \in Document
      /\ doc.number = [old.doc.number EXCEPT ![a] = n]
  BY <1>3, <1>6 DEF Numbered, Document, TicketNumber
<1>8. /\ s \in Session /\ s.doc = doc /\ s.mail = old.mail /\ s.todo = old.todo
      /\ s.step = "open"
  BY <1>4, <1>5, <1>7 DEF Session
<1>9. /\ req' = [req EXCEPT ![r] = s]
      /\ docs' = [docs EXCEPT ![old.event] = doc]
      /\ UNCHANGED <<files, held, mails>>
  BY <1>0, <1>2, <1>3, <1>4 DEF IssueNumber, SaveDocument, TInv, TicketsTypeOK
<1>10. TicketsTypeOK'
  <2>1. docs' \in [Event -> Document]
    BY <1>7, <1>9 DEF TInv, TicketsTypeOK
  <2>2. req' \in [Request -> Session \cup {NoSession}]
    BY <1>8, <1>9 DEF TInv, TicketsTypeOK
  <2>3. spent' \subseteq Number
    BY <1>2 DEF TInv, TicketsTypeOK
  <2>4. QED
    BY <1>9, <2>1, <2>2, <2>3 DEF TInv, TicketsTypeOK
<1>11. CurrentNumber(s) = n
  BY <1>1, <1>6, <1>7, <1>8 DEF CurrentNumber, Current, Document
<1>12. \A q \in Request : req'[q] = IF q = r THEN s ELSE req[q]
  BY <1>9 DEF TInv, TicketsTypeOK
<1>13. ASSUME NEW b \in Attendee, NEW m \in Number, Names(b, m)'
       PROVE  Names(b, m) \/ (b = a /\ m = n)
  <2>1. doc.number[b] = m => Names(b, m) \/ (b = a /\ m = n)
    BY <1>5, <1>6, <1>7 DEF Document
  <2>2. \A e \in Event : docs'[e].number[b] = m => Names(b, m) \/ (b = a /\ m = n)
    BY <1>9, <2>1 DEF TInv, TicketsTypeOK, Names
  <2>3. \A q \in Request : req'[q] # NoSession /\ req'[q].doc.number[b] = m
            => Names(b, m) \/ (b = a /\ m = n)
    BY <1>8, <1>12, <2>1 DEF Names
  <2>4. \A q \in Request : req'[q] # NoSession /\ <<b, m>> \in req'[q].mail
            => Names(b, m)
    BY <1>5, <1>8, <1>12 DEF Names
  <2>5. QED  BY <1>9, <1>13, <2>2, <2>3, <2>4 DEF Names
<1>14. Sole'
  <2>1. \A b \in Attendee, m \in Number : Names(b, m) => m # n
    BY <1>2 DEF TInv, Sole
  <2>2. QED  BY <1>2, <1>13, <2>1 DEF TInv, Sole
<1>15. FilesStay
  BY <1>9 DEF FilesStay
<1>16. ASSUME NEW q \in Request, req'[q] # NoSession  PROVE Working(req[q])'
  <2>1. CASE q = r
    <3>1. Working(s)'
      BY <1>5, <1>8, <1>9, <1>11 DEF Working
    <3>2. QED  BY <2>1, <3>1, <1>12 DEF Working, CurrentNumber, Current
  <2>2. CASE q # r
    <3>1. req'[q] = req[q] /\ req[q] \in Session /\ Working(req[q])
      BY <1>12, <1>16, <2>2 DEF TInv, TicketsTypeOK
    <3>2. QED  BY <3>1, <1>15, StillWorking DEF Working, CurrentNumber, Current
  <2>3. QED  BY <2>1, <2>2
<1>17. QED  BY <1>9, <1>10, <1>14, <1>16 DEF TInv

\* The file of a session's number is written for the session's attendee.
LEMMA FileWritten ==
    ASSUME TInv, NEW r \in Request, NEW s \in Session, NEW pdf \in Pdf,
           AtAttendee(r, Handlers, {"open", "write"}),
           pdf.bears = Current(req[r]),
           files' = [files EXCEPT ![CurrentNumber(req[r])] = pdf],
           req' = [req EXCEPT ![r] = s],
           UNCHANGED <<docs, held, mails, spent>>,
           s.doc = req[r].doc, s.mail = req[r].mail,
           \/ s.step = "ticket"
           \/ s.step \in {"write", "read"} /\ s.todo = req[r].todo
    PROVE  TInv'
<1>0. PICK old : old = req[r]
  OBVIOUS
<1>1. PICK n : n = CurrentNumber(old)
  OBVIOUS
<1>2. /\ old \in Session /\ Working(old) /\ old.todo # <<>>
      /\ old.step \in {"open", "write"}
      /\ \A b \in Attendee, m \in Number :
            old.doc.number[b] = m \/ <<b, m>> \in old.mail => Names(b, m)
  BY <1>0, AtWork DEF AtAttendee
<1>3. n \in Number
  BY <1>1, <1>2 DEF Working
<1>4. files' = [files EXCEPT ![n] = pdf] /\ pdf.bears \in Attendee
  BY <1>0, <1>1 DEF Pdf
<1>5. pdf.bears = Current(old) /\ old.doc.number[pdf.bears] = n
  BY <1>0, <1>1 DEF CurrentNumber
<1>6. \A m \in Number : files'[m] = IF m = n THEN pdf ELSE files[m]
  BY <1>4 DEF TInv, TicketsTypeOK
<1>7. FilesStay
  BY <1>6, NoFileAssumption DEF FilesStay
<1>8. Working(s)'
  <2>1. s.step \in {"write", "read"} => s.todo # <<>> /\ CurrentNumber(s) = n
    BY <1>0, <1>1, <1>2 DEF CurrentNumber, Current
  <2>2. \A t \in s.mail : files[t[2]] # NoFile /\ t[2] \in Number
    BY <1>0, <1>2 DEF Working, Session
  <2>3. \A t \in s.mail : files'[t[2]] # NoFile
    BY <1>7, <2>2 DEF FilesStay
  <2>4. files'[n] # NoFile
    BY <1>3, <1>6, NoFileAssumption
  <2>5. s.step # "open"
    OBVIOUS
  <2>6. QED  BY <1>3, <2>1, <2>3, <2>4, <2>5 DEF Working, CurrentNumber, Current
<1>9. ASSUME NEW a \in Attendee, NEW m \in Number, Names(a, m)'
      PROVE  Names(a, m)
  <2>1. \A q \in Request : req'[q] = IF q = r THEN s ELSE req[q]
    BY DEF TInv, TicketsTypeOK
  <2>2. files'[m] # NoFile /\ files'[m].bears = a => Names(a, m)
    BY <1>2, <1>4, <1>5, <1>6 DEF Names
  <2>3. QED  BY <1>0, <1>2, <1>9, <2>1, <2>2 DEF Names
<1>10. \A t \in mails' : files'[t[2]] # NoFile
  BY <1>7 DEF TInv, TicketsTypeOK, FilesStay
<1>11. files' \in [Number -> Pdf \cup {NoFile}]
  BY DEF TInv, TicketsTypeOK
<1>12. QED  BY <1>7, <1>8, <1>9, <1>10, <1>11, RequestStep DEF TInv, TicketsTypeOK

\* A session on its way to the next attendee.
LEMMA NextAttendeeTyped ==
    ASSUME NEW s \in Session, s.todo # <<>>
    PROVE  /\ NextAttendee(s) \in Session /\ NextAttendee(s).step = "ticket"
           /\ NextAttendee(s).doc = s.doc /\ NextAttendee(s).mail = s.mail
<1>1. Tail(s.todo) \in Seq(Attendee)
  BY DEF Session
<1>2. QED  BY <1>1 DEF NextAttendee, Session

LEMMA FileKeeps ==
    ASSUME TInv, NEW r \in Request, OpenFile(r) \/ CloseFile(r)
    PROVE  TInv'
<1>0. PICK old : old = req[r]
  OBVIOUS
<1>1. /\ AtAttendee(r, Handlers, {"open", "write"})
      /\ old \in Session /\ old.todo # <<>> /\ Current(old) \in Attendee
      /\ UNCHANGED <<docs, held, mails, spent>>
  <2>1. AtAttendee(r, Handlers, {"open", "write"})
    BY DEF OpenFile, CloseFile, AtAttendee, AtStep
  <2>2. old \in Session /\ old.todo # <<>>
    BY <1>0, <2>1, AtWork DEF AtAttendee
  <2>3. QED  BY <2>1, <2>2 DEF OpenFile, CloseFile, Current, Session
<1>2. ASSUME NEW w \in BOOLEAN  PROVE [bears |-> Current(old), whole |-> w] \in Pdf
  BY <1>1 DEF Pdf
<1>3. CASE OpenFile(r)
  <2>1. PICK s : s = [old EXCEPT !.step = "write"]
    OBVIOUS
  <2>2. /\ s \in Session /\ s.doc = old.doc /\ s.mail = old.mail
        /\ s.todo = old.todo /\ s.step = "write"
    BY <1>1, <2>1 DEF Session
  <2>3. req' = [req EXCEPT ![r] = s]
    BY <1>0, <1>3, <2>1 DEF OpenFile, GoTo
  <2>4. PICK pdf \in Pdf : pdf = [bears |-> Current(old), whole |-> FALSE]
    BY <1>2
  <2>5. files' = [files EXCEPT ![CurrentNumber(old)] = pdf] /\ pdf.bears = Current(old)
    BY <1>0, <1>3, <2>4 DEF OpenFile
  <2>6. QED  BY <1>0, <1>1, <2>2, <2>3, <2>5, FileWritten
<1>4. CASE CloseFile(r)
  <2>1. PICK s : s = IF old.op \in {"create", "activate"} THEN NextAttendee(old)
                     ELSE [old EXCEPT !.step = "read"]
    OBVIOUS
  <2>2. /\ s \in Session /\ s.doc = old.doc /\ s.mail = old.mail
        /\ s.step = "ticket" \/ (s.step = "read" /\ s.todo = old.todo)
    BY <1>1, <2>1, NextAttendeeTyped DEF Session
  <2>3. req' = [req EXCEPT ![r] = s]
    BY <1>0, <1>4, <2>1 DEF CloseFile, TInv, TicketsTypeOK
  <2>4. PICK pdf \in Pdf : pdf = [bears |-> Current(old), whole |-> TRUE]
    BY <1>2
  <2>5. files' = [files EXCEPT ![CurrentNumber(old)] = pdf] /\ pdf.bears = Current(old)
    BY <1>0, <1>4, <2>4 DEF CloseFile
  <2>6. QED  BY <1>0, <1>1, <2>2, <2>3, <2>5, FileWritten
<1>5. QED  BY <1>3, <1>4

\* A ticket that is attached is on the disk and names the attendee it is for.
LEMMA AttachKeeps ==
    ASSUME TInv, NEW r \in Request, Attach(r)
    PROVE  TInv'
<1>0. PICK old : old = req[r]
  OBVIOUS
<1>1. PICK n : n = CurrentNumber(old)
  OBVIOUS
<1>2. /\ old \in Session /\ Working(old) /\ old.todo # <<>> /\ old.step = "read"
      /\ \A b \in Attendee, m \in Number :
            old.doc.number[b] = m \/ <<b, m>> \in old.mail => Names(b, m)
  BY <1>0, AtWork DEF Attach, AtAttendee
<1>3. n \in Number /\ files[n] # NoFile /\ Current(old) \in Attendee
  BY <1>1, <1>2 DEF Working, Current, Session
<1>a. PICK next : next = NextAttendee(old)
  OBVIOUS
<1>4. PICK s : s = [next EXCEPT !.mail = @ \cup {<<Current(old), n>>}]
  OBVIOUS
<1>b. next \in Session /\ next.step = "ticket" /\ next.doc = old.doc /\ next.mail = old.mail
  BY <1>2, <1>a, NextAttendeeTyped
<1>5. /\ s \in Session /\ s.doc = old.doc /\ s.step = "ticket"
      /\ s.mail = old.mail \cup {<<Current(old), n>>}
  BY <1>3, <1>4, <1>b DEF Session
<1>6. /\ req' = [req EXCEPT ![r] = s] /\ held' = held \cup {n}
      /\ UNCHANGED <<docs, files, mails, spent>>
  BY <1>0, <1>1, <1>a, <1>4 DEF Attach
<1>7. Working(s)'
  BY <1>2, <1>3, <1>5, <1>6 DEF Working
<1>8. \A a \in Attendee, m \in Number :
          s.doc.number[a] = m \/ <<a, m>> \in s.mail => Names(a, m)
  BY <1>1, <1>2, <1>3, <1>5 DEF CurrentNumber
<1>9. \A a \in Attendee, m \in Number : Names(a, m)' => Names(a, m)
  BY <1>6, <1>8, OwnNames DEF TInv
<1>10. QED
  BY <1>3, <1>5, <1>6, <1>7, <1>9, RequestStep DEF TInv, TicketsTypeOK, FilesStay

\* Documents change while the numbers in the one that is saved are a session's.
LEMMA SavedNames ==
    ASSUME TicketsTypeOK, NEW r \in Request, req[r] # NoSession,
           NEW e \in Event, NEW doc, NEW s,
           docs' = [docs EXCEPT ![e] = doc] \/ UNCHANGED docs,
           req' = [req EXCEPT ![r] = s],
           UNCHANGED <<files, mails>>,
           doc.number = req[r].doc.number,
           s # NoSession => /\ s.doc.number = req[r].doc.number
                            /\ s.mail \subseteq req[r].mail
    PROVE  \A a \in Attendee, n \in Number : Names(a, n)' => Names(a, n)
<1> SUFFICES ASSUME NEW a \in Attendee, NEW n \in Number, Names(a, n)'
             PROVE  Names(a, n)
  OBVIOUS
<1>1. \A q \in Request : req'[q] = IF q = r THEN s ELSE req[q]
  BY DEF TicketsTypeOK
<1>2. \A f \in Event : docs'[f] = doc \/ docs'[f] = docs[f]
  BY DEF TicketsTypeOK
<1>3. QED  BY <1>1, <1>2 DEF Names

\* A session on its way to the next pledge.
LEMMA NextPledgeTyped ==
    ASSUME NEW s \in Session
    PROVE  /\ NextPledge(s) \in Session /\ NextPledge(s).step = "pledge"
           /\ NextPledge(s).doc = s.doc /\ NextPledge(s).mail = {}
           /\ NextPledge(s).op = s.op /\ NextPledge(s).event = s.event
           /\ NextPledge(s).pledge = s.pledge + 1
<1>1. s.pledge + 1 \in Nat
  BY DEF Session
<1>2. QED  BY <1>1 DEF NextPledge, Session

\* The loops over pledges give no number: what their steps have to show.
LEMMA LoopStep ==
    ASSUME TInv, NEW r \in Request, NEW s, NEW doc \in Document,
           req[r] # NoSession, doc.number = req[r].doc.number,
           req' = [req EXCEPT ![r] = s],
           docs' = [docs EXCEPT ![req[r].event] = doc] \/ UNCHANGED docs,
           UNCHANGED <<files, held, mails, spent>>,
           \/ s = NoSession
           \/ /\ s \in Session /\ s.step \in {"pledge", "ticket"}
              /\ s.doc.number = req[r].doc.number /\ s.mail \subseteq req[r].mail
    PROVE  TInv'
<1>1. req[r] \in Session /\ Working(req[r]) /\ req[r].event \in Event
  BY DEF TInv, TicketsTypeOK, Session
<1>2. s = NoSession \/ (s \in Session /\ Working(s)')
  BY <1>1 DEF Working
<1>3. docs' \in [Event -> Document]
  BY <1>1 DEF TInv, TicketsTypeOK
<1>4. \A a \in Attendee, n \in Number : Names(a, n)' => Names(a, n)
  BY <1>1, SavedNames DEF TInv
<1>5. QED
  BY <1>2, <1>3, <1>4, RequestStep DEF TInv, TicketsTypeOK, FilesStay

\* Capturing, passing over a pledge and activating.
LEMMA ActivateKeeps ==
    ASSUME TInv, NEW r \in Request,
           ActivateExecute(r) \/ ActivateNext(r) \/ ActivateDone(r)
    PROVE  TInv'
<1>0. PICK old : old = req[r]
  OBVIOUS
<1>1. AtStep(r, {"activate"}, {"pledge", "ticket"})
  BY DEF ActivateExecute, ActivateNext, ActivateDone, AtPledge, PastPledges, AtStep
<1>2. /\ old \in Session /\ old # NoSession
      /\ old.event \in Event /\ old.doc \in Document /\ old.pledge \in Nat
  <2>1. old \in Session /\ old # NoSession
    BY <1>0, <1>1, AtWork
  <2>2. QED  BY <2>1 DEF Session
<1>3. UNCHANGED <<files, held, mails, spent>>
  BY DEF ActivateExecute, ActivateNext, ActivateDone
<1>4. PICK doc : doc = [old.doc EXCEPT !.reconciled = @ \cup {old.pledge}]
  OBVIOUS
<1>5. doc \in Document /\ doc.number = old.doc.number
  BY <1>2, <1>4 DEF Document
<1>6. CASE ActivateExecute(r)
  <2>1. PICK todo : todo = Pledge(old).attendees
    OBVIOUS
  <2>2. todo \in Seq(Attendee)
    BY <1>0, <1>2, <1>6, <2>1, SoldAttendees DEF ActivateExecute, AtPledge, Pledge
  <2>3. PICK s1 : s1 = [old EXCEPT !.doc = doc, !.step = "ticket", !.todo = todo]
    OBVIOUS
  <2>4. PICK mid : mid = [old EXCEPT !.doc = doc]
    OBVIOUS
  <2>5. \/ /\ docs' = [docs EXCEPT ![old.event] = doc]
           /\ req' = [req EXCEPT ![r] = s1] \/ req' = [req EXCEPT ![r] = NextPledge(mid)]
        \/ req' = [req EXCEPT ![r] = NextPledge(old)] /\ UNCHANGED docs
    BY <1>0, <1>4, <1>6, <2>1, <2>3, <2>4 DEF ActivateExecute, SaveDocument
  <2>6. s1 \in Session /\ s1.step = "ticket" /\ s1.doc = doc /\ s1.mail = old.mail
    BY <1>2, <1>5, <2>2, <2>3 DEF Session
  <2>7. mid \in Session /\ mid.doc = doc
    BY <1>2, <1>5, <2>4 DEF Session
  <2>8. PICK s2, s3 : s2 = NextPledge(mid) /\ s3 = NextPledge(old)
    OBVIOUS
  <2>9. /\ s2 \in Session /\ s2.step = "pledge" /\ s2.doc = doc /\ s2.mail = {}
        /\ s3 \in Session /\ s3.step = "pledge" /\ s3.doc = old.doc /\ s3.mail = {}
    BY <1>2, <2>7, <2>8, NextPledgeTyped
  <2>10. PICK s : /\ req' = [req EXCEPT ![r] = s]
                  /\ s \in {s1, s2, s3}
                  /\ docs' = [docs EXCEPT ![old.event] = doc] \/ UNCHANGED docs
    BY <2>5, <2>8
  <2>11. /\ s \in Session /\ s.step \in {"pledge", "ticket"}
         /\ s.doc.number = old.doc.number /\ s.mail \subseteq old.mail
    BY <1>5, <2>6, <2>9, <2>10
  <2>12. QED  BY <1>0, <1>2, <1>3, <1>5, <2>10, <2>11, LoopStep
<1>7. CASE ActivateNext(r)
  <2>1. PICK s : s = NextPledge(old)
    OBVIOUS
  <2>2. req' = [req EXCEPT ![r] = s] /\ UNCHANGED docs
    BY <1>0, <1>7, <2>1 DEF ActivateNext, TInv, TicketsTypeOK
  <2>3. s \in Session /\ s.step = "pledge" /\ s.doc = old.doc /\ s.mail = {}
    BY <1>2, <2>1, NextPledgeTyped
  <2>4. QED  BY <1>0, <1>2, <1>3, <2>2, <2>3, LoopStep
<1>8. CASE ActivateDone(r)
  <2>1. PICK last : last = [old.doc EXCEPT !.activated = TRUE]
    OBVIOUS
  <2>2. last \in Document /\ last.number = old.doc.number
    BY <1>2, <2>1 DEF Document
  <2>3. docs' = [docs EXCEPT ![old.event] = last] /\ req' = [req EXCEPT ![r] = NoSession]
    BY <1>0, <1>8, <2>1 DEF ActivateDone, SaveDocument, End
  <2>4. QED  BY <1>0, <1>2, <1>3, <2>2, <2>3, LoopStep
<1>9. QED  BY <1>6, <1>7, <1>8

\* The loop turns to a pledge, whose tickets it mails or which it passes over.
LEMMA SendAllPledgeKeeps ==
    ASSUME TInv, NEW r \in Request, SendAllPledge(r)
    PROVE  TInv'
<1>0. PICK old : old = req[r]
  OBVIOUS
<1>1. /\ old \in Session /\ old # NoSession
      /\ old.event \in Event /\ old.doc \in Document
  <2>1. old \in Session /\ old # NoSession
    BY <1>0, AtWork DEF SendAllPledge, AtPledge
  <2>2. QED  BY <2>1 DEF Session
<1>2. PICK todo : todo = Pledge(old).attendees
  OBVIOUS
<1>3. todo \in Seq(Attendee)
  BY <1>0, <1>1, <1>2, SoldAttendees DEF SendAllPledge, AtPledge, Pledge
<1>4. PICK s1, s2 : s1 = [old EXCEPT !.step = "ticket", !.todo = todo] /\ s2 = NextPledge(old)
  OBVIOUS
<1>5. s1 \in Session /\ s1.step = "ticket" /\ s1.doc = old.doc /\ s1.mail = old.mail
  BY <1>1, <1>3, <1>4 DEF Session
<1>6. s2 \in Session /\ s2.step = "pledge" /\ s2.doc = old.doc /\ s2.mail = {}
  BY <1>1, <1>4, NextPledgeTyped
<1>7. PICK s \in {s1, s2} : req' = [req EXCEPT ![r] = s]
  BY <1>0, <1>2, <1>4 DEF SendAllPledge
<1>8. UNCHANGED <<docs, files, held, mails, spent>>
  BY DEF SendAllPledge
<1>9. QED  BY <1>0, <1>1, <1>5, <1>6, <1>7, <1>8, LoopStep

\* The mail of one pledge goes out and the loop goes on.
LEMMA SendAllMailKeeps ==
    ASSUME TInv, NEW r \in Request, SendAllMail(r)
    PROVE  TInv'
<1>0. PICK old : old = req[r]
  OBVIOUS
<1>1. /\ old \in Session /\ Working(old)
      /\ \A a \in Attendee, n \in Number :
            old.doc.number[a] = n \/ <<a, n>> \in old.mail => Names(a, n)
  BY <1>0, AtWork DEF SendAllMail, MailOut
<1>2. PICK s : s = NextPledge(old)
  OBVIOUS
<1>3. s \in Session /\ s.step = "pledge" /\ s.doc = old.doc /\ s.mail = {}
  BY <1>1, <1>2, NextPledgeTyped
<1>4. /\ req' = [req EXCEPT ![r] = s] /\ mails' = mails \cup old.mail
      /\ UNCHANGED <<docs, files, held, spent>>
  BY <1>0, <1>2 DEF SendAllMail, MailOut
<1>5. mails' \subseteq Attendee \X Number
  BY <1>1, <1>4 DEF TInv, TicketsTypeOK, Session
<1>6. \A t \in mails' : files'[t[2]] # NoFile
  BY <1>1, <1>4 DEF TInv, Working
<1>7. ASSUME NEW a \in Attendee, NEW n \in Number, Names(a, n)'
      PROVE  Names(a, n)
  <2>1. \A q \in Request : req'[q] = IF q = r THEN s ELSE req[q]
    BY <1>4 DEF TInv, TicketsTypeOK
  <2>2. QED  BY <1>1, <1>3, <1>4, <1>7, <2>1 DEF Names
<1>8. Working(s)'
  BY <1>3 DEF Working
<1>9. QED  BY <1>3, <1>4, <1>5, <1>6, <1>7, <1>8, RequestStep DEF TInv, TicketsTypeOK, FilesStay

\* Every step keeps the invariant.
LEMMA TicketsStep == TInv /\ [Next]_vars => TInv'
<1> SUFFICES ASSUME TInv, [Next]_vars  PROVE TInv'
  OBVIOUS
<1>1. ASSUME NEW r \in Request, Start(r)  PROVE TInv'
  BY <1>1, StartKeeps
<1>2. ASSUME NEW r \in Request, Work(r)  PROVE TInv'
  BY <1>2, IssueNumberKeeps, NumberKnownKeeps, FileKeeps, EndKeeps, AttachKeeps,
     SendAllPledgeKeeps, SendAllMailKeeps, ActivateKeeps DEF Work
<1>3. ASSUME NEW r \in Request, Abort(r)  PROVE TInv'
  BY <1>3, EndKeeps
<1>4. ASSUME NEW n \in Number, Collect(n)  PROVE TInv'
  BY <1>4 DEF Collect, TInv, TicketsTypeOK, Sole, Names, Working, CurrentNumber, Current
<1>5. CASE UNCHANGED vars
  BY <1>5 DEF vars, TInv, TicketsTypeOK, Sole, Names, Working, CurrentNumber, Current
<1>6. QED  BY <1>1, <1>2, <1>3, <1>4, <1>5 DEF Next

LEMMA TicketsInit == Init => TInv
<1> SUFFICES ASSUME Init  PROVE TInv
  OBVIOUS
<1>1. TicketsTypeOK
  BY DEF Init, TicketsTypeOK, Document, TicketNumber
<1>2. \A a \in Attendee, n \in Number : ~Names(a, n)
  BY SoldAssumption DEF Init, Names
<1>3. QED  BY <1>1, <1>2 DEF Init, TInv, Sole

\* The invariant holds from the start and for ever.
LEMMA TicketsInvariance == Spec => []TInv
<1>1. Init => TInv
  BY TicketsInit
<1>2. QED  BY <1>1, TicketsStep, PTL DEF Spec

\* Every variable always holds a value of its kind.
THEOREM TicketsTypeCorrect == Spec => []TicketsTypeOK
<1>1. TInv => TicketsTypeOK
  BY DEF TInv
<1>2. QED  BY <1>1, TicketsInvariance, PTL

\* However requests overlap, the PDF of a number names the attendee who carries it,
\* and so does every PDF that was mailed.
THEOREM TicketsBearTheirHolder == Spec => []TicketBearsHolder
<1>1. TInv => TicketBearsHolder
  <2> SUFFICES ASSUME TInv  PROVE TicketBearsHolder
    OBVIOUS
  <2>1. ASSUME NEW e \in Event, NEW a \in Attendee, NEW n, n = docs[e].number[a],
               n # NoNumber, files[n] # NoFile
        PROVE  files[n].bears = a
    <3>1. n \in Number
      BY <2>1 DEF TInv, TicketsTypeOK, Document, TicketNumber
    <3>2. files[n].bears \in Attendee
      BY <2>1, <3>1 DEF TInv, TicketsTypeOK, Pdf
    <3>3. Names(a, n) /\ Names(files[n].bears, n)
      BY <2>1 DEF Names
    <3>4. QED  BY <3>1, <3>2, <3>3 DEF TInv, Sole
  <2>2. ASSUME NEW t \in mails
        PROVE  files[t[2]] # NoFile /\ files[t[2]].bears = t[1]
    <3>1. /\ t[1] \in Attendee /\ t[2] \in Number /\ files[t[2]] # NoFile
          /\ t = <<t[1], t[2]>>
      BY DEF TInv, TicketsTypeOK
    <3>2. files[t[2]].bears \in Attendee
      BY <3>1 DEF TInv, TicketsTypeOK, Pdf
    <3>3. Names(t[1], t[2]) /\ Names(files[t[2]].bears, t[2])
      BY <3>1 DEF Names
    <3>4. QED  BY <3>1, <3>2, <3>3 DEF TInv, Sole
  <2>3. QED  BY <2>1, <2>2 DEF TicketBearsHolder
<1>2. QED  BY <1>1, TicketsInvariance, PTL

(***************************************************************************)
(* Until an update is lost                                                 *)
(***************************************************************************)
\* Sessions that are known to hold the stored document, if those in S may not.
Fresh(S) == {r \in Request : InProgress(r) /\ r \notin S}

\* Every number that stands in old stands in new.
Extends(new, old) ==
    \A a \in Attendee : old.number[a] # NoNumber => new.number[a] = old.number[a]

FoundInv(S) ==
    /\ \A r \in Fresh(S) : req[r].doc = docs[req[r].event]
    /\ \A r \in Request : InProgress(r) => Extends(docs[req[r].event], req[r].doc)
    /\ IssuedTicketIsFound

\* T may be the stale sessions after a step if S were those before.
Observed(S, T) ==
    \A r \in Request : InProgress(r)' /\ r \notin T =>
        \/ ~InProgress(r)
        \/ r \notin S /\ docs'[req[r].event] = docs[req[r].event]
        \/ Writes(r)

\* Session r goes on with doc, if it goes on.
GoesOnWith(r, doc) == InProgress(r)' => req'[r].doc = doc /\ req'[r].event = req[r].event

\* What a step of session r's does that saves nothing.
Looks(r) ==
    /\ UNCHANGED docs
    /\ \/ ~InProgress(r) /\ \E e \in Event : req'[r].event = e /\ req'[r].doc = docs[e]
       \/ InProgress(r) /\ GoesOnWith(r, req[r].doc)

\* What a step of session r's does that saves: it takes no number off its copy.
Saves(r) ==
    /\ InProgress(r) /\ req'[r] # req[r]
    /\ \E doc \in Document :
          /\ SaveDocument(req[r].event, doc)
          /\ Extends(doc, req[r].doc)
          /\ GoesOnWith(r, doc)

Alone(r) == \A q \in Request : q # r => req'[q] = req[q]

LEMMA StartLooks ==
    ASSUME TInv, NEW r \in Request, Start(r)
    PROVE  Alone(r) /\ Looks(r)
<1>1. PICK e, h, step, todo : e \in Event /\ Begin(r, h, e, step, todo)
  BY DEF Start, BeginByOrder, BeginByNumber, BeginSendAll, BeginActivate
<1>2. PICK s : /\ s = [op |-> h, event |-> e, doc |-> docs[e], step |-> step,
                       todo |-> todo, pledge |-> 1, mail |-> {}]
               /\ req' = [req EXCEPT ![r] = s]
  BY <1>1 DEF Begin
<1>3. s.event = e /\ s.doc = docs[e]
  BY <1>2
<1>4. QED
  BY <1>1, <1>2, <1>3 DEF Begin, Alone, Looks, InProgress, TInv, TicketsTypeOK

\* The handlers that only read, or write files, go on with the copy they have.
LEMMA FileWorkLooks ==
    ASSUME TInv, NEW r \in Request,
           \/ NumberKnown(r) \/ OpenFile(r) \/ CloseFile(r) \/ Attach(r)
           \/ SendAllPledge(r) \/ SendAllMail(r) \/ ActivateNext(r)
    PROVE  Alone(r) /\ Looks(r)
<1>1. req[r] \in Session /\ req[r] # NoSession /\ UNCHANGED docs
  BY AtWork DEF NumberKnown, OpenFile, CloseFile, Attach, SendAllPledge, SendAllMail,
         MailOut, ActivateNext, AtPledge, AtAttendee
<1> SUFFICES ASSUME NEW s, req' = [req EXCEPT ![r] = s],
                    s.doc = req[r].doc /\ s.event = req[r].event
             PROVE  Alone(r) /\ Looks(r)
  <2>1. \A f \in {"doc", "event"} : NextAttendee(req[r])[f] = req[r][f]
    BY <1>1 DEF NextAttendee, Session
  <2>2. CASE NumberKnown(r) \/ OpenFile(r)
    <3>1. PICK step : req' = [req EXCEPT ![r].step = step]
      BY <2>2 DEF NumberKnown, OpenFile, GoTo
    <3>2. req' = [req EXCEPT ![r] = [req[r] EXCEPT !.step = step]]
      BY <3>1
    <3>3. QED
      BY <1>1, <3>2 DEF Session
  <2>3. CASE CloseFile(r)
    <3>1. \/ req' = [req EXCEPT ![r] = NextAttendee(req[r])]
          \/ req' = [req EXCEPT ![r] = [req[r] EXCEPT !.step = "read"]]
      BY <2>3 DEF CloseFile, TInv, TicketsTypeOK
    <3>2. QED
      BY <1>1, <2>1, <3>1 DEF Session
  <2>4. CASE Attach(r)
    <3>1. PICK next : next = NextAttendee(req[r])
      OBVIOUS
    <3>2. next \in Session
      BY <1>1, <2>4, <3>1, NextAttendeeTyped DEF Attach, AtAttendee
    <3>3. PICK mail : req' = [req EXCEPT ![r] = [next EXCEPT !.mail = mail]]
      BY <2>4, <3>1 DEF Attach
    <3>4. /\ [next EXCEPT !.mail = mail].doc = next.doc
          /\ [next EXCEPT !.mail = mail].event = next.event
      BY <3>2 DEF Session
    <3>5. next.doc = req[r].doc /\ next.event = req[r].event
      BY <2>1, <3>1
    <3>6. QED
      BY <3>3, <3>4, <3>5
  <2>5. CASE SendAllMail(r) \/ ActivateNext(r)
    <3>1. req' = [req EXCEPT ![r] = NextPledge(req[r])]
      BY <2>5 DEF SendAllMail, ActivateNext
    <3>2. QED
      BY <1>1, <3>1, NextPledgeTyped
  <2>6. CASE SendAllPledge(r)
    <3>1. PICK todo : \/ req' = [req EXCEPT ![r] = NextPledge(req[r])]
                      \/ req' = [req EXCEPT ![r] =
                                    [req[r] EXCEPT !.step = "ticket", !.todo = todo]]
      BY <2>6 DEF SendAllPledge
    <3>2. PICK s : s = [req[r] EXCEPT !.step = "ticket", !.todo = todo]
      OBVIOUS
    <3>3. s.doc = req[r].doc /\ s.event = req[r].event
      BY <1>1, <3>2 DEF Session
    <3>4. QED
      BY <1>1, <3>1, <3>2, <3>3, NextPledgeTyped
  <2>7. QED
    BY <2>2, <2>3, <2>4, <2>5, <2>6
<1>2. QED
  BY <1>1 DEF Alone, Looks, GoesOnWith, InProgress, TInv, TicketsTypeOK

\* A session that ends without saving.
LEMMA EndLooks ==
    ASSUME TInv, NEW r \in Request,
           CreateDone(r) \/ Download(r) \/ SendMail(r) \/ SendAllDone(r) \/ Abort(r)
    PROVE  Alone(r) /\ Looks(r)
BY DEF CreateDone, Download, SendMail, MailOut, SendAllDone, PastPledges, Abort, End, AtStep, AtAttendee, Alone, Looks,
       GoesOnWith, InProgress, TInv, TicketsTypeOK

\* The first save of CreateTicket.
LEMMA IssueNumberSaves ==
    ASSUME TInv, NEW r \in Request, IssueNumber(r)
    PROVE  Alone(r) /\ Saves(r)
<1>1. /\ req[r] \in Session /\ req[r] # NoSession /\ req[r].todo # <<>>
      /\ req[r].step = "ticket"
  BY AtWork DEF IssueNumber, AtAttendee
<1>2. PICK a \in Attendee : a = Current(req[r])
  BY <1>1 DEF Current, Session
<1>3. req[r].doc \in Document /\ req[r].doc.number[a] = NoNumber
  BY <1>1, <1>2 DEF IssueNumber, MayIssue, CurrentNumber, Session
<1>4. PICK n, doc :
          /\ n \in Number
          /\ doc = Numbered(req[r].doc, a, n)
          /\ SaveDocument(req[r].event, doc)
          /\ req' = [req EXCEPT ![r].doc = doc, ![r].step = "open"]
  BY <1>2 DEF IssueNumber
<1>5. doc \in Document /\ doc.number = [req[r].doc.number EXCEPT ![a] = n]
  BY <1>3, <1>4 DEF Numbered, Document, TicketNumber
<1>6. Extends(doc, req[r].doc)
  BY <1>3, <1>5 DEF Extends, Document
<1>7. req' = [req EXCEPT ![r] = [req[r] EXCEPT !.doc = doc, !.step = "open"]]
  BY <1>4
<1>8. /\ Alone(r) /\ GoesOnWith(r, doc)
      /\ req'[r] # req[r]
  BY <1>1, <1>7 DEF Alone, GoesOnWith, TInv, TicketsTypeOK, Session
<1>9. QED
  BY <1>1, <1>4, <1>5, <1>6, <1>8 DEF Saves, InProgress

\* The saves of ActivateEventAction, after each capture and at its end.
LEMMA ActivateSaves ==
    ASSUME TInv, NEW r \in Request, ActivateExecute(r) \/ ActivateDone(r)
    PROVE  Alone(r) /\ (Looks(r) \/ Saves(r))
<1>1. req[r] \in Session /\ req[r] # NoSession /\ req[r].doc \in Document
  BY AtWork DEF ActivateExecute, ActivateDone, AtPledge, PastPledges, Session
<1>2. CASE ActivateDone(r)
  <2>1. PICK doc : doc = [req[r].doc EXCEPT !.activated = TRUE]
    OBVIOUS
  <2>2. doc \in Document /\ doc.number = req[r].doc.number
    BY <1>1, <2>1 DEF Document
  <2>3. SaveDocument(req[r].event, doc) /\ req' = [req EXCEPT ![r] = NoSession]
    BY <1>2, <2>1 DEF ActivateDone, End
  <2>4. Alone(r) /\ req'[r] = NoSession
    BY <2>3 DEF Alone, TInv, TicketsTypeOK
  <2>5. QED
    BY <1>1, <2>2, <2>3, <2>4 DEF Saves, Extends, GoesOnWith, InProgress
<1>3. CASE ActivateExecute(r)
  <2>1. PICK doc, todo : /\ doc = [req[r].doc EXCEPT !.reconciled = @ \cup {req[r].pledge}]
                         /\ todo = Pledge(req[r]).attendees
    OBVIOUS
  <2>2. req[r].pledge \in Nat /\ req[r].pledge \notin req[r].doc.reconciled
    BY <1>1, <1>3 DEF ActivateExecute, Pending, Session
  <2>3. doc \in Document /\ doc.number = req[r].doc.number /\ doc # req[r].doc
    BY <1>1, <2>1, <2>2 DEF Document
  <2>4. PICK mid : mid = [req[r] EXCEPT !.doc = doc]
    OBVIOUS
  <2>5. mid \in Session /\ mid.doc = doc /\ mid.event = req[r].event
    BY <1>1, <2>3, <2>4 DEF Session
  <2>6. CASE UNCHANGED docs /\ req' = [req EXCEPT ![r] = NextPledge(req[r])]
    <3>1. Alone(r) /\ GoesOnWith(r, req[r].doc)
      BY <1>1, <2>6, NextPledgeTyped DEF Alone, GoesOnWith, TInv, TicketsTypeOK
    <3>2. QED
      BY <1>1, <2>6, <3>1 DEF Looks, InProgress
  <2>7. CASE /\ SaveDocument(req[r].event, doc)
             /\ \/ req' = [req EXCEPT ![r] = [req[r] EXCEPT !.doc = doc, !.step = "ticket",
                                                            !.todo = todo]]
                \/ req' = [req EXCEPT ![r] = NextPledge(mid)]
    <3>1. PICK s1 : s1 = [req[r] EXCEPT !.doc = doc, !.step = "ticket", !.todo = todo]
      OBVIOUS
    <3>2. s1.doc = doc /\ s1.event = req[r].event
      BY <1>1, <3>1 DEF Session
    <3>a. PICK s2 : s2 = NextPledge(mid)
      OBVIOUS
    <3>b. s2.doc = doc /\ s2.event = req[r].event
      BY <2>5, <3>a, NextPledgeTyped
    <3>c. req' = [req EXCEPT ![r] = s1] \/ req' = [req EXCEPT ![r] = s2]
      BY <2>7, <3>1, <3>a
    <3>3. PICK s : /\ req' = [req EXCEPT ![r] = s]
                   /\ s.doc = doc /\ s.event = req[r].event
      BY <3>2, <3>b, <3>c
    <3>4. Alone(r) /\ req'[r].doc = doc /\ req'[r].event = req[r].event
      BY <3>3 DEF Alone, TInv, TicketsTypeOK
    <3>5. QED
      BY <1>1, <2>3, <2>7, <3>4 DEF Saves, Extends, GoesOnWith, InProgress
  <2>8. QED
    BY <1>3, <2>1, <2>4, <2>6, <2>7 DEF ActivateExecute
<1>4. QED
  BY <1>2, <1>3

\* A step changes nothing here, or is one session's.
LEMMA StepOfOne ==
    ASSUME TInv, [Next]_vars
    PROVE  \/ UNCHANGED <<req, docs>>
           \/ \E r \in Request : Alone(r) /\ (Looks(r) \/ Saves(r))
<1>1. ASSUME NEW r \in Request, Start(r) \/ Work(r) \/ Abort(r)
      PROVE  Alone(r) /\ (Looks(r) \/ Saves(r))
  BY <1>1, StartLooks, FileWorkLooks, EndLooks, IssueNumberSaves, ActivateSaves DEF Work
<1>2. ASSUME NEW n \in Number, Collect(n)
      PROVE  UNCHANGED <<req, docs>>
  BY <1>2 DEF Collect
<1>3. QED
  BY <1>1, <1>2 DEF Next, vars

\* A copy that is not stale is the stored document, and it is saved with every number
\* it has.
LEMMA NumbersStay ==
    ASSUME TInv, NEW S, FoundInv(S), [Next]_vars, \A q \in S : ~Writes(q)
    PROVE  NumbersKept
<1>1. CASE docs' = docs
  BY <1>1 DEF NumbersKept
<1>2. CASE docs' # docs
  <2>1. PICK r \in Request : Saves(r)
    BY <1>2, StepOfOne DEF Looks
  <2>2. PICK doc \in Document : /\ docs' = [docs EXCEPT ![req[r].event] = doc]
                                /\ Extends(doc, req[r].doc)
    BY <2>1 DEF Saves, SaveDocument
  <2>3. req[r].doc = docs[req[r].event]
    BY <1>2, <2>1 DEF Saves, Writes, FoundInv, Fresh
  <2>4. \A e \in Event : docs'[e] = IF e = req[r].event THEN doc ELSE docs[e]
    BY <2>2 DEF TInv, TicketsTypeOK
  <2>5. QED
    BY <2>2, <2>3, <2>4 DEF NumbersKept, Extends
<1>3. QED
  BY <1>1, <1>2

\* A session that does not act keeps what it has in common with the store.
LEMMA OthersKept ==
    ASSUME TInv, NEW S, NEW T, FoundInv(S), Observed(S, T), NumbersKept,
           NEW q \in Request, InProgress(q)', req'[q] = req[q]
    PROVE  /\ q \notin T => req'[q].doc = docs'[req'[q].event]
           /\ Extends(docs'[req'[q].event], req'[q].doc)
<1>1. InProgress(q) /\ req[q].event \in Event /\ ~Writes(q)
  BY DEF InProgress, Writes, TInv, TicketsTypeOK, Session
<1>2. Extends(docs[req[q].event], req[q].doc)
  BY <1>1 DEF FoundInv
<1>3. Extends(docs'[req[q].event], req[q].doc)
  BY <1>1, <1>2 DEF Extends, NumbersKept
<1>4. ASSUME q \notin T
      PROVE  q \in Fresh(S) /\ docs'[req[q].event] = docs[req[q].event]
  BY <1>1, <1>4 DEF Observed, Fresh
<1>5. QED
  BY <1>3, <1>4 DEF FoundInv

\* The session that acts.
LEMMA ActorKept ==
    ASSUME TInv, NEW S, NEW T, FoundInv(S), Observed(S, T),
           NEW r \in Request, Looks(r) \/ Saves(r), InProgress(r)'
    PROVE  /\ r \notin T => req'[r].doc = docs'[req'[r].event]
           /\ Extends(docs'[req'[r].event], req'[r].doc)
<1>1. CASE Looks(r) /\ ~InProgress(r)
  BY <1>1 DEF Looks, Extends
<1>2. CASE Looks(r) /\ InProgress(r)
  <2>1. docs' = docs /\ req'[r].doc = req[r].doc /\ req'[r].event = req[r].event
    BY <1>2 DEF Looks, GoesOnWith
  <2>2. r \notin T => r \in Fresh(S)
    BY <1>2, <2>1 DEF Observed, Writes, Fresh
  <2>3. QED
    BY <1>2, <2>1, <2>2 DEF FoundInv
<1>3. CASE Saves(r)
  <2>1. PICK doc \in Document : /\ docs' = [docs EXCEPT ![req[r].event] = doc]
                                /\ req'[r].doc = doc /\ req'[r].event = req[r].event
    BY <1>3 DEF Saves, SaveDocument, GoesOnWith
  <2>2. req[r].event \in Event
    BY <1>3 DEF Saves, InProgress, TInv, TicketsTypeOK, Session
  <2>3. docs'[req'[r].event] = req'[r].doc
    BY <2>1, <2>2 DEF TInv, TicketsTypeOK
  <2>4. QED
    BY <2>3 DEF Extends
<1>4. QED
  BY <1>1, <1>2, <1>3

\* A file is written under the number its attendee has in the stored document, also by
\* a session with an old copy.
LEMMA FoundKept ==
    ASSUME TInv, NEW S, FoundInv(S), NumbersKept, [Next]_vars
    PROVE  IssuedTicketIsFound'
<1> SUFFICES ASSUME NEW n \in Number, files'[n] # NoFile
             PROVE  \E e \in Event : docs'[e].number[files'[n].bears] = n
  BY DEF IssuedTicketIsFound
<1>1. \A e \in Event, a \in Attendee : docs[e].number[a] = n => docs'[e].number[a] = n
  BY SoldAssumption DEF NumbersKept
<1>2. CASE files'[n] = files[n]
  <2>1. files[n].bears \in Attendee
    BY <1>2 DEF TInv, TicketsTypeOK, Pdf
  <2>2. QED
    BY <1>1, <1>2, <2>1 DEF FoundInv, IssuedTicketIsFound
<1>3. ASSUME NEW r \in Request, OpenFile(r) \/ CloseFile(r), files'[n] # files[n]
      PROVE  \E e \in Event : docs'[e].number[files'[n].bears] = n
  <2>1. req[r] \in Session /\ req[r] # NoSession /\ req[r].todo # <<>>
    BY <1>3, AtWork DEF OpenFile, CloseFile, AtAttendee
  <2>2. Current(req[r]) \in Attendee /\ req[r].event \in Event
    BY <2>1 DEF Current, Session
  <2>3. PICK pdf : /\ files' = [files EXCEPT ![CurrentNumber(req[r])] = pdf]
                   /\ pdf.bears = Current(req[r])
    BY <1>3 DEF OpenFile, CloseFile
  <2>4. n = CurrentNumber(req[r]) /\ files'[n] = pdf
    BY <1>3, <2>3 DEF TInv, TicketsTypeOK
  <2>5. docs[req[r].event].number[Current(req[r])] = n
    BY <2>1, <2>2, <2>4, SoldAssumption DEF FoundInv, InProgress, Extends, CurrentNumber
  <2>6. QED
    BY <1>1, <2>2, <2>3, <2>4, <2>5
<1>4. CASE \A r \in Request : ~OpenFile(r) /\ ~CloseFile(r)
  <2>1. ASSUME NEW r \in Request, Start(r)  PROVE UNCHANGED files
    BY <2>1 DEF Start, BeginByOrder, BeginByNumber, BeginSendAll, BeginActivate,
         Begin
  <2>2. ASSUME NEW r \in Request, Work(r) \/ Abort(r)  PROVE UNCHANGED files
    BY <1>4, <2>2 DEF Work, IssueNumber, NumberKnown, CreateDone, Download, Attach,
         SendMail, MailOut, SendAllPledge, SendAllMail, SendAllDone, ActivateExecute,
         ActivateNext, ActivateDone, Abort
  <2>3. ASSUME NEW m \in Number, Collect(m)  PROVE UNCHANGED files
    BY <2>3 DEF Collect
  <2>4. QED
    BY <1>2, <2>1, <2>2, <2>3 DEF Next, vars
<1>5. QED
  BY <1>2, <1>3, <1>4

LEMMA NextFound ==
    ASSUME TInv, NEW S, NEW T, FoundInv(S), Observed(S, T), [Next]_vars,
           \A q \in S : ~Writes(q)
    PROVE  FoundInv(T)' /\ NumbersKept
<1>1. NumbersKept
  BY NumbersStay
<1>2. ASSUME NEW q \in Request, InProgress(q)'
      PROVE  /\ q \notin T => req'[q].doc = docs'[req'[q].event]
             /\ Extends(docs'[req'[q].event], req'[q].doc)
  <2>1. req'[q] = req[q] \/ Looks(q) \/ Saves(q)
    BY StepOfOne DEF Alone
  <2>2. QED
    BY <1>1, <1>2, <2>1, OthersKept, ActorKept
<1>3. IssuedTicketIsFound'
  BY <1>1, FoundKept
<1>4. QED
  BY <1>1, <1>2, <1>3 DEF FoundInv, Fresh, Extends

LEMMA InitFound == ASSUME Init, NEW S PROVE FoundInv(S)
BY DEF Init, FoundInv, Fresh, InProgress, IssuedTicketIsFound

HistoryInv == lost \/ FoundInv(stale)

\* Until an update is lost nothing stale is saved, so the invariant is kept for what the
\* history calls stale.
LEMMA NextHistory ==
    ASSUME TInv, HistoryInv, [NextH]_varsH
    PROVE  [Next]_vars /\ HistoryInv' /\ (lost' \/ NumbersKept)
<1>1. [Next]_vars
  BY DEF NextH, varsH, vars
<1>2. ~lost' => ~lost /\ \A q \in stale : ~Writes(q)
  BY DEF NextH, Observe, varsH, vars, Writes
<1>3. ASSUME ~lost'
      PROVE  FoundInv(stale)' /\ NumbersKept
  <2>1. PICK S, T : S = stale /\ T = stale'
    OBVIOUS
  <2>2. Observed(S, T)
    BY <2>1 DEF NextH, Observe, varsH, vars, Observed, Writes, InProgress
  <2>3. ~lost /\ \A q \in S : ~Writes(q)
    BY <1>2, <1>3, <2>1
  <2>4. FoundInv(S)
    BY <2>1, <2>3 DEF HistoryInv
  <2>5. FoundInv(T)' /\ NumbersKept
    BY <1>1, <2>2, <2>3, <2>4, NextFound
  <2>6. QED
    BY <2>1, <2>5 DEF FoundInv, Fresh
<1>4. QED
  BY <1>1, <1>3 DEF HistoryInv

LEMMA HistoryInvariance == SpecH => [](TInv /\ HistoryInv)
<1>1. InitH => TInv /\ HistoryInv
  <2>1. PICK S : S = stale
    OBVIOUS
  <2>2. InitH => FoundInv(S)
    BY InitFound DEF InitH
  <2>3. FoundInv(S) => FoundInv(stale)
    BY <2>1
  <2>4. QED
    BY <2>2, <2>3, TicketsInit DEF InitH, HistoryInv
<1>2. TInv /\ HistoryInv /\ [NextH]_varsH => TInv' /\ HistoryInv'
  BY NextHistory, TicketsStep
<1>3. QED
  BY <1>1, <1>2, PTL DEF SpecH

\* With any number of overlapping requests a PDF that was written is found by its number
\* until an update is lost, also one that a session with an old copy wrote.
THEOREM TicketsFoundUntilLost == SpecH => []FoundUntilLost
<1>1. HistoryInv => FoundUntilLost
  BY DEF HistoryInv, FoundInv, FoundUntilLost
<1>2. QED
  BY <1>1, HistoryInvariance, PTL

\* With any number of overlapping requests a ticket keeps its number until an update is
\* lost.
THEOREM NumbersFinalUntilLost == SpecH => NumberFinalUntilLost
<1>1. TInv /\ HistoryInv /\ [NextH]_varsH => [lost' \/ NumbersKept]_varsH
  BY NextHistory
<1>2. QED
  BY <1>1, HistoryInvariance, PTL DEF SpecH, NumberFinalUntilLost

(***************************************************************************)
(* The mails of a loop                                                     *)
(***************************************************************************)
\* Every attendee of pledge i has been mailed the number in session s's copy.
Reached(s, i) ==
    \A m \in DOMAIN Sold[s.event][i].attendees :
        LET a == Sold[s.event][i].attendees[m] IN <<a, s.doc.number[a]>> \in mails

\* An attendee of pledge i is still to be looked at, or attached to the mail.
InHand(s, i) ==
    \A m \in DOMAIN Sold[s.event][i].attendees :
        LET a == Sold[s.event][i].attendees[m]
        IN  \/ \E j \in DOMAIN s.todo : s.todo[j] = a
            \/ <<a, s.doc.number[a]>> \in s.mail

\* Where a loop stands, the paid pledges before it have been mailed.
Mailing(s) ==
    s.op = "sendAll" =>
        /\ s.pledge >= 1
        /\ \A i \in DOMAIN Sold[s.event] :
              i < s.pledge /\ Sold[s.event][i].paid => Reached(s, i)
        /\ s.step # "pledge" => s.pledge \in DOMAIN Sold[s.event] /\ InHand(s, s.pledge)

MailInv == \A r \in Request : InProgress(r) => Mailing(req[r])

LEMMA PledgesCounted ==
    ASSUME NEW e \in Event
    PROVE  DOMAIN Sold[e] \subseteq Nat \ {0} /\ DOMAIN Sold[e] = 1 .. Len(Sold[e])
<1>1. Sold[e] \in Seq(PledgeRecord)
  BY SoldAssumption
<1>2. QED  BY <1>1

\* Numbers that were mailed stay in a copy that keeps its numbers.
LEMMA ReachedStays ==
    ASSUME TInv, NEW s \in Session, NEW t \in Session, t.event = s.event,
           Extends(t.doc, s.doc), mails \subseteq mails',
           NEW i \in DOMAIN Sold[s.event], Reached(s, i)
    PROVE  Reached(t, i)'
<1> SUFFICES ASSUME NEW m \in DOMAIN Sold[s.event][i].attendees,
                    NEW a, a = Sold[s.event][i].attendees[m]
             PROVE  <<a, t.doc.number[a]>> \in mails'
  BY DEF Reached
<1>1. s.event \in Event
  BY DEF Session
<1>2. a \in Attendee
  BY <1>1, SoldAttendees
<1>3. <<a, s.doc.number[a]>> \in mails
  BY DEF Reached
<1>4. s.doc.number[a] # NoNumber
  BY <1>3, SoldAssumption DEF TInv, TicketsTypeOK
<1>5. t.doc.number[a] = s.doc.number[a]
  BY <1>2, <1>4 DEF Extends
<1>6. QED  BY <1>3, <1>5

\* A session that goes on with the attendees it has in hand.
LEMMA MailingStays ==
    ASSUME TInv, NEW s \in Session, NEW t \in Session, Mailing(s),
           t.op = s.op, t.event = s.event, t.pledge = s.pledge, t.todo = s.todo,
           t.mail = s.mail, Extends(t.doc, s.doc), mails \subseteq mails',
           s.step # "pledge" \/ t.step = "pledge"
    PROVE  Mailing(t)'
<1> SUFFICES ASSUME s.op = "sendAll"  PROVE Mailing(t)'
  BY DEF Mailing
<1>1. s.event \in Event /\ s.mail \subseteq Attendee \X Number
  BY DEF Session
<1>2. \A i \in DOMAIN Sold[t.event] : i < t.pledge /\ Sold[t.event][i].paid => Reached(t, i)'
  BY ReachedStays DEF Mailing
<1>3. ASSUME t.step # "pledge"  PROVE InHand(t, t.pledge)
  <2>1. InHand(s, s.pledge) /\ s.pledge \in DOMAIN Sold[s.event]
    BY <1>3 DEF Mailing
  <2>2. ASSUME NEW m \in DOMAIN Sold[s.event][s.pledge].attendees,
               NEW a, a = Sold[s.event][s.pledge].attendees[m],
               <<a, s.doc.number[a]>> \in s.mail
        PROVE  <<a, t.doc.number[a]>> \in s.mail
    <3>1. a \in Attendee
      BY <1>1, <2>1, <2>2, SoldAttendees
    <3>2. s.doc.number[a] # NoNumber
      BY <1>1, <2>2, SoldAssumption
    <3>3. QED  BY <2>2, <3>1, <3>2 DEF Extends
  <2>3. QED  BY <2>1, <2>2 DEF InHand
<1>4. QED  BY <1>2, <1>3 DEF Mailing, InHand

\* A ticket is attached: its attendee is in hand no more, but in the mail.
LEMMA AttachMailing ==
    ASSUME TInv, MailInv, NEW r \in Request, Attach(r)
    PROVE  Mailing(req[r])'
<1>0. PICK s : s = req[r]
  OBVIOUS
<1>1. /\ s \in Session /\ Working(s) /\ s.todo # <<>> /\ s.step = "read" /\ Mailing(s)
      /\ UNCHANGED <<docs, files, mails, spent>>
  BY <1>0, AtWork DEF Attach, AtAttendee, MailInv, InProgress
<1>2. PICK n, next : n = CurrentNumber(s) /\ next = NextAttendee(s)
  OBVIOUS
<1>3. /\ next \in Session /\ next.step = "ticket" /\ next.doc = s.doc /\ next.mail = s.mail
      /\ next.op = s.op /\ next.event = s.event /\ next.pledge = s.pledge
      /\ next.todo = Tail(s.todo)
  BY <1>1, <1>2, NextAttendeeTyped DEF NextAttendee, Session
<1>4. PICK t : t = [next EXCEPT !.mail = @ \cup {<<Current(s), n>>}]
  OBVIOUS
<1>5. /\ t.step = "ticket" /\ t.doc = s.doc /\ t.mail = s.mail \cup {<<Current(s), n>>}
      /\ t.op = s.op /\ t.event = s.event /\ t.pledge = s.pledge /\ t.todo = Tail(s.todo)
  BY <1>3, <1>4 DEF Session
<1>6. req'[r] = t
  BY <1>0, <1>2, <1>4 DEF Attach, TInv, TicketsTypeOK
<1> SUFFICES ASSUME s.op = "sendAll"  PROVE Mailing(t)'
  BY <1>5, <1>6 DEF Mailing, Reached, InHand
<1>7. s.todo \in Seq(Attendee)
  BY <1>1 DEF Session
<1>8. ASSUME NEW j \in DOMAIN s.todo
      PROVE  s.todo[j] = Head(s.todo) \/ \E k \in DOMAIN Tail(s.todo) : Tail(s.todo)[k] = s.todo[j]
  <2>1. CASE j = 1
    BY <1>1, <1>7, <2>1
  <2>2. CASE j # 1
    <3>1. j - 1 \in DOMAIN Tail(s.todo) /\ Tail(s.todo)[j - 1] = s.todo[j]
      BY <1>1, <1>7, <1>8, <2>2
    <3>2. QED  BY <3>1
  <2>3. QED  BY <2>1, <2>2
<1>9. s.pledge \in DOMAIN Sold[s.event] /\ InHand(s, s.pledge)
  BY <1>1 DEF Mailing
<1>10. InHand(t, t.pledge)
  <2> SUFFICES ASSUME NEW m \in DOMAIN Sold[s.event][s.pledge].attendees,
                      NEW a, a = Sold[s.event][s.pledge].attendees[m],
                      ~\E k \in DOMAIN t.todo : t.todo[k] = a
               PROVE  <<a, t.doc.number[a]>> \in t.mail
    BY <1>5 DEF InHand
  <2>1. CASE \E j \in DOMAIN s.todo : s.todo[j] = a
    <3>1. a = Current(s)
      BY <1>5, <1>8, <2>1 DEF Current
    <3>2. QED  BY <1>2, <1>5, <3>1 DEF CurrentNumber
  <2>2. CASE <<a, s.doc.number[a]>> \in s.mail
    BY <1>5, <2>2
  <2>3. QED  BY <1>9, <2>1, <2>2 DEF InHand
<1>11. \A i \in DOMAIN Sold[t.event] : i < t.pledge /\ Sold[t.event][i].paid => Reached(t, i)'
  BY <1>1, <1>5 DEF Mailing, Reached
<1>12. QED  BY <1>1, <1>5, <1>9, <1>10, <1>11 DEF Mailing, InHand

\* The loop goes on to the next pledge when it has mailed this one, or passed over it.
LEMMA NextPledgeMailing ==
    ASSUME TInv, NEW s \in Session, Mailing(s), s.op = "sendAll", mails \subseteq mails',
           s.pledge \in DOMAIN Sold[s.event],
           Pledge(s).paid => Reached(s, s.pledge)'
    PROVE  Mailing(NextPledge(s))'
<1>1. PICK t : t = NextPledge(s)
  OBVIOUS
<1>2. /\ t \in Session /\ t.step = "pledge" /\ t.doc = s.doc /\ t.op = s.op
      /\ t.event = s.event /\ t.pledge = s.pledge + 1
  BY <1>1, NextPledgeTyped
<1>3. s.event \in Event /\ s.pledge \in Nat /\ s.pledge >= 1
  BY DEF Session, Mailing
<1>4. ASSUME NEW i \in DOMAIN Sold[t.event], i < t.pledge, Sold[t.event][i].paid
      PROVE  Reached(t, i)'
  <2>1. i \in Nat
    BY <1>2, <1>3, <1>4, PledgesCounted
  <2>2. CASE i = s.pledge
    BY <1>2, <1>4, <2>2 DEF Pledge, Reached
  <2>3. CASE i < s.pledge
    <3>1. Reached(s, i)
      BY <1>2, <1>4, <2>3 DEF Mailing
    <3>2. QED  BY <1>2, <3>1 DEF Reached
  <2>4. QED  BY <1>2, <1>3, <1>4, <2>1, <2>2, <2>3
<1>5. Mailing(t)'
  BY <1>2, <1>3, <1>4 DEF Mailing
<1>6. QED  BY <1>1, <1>5 DEF Mailing, Reached, InHand

\* A loop begins with no pledge behind it.
LEMMA StartMailing ==
    ASSUME TInv, NEW r \in Request, Start(r)
    PROVE  Mailing(req[r])'
<1>1. CASE BeginSendAll(r)
  <2>1. PICK e \in Event : Begin(r, "sendAll", e, "pledge", <<>>)
    BY <1>1 DEF BeginSendAll
  <2>2. req'[r].event = e /\ req'[r].step = "pledge" /\ req'[r].pledge = 1
    BY <2>1 DEF Begin, TInv, TicketsTypeOK
  <2>3. \A i \in DOMAIN Sold[req'[r].event] : ~(i < req'[r].pledge)
    BY <2>1, <2>2, PledgesCounted
  <2>4. QED  BY <2>2, <2>3 DEF Mailing
<1>2. CASE BeginByOrder(r) \/ BeginByNumber(r) \/ BeginActivate(r)
  <2>1. PICK e, h, step, todo : Begin(r, h, e, step, todo) /\ h # "sendAll"
    <3>1. CASE BeginByOrder(r)
      BY <3>1 DEF BeginByOrder
    <3>2. CASE BeginByNumber(r)
      BY <3>2 DEF BeginByNumber
    <3>3. CASE BeginActivate(r)
      BY <3>3 DEF BeginActivate
    <3>4. QED  BY <1>2, <3>1, <3>2, <3>3
  <2>2. req'[r].op # "sendAll"
    BY <2>1 DEF Begin, TInv, TicketsTypeOK
  <2>3. QED  BY <2>2 DEF Mailing
<1>3. QED  BY <1>1, <1>2 DEF Start

\* Giving a number and writing the file leave the loop where it is.
LEMMA FileMailing ==
    ASSUME TInv, MailInv, NEW r \in Request,
           IssueNumber(r) \/ NumberKnown(r) \/ OpenFile(r) \/ CloseFile(r)
    PROVE  Mailing(req[r])'
<1>0. PICK s : s = req[r]
  OBVIOUS
<1>1. /\ s \in Session /\ s.todo # <<>> /\ s.step # "pledge" /\ Mailing(s)
      /\ UNCHANGED mails
  BY <1>0, AtWork DEF IssueNumber, NumberKnown, OpenFile, CloseFile, AtAttendee, MailInv,
     InProgress
<1> SUFFICES ASSUME NEW t \in Session, req'[r] = t, t.op = s.op,
                    s.op = "sendAll" =>
                        /\ t.event = s.event /\ t.pledge = s.pledge /\ t.todo = s.todo
                        /\ t.mail = s.mail /\ Extends(t.doc, s.doc)
             PROVE  Mailing(req[r])'
  <2>1. CASE IssueNumber(r)
    <3>1. PICK a \in Attendee : a = Current(s)
      BY <1>1 DEF Current, Session
    <3>2. s.doc \in Document /\ s.doc.number[a] = NoNumber
      BY <1>0, <1>1, <2>1, <3>1 DEF IssueNumber, MayIssue, CurrentNumber, Session
    <3>3. PICK n, doc : /\ n \in Number /\ doc = Numbered(s.doc, a, n)
                        /\ req' = [req EXCEPT ![r].doc = doc, ![r].step = "open"]
      BY <1>0, <2>1, <3>1 DEF IssueNumber
    <3>4. doc \in Document /\ doc.number = [s.doc.number EXCEPT ![a] = n]
      BY <3>2, <3>3 DEF Numbered, Document, TicketNumber
    <3>5. Extends(doc, s.doc)
      BY <3>2, <3>4 DEF Extends, Document
    <3>6. PICK t : t = [s EXCEPT !.doc = doc, !.step = "open"]
      OBVIOUS
    <3>7. /\ t \in Session /\ t.doc = doc /\ t.op = s.op /\ t.event = s.event
          /\ t.pledge = s.pledge /\ t.todo = s.todo /\ t.mail = s.mail
      BY <1>1, <3>4, <3>6 DEF Session
    <3>8. req'[r] = t
      BY <1>0, <3>3, <3>6 DEF TInv, TicketsTypeOK
    <3>9. QED  BY <3>5, <3>7, <3>8
  <2>2. CASE NumberKnown(r) \/ OpenFile(r)
           \/ (CloseFile(r) /\ s.op \notin {"create", "activate"})
    <3>1. PICK step \in {"open", "read", "write"} :
              req' = [req EXCEPT ![r] = [s EXCEPT !.step = step]]
      BY <1>0, <2>2 DEF NumberKnown, OpenFile, CloseFile, GoTo, TInv, TicketsTypeOK
    <3>2. PICK t : t = [s EXCEPT !.step = step]
      OBVIOUS
    <3>3. /\ t \in Session /\ t.doc = s.doc /\ t.op = s.op /\ t.event = s.event
          /\ t.pledge = s.pledge /\ t.todo = s.todo /\ t.mail = s.mail
      BY <1>1, <3>2 DEF Session
    <3>4. req'[r] = t
      BY <3>1, <3>2 DEF TInv, TicketsTypeOK
    <3>5. QED  BY <3>3, <3>4 DEF Extends
  <2>3. CASE CloseFile(r) /\ s.op \in {"create", "activate"}
    <3>1. req'[r] = NextAttendee(s)
      BY <1>0, <2>3 DEF CloseFile, TInv, TicketsTypeOK
    <3>2. NextAttendee(s) \in Session /\ NextAttendee(s).op = s.op
      BY <1>1, NextAttendeeTyped DEF NextAttendee, Session
    <3>3. QED  BY <2>3, <3>1, <3>2
  <2>4. QED  BY <2>1, <2>2, <2>3
<1>2. CASE s.op = "sendAll"
  BY <1>1, <1>2, MailingStays DEF Mailing, Reached, InHand
<1>3. CASE s.op # "sendAll"
  BY <1>3 DEF Mailing
<1>4. QED  BY <1>2, <1>3

\* The loop takes a pledge in hand, mails it, or passes over it.
LEMMA LoopMailing ==
    ASSUME TInv, MailInv, NEW r \in Request, SendAllPledge(r) \/ SendAllMail(r)
    PROVE  Mailing(req[r])'
<1>0. PICK s : s = req[r]
  OBVIOUS
<1>1. /\ s \in Session /\ Mailing(s) /\ s.op = "sendAll" /\ mails \subseteq mails'
      /\ s.pledge \in DOMAIN Sold[s.event] /\ s.event \in Event
  <2>1. /\ s \in Session /\ Mailing(s) /\ s.op = "sendAll" /\ mails \subseteq mails'
        /\ SendAllMail(r) => s.step = "ticket"
    BY <1>0, AtWork DEF SendAllPledge, SendAllMail, MailOut, AtPledge, MailInv, InProgress
  <2>2. s.pledge \in DOMAIN Sold[s.event]
    BY <1>0, <2>1 DEF SendAllPledge, AtPledge, Mailing
  <2>3. QED  BY <2>1, <2>2 DEF Session
<1>2. CASE SendAllMail(r)
  <2>1. s.todo = <<>> /\ InHand(s, s.pledge) /\ mails' = mails \cup s.mail
    BY <1>0, <1>1, <1>2 DEF SendAllMail, MailOut, AtStep, Mailing
  <2>2. Reached(s, s.pledge)'
    <3>1. DOMAIN s.todo = {}
      BY <2>1
    <3>2. QED  BY <2>1, <3>1 DEF InHand, Reached
  <2>3. Mailing(NextPledge(s))'
    BY <1>1, <2>2, NextPledgeMailing
  <2>4. req'[r] = NextPledge(s)
    BY <1>0, <1>2 DEF SendAllMail, TInv, TicketsTypeOK
  <2>5. QED  BY <2>3, <2>4 DEF Mailing, Reached, InHand
<1>3. CASE SendAllPledge(r) /\ ~Pledge(s).paid
  <2>1. Mailing(NextPledge(s))'
    BY <1>1, <1>3, NextPledgeMailing
  <2>2. req'[r] = NextPledge(s)
    BY <1>0, <1>3 DEF SendAllPledge, Mailed, TInv, TicketsTypeOK
  <2>3. QED  BY <2>1, <2>2 DEF Mailing, Reached, InHand
<1>4. CASE SendAllPledge(r) /\ Pledge(s).paid
  <2>1. PICK t : t = [s EXCEPT !.step = "ticket", !.todo = Pledge(s).attendees]
    OBVIOUS
  <2>2. /\ t.step = "ticket" /\ t.todo = Pledge(s).attendees /\ t.doc = s.doc
        /\ t.event = s.event /\ t.pledge = s.pledge
    BY <1>1, <2>1 DEF Session
  <2>3. req'[r] = t /\ UNCHANGED mails
    BY <1>0, <1>4, <2>1 DEF SendAllPledge, Mailed, TInv, TicketsTypeOK
  <2>4. InHand(t, t.pledge)
    BY <2>2 DEF InHand, Pledge
  <2>5. Mailing(t)'
    BY <1>1, <2>2, <2>3, <2>4 DEF Mailing, Reached, InHand
  <2>6. QED  BY <2>3, <2>5 DEF Mailing, Reached, InHand
<1>5. QED  BY <1>2, <1>3, <1>4

\* The handlers that are no such loop stay what they are, or end.
LEMMA OtherMailing ==
    ASSUME TInv, NEW r \in Request, InProgress(r)',
           \/ CreateDone(r) \/ Download(r) \/ SendMail(r) \/ SendAllDone(r) \/ Abort(r)
           \/ ActivateExecute(r) \/ ActivateNext(r) \/ ActivateDone(r)
    PROVE  Mailing(req[r])'
<1>0. PICK s : s = req[r]
  OBVIOUS
<1>1. ActivateExecute(r) \/ ActivateNext(r)
  BY DEF CreateDone, Download, SendMail, SendAllDone, Abort, ActivateDone, End, InProgress,
         TInv, TicketsTypeOK
<1>2. s \in Session /\ s.op = "activate" /\ NextPledge(s).op = "activate"
  BY <1>0, <1>1, AtWork, NextPledgeTyped DEF ActivateExecute, ActivateNext, AtPledge
<1>3. CASE ActivateNext(r)
  BY <1>0, <1>2, <1>3 DEF ActivateNext, Mailing, TInv, TicketsTypeOK
<1>4. CASE ActivateExecute(r)
  <2>1. PICK doc : doc = [s.doc EXCEPT !.reconciled = @ \cup {s.pledge}]
    OBVIOUS
  <2>2. PICK t, mid : /\ t = [s EXCEPT !.doc = doc, !.step = "ticket",
                                      !.todo = Pledge(s).attendees]
                      /\ mid = [s EXCEPT !.doc = doc]
    OBVIOUS
  <2>3. t.op = "activate"
    BY <1>2, <2>2 DEF Session
  <2>4. NextPledge(mid).op = "activate"
    BY <1>2, <2>2 DEF NextPledge, Session
  <2>5. req'[r] \in {t, NextPledge(mid), NextPledge(s)}
    BY <1>0, <1>4, <2>1, <2>2 DEF ActivateExecute, TInv, TicketsTypeOK
  <2>6. QED  BY <1>2, <2>3, <2>4, <2>5 DEF Mailing
<1>5. QED  BY <1>1, <1>3, <1>4

LEMMA NextMailing ==
    ASSUME TInv, MailInv, [Next]_vars
    PROVE  MailInv'
<1> SUFFICES ASSUME NEW r \in Request, InProgress(r)'  PROVE Mailing(req[r])'
  BY DEF MailInv
<1>1. mails \subseteq mails'
  <2>1. ASSUME NEW q \in Request, Start(q) \/ Work(q) \/ Abort(q)
        PROVE  mails \subseteq mails'
    BY <2>1 DEF Start, BeginByOrder, BeginByNumber, BeginSendAll, BeginActivate, Begin, Work,
       IssueNumber, NumberKnown, OpenFile, CloseFile, CreateDone, Download, Attach, SendMail,
       MailOut, SendAllPledge, SendAllMail, SendAllDone, ActivateExecute, ActivateNext,
       ActivateDone, Abort
  <2>2. QED  BY <2>1 DEF Next, vars, Collect
<1>2. CASE req'[r] = req[r]
  <2>1. PICK s : s = req[r]
    OBVIOUS
  <2>2. s \in Session /\ Mailing(s)
    BY <1>2, <2>1 DEF InProgress, MailInv, TInv, TicketsTypeOK
  <2>3. Mailing(s)'
    BY <1>1, <2>2, MailingStays DEF Extends
  <2>4. QED  BY <1>2, <2>1, <2>3 DEF Mailing, Reached, InHand
<1>3. CASE req'[r] # req[r]
  <2>1. ASSUME NEW q \in Request, Start(q) \/ Work(q) \/ Abort(q)
        PROVE  Alone(q)
    BY <2>1, StartLooks, FileWorkLooks, EndLooks, IssueNumberSaves, ActivateSaves DEF Work
  <2>2. Start(r) \/ Work(r) \/ Abort(r)
    BY <1>3, <2>1 DEF Next, vars, Collect, Alone
  <2>3. QED
    BY <2>2, StartMailing, FileMailing, AttachMailing, LoopMailing, OtherMailing DEF Work
<1>4. QED  BY <1>2, <1>3

LEMMA MailInvariance == Spec => []MailInv
<1>1. Init => MailInv
  BY DEF Init, MailInv, InProgress
<1>2. TInv /\ MailInv /\ [Next]_vars => MailInv'
  BY NextMailing
<1>3. QED  BY <1>1, <1>2, TicketsInvariance, PTL DEF Spec

\* However many attempts died and whoever else gave numbers, a loop that gets to its end
\* has mailed every attendee of a paid pledge the ticket that is found by its number,
\* until an update is lost.
THEOREM AttendeesMailedUntilLost == SpecH => []MailedUntilLost
<1>1. TInv /\ MailInv /\ HistoryInv => MailedUntilLost
  <2> SUFFICES ASSUME TInv, MailInv, HistoryInv, ~lost,
                      NEW r \in Request, PastPledges(r, "sendAll"),
                      NEW i \in DOMAIN Sold[req[r].event], Sold[req[r].event][i].paid,
                      NEW m \in DOMAIN Sold[req[r].event][i].attendees,
                      NEW a, a = Sold[req[r].event][i].attendees[m]
               PROVE  <<a, docs[req[r].event].number[a]>> \in mails
    BY DEF MailedUntilLost
  <2>1. /\ req[r] \in Session /\ req[r].op = "sendAll" /\ InProgress(r)
        /\ req[r].pledge \notin DOMAIN Sold[req[r].event]
        /\ req[r].event \in Event /\ req[r].pledge \in Nat
    <3>1. /\ req[r] \in Session /\ req[r].op = "sendAll" /\ InProgress(r)
          /\ req[r].pledge \notin DOMAIN Sold[req[r].event]
      BY AtWork DEF PastPledges, AtStep, InProgress
    <3>2. QED  BY <3>1 DEF Session
  <2>2. req[r].pledge >= 1
    BY <2>1 DEF MailInv, Mailing
  <2>3. i < req[r].pledge
    <3>1. PICK n : n = Len(Sold[req[r].event])
      OBVIOUS
    <3>2. n \in Nat /\ DOMAIN Sold[req[r].event] = 1 .. n
      BY <2>1, <3>1, PledgesCounted, SoldAssumption
    <3>3. QED  BY <2>1, <2>2, <3>2
  <2>4. Reached(req[r], i)
    BY <2>1, <2>3 DEF MailInv, Mailing
  <2>5. <<a, req[r].doc.number[a]>> \in mails
    BY <2>4 DEF Reached
  <2>6. a \in Attendee /\ req[r].doc.number[a] # NoNumber
    <3>1. a \in Attendee
      BY <2>1, SoldAttendees
    <3>2. PICK n : n = req[r].doc.number[a]
      OBVIOUS
    <3>3. <<a, n>> \in Attendee \X Number
      BY <2>5, <3>2 DEF TInv, TicketsTypeOK
    <3>4. QED  BY <3>1, <3>2, <3>3, SoldAssumption
  <2>7. docs[req[r].event].number[a] = req[r].doc.number[a]
    BY <2>1, <2>6 DEF HistoryInv, FoundInv, Extends
  <2>8. QED  BY <2>5, <2>7
<1>2. SpecH => Spec
  <2>1. [NextH]_varsH => [Next]_vars
    BY DEF NextH, varsH, vars
  <2>2. InitH => Init
    BY DEF InitH
  <2>3. QED  BY <2>1, <2>2, PTL DEF SpecH, Spec
<1>3. QED  BY <1>1, <1>2, HistoryInvariance, MailInvariance, PTL

(***************************************************************************)
(* Requests that do not overlap                                            *)
(***************************************************************************)
\* Requests do not overlap: there is one slot for them.
Serial == \A q, r \in Request : q = r

\* Nothing gets stale while there is one slot for requests.
LEMMA SerialObserved ==
    ASSUME Serial, TInv, [Next]_vars
    PROVE  Observed({}, {})
<1>1. CASE docs' = docs
  BY <1>1 DEF Observed
<1>2. CASE docs' # docs
  <2>1. PICK r \in Request : Saves(r)
    BY <1>2, StepOfOne DEF Looks
  <2>2. \A q \in Request : Writes(q)
    BY <1>2, <2>1 DEF Serial, Saves, Writes
  <2>3. QED
    BY <2>2 DEF Observed
<1>3. QED
  BY <1>1, <1>2

LEMMA SerialInvariance == ASSUME Serial PROVE Spec => [](TInv /\ FoundInv({}))
<1>1. Init => FoundInv({})
  BY InitFound
<1>2. TInv /\ FoundInv({}) /\ [Next]_vars => FoundInv({})'
  BY SerialObserved, NextFound
<1>3. QED
  BY <1>1, <1>2, TicketsInit, TicketsStep, PTL DEF Spec

\* While requests do not overlap a PDF that was written is found by its number,
\* whatever crashed between saving the number and writing the file.
THEOREM IssuedTicketsAreFound == ASSUME Serial PROVE Spec => []IssuedTicketIsFound
<1>1. FoundInv({}) => IssuedTicketIsFound
  BY DEF FoundInv
<1>2. QED
  BY <1>1, SerialInvariance, PTL

\* While requests do not overlap a ticket keeps its number.
THEOREM NumbersAreFinal == ASSUME Serial PROVE Spec => NumberIsFinal
<1>1. TInv /\ FoundInv({}) /\ [Next]_vars => [NumbersKept]_vars
  BY SerialObserved, NextFound
<1>2. QED
  BY <1>1, SerialInvariance, PTL DEF Spec, NumberIsFinal
=============================================================================
