------------------------------ MODULE Accounts ------------------------------
(***************************************************************************)
(* Accounts, membership users and password resets.                         *)
(*                                                                         *)
(* A person who signs in is two documents: a membership user, named by an  *)
(* e-mail address and holding the password, and an account that carries    *)
(* the address and a reset token.  Nothing links them but the address.     *)
(* Accounts are found through RavenDB indexes, which lag behind the        *)
(* documents, each for itself, and are written back whole, the last write  *)
(* winning.  A request is cut where the process can die or another request *)
(* can write: between what it loads and what it saves, and between two     *)
(* saves.                                                                  *)
(*                                                                         *)
(* Definitions named ...Fault are faulty variants of the definition that   *)
(* follows them, for mutation runs; no action uses them.                   *)
(***************************************************************************)
EXTENDS Integers, FiniteSets

CONSTANTS
    Request,        \* slots for web requests that are in progress
    Traffic,        \* the operations each slot serves
    AccountId,      \* the supply of account documents
    Email,          \* addresses of people
    Token,          \* the supply of GUIDs
    Validity,       \* how long a reset token is good for
    Forever,        \* DateTime.MaxValue
    Horizon,        \* bound on the clock
    Moves,          \* bound on address changes an administrator starts
    NoAccount,      \* no document of that id
    NoToken,        \* ResetPasswordToken = null
    NoSession       \* a free request slot

Account == [email : Email, token : Token \cup {NoToken}, expiry : Nat]

\* What the index of tokens holds of an account.
TokenEntry == [token : Token \cup {NoToken}, expiry : Nat]

Mail == [account : AccountId, to : Email, token : Token, until : Nat]

Ops == {"signup", "list", "confirm", "invite", "forgot", "reset", "clear",
        "details", "manage", "fix"}

\* op is what the request does next; id and doc are the account it has loaded, email
\* the address it works for.
Session == [op       : Ops,
            id       : AccountId \cup {NoAccount},
            doc      : Account \cup {NoAccount},
            email    : Email,
            token    : Token \cup {NoToken},
            at       : Nat]

ASSUME AccountsAssumption ==
    /\ Traffic \in [Request -> SUBSET Ops]
    /\ Validity \in Nat \ {0}
    /\ Horizon \in Nat /\ Moves \in Nat
    /\ Forever \in Nat /\ Forever > Horizon + Validity
    /\ NoToken \notin Token
    /\ NoAccount \notin AccountId
    /\ NoAccount \notin Account \cup TokenEntry \cup Email
    /\ NoSession \notin Session

VARIABLES
    accounts,       \* the account documents as RavenDB holds them
    indexed,        \* its indexes: addresses and tokens of accounts as they have seen them
    users,          \* the names of the membership users; passwords are not modelled
    mails,          \* mails with a token that were sent
    spent,          \* GUIDs that have been generated
    req,            \* the session of each request in progress
    now,            \* the clock tokens expire by
    cut,            \* history: addresses whose sign-up was interrupted
    moved           \* history: accounts and the addresses they no longer have

vars == <<accounts, indexed, users, mails, spent, req, now, cut, moved>>

(***************************************************************************)
(* Queries see an index; what they return is the document                  *)
(***************************************************************************)
\* RetrieveByEmailAddress
ByEmail(e) == {a \in AccountId : indexed.email[a] = e}

ByTokenFault(t) ==
    {a \in AccountId : indexed.token[a] # NoAccount /\ indexed.token[a].token = t}

\* RetrieveAccountByPasswordResetToken
ByToken(t) == {a \in AccountId : /\ indexed.token[a] # NoAccount
                                 /\ indexed.token[a].token = t
                                 /\ indexed.token[a].expiry > now}

Free == {a \in AccountId : accounts[a] = NoAccount}

\* Indexes catch up in no order.
CatchUpEmail(a) ==
    /\ indexed.email[a] # accounts[a].email
    /\ indexed' = [indexed EXCEPT !.email[a] = accounts[a].email]

CatchUpToken(a) ==
    LET entry == [token |-> accounts[a].token, expiry |-> accounts[a].expiry]
    IN  /\ indexed.token[a] # entry
        /\ indexed' = [indexed EXCEPT !.token[a] = entry]

CatchUpAccounts(a) ==
    /\ accounts[a] # NoAccount
    /\ CatchUpEmail(a) \/ CatchUpToken(a)
    /\ UNCHANGED <<accounts, users, mails, spent, req, now, cut, moved>>

(***************************************************************************)
(* Sessions                                                                *)
(***************************************************************************)
Doing(r, op) == req[r] # NoSession /\ req[r].op = op

\* A session that works for an address and has loaded nothing.
For(op, e) == [op |-> op, id |-> NoAccount, doc |-> NoAccount, email |-> e,
               token |-> NoToken, at |-> 0]

\* A session that has loaded an account.
Loaded(op, a, e) == [op |-> op, id |-> a, doc |-> accounts[a], email |-> e,
                     token |-> NoToken, at |-> 0]

Begin(r, s) ==
    /\ req[r] = NoSession
    /\ s.op \in Traffic[r]
    /\ req' = [req EXCEPT ![r] = s]
    /\ UNCHANGED <<accounts, indexed, users, mails, spent, now, cut, moved>>

End(r) == req' = [req EXCEPT ![r] = NoSession]

\* The address an account loses when doc is written over it, for the history only.
Left(a, doc) ==
    IF accounts[a] = NoAccount \/ accounts[a].email = doc.email
    THEN {} ELSE {<<a, accounts[a].email>>}

\* SaveChanges writes the session's copy of the account, whole.
Save(a, doc) ==
    /\ accounts' = [accounts EXCEPT ![a] = doc]
    /\ moved' = moved \cup Left(a, doc)

NewFault(e, t, expiry) == [email |-> e, token |-> expiry, expiry |-> expiry]

New(e, t, expiry) == [email |-> e, token |-> t, expiry |-> expiry]

\* A new account without a token.
Add(e) == \E a \in Free : Save(a, New(e, NoToken, 0))

(***************************************************************************)
(* Signing up                                                              *)
(***************************************************************************)
\* The membership provider refuses a name it has.
AddUser(e) ==
    /\ e \notin users
    /\ users' = users \cup {e}

\* The membership user is stored in a session of the provider's own ...
SignUp(r) ==
    /\ req[r] = NoSession
    /\ "signup" \in Traffic[r]
    /\ \E e \in Email :
          /\ AddUser(e)
          /\ req' = [req EXCEPT ![r] = For("signup", e)]
    /\ UNCHANGED <<accounts, indexed, mails, spent, now, cut, moved>>

\* ... and the account in a second save.
SignUpAccount(r) ==
    /\ Doing(r, "signup")
    /\ Add(req[r].email)
    /\ End(r)
    /\ UNCHANGED <<indexed, users, mails, spent, now, cut>>

RegisterFault ==
    /\ \E e \in Email : AddUser(e)
    /\ UNCHANGED <<accounts, indexed, mails, spent, req, now, cut, moved>>

\* The other registration form does both in one transaction.
Register ==
    /\ \E e \in Email : AddUser(e) /\ Add(e)
    /\ UNCHANGED <<indexed, mails, spent, req, now, cut>>

(***************************************************************************)
(* A payer who has no account gets an incomplete one                       *)
(***************************************************************************)
LookUpPayer(r) ==
    \E e \in Email : ByEmail(e) = {} /\ Begin(r, For("confirm", e))

\* CreateIncompleteAccount stores an account and looks the address up again.  What it
\* finds is never its own, unsaved account: it is one the index has come to know since.
FindAnother(r) ==
    /\ Doing(r, "confirm")
    /\ \E a \in AccountId :
          /\ ByEmail(req[r].email) = {a}
          /\ req' = [req EXCEPT ![r] = Loaded("invite", a, req[r].email)]
    /\ UNCHANGED <<accounts, indexed, users, mails, spent, now, cut, moved>>

\* Most often it finds none, and no mail is sent; several make it throw, and the
\* session is saved all the same when the request ends.
StorePayer(r) ==
    /\ Doing(r, "confirm")
    /\ ~ \E a \in AccountId : ByEmail(req[r].email) = {a}
    /\ \E t \in Token \ spent, a \in Free :
          /\ spent' = spent \cup {t}
          /\ Save(a, New(req[r].email, t, Forever))
    /\ End(r)
    /\ UNCHANGED <<indexed, users, mails, now, cut>>

(***************************************************************************)
(* Reset mails                                                             *)
(***************************************************************************)
\* SendPasswordResetEmail
ForgotPassword(r) ==
    \E e \in Email, a \in AccountId :
        ByEmail(e) = {a} /\ Begin(r, Loaded("forgot", a, e))

WithToken(doc, t, expiry) == [doc EXCEPT !.token = t, !.expiry = expiry]

\* The mail goes to the address of the account it was loaded with.
Send(a, e, t, until) ==
    mails' = mails \cup {[account |-> a, to |-> e, token |-> t, until |-> until]}

\* The token is saved, then mailed; a mail that is lost is one nobody uses.
IssueToken(r) ==
    LET s == req[r]
    IN  /\ Doing(r, "forgot")
        /\ \E t \in Token \ spent :
              /\ spent' = spent \cup {t}
              /\ Save(s.id, WithToken(s.doc, t, now + Validity))
              /\ Send(s.id, s.doc.email, t, now + Validity)
        /\ End(r)
        /\ UNCHANGED <<indexed, users, now, cut>>

\* The payer's two documents after an invitation: the other account gets the token
\* that is mailed, the new one keeps the one it was made with.
InvitedFault(s, t, b, u) ==
    [accounts EXCEPT ![s.id] = WithToken(s.doc, t, Forever),
                     ![b] = New(s.email, t, Forever)]

Invited(s, t, b, u) ==
    [accounts EXCEPT ![s.id] = WithToken(s.doc, t, Forever),
                     ![b] = New(s.email, u, Forever)]

\* SendGetYourAccountStartedEmail has found another account with the address.
Invite(r) ==
    LET s == req[r]
    IN  /\ Doing(r, "invite")
        /\ \E t, u \in Token \ spent : \E b \in Free :
              /\ t # u
              /\ spent' = spent \cup {t, u}
              /\ accounts' = Invited(s, t, b, u)
              /\ moved' = moved \cup Left(s.id, s.doc)
              /\ Send(s.id, s.doc.email, t, Forever)
        /\ End(r)
        /\ UNCHANGED <<indexed, users, now, cut>>

(***************************************************************************)
(* Resetting the password                                                  *)
(***************************************************************************)
\* ResetPassword finds the account by the token of some mail and the user by the
\* account's address; without a user, or while the index of users lags, it fails.
BeginReset(r) ==
    \E m \in mails, a \in AccountId :
        /\ ByToken(m.token) = {a}
        /\ accounts[a].email \in users
        /\ Begin(r, [op |-> "reset", id |-> a, doc |-> accounts[a],
                     email |-> accounts[a].email, token |-> m.token, at |-> now])

\* The password is saved ...
SavePassword(r) ==
    /\ Doing(r, "reset")
    /\ req' = [req EXCEPT ![r].op = "clear"]
    /\ UNCHANGED <<accounts, indexed, users, mails, spent, now, cut, moved>>

\* ... before the token is looked up again, taken off the session's copy of the
\* account, and that is saved.
ClearToken(r) ==
    LET s == req[r]
    IN  /\ Doing(r, "clear")
        /\ IF ByToken(s.token) = {s.id}
           THEN Save(s.id, WithToken(s.doc, NoToken, 0))
           ELSE UNCHANGED <<accounts, moved>>
        /\ End(r)
        /\ UNCHANGED <<indexed, users, mails, spent, now, cut>>

(***************************************************************************)
(* Other handlers that write accounts                                      *)
(***************************************************************************)
\* Contact details, PayPal settings, ticket details, culture: the account of the
\* signed-in user is loaded by address ...
BeginDetails(r) ==
    \E e \in Email, a \in AccountId :
        e \in users /\ ByEmail(e) = {a} /\ Begin(r, Loaded("details", a, e))

\* ... and the copy, with fields nothing here depends on, saved when the request ends.
SaveDetails(r) ==
    /\ Doing(r, "details")
    /\ Save(req[r].id, req[r].doc)
    /\ End(r)
    /\ UNCHANGED <<indexed, users, mails, spent, now, cut>>

\* The administrator's form gives the account an address; the membership user keeps its.
BeginManage(r) ==
    /\ Cardinality(moved) < Moves
    /\ \E a \in AccountId, e \in Email :
          accounts[a] # NoAccount /\ Begin(r, Loaded("manage", a, e))

SaveManaged(r) ==
    /\ Doing(r, "manage")
    /\ Save(req[r].id, [req[r].doc EXCEPT !.email = req[r].email])
    /\ End(r)
    /\ UNCHANGED <<indexed, users, mails, spent, now, cut>>

\* FixNonMembership makes a user for an account that has none.
BeginFix(r) ==
    \E a \in AccountId :
        /\ accounts[a] # NoAccount
        /\ Begin(r, Loaded("fix", a, accounts[a].email))

FixUser(r) ==
    /\ Doing(r, "fix")
    /\ users' = users \cup {req[r].email}
    /\ End(r)
    /\ UNCHANGED <<accounts, indexed, mails, spent, now, cut, moved>>

\* The list of users asks for all accounts, gets those some index knows, compares their
\* addresses and stores an account for every user who is not among them; a session here
\* is the turn of one such user.
BeginList(r) ==
    \E e \in Email, known \in SUBSET {a \in AccountId : accounts[a] # NoAccount} :
        /\ e \in users
        /\ \A a \in known : accounts[a].email # e
        /\ Begin(r, For("list", e))

StoreMissing(r) ==
    /\ Doing(r, "list")
    /\ Add(req[r].email)
    /\ End(r)
    /\ UNCHANGED <<indexed, users, mails, spent, now, cut>>

(***************************************************************************)
(* Time and crashes                                                        *)
(***************************************************************************)
Tick ==
    /\ now < Horizon
    /\ now' = now + 1
    /\ UNCHANGED <<accounts, indexed, users, mails, spent, req, cut, moved>>

\* The process dies, or the request fails before it has changed anything.
Interrupt(r) ==
    /\ req[r] # NoSession
    /\ End(r)
    /\ cut' = IF req[r].op = "signup" THEN cut \cup {req[r].email} ELSE cut
    /\ UNCHANGED <<accounts, indexed, users, mails, spent, now, moved>>

Init ==
    /\ accounts = [a \in AccountId |-> NoAccount]
    /\ indexed = [email |-> [a \in AccountId |-> NoAccount],
                  token |-> [a \in AccountId |-> NoAccount]]
    /\ users = {}
    /\ mails = {}
    /\ spent = {}
    /\ req = [r \in Request |-> NoSession]
    /\ now = 0
    /\ cut = {}
    /\ moved = {}

RequestNext(r) ==
    \/ SignUp(r) \/ SignUpAccount(r)
    \/ LookUpPayer(r) \/ FindAnother(r) \/ StorePayer(r) \/ Invite(r)
    \/ ForgotPassword(r) \/ IssueToken(r)
    \/ BeginReset(r) \/ SavePassword(r) \/ ClearToken(r)
    \/ BeginDetails(r) \/ SaveDetails(r)
    \/ BeginManage(r) \/ SaveManaged(r)
    \/ BeginFix(r) \/ FixUser(r)
    \/ BeginList(r) \/ StoreMissing(r)
    \/ Interrupt(r)

Next ==
    \/ \E r \in Request : RequestNext(r)
    \/ Register \/ Tick
    \/ \E a \in AccountId : CatchUpAccounts(a)

Spec == Init /\ [][Next]_vars

(***************************************************************************)
(* Properties                                                              *)
(***************************************************************************)
\* Every variable has its type.
AccountsTypeOK ==
    /\ accounts \in [AccountId -> Account \cup {NoAccount}]
    /\ indexed \in [email : [AccountId -> Email \cup {NoAccount}],
                   token : [AccountId -> TokenEntry \cup {NoAccount}]]
    /\ users \subseteq Email
    /\ mails \subseteq Mail
    /\ spent \subseteq Token
    /\ req \in [Request -> Session \cup {NoSession}]
    /\ now \in 0..Horizon
    /\ cut \subseteq Email
    /\ moved \subseteq AccountId \X Email

\* A token is a key: whatever stale copies are written back, no two accounts carry
\* one token, so looking an account up by its token never finds two
\* (AccountService.RetrieveAccountByPasswordResetToken, SingleOrDefault).
TokenNamesOneAccount ==
    \A a, b \in AccountId :
        accounts[a] # NoAccount /\ accounts[b] # NoAccount /\ accounts[a].token # NoToken
        /\ accounts[a].token = accounts[b].token => a = b

\* Whoever has a membership user has an account too, except those whose sign-up is
\* between its two saves, or was interrupted there, and those whose account was given
\* another address (AccountController.SignUp, Register; UserManagementController).
UserHasAccount ==
    \A e \in Email : e \in users =>
        \/ \E a \in AccountId : accounts[a] # NoAccount /\ accounts[a].email = e
        \/ \E r \in Request : Doing(r, "signup") /\ req[r].email = e
        \/ e \in cut
        \/ \E a \in AccountId : <<a, e>> \in moved

\* The mail allows the reset: it was about that account, with that token, good when the
\* account was looked up, and went to the user's own address unless the account has
\* changed its address since.
MailedFor(s, m) ==
    /\ m.account = s.id
    /\ m.token = s.token
    /\ s.at < m.until
    /\ m.to = s.email \/ <<s.id, m.to>> \in moved

\* A reset sets the password of the user its token was mailed for, however saves of
\* accounts overlap and the indexes lag (AccountController.ResetPassword).
ResetFollowsMail ==
    [][\A r \in Request :
         Doing(r, "reset") /\ Doing(r, "clear")'
           => \E m \in mails : MailedFor(req[r], m)]_vars
=============================================================================
