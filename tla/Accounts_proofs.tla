-------------------------- MODULE Accounts_proofs ---------------------------
(***************************************************************************)
(* Accounts, proved for every number of requests, accounts and addresses.  *)
(*                                                                         *)
(* A token stands in documents, in the index and in the copies of sessions.*)
(* Wherever it stands it belongs to one account, with one expiry, and that *)
(* is what the mail says it was sent with (TokenInv): writing old copies   *)
(* back cannot disturb it.  Addresses are followed the same way: an        *)
(* account has every address anything was loaded with, or had it           *)
(* (AddressInv).                                                           *)
(***************************************************************************)
EXTENDS Accounts, TLAPS

WithAccount == {"invite", "forgot", "reset", "clear", "details", "manage", "fix"}

\* The index of tokens has seen account a with token t and expiry x.
IndexBears(a, t, x) ==
    indexed.token[a] # NoAccount /\ indexed.token[a].token = t /\ indexed.token[a].expiry = x

\* Account a carries token t with expiry x somewhere.
Bears(a, t, x) ==
    \/ accounts[a] # NoAccount /\ accounts[a].token = t /\ accounts[a].expiry = x
    \/ IndexBears(a, t, x)
    \/ \E r \in Request : /\ req[r] # NoSession /\ req[r].op \in WithAccount
                          /\ req[r].id = a
                          /\ req[r].doc.token = t /\ req[r].doc.expiry = x

TokenInv ==
    /\ \A a \in AccountId, t \in Token, x \in Nat : Bears(a, t, x) =>
          /\ t \in spent
          /\ \A b \in AccountId, y \in Nat : Bears(b, t, y) => b = a /\ y = x
          /\ \A m \in mails : m.token = t => m.account = a /\ m.until = x
    /\ \A m \in mails : m.token \in spent

\* Account a has the address e, or had it.
HasHad(a, e) == accounts[a] # NoAccount /\ (accounts[a].email = e \/ <<a, e>> \in moved)

\* What a session has loaded is an account, under an address of its.
Sound(s) ==
    /\ s.op \in WithAccount =>
          s.id \in AccountId /\ s.doc \in Account /\ HasHad(s.id, s.doc.email)
    /\ s.op = "fix" => s.email = s.doc.email
    /\ s.op = "reset" => \E m \in mails : MailedFor(s, m)

AddressInv ==
    /\ \A m \in mails : HasHad(m.account, m.to)
    /\ \A r \in Request : req[r] # NoSession => Sound(req[r])

\* Everybody who has a user has, or had, an account, or is or was signing up.
UserInv ==
    \A e \in users : \/ \E a \in AccountId : HasHad(a, e)
                     \/ \E r \in Request : Doing(r, "signup") /\ req[r].email = e
                     \/ e \in cut

\* What the indexes have seen is still there.
IndexInv ==
    \A a \in AccountId :
        indexed.email[a] # NoAccount \/ indexed.token[a] # NoAccount
            => accounts[a] # NoAccount

AInv == AccountsTypeOK /\ TokenInv /\ AddressInv /\ UserInv /\ IndexInv

(***************************************************************************)
(* What a save does                                                        *)
(***************************************************************************)
\* Addresses are never forgotten when a document is written.
LEMMA SaveKeeps ==
    ASSUME AccountsTypeOK, NEW a \in AccountId, NEW doc \in Account, Save(a, doc)
    PROVE  /\ accounts' \in [AccountId -> Account \cup {NoAccount}]
           /\ moved' \subseteq AccountId \X Email
           /\ HasHad(a, doc.email)'
           /\ \A b \in AccountId, e \in Email : HasHad(b, e) => HasHad(b, e)'
  <1>1. doc # NoAccount /\ doc.email \in Email
    BY AccountsAssumption DEF Account
  <1>2. Left(a, doc) \subseteq AccountId \X Email
    BY DEF Left, AccountsTypeOK, Account
  <1>3. accounts' = [accounts EXCEPT ![a] = doc] /\ moved' = moved \cup Left(a, doc)
    BY DEF Save
  <1>4. accounts' \in [AccountId -> Account \cup {NoAccount}] /\ accounts'[a] = doc
    BY <1>3 DEF AccountsTypeOK
  <1>5. ASSUME NEW b \in AccountId, NEW e \in Email, HasHad(b, e)
        PROVE  HasHad(b, e)'
    <2>1. CASE b = a
      <3>1. accounts[a].email # doc.email => <<a, accounts[a].email>> \in moved'
        BY <1>3, <1>5, <2>1 DEF Left, HasHad
      <3>2. QED
        BY <1>1, <1>3, <1>4, <1>5, <2>1, <3>1 DEF HasHad
    <2>2. CASE b # a
      BY <1>3, <1>5, <2>2 DEF HasHad, AccountsTypeOK
    <2>3. QED
      BY <2>1, <2>2
  <1>6. QED
    BY <1>1, <1>2, <1>3, <1>4, <1>5 DEF HasHad, AccountsTypeOK

\* After a save only the document written can carry a token anew.
LEMMA SavedBears ==
    ASSUME AccountsTypeOK, NEW r \in Request, NEW a \in AccountId, NEW doc \in Account,
           Save(a, doc), End(r), indexed' = indexed,
           NEW b \in AccountId, NEW t \in Token, NEW x \in Nat, Bears(b, t, x)'
    PROVE  Bears(b, t, x) \/ (b = a /\ doc.token = t /\ doc.expiry = x)
  <1>1. accounts' = [accounts EXCEPT ![a] = doc]
    BY DEF Save
  <1>2. accounts'[b] = IF b = a THEN doc ELSE accounts[b]
    BY <1>1 DEF AccountsTypeOK
  <1>3. \A q \in Request : req'[q] # NoSession => req'[q] = req[q]
    BY DEF End, AccountsTypeOK
  <1>4. QED
    BY <1>2, <1>3 DEF Bears, IndexBears

(***************************************************************************)
(* The parts of the invariant, by what a step leaves alone                 *)
(***************************************************************************)
Grows == \A b \in AccountId, e \in Email : HasHad(b, e) => HasHad(b, e)'

\* Nothing carries a token it did not carry.
LEMMA TokensKept ==
    ASSUME TokenInv, spent \subseteq spent', mails' = mails,
           \A a \in AccountId, t \in Token, x \in Nat : Bears(a, t, x)' => Bears(a, t, x)
    PROVE  TokenInv'
  <1>1. ASSUME NEW a \in AccountId, NEW t \in Token, NEW x \in Nat, Bears(a, t, x)'
        PROVE  /\ t \in spent'
               /\ \A b \in AccountId, y \in Nat : Bears(b, t, y)' => b = a /\ y = x
               /\ \A m \in mails' : m.token = t => m.account = a /\ m.until = x
    BY <1>1 DEF TokenInv
  <1>2. \A m \in mails' : m.token \in spent'
    BY DEF TokenInv
  <1>3. QED
    BY <1>1, <1>2 DEF TokenInv

\* New tokens t1 and t2 go to one account each, and the mail that is sent, if any, is
\* about the first.
Issues(a1, t1, x1, a2, t2, x2) ==
    /\ {t1, t2} \cap spent = {} /\ spent' = spent \cup {t1, t2}
    /\ t1 = t2 => a1 = a2 /\ x1 = x2
    /\ \A m \in mails' : m \in mails \/ (m.account = a1 /\ m.token = t1 /\ m.until = x1)
    /\ \A a \in AccountId, t \in Token, x \in Nat : Bears(a, t, x)' =>
          \/ Bears(a, t, x)
          \/ a = a1 /\ t = t1 /\ x = x1
          \/ a = a2 /\ t = t2 /\ x = x2

LEMMA TokensIssued ==
    ASSUME TokenInv,
           NEW a1 \in AccountId, NEW t1 \in Token, NEW x1 \in Nat,
           NEW a2 \in AccountId, NEW t2 \in Token, NEW x2 \in Nat,
           Issues(a1, t1, x1, a2, t2, x2)
    PROVE  TokenInv'
  <1>1. ASSUME NEW a \in AccountId, NEW t \in Token, NEW x \in Nat, Bears(a, t, x)'
        PROVE  /\ t \in spent'
               /\ \A b \in AccountId, y \in Nat : Bears(b, t, y)' => b = a /\ y = x
               /\ \A m \in mails' : m.token = t => m.account = a /\ m.until = x
    <2>1. CASE t \in spent
      <3>0. t # t1 /\ t # t2
        BY <2>1 DEF Issues
      <3>1. Bears(a, t, x)
        BY <1>1, <3>0 DEF Issues
      <3>2. \A b \in AccountId, y \in Nat : Bears(b, t, y)' => Bears(b, t, y)
        BY <3>0 DEF Issues
      <3>3. \A m \in mails' : m.token = t => m \in mails
        BY <3>0 DEF Issues
      <3>4. QED
        BY <2>1, <3>1, <3>2, <3>3 DEF TokenInv, Issues
    <2>2. CASE t \notin spent
      <3>1. \A b \in AccountId, y \in Nat : ~ Bears(b, t, y)
        BY <2>2 DEF TokenInv
      <3>2. \A m \in mails : m.token # t
        BY <2>2 DEF TokenInv
      <3>3. QED
        BY <1>1, <2>2, <3>1, <3>2 DEF Issues
    <2>3. QED
      BY <2>1, <2>2
  <1>2. \A m \in mails' : m.token \in spent'
    BY DEF TokenInv, Issues
  <1>3. QED
    BY <1>1, <1>2 DEF TokenInv

\* Sessions stay sound while mails and addresses are only added.
LEMMA AddressesKept ==
    ASSUME AccountsTypeOK, AddressInv, Grows,
           mails \subseteq mails', moved \subseteq moved',
           \A m \in mails' : m \in mails \/ HasHad(m.account, m.to)',
           \A r \in Request : \/ req'[r] = req[r]
                              \/ req'[r] = NoSession
                              \/ \E s \in Session : req'[r] = s /\ Sound(s)'
    PROVE  AddressInv'
  <1>1. ASSUME NEW m \in mails'
        PROVE  HasHad(m.account, m.to)'
    BY DEF AddressInv, Grows, AccountsTypeOK, Mail
  <1>2. ASSUME NEW r \in Request, req'[r] # NoSession
        PROVE  \E s \in Session : req'[r] = s /\ Sound(s)'
    <2>1. CASE req'[r] = req[r]
      <3>1. PICK s \in Session : req[r] = s
        BY <1>2, <2>1 DEF AccountsTypeOK
      <3>2. Sound(s)
        BY <1>2, <2>1, <3>1 DEF AddressInv
      <3>3. s.op \in WithAccount =>
               s.id \in AccountId /\ s.doc \in Account /\ HasHad(s.id, s.doc.email)'
        BY <3>2 DEF Sound, Grows, Account
      <3>4. ASSUME NEW m \in mails, MailedFor(s, m)
            PROVE  MailedFor(s, m)' /\ m \in mails'
        BY <3>4 DEF MailedFor
      <3>5. Sound(s)'
        BY <3>2, <3>3, <3>4 DEF Sound
      <3>6. QED
        BY <2>1, <3>1, <3>5
    <2>2. QED
      BY <1>2, <2>1
  <1>3. ASSUME NEW r \in Request, req'[r] # NoSession
        PROVE  Sound(req[r])'
    <2>1. PICK s \in Session : req'[r] = s /\ Sound(s)'
      BY <1>2, <1>3
    <2>2. QED
      BY <2>1 DEF Sound, HasHad, MailedFor
  <1>4. QED
    BY <1>1, <1>3 DEF AddressInv

\* Users keep what they have while sign-ups end with an account or are noted.
LEMMA UsersKept ==
    ASSUME AccountsTypeOK, UserInv, Grows, cut \subseteq cut',
           \A e \in users' : \/ e \in users
                             \/ \E a \in AccountId : HasHad(a, e)'
                             \/ \E r \in Request : Doing(r, "signup")' /\ req'[r].email = e,
           \A r \in Request : Doing(r, "signup") =>
               \/ req'[r] = req[r]
               \/ req[r].email \in cut'
               \/ \A e \in Email : e = req[r].email => \E a \in AccountId : HasHad(a, e)'
    PROVE  UserInv'
  <1>1. ASSUME NEW e \in users'
        PROVE  \/ \E a \in AccountId : HasHad(a, e)'
               \/ \E r \in Request : Doing(r, "signup")' /\ req'[r].email = e
               \/ e \in cut'
    <2>1. CASE e \in users
      <3>1. e \in Email
        BY <2>1 DEF AccountsTypeOK
      <3>2. CASE \E a \in AccountId : HasHad(a, e)
        BY <3>1, <3>2 DEF Grows
      <3>3. CASE \E r \in Request : Doing(r, "signup") /\ req[r].email = e
        <4>1. PICK r \in Request : Doing(r, "signup") /\ req[r].email = e
          BY <3>3
        <4>2. CASE req'[r] = req[r]
          BY <4>1, <4>2 DEF Doing
        <4>3. QED
          BY <3>1, <4>1, <4>2
      <3>4. QED
        BY <2>1, <3>2, <3>3 DEF UserInv
    <2>2. QED
      BY <2>1
  <1>2. QED
    BY <1>1 DEF UserInv, Doing

(***************************************************************************)
(* Kinds of steps                                                          *)
(***************************************************************************)
\* A request loads something, or goes on with what it has loaded.
LEMMA Opened ==
    ASSUME AInv, NEW r \in Request, NEW s \in Session, Sound(s),
           req' = [req EXCEPT ![r] = s], ~ Doing(r, "signup"),
           s.op \in WithAccount =>
               \/ s.doc = accounts[s.id]
               \/ /\ req[r] # NoSession /\ req[r].op \in WithAccount
                  /\ req[r].id = s.id /\ req[r].doc = s.doc,
           UNCHANGED <<accounts, indexed, users, mails, spent, now, cut, moved>>
    PROVE  AInv'
  <1>0. s # NoSession /\ AccountsTypeOK
    BY AccountsAssumption DEF AInv
  <1>1. \A q \in Request : req'[q] = IF q = r THEN s ELSE req[q]
    BY <1>0 DEF AccountsTypeOK
  <1>2. AccountsTypeOK'
    BY <1>0 DEF AccountsTypeOK
  <1>3. \A b \in AccountId, e \in Email : HasHad(b, e)' = HasHad(b, e)
    BY DEF HasHad
  <1>4. Grows
    BY <1>3 DEF Grows
  <1>5. ASSUME NEW a \in AccountId, NEW t \in Token, NEW x \in Nat, Bears(a, t, x)'
        PROVE  Bears(a, t, x)
    <2>1. CASE \/ accounts[a] # NoAccount /\ accounts[a].token = t /\ accounts[a].expiry = x
               \/ IndexBears(a, t, x)
      BY <2>1 DEF Bears, IndexBears
    <2>2. CASE \E q \in Request : /\ req'[q] # NoSession /\ req'[q].op \in WithAccount
                                  /\ req'[q].id = a
                                  /\ req'[q].doc.token = t /\ req'[q].doc.expiry = x
      <3>1. PICK q \in Request : /\ req'[q] # NoSession /\ req'[q].op \in WithAccount
                                 /\ req'[q].id = a
                                 /\ req'[q].doc.token = t /\ req'[q].doc.expiry = x
        BY <2>2
      <3>2. CASE q # r
        BY <1>1, <3>1, <3>2 DEF Bears, IndexBears
      <3>3. CASE q = r
        <4>1. accounts[s.id] # NoAccount
          BY <1>1, <3>1, <3>3 DEF Sound, HasHad
        <4>2. QED
          BY <1>1, <3>1, <3>3, <4>1 DEF Bears, IndexBears
      <3>4. QED
        BY <3>2, <3>3
    <2>3. QED
      BY <1>5, <2>1, <2>2 DEF Bears, IndexBears
  <1>6. TokenInv'
    BY <1>5, TokensKept DEF AInv
  <1>7. Sound(s)'
    BY DEF Sound, HasHad, MailedFor
  <1>8. AddressInv'
    BY <1>0, <1>1, <1>4, <1>7, AddressesKept DEF AInv
  <1>9. UserInv'
    BY <1>0, <1>1, <1>4, UsersKept DEF AInv, Doing
  <1>10. QED
    BY <1>2, <1>6, <1>8, <1>9 DEF AInv, IndexInv

\* A request saves an account, without a token or with one the account carries, and ends.
LEMMA Closed ==
    ASSUME AInv, NEW r \in Request, NEW a \in AccountId, NEW doc \in Account,
           Save(a, doc), End(r),
           doc.token = NoToken \/ Bears(a, doc.token, doc.expiry),
           Doing(r, "signup") => doc.email = req[r].email,
           UNCHANGED <<indexed, users, mails, spent, now, cut>>
    PROVE  AInv'
  <1>0. AccountsTypeOK
    BY DEF AInv
  <1>1. \A q \in Request : req'[q] = IF q = r THEN NoSession ELSE req[q]
    BY <1>0 DEF AccountsTypeOK, End
  <1>2. /\ accounts' \in [AccountId -> Account \cup {NoAccount}]
        /\ moved' \subseteq AccountId \X Email
        /\ HasHad(a, doc.email)'
        /\ Grows
    BY <1>0, SaveKeeps DEF Grows
  <1>3. AccountsTypeOK'
    BY <1>0, <1>2 DEF AccountsTypeOK, End
  <1>4. ASSUME NEW b \in AccountId, NEW t \in Token, NEW x \in Nat, Bears(b, t, x)'
        PROVE  Bears(b, t, x)
    <2>1. Bears(b, t, x) \/ (b = a /\ doc.token = t /\ doc.expiry = x)
      BY <1>0, <1>4, SavedBears
    <2>2. QED
      BY <2>1, AccountsAssumption
  <1>5. TokenInv'
    BY <1>4, TokensKept DEF AInv
  <1>6. AddressInv'
    BY <1>0, <1>1, <1>2, AddressesKept DEF AInv, Save
  <1>7. UserInv'
    BY <1>0, <1>1, <1>2, UsersKept DEF AInv
  <1>8. IndexInv'
    BY <1>0, AccountsAssumption DEF AInv, IndexInv, Save, AccountsTypeOK
  <1>9. QED
    BY <1>3, <1>5, <1>6, <1>7, <1>8 DEF AInv

(***************************************************************************)
(* What queries return, and the sessions that begin with it                *)
(***************************************************************************)
\* An account the index knows is there, and its copy in a session is sound.
LEMMA Found ==
    ASSUME AInv, NEW a \in AccountId, accounts[a] # NoAccount
    PROVE  accounts[a] \in Account /\ HasHad(a, accounts[a].email)
BY DEF AInv, AccountsTypeOK, HasHad

LEMMA FoundByEmail ==
    ASSUME AInv, NEW a \in AccountId, NEW e \in Email, a \in ByEmail(e)
    PROVE  accounts[a] # NoAccount
BY AccountsAssumption DEF AInv, IndexInv, ByEmail

\* A session that loads an account and is not a reset or a fix.
LEMMA LoadedSound ==
    ASSUME AInv, NEW op \in {"invite", "forgot", "details", "manage"},
           NEW a \in AccountId, NEW e \in Email, accounts[a] # NoAccount
    PROVE  /\ Loaded(op, a, e) \in Session /\ Sound(Loaded(op, a, e))
           /\ Loaded(op, a, e).doc = accounts[Loaded(op, a, e).id]
BY Found DEF Loaded, Session, Ops, Sound, WithAccount

LEMMA ForSound ==
    ASSUME NEW op \in {"signup", "list", "confirm"}, NEW e \in Email
    PROVE  For(op, e) \in Session /\ Sound(For(op, e)) /\ For(op, e).op \notin WithAccount
BY DEF For, Session, Ops, Sound, WithAccount

\* Beginning is opening a session in a free slot.
LEMMA Begun ==
    ASSUME AInv, NEW r \in Request, NEW s \in Session, Sound(s), Begin(r, s),
           s.op \in WithAccount => s.doc = accounts[s.id]
    PROVE  AInv'
BY Opened DEF Begin, Doing

\* Requests that only load something.
LEMMA BeginsKeep ==
    ASSUME AInv, NEW r \in Request,
           \/ LookUpPayer(r) \/ ForgotPassword(r) \/ BeginDetails(r)
           \/ BeginManage(r) \/ BeginList(r)
    PROVE  AInv'
  <1>1. CASE LookUpPayer(r)
    BY <1>1, ForSound, Begun DEF LookUpPayer
  <1>2. CASE ForgotPassword(r)
    BY <1>2, FoundByEmail, LoadedSound, Begun DEF ForgotPassword
  <1>3. CASE BeginDetails(r)
    BY <1>3, FoundByEmail, LoadedSound, Begun DEF BeginDetails
  <1>4. CASE BeginManage(r)
    BY <1>4, LoadedSound, Begun DEF BeginManage
  <1>5. CASE BeginList(r)
    BY <1>5, ForSound, Begun DEF BeginList
  <1>6. QED
    BY <1>1, <1>2, <1>3, <1>4, <1>5

LEMMA BeginFixKeeps ==
    ASSUME AInv, NEW r \in Request, BeginFix(r)
    PROVE  AInv'
  <1>1. PICK a \in AccountId :
           accounts[a] # NoAccount /\ Begin(r, Loaded("fix", a, accounts[a].email))
    BY DEF BeginFix
  <1>2. accounts[a] \in Account /\ HasHad(a, accounts[a].email)
    BY <1>1, Found
  <1>3. PICK s : s = Loaded("fix", a, accounts[a].email)
    OBVIOUS
  <1>4. /\ s \in Session /\ s.doc = accounts[s.id] /\ s.id = a
        /\ s.op = "fix" /\ s.email = s.doc.email
    BY <1>2, <1>3 DEF Loaded, Session, Ops, Account
  <1>5. Sound(s)
    BY <1>2, <1>4 DEF Sound
  <1>6. QED
    BY <1>1, <1>3, <1>4, <1>5, Begun

\* The token a reset was begun with stood in a mail about the account it found.
LEMMA BeginResetKeeps ==
    ASSUME AInv, NEW r \in Request, BeginReset(r)
    PROVE  AInv'
  <1>1. PICK m \in mails, a \in AccountId :
           /\ ByToken(m.token) = {a}
           /\ accounts[a].email \in users
           /\ Begin(r, [op |-> "reset", id |-> a, doc |-> accounts[a],
                        email |-> accounts[a].email, token |-> m.token, at |-> now])
    BY DEF BeginReset
  <1>2. m \in Mail /\ now \in Nat
    BY DEF AInv, AccountsTypeOK
  <1>3. /\ indexed.token[a] # NoAccount /\ indexed.token[a] \in TokenEntry
        /\ indexed.token[a].token = m.token /\ indexed.token[a].expiry > now
    BY <1>1 DEF ByToken, AInv, AccountsTypeOK
  <1>4. accounts[a] # NoAccount
    BY <1>3 DEF AInv, IndexInv
  <1>5. accounts[a] \in Account /\ HasHad(a, accounts[a].email)
    BY <1>4, Found
  <1>6. Bears(a, m.token, indexed.token[a].expiry)
    BY <1>3 DEF Bears, IndexBears
  <1>7. m.account = a /\ m.until = indexed.token[a].expiry
    BY <1>2, <1>3, <1>6 DEF AInv, TokenInv, TokenEntry, Mail
  <1>8. accounts[a].email = m.to \/ <<a, m.to>> \in moved
    BY <1>7 DEF AInv, AddressInv, HasHad
  <1>9. PICK s : s = [op |-> "reset", id |-> a, doc |-> accounts[a],
                      email |-> accounts[a].email, token |-> m.token, at |-> now]
    OBVIOUS
  <1>10. /\ s \in Session
         /\ s.op = "reset" /\ s.id = a /\ s.doc = accounts[a] /\ s.email = s.doc.email
         /\ s.token = m.token /\ s.at = now
    BY <1>2, <1>5, <1>9 DEF Session, Ops, Account, Mail
  <1>11. MailedFor(s, m)
    BY <1>3, <1>7, <1>8, <1>10 DEF MailedFor
  <1>12. Sound(s)
    BY <1>5, <1>10, <1>11 DEF Sound
  <1>13. QED
    BY <1>1, <1>9, <1>10, <1>12, Begun

LEMMA FindAnotherKeeps ==
    ASSUME AInv, NEW r \in Request, FindAnother(r)
    PROVE  AInv'
  <1>1. PICK a \in AccountId : /\ ByEmail(req[r].email) = {a}
                               /\ req' = [req EXCEPT ![r] = Loaded("invite", a, req[r].email)]
    BY DEF FindAnother
  <1>2. req[r].email \in Email
    BY DEF FindAnother, Doing, AInv, AccountsTypeOK, Session
  <1>3. accounts[a] # NoAccount
    BY <1>1, <1>2, FoundByEmail
  <1>4. PICK s : s = Loaded("invite", a, req[r].email)
    OBVIOUS
  <1>5. s \in Session /\ Sound(s) /\ s.doc = accounts[s.id]
    BY <1>2, <1>3, <1>4, LoadedSound
  <1>6. QED
    BY <1>1, <1>4, <1>5, Opened DEF FindAnother, Doing

LEMMA SavePasswordKeeps ==
    ASSUME AInv, NEW r \in Request, SavePassword(r)
    PROVE  AInv'
  <1>1. req[r] \in Session /\ req[r] # NoSession /\ req[r].op = "reset" /\ Sound(req[r])
    BY DEF SavePassword, Doing, AInv, AddressInv, AccountsTypeOK
  <1>2. PICK s : s = [req[r] EXCEPT !.op = "clear"]
    OBVIOUS
  <1>3. /\ s \in Session /\ s.op = "clear" /\ s.id = req[r].id /\ s.doc = req[r].doc
    BY <1>1, <1>2 DEF Session, Ops
  <1>4. Sound(s)
    BY <1>1, <1>3 DEF Sound, WithAccount
  <1>5. req' = [req EXCEPT ![r] = s]
    BY <1>2 DEF SavePassword
  <1>6. QED
    BY <1>1, <1>3, <1>4, <1>5, Opened DEF SavePassword, Doing, WithAccount

(***************************************************************************)
(* Requests that end                                                       *)
(***************************************************************************)
\* What a session that is under way has loaded.
LEMMA Underway ==
    ASSUME AInv, NEW r \in Request, req[r] # NoSession
    PROVE  /\ req[r] \in Session /\ Sound(req[r])
           /\ req[r].op \in WithAccount =>
                 /\ req[r].id \in AccountId /\ req[r].doc \in Account
                 /\ accounts[req[r].id] # NoAccount
                 /\ Bears(req[r].id, req[r].doc.token, req[r].doc.expiry)
BY DEF AInv, AddressInv, AccountsTypeOK, Sound, HasHad, Bears, IndexBears

LEMMA NewAccount ==
    ASSUME NEW e \in Email, NEW t \in Token \cup {NoToken}, NEW x \in Nat
    PROVE  /\ New(e, t, x) \in Account
           /\ New(e, t, x).email = e /\ New(e, t, x).token = t /\ New(e, t, x).expiry = x
BY DEF New, Account

LEMMA AccountWithToken ==
    ASSUME NEW doc \in Account, NEW t \in Token \cup {NoToken}, NEW x \in Nat
    PROVE  /\ WithToken(doc, t, x) \in Account
           /\ WithToken(doc, t, x).email = doc.email
           /\ WithToken(doc, t, x).token = t /\ WithToken(doc, t, x).expiry = x
BY DEF WithToken, Account

\* Requests that store an account that has no token.
LEMMA AddsKeep ==
    ASSUME AInv, NEW r \in Request, SignUpAccount(r) \/ StoreMissing(r)
    PROVE  AInv'
  <1>1. req[r] # NoSession /\ req[r].email \in Email
    BY Underway DEF SignUpAccount, StoreMissing, Doing, Session
  <1>2. PICK a \in Free : Save(a, New(req[r].email, NoToken, 0))
    BY DEF SignUpAccount, StoreMissing, Add
  <1>3. PICK doc : doc = New(req[r].email, NoToken, 0)
    OBVIOUS
  <1>4. doc \in Account /\ doc.email = req[r].email /\ doc.token = NoToken
    BY <1>1, <1>3, NewAccount
  <1>5. a \in AccountId /\ Save(a, doc)
    BY <1>2, <1>3 DEF Free
  <1>6. QED
    BY <1>4, <1>5, Closed DEF SignUpAccount, StoreMissing

\* Requests that write the account they have loaded.
LEMMA SavesKeep ==
    ASSUME AInv, NEW r \in Request, SaveDetails(r) \/ SaveManaged(r) \/ ClearToken(r)
    PROVE  AInv'
  <1>0. /\ req[r] \in Session /\ Sound(req[r]) /\ ~ Doing(r, "signup")
        /\ req[r].id \in AccountId /\ req[r].doc \in Account
        /\ Bears(req[r].id, req[r].doc.token, req[r].doc.expiry)
    BY Underway DEF SaveDetails, SaveManaged, ClearToken, Doing, WithAccount
  <1>1. CASE SaveDetails(r)
    BY <1>0, <1>1, Closed DEF SaveDetails
  <1>2. CASE SaveManaged(r)
    <2>1. PICK doc : doc = [req[r].doc EXCEPT !.email = req[r].email]
      OBVIOUS
    <2>2. /\ doc \in Account /\ doc.token = req[r].doc.token
          /\ doc.expiry = req[r].doc.expiry
      BY <1>0, <2>1 DEF Account, Session
    <2>3. QED
      BY <1>0, <1>2, <2>1, <2>2, Closed DEF SaveManaged
  <1>3. CASE ClearToken(r) /\ ByToken(req[r].token) = {req[r].id}
    <2>1. PICK doc : doc = WithToken(req[r].doc, NoToken, 0)
      OBVIOUS
    <2>2. 0 \in Nat /\ NoToken \in Token \cup {NoToken}
      OBVIOUS
    <2>4. WithToken(req[r].doc, NoToken, 0) \in Account
          /\ WithToken(req[r].doc, NoToken, 0).token = NoToken
      BY <1>0, <2>2, AccountWithToken
    <2>3. QED
      BY <1>0, <1>3, <2>1, <2>4, Closed DEF ClearToken
  <1>4. CASE ClearToken(r) /\ ByToken(req[r].token) # {req[r].id}
    <2>1. AccountsTypeOK /\ AccountsTypeOK'
      BY <1>4 DEF ClearToken, End, AInv, AccountsTypeOK
    <2>2. \A q \in Request : req'[q] = IF q = r THEN NoSession ELSE req[q]
      BY <1>4, <2>1 DEF AccountsTypeOK, End, ClearToken
    <2>3. Grows
      BY <1>4 DEF Grows, HasHad, ClearToken
    <2>4. TokenInv'
      BY <1>4, <2>2, TokensKept DEF AInv, ClearToken, Bears, IndexBears
    <2>5. AddressInv'
      BY <1>4, <2>1, <2>2, <2>3, AddressesKept DEF AInv, ClearToken
    <2>6. UserInv'
      BY <1>0, <1>4, <2>1, <2>2, <2>3, UsersKept DEF AInv, ClearToken
    <2>7. QED
      BY <1>4, <2>1, <2>4, <2>5, <2>6 DEF AInv, IndexInv, ClearToken
  <1>5. QED
    BY <1>1, <1>2, <1>3, <1>4

\* Requests that end with no document written: the user that is made, if any, is the
\* user of an account, and a sign-up that is cut is noted.
LEMMA EndsKeep ==
    ASSUME AInv, NEW r \in Request, FixUser(r) \/ Interrupt(r)
    PROVE  AInv'
  <1>0. req[r] # NoSession /\ req[r] \in Session /\ req[r].email \in Email /\ Sound(req[r])
    BY Underway DEF FixUser, Interrupt, Doing, Session
  <1>1. AccountsTypeOK /\ AccountsTypeOK'
    BY <1>0 DEF FixUser, Interrupt, End, AInv, AccountsTypeOK
  <1>2. \A q \in Request : req'[q] = IF q = r THEN NoSession ELSE req[q]
    BY <1>1 DEF AccountsTypeOK, End, FixUser, Interrupt
  <1>3. UNCHANGED <<accounts, indexed, mails, spent, now, moved>>
    BY DEF FixUser, Interrupt
  <1>4. Grows
    BY <1>3 DEF Grows, HasHad
  <1>5. TokenInv'
    BY <1>2, <1>3, TokensKept DEF AInv, Bears, IndexBears
  <1>6. AddressInv'
    BY <1>1, <1>2, <1>3, <1>4, AddressesKept DEF AInv
  <1>7. UserInv'
    <2>1. CASE FixUser(r)
      <3>1. /\ req[r].id \in AccountId /\ HasHad(req[r].id, req[r].email)
        BY <1>0, <2>1 DEF FixUser, Doing, Sound, WithAccount
      <3>2. \A e \in users' : e \in users \/ \E a \in AccountId : HasHad(a, e)'
        BY <1>0, <1>4, <2>1, <3>1 DEF FixUser, Grows
      <3>3. QED
        BY <1>1, <1>2, <1>4, <2>1, <3>2, UsersKept DEF AInv, FixUser, Doing
    <2>2. CASE Interrupt(r)
      BY <1>1, <1>2, <1>4, <2>2, UsersKept DEF AInv, Interrupt, Doing
    <2>3. QED
      BY <2>1, <2>2
  <1>8. QED
    BY <1>1, <1>3, <1>5, <1>6, <1>7 DEF AInv, IndexInv

(***************************************************************************)
(* Sign-ups, and steps of nobody's                                         *)
(***************************************************************************)
LEMMA SignUpKeeps ==
    ASSUME AInv, NEW r \in Request, SignUp(r)
    PROVE  AInv'
  <1>1. PICK e \in Email : AddUser(e) /\ req' = [req EXCEPT ![r] = For("signup", e)]
    BY DEF SignUp
  <1>2. PICK s : s = For("signup", e)
    OBVIOUS
  <1>3. s \in Session /\ Sound(s) /\ s.op = "signup" /\ s.email = e
    BY <1>2, ForSound DEF For
  <1>4. s # NoSession /\ AccountsTypeOK
    BY <1>3, AccountsAssumption DEF AInv
  <1>5. \A q \in Request : req'[q] = IF q = r THEN s ELSE req[q]
    BY <1>1, <1>2, <1>4 DEF AccountsTypeOK
  <1>6. UNCHANGED <<accounts, indexed, mails, spent, now, cut, moved>> /\ users' = users \cup {e}
    BY <1>1 DEF SignUp, AddUser
  <1>7. AccountsTypeOK'
    BY <1>1, <1>2, <1>3, <1>4, <1>6 DEF AccountsTypeOK
  <1>8. Grows
    BY <1>6 DEF Grows, HasHad
  <1>9. ASSUME NEW a \in AccountId, NEW t \in Token, NEW x \in Nat, Bears(a, t, x)'
        PROVE  Bears(a, t, x)
    BY <1>3, <1>5, <1>6, <1>9 DEF Bears, IndexBears, WithAccount
  <1>10. TokenInv'
    BY <1>6, <1>9, TokensKept DEF AInv
  <1>11. Sound(s)'
    BY <1>3 DEF Sound, WithAccount
  <1>12. AddressInv'
    BY <1>3, <1>4, <1>5, <1>6, <1>8, <1>11, AddressesKept DEF AInv
  <1>13. UserInv'
    <2>1. Doing(r, "signup")' /\ req'[r].email = e
      BY <1>3, <1>4, <1>5 DEF Doing
    <2>2. \A q \in Request : Doing(q, "signup") => req'[q] = req[q]
      BY <1>5 DEF SignUp, Doing
    <2>3. QED
      BY <1>4, <1>6, <1>8, <2>1, <2>2, UsersKept DEF AInv
  <1>14. QED
    BY <1>6, <1>7, <1>10, <1>12, <1>13 DEF AInv, IndexInv

LEMMA RegisterKeeps ==
    ASSUME AInv, Register
    PROVE  AInv'
  <1>0. AccountsTypeOK
    BY DEF AInv
  <1>1. PICK e \in Email : AddUser(e) /\ Add(e)
    BY DEF Register
  <1>2. PICK a \in AccountId : Save(a, New(e, NoToken, 0))
    BY <1>1 DEF Add, Free
  <1>3. PICK doc : doc = New(e, NoToken, 0)
    OBVIOUS
  <1>4. doc \in Account /\ doc.email = e /\ doc.token = NoToken /\ Save(a, doc)
    BY <1>2, <1>3, NewAccount
  <1>5. /\ accounts' \in [AccountId -> Account \cup {NoAccount}]
        /\ moved' \subseteq AccountId \X Email
        /\ HasHad(a, doc.email)'
        /\ Grows
    BY <1>0, <1>4, SaveKeeps DEF Grows
  <1>6. UNCHANGED <<indexed, mails, spent, req, now, cut>> /\ users' = users \cup {e}
    BY <1>1 DEF Register, AddUser
  <1>7. AccountsTypeOK'
    BY <1>0, <1>5, <1>6 DEF AccountsTypeOK
  <1>8. ASSUME NEW b \in AccountId, NEW t \in Token, NEW x \in Nat, Bears(b, t, x)'
        PROVE  Bears(b, t, x)
    <2>1. accounts'[b] = IF b = a THEN doc ELSE accounts[b]
      BY <1>0, <1>4 DEF Save, AccountsTypeOK
    <2>2. QED
      BY <1>4, <1>6, <1>8, <2>1, AccountsAssumption DEF Bears, IndexBears
  <1>9. TokenInv'
    BY <1>6, <1>8, TokensKept DEF AInv
  <1>10. AddressInv'
    BY <1>0, <1>4, <1>5, <1>6, AddressesKept DEF AInv, Save
  <1>11. UserInv'
    BY <1>0, <1>4, <1>5, <1>6, UsersKept DEF AInv
  <1>12. IndexInv'
    BY <1>0, <1>4, <1>6, AccountsAssumption DEF AInv, IndexInv, Save, AccountsTypeOK
  <1>13. QED
    BY <1>7, <1>9, <1>10, <1>11, <1>12 DEF AInv

LEMMA CatchUpKeeps ==
    ASSUME AInv, NEW a \in AccountId, CatchUpAccounts(a)
    PROVE  AInv'
  <1>0. AccountsTypeOK /\ accounts[a] \in Account
    BY DEF AInv, AccountsTypeOK, CatchUpAccounts
  <1>a. PICK entry : entry = [token |-> accounts[a].token, expiry |-> accounts[a].expiry]
    OBVIOUS
  <1>b. /\ entry \in TokenEntry /\ entry.token = accounts[a].token
        /\ entry.expiry = accounts[a].expiry
    BY <1>0, <1>a DEF Account, TokenEntry
  <1>1. \/ indexed' = [indexed EXCEPT !.email[a] = accounts[a].email]
        \/ indexed' = [indexed EXCEPT !.token[a] = entry]
    BY <1>a DEF CatchUpAccounts, CatchUpEmail, CatchUpToken
  <1>c. /\ \A b \in AccountId : indexed'.email[b] # NoAccount => indexed.email[b] # NoAccount \/ b = a
        /\ \A b \in AccountId : indexed'.token[b] = indexed.token[b]
                               \/ (b = a /\ indexed'.token[b] = entry)
        /\ indexed' \in [email : [AccountId -> Email \cup {NoAccount}],
                         token : [AccountId -> TokenEntry \cup {NoAccount}]]
    <2>1. accounts[a].email \in Email
      BY <1>0 DEF Account
    <2>2. QED
      BY <1>0, <1>b, <1>1, <2>1 DEF AccountsTypeOK
  <1>2. UNCHANGED <<accounts, users, mails, spent, req, now, cut, moved>> /\ accounts[a] # NoAccount
    BY DEF CatchUpAccounts
  <1>d. AccountsTypeOK'
    BY <1>0, <1>c, <1>2 DEF AccountsTypeOK
  <1>3. ASSUME NEW b \in AccountId, NEW t \in Token, NEW x \in Nat, Bears(b, t, x)'
        PROVE  Bears(b, t, x)
    <2>1. IndexBears(b, t, x)' => Bears(b, t, x)
      BY <1>b, <1>c, <1>2 DEF IndexBears, Bears
    <2>2. QED
      BY <1>2, <1>3, <2>1 DEF Bears, IndexBears
  <1>4. TokenInv'
    BY <1>2, <1>3, TokensKept DEF AInv
  <1>5. AddressInv' /\ UserInv'
    BY <1>2 DEF AInv, AddressInv, UserInv, HasHad, Sound, MailedFor, Doing
  <1>6. IndexInv'
    BY <1>c, <1>2 DEF AInv, IndexInv
  <1>7. QED
    BY <1>d, <1>4, <1>5, <1>6 DEF AInv

LEMMA StillKeeps ==
    ASSUME AInv, Tick \/ UNCHANGED vars
    PROVE  AInv'
  <1>1. UNCHANGED <<accounts, indexed, users, mails, spent, req, cut, moved>>
    BY DEF Tick, vars
  <1>2. AccountsTypeOK'
    BY AccountsAssumption DEF Tick, vars, AInv, AccountsTypeOK
  <1>3. TokenInv'
    BY <1>1, TokensKept DEF AInv, Bears, IndexBears
  <1>4. AddressInv' /\ UserInv' /\ IndexInv'
    BY <1>1 DEF AInv, AddressInv, UserInv, IndexInv, HasHad, Sound, MailedFor, Doing
  <1>5. QED
    BY <1>2, <1>3, <1>4 DEF AInv

(***************************************************************************)
(* Tokens                                                                  *)
(***************************************************************************)
\* A request saves an account with a new token, may mail it, and ends.
LEMMA Issued ==
    ASSUME AInv, NEW r \in Request, ~ Doing(r, "signup"),
           NEW a \in AccountId, NEW doc \in Account, Save(a, doc), End(r),
           doc.token \in Token \ spent, spent' = spent \cup {doc.token},
           mails \subseteq mails', mails' \subseteq Mail,
           \A m \in mails' : \/ m \in mails
                             \/ /\ m.account = a /\ m.token = doc.token
                                /\ m.until = doc.expiry /\ m.to = doc.email,
           UNCHANGED <<indexed, users, now, cut>>
    PROVE  AInv'
  <1>0. AccountsTypeOK /\ doc.expiry \in Nat
    BY DEF AInv, Account
  <1>1. \A q \in Request : req'[q] = IF q = r THEN NoSession ELSE req[q]
    BY <1>0 DEF AccountsTypeOK, End
  <1>2. /\ accounts' \in [AccountId -> Account \cup {NoAccount}]
        /\ moved' \subseteq AccountId \X Email
        /\ HasHad(a, doc.email)'
        /\ Grows
    BY <1>0, SaveKeeps DEF Grows
  <1>3. AccountsTypeOK'
    BY <1>0, <1>2 DEF AccountsTypeOK, End
  <1>4. \A b \in AccountId, t \in Token, x \in Nat : Bears(b, t, x)' =>
           Bears(b, t, x) \/ (b = a /\ t = doc.token /\ x = doc.expiry)
    BY <1>0, SavedBears
  <1>5. TokenInv'
    <2>1. Issues(a, doc.token, doc.expiry, a, doc.token, doc.expiry)
      BY <1>4 DEF Issues
    <2>2. QED
      BY <1>0, <2>1, TokensIssued DEF AInv
  <1>6. AddressInv'
    <2>1. \A m \in mails' : m \in mails \/ HasHad(m.account, m.to)'
      BY <1>2
    <2>2. QED
      BY <1>0, <1>1, <1>2, <2>1, AddressesKept DEF AInv, Save
  <1>7. UserInv'
    BY <1>0, <1>1, <1>2, UsersKept DEF AInv
  <1>8. IndexInv'
    BY <1>0, AccountsAssumption DEF AInv, IndexInv, Save, AccountsTypeOK
  <1>9. QED
    BY <1>3, <1>5, <1>6, <1>7, <1>8 DEF AInv

LEMMA IssueTokenKeeps ==
    ASSUME AInv, NEW r \in Request, IssueToken(r)
    PROVE  AInv'
  <1>1. /\ ~ Doing(r, "signup") /\ req[r].id \in AccountId /\ req[r].doc \in Account
    BY Underway DEF IssueToken, Doing, WithAccount
  <1>2. now + Validity \in Nat
    BY AccountsAssumption DEF AInv, AccountsTypeOK
  <1>3. PICK t \in Token \ spent :
           /\ spent' = spent \cup {t}
           /\ Save(req[r].id, WithToken(req[r].doc, t, now + Validity))
           /\ Send(req[r].id, req[r].doc.email, t, now + Validity)
    BY DEF IssueToken
  <1>4. PICK doc : doc = WithToken(req[r].doc, t, now + Validity)
    OBVIOUS
  <1>5. /\ doc \in Account /\ doc.email = req[r].doc.email
        /\ doc.token = t /\ doc.expiry = now + Validity
    BY <1>1, <1>2, <1>3, <1>4, AccountWithToken
  <1>6. PICK n : n = [account |-> req[r].id, to |-> doc.email, token |-> t,
                      until |-> doc.expiry]
    OBVIOUS
  <1>7. /\ n \in Mail /\ n.account = req[r].id /\ n.token = doc.token
        /\ n.until = doc.expiry /\ n.to = doc.email
    BY <1>1, <1>2, <1>3, <1>5, <1>6 DEF Mail, Account
  <1>8. mails' = mails \cup {n} /\ mails \subseteq Mail
    BY <1>3, <1>5, <1>6 DEF Send, AInv, AccountsTypeOK
  <1>9. QED
    BY <1>1, <1>3, <1>4, <1>5, <1>7, <1>8, Issued DEF IssueToken

LEMMA StorePayerKeeps ==
    ASSUME AInv, NEW r \in Request, StorePayer(r)
    PROVE  AInv'
  <1>1. ~ Doing(r, "signup") /\ req[r].email \in Email
    BY Underway DEF StorePayer, Doing, Session
  <1>2. PICK t \in Token \ spent, a \in Free :
           spent' = spent \cup {t} /\ Save(a, New(req[r].email, t, Forever))
    BY DEF StorePayer
  <1>3. PICK doc : doc = New(req[r].email, t, Forever)
    OBVIOUS
  <1>4. doc \in Account /\ doc.token = t
    BY <1>1, <1>2, <1>3, NewAccount, AccountsAssumption
  <1>5. a \in AccountId /\ mails \subseteq Mail /\ mails' = mails
    BY <1>2 DEF Free, StorePayer, AInv, AccountsTypeOK
  <1>6. QED
    BY <1>1, <1>2, <1>3, <1>4, <1>5, Issued DEF StorePayer

\* Two tokens, one for each of two accounts.
LEMMA InviteKeeps ==
    ASSUME AInv, NEW r \in Request, Invite(r)
    PROVE  AInv'
  <1>0. AccountsTypeOK
    BY DEF AInv
  <1>1. /\ ~ Doing(r, "signup") /\ req[r].id \in AccountId /\ req[r].doc \in Account
        /\ req[r].email \in Email /\ accounts[req[r].id] # NoAccount
    BY Underway DEF Invite, Doing, WithAccount, Session
  <1>2. PICK t \in Token \ spent, u \in Token \ spent, b \in Free :
           /\ t # u
           /\ spent' = spent \cup {t, u}
           /\ accounts' = Invited(req[r], t, b, u)
           /\ moved' = moved \cup Left(req[r].id, req[r].doc)
           /\ Send(req[r].id, req[r].doc.email, t, Forever)
    BY DEF Invite
  <1>3. PICK a \in AccountId : a = req[r].id
    BY <1>1
  <1>4. PICK old : old = WithToken(req[r].doc, t, Forever)
    OBVIOUS
  <1>5. PICK new : new = New(req[r].email, u, Forever)
    OBVIOUS
  <1>e. Forever \in Nat /\ req[r].email \in Email /\ req[r].doc \in Account
    BY <1>1, AccountsAssumption
  <1>6. /\ old \in Account /\ old.email = req[r].doc.email
        /\ old.token = t /\ old.expiry = Forever
    BY <1>e, <1>4, AccountWithToken
  <1>7. new \in Account /\ new.token = u /\ new.expiry = Forever
    BY <1>e, <1>5, NewAccount
  <1>8. b \in AccountId /\ b # a /\ accounts[b] = NoAccount
    BY <1>1, <1>2, <1>3 DEF Free
  <1>9. /\ accounts' \in [AccountId -> Account \cup {NoAccount}]
        /\ \A c \in AccountId : accounts'[c] = IF c = b THEN new ELSE
                                                IF c = a THEN old ELSE accounts[c]
    <2>1. accounts' = [accounts EXCEPT ![a] = old, ![b] = new]
      BY <1>2, <1>3, <1>4, <1>5 DEF Invited
    <2>2. QED
      BY <1>0, <1>6, <1>7, <1>8, <2>1 DEF AccountsTypeOK
  <1>10. old # NoAccount /\ new # NoAccount
    BY <1>6, <1>7, AccountsAssumption
  <1>11. /\ moved' \subseteq AccountId \X Email /\ moved \subseteq moved'
         /\ accounts[a].email # old.email => <<a, accounts[a].email>> \in moved'
    BY <1>0, <1>1, <1>2, <1>3, <1>6 DEF Left, AccountsTypeOK, Account
  <1>12. Grows
    <2>1. ASSUME NEW c \in AccountId, NEW e \in Email, HasHad(c, e)
          PROVE  HasHad(c, e)'
      <3>1. CASE c = a
        BY <1>8, <1>9, <1>10, <1>11, <2>1, <3>1 DEF HasHad
      <3>2. CASE c # a
        BY <1>8, <1>9, <1>11, <2>1, <3>2 DEF HasHad
      <3>3. QED
        BY <3>1, <3>2
    <2>2. QED
      BY <2>1 DEF Grows
  <1>13. HasHad(a, old.email)'
    BY <1>8, <1>9, <1>10 DEF HasHad
  <1>14. PICK n : n = [account |-> a, to |-> old.email, token |-> t, until |-> Forever]
    OBVIOUS
  <1>15. /\ n \in Mail /\ n.account = a /\ n.token = t /\ n.until = Forever
         /\ n.to = old.email
    BY <1>2, <1>6, <1>14, AccountsAssumption DEF Mail, Account
  <1>16. mails' = mails \cup {n}
    BY <1>2, <1>3, <1>6, <1>14 DEF Send
  <1>17. \A q \in Request : req'[q] = IF q = r THEN NoSession ELSE req[q]
    BY <1>0 DEF AccountsTypeOK, End, Invite
  <1>18. AccountsTypeOK'
    BY <1>0, <1>2, <1>9, <1>11, <1>15, <1>16 DEF AccountsTypeOK, End, Invite
  <1>19. ASSUME NEW c \in AccountId, NEW k \in Token, NEW x \in Nat, Bears(c, k, x)'
         PROVE  \/ Bears(c, k, x)
                \/ c = a /\ k = t /\ x = Forever
                \/ c = b /\ k = u /\ x = Forever
    BY <1>6, <1>7, <1>9, <1>17, <1>19 DEF Bears, IndexBears, Invite
  <1>20. TokenInv'
    <2>1. Issues(a, t, Forever, b, u, Forever)
      BY <1>2, <1>15, <1>16, <1>19 DEF Issues
    <2>2. t \in Token /\ u \in Token /\ Forever \in Nat
      BY <1>2, AccountsAssumption
    <2>3. QED
      BY <1>3, <1>8, <2>1, <2>2, TokensIssued DEF AInv
  <1>21. AddressInv'
    <2>1. \A m \in mails' : m \in mails \/ HasHad(m.account, m.to)'
      BY <1>13, <1>15, <1>16
    <2>2. QED
      BY <1>0, <1>11, <1>12, <1>16, <1>17, <2>1, AddressesKept DEF AInv
  <1>22. UserInv'
    BY <1>0, <1>1, <1>12, <1>17, UsersKept DEF AInv, Invite
  <1>23. IndexInv'
    BY <1>9, <1>10 DEF AInv, IndexInv, Invite
  <1>24. QED
    BY <1>18, <1>20, <1>21, <1>22, <1>23 DEF AInv

(***************************************************************************)
(* The theorems                                                            *)
(***************************************************************************)
LEMMA InitAInv == Init => AInv
  <1> SUFFICES ASSUME Init PROVE AInv
    OBVIOUS
  <1>1. AccountsTypeOK
    BY AccountsAssumption DEF Init, AccountsTypeOK
  <1>2. TokenInv /\ AddressInv /\ UserInv /\ IndexInv
    BY DEF Init, TokenInv, Bears, IndexBears, AddressInv, UserInv, IndexInv
  <1>3. QED
    BY <1>1, <1>2 DEF AInv

LEMMA NextAInv == AInv /\ [Next]_vars => AInv'
  <1> SUFFICES ASSUME AInv, [Next]_vars PROVE AInv'
    OBVIOUS
  <1>1. ASSUME NEW r \in Request, RequestNext(r)
        PROVE  AInv'
    BY <1>1, SignUpKeeps, AddsKeep, BeginsKeep, BeginFixKeeps, BeginResetKeeps,
       FindAnotherKeeps, SavePasswordKeeps, SavesKeep, EndsKeep, IssueTokenKeeps,
       StorePayerKeeps, InviteKeeps
       DEF RequestNext
  <1>2. CASE Register
    BY <1>2, RegisterKeeps
  <1>3. CASE Tick \/ UNCHANGED vars
    BY <1>3, StillKeeps
  <1>4. CASE \E a \in AccountId : CatchUpAccounts(a)
    BY <1>4, CatchUpKeeps
  <1>5. QED
    BY <1>1, <1>2, <1>3, <1>4 DEF Next

\* The invariant holds throughout.
THEOREM AccountsInvariant == Spec => []AInv
BY InitAInv, NextAInv, PTL DEF Spec

\* Every variable keeps its type (Accounts!AccountsTypeOK).
THEOREM AccountsTypeCorrect == Spec => []AccountsTypeOK
  <1>1. AInv => AccountsTypeOK
    BY DEF AInv
  <1>2. QED
    BY <1>1, AccountsInvariant, PTL

\* No two accounts carry one token, whatever old copies are written back
\* (AccountService.RetrieveAccountByPasswordResetToken).
THEOREM TokensAreKeys == Spec => []TokenNamesOneAccount
  <1>1. AInv => TokenNamesOneAccount
    <2> SUFFICES ASSUME AInv, NEW a \in AccountId, NEW b \in AccountId,
                        accounts[a] # NoAccount, accounts[b] # NoAccount,
                        accounts[a].token # NoToken, accounts[a].token = accounts[b].token
                 PROVE  a = b
      BY DEF TokenNamesOneAccount
    <2>1. accounts[a] \in Account /\ accounts[b] \in Account
      BY DEF AInv, AccountsTypeOK
    <2>2. /\ accounts[a].token \in Token
          /\ accounts[a].expiry \in Nat /\ accounts[b].expiry \in Nat
      BY <2>1 DEF Account
    <2>3. /\ Bears(a, accounts[a].token, accounts[a].expiry)
          /\ Bears(b, accounts[a].token, accounts[b].expiry)
      BY DEF Bears, IndexBears
    <2>4. QED
      BY <2>2, <2>3 DEF AInv, TokenInv
  <1>2. QED
    BY <1>1, AccountsInvariant, PTL

\* Whoever has a user has an account, but for interrupted sign-ups and changed addresses
\* (AccountController.SignUp, Register; UserManagementController).
THEOREM UsersHaveAccounts == Spec => []UserHasAccount
  <1>1. AInv => UserHasAccount
    BY DEF AInv, UserInv, HasHad, UserHasAccount
  <1>2. QED
    BY <1>1, AccountsInvariant, PTL

\* Whose password a reset sets, and by which mail (AccountController.ResetPassword).
THEOREM ResetsFollowMails == Spec => ResetFollowsMail
  <1>1. AInv /\ [Next]_vars =>
           [\A r \in Request :
               Doing(r, "reset") /\ Doing(r, "clear")'
                 => \E m \in mails : MailedFor(req[r], m)]_vars
    BY DEF AInv, AddressInv, Sound, Doing
  <1>2. QED
    BY <1>1, AccountsInvariant, PTL DEF Spec, ResetFollowsMail
=============================================================================
