----------------------------- MODULE MCAccounts -----------------------------
(***************************************************************************)
(* Instances of Accounts for TLC.                                          *)
(***************************************************************************)
EXTENDS Accounts, TLC

CONSTANTS a1, a2,       \* account documents
          e1, e2,       \* addresses
          t1, t2,       \* GUIDs
          r1, r2        \* request slots

TwoAccounts == {a1, a2}

TwoEmails == {e1, e2}

TwoTokens == {t1, t2}

TwoRequests == {r1, r2}

\* One slot is the administrator's form, which loads an account and writes it back as it
\* was or with another address; the other serves the rest.
AdministratorAside == (r1 :> Ops \ {"manage"}) @@ (r2 :> {"manage"})

AccountsSymmetry ==
    Permutations(TwoAccounts) \cup Permutations(TwoEmails) \cup Permutations(TwoTokens)
=============================================================================
