------------------------ MODULE PledgeLedger_proofs ------------------------
(***************************************************************************)
(* What every implementation of the ledger can rely on.                    *)
(***************************************************************************)
EXTENDS PledgeLedger, TLAPS

LedgerInv == LedgerTypeOK /\ MoneyIsOnTheBooks

\* A step changes one entry or the money of one payment.
LEMMA StepKeepsLedgerInv ==
    ASSUME LedgerInv, NEW k \in Key, Step(k)
    PROVE  LedgerInv'
<1> USE DEF LedgerInv, LedgerTypeOK, MoneyIsOnTheBooks, Entries, Places, Enter, Move
<1>1. CASE Accept(k) \/ Confirm(k) \/ Presume(k)
  BY <1>1 DEF Accept, Confirm, Presume
<1>2. CASE Settle(k) \/ Refund(k)
  BY <1>2 DEF Settle, Refund
<1>3. CASE Authorise(k) \/ Return(k)
  BY <1>3 DEF Authorise, Return
<1>4. CASE Take(k)
  BY <1>4 DEF Take
<1>5. QED
  BY <1>1, <1>2, <1>3, <1>4 DEF Step

\* Money that left the payer belongs to a pledge on the books, and taken money to one
\* that is not refunded, for any number of payments.
THEOREM LedgerKeepsMoney == Spec => []MoneyIsOnTheBooks
<1>1. Init => LedgerInv
  BY DEF Init, LedgerInv, LedgerTypeOK, MoneyIsOnTheBooks, Entries, Places
<1>2. LedgerInv /\ [Next]_ledger => LedgerInv'
  <2>1. LedgerInv /\ UNCHANGED ledger => LedgerInv'
    BY DEF LedgerInv, LedgerTypeOK, MoneyIsOnTheBooks, ledger
  <2>2. QED
    BY <2>1, StepKeepsLedgerInv DEF Next
<1>3. LedgerInv => MoneyIsOnTheBooks
  BY DEF LedgerInv
<1>4. QED
  BY <1>1, <1>2, <1>3, PTL DEF Spec
=============================================================================
