------------------------- MODULE BillingLedger_proofs -------------------------
(***************************************************************************)
(* Proofs about the amounts BillingSession moves, for any number of        *)
(* requests and subscriptions, any amounts, any number of faults: what has *)
(* been taken for a request is at every step what its session says.        *)
(***************************************************************************)
EXTENDS BillingSession_proofs, FiniteSetTheorems, FunctionTheorems, WellFoundedInduction

-----------------------------------------------------------------------------
(* The ledger of one request.                                              *)

ReserveStates == {"resRead", "resDec", "resRollback"}

\* The amount of a reservation that is under way, once its funding is charged.
Pending(r) == IF pc[r] \in ReserveStates THEN arg[r] ELSE 0

\* What the fields of a session say about each other.
Booked(r) ==
    /\ pc[r] \in Before => ses[r].extraReserved = 0
    /\ pc[r] \in {"idle", "tokenRead", "tokenDec"} => ses[r].tokenConsumed = 0
    /\ pc[r] \in {"wallet", "rejected"} => TokenHeld(r) = 0
    /\ pc[r] \in {"tokenDec", "resDec"} => ~ req[r].playground
    /\ pc[r] = "funding" => ses[r].tokenConsumed = arg[r]
    /\ pc[r] = "setToken" => ses[r].fundingSettled
    /\ pc[r] \notin Before =>
        /\ ses[r].src \in {"wallet", "sub"}
        /\ ses[r].tokenConsumed = ses[r].pre
        /\ ses[r].src = "sub" => ses[r].held + ses[r].extraReserved = ses[r].pre
        /\ ses[r].src = "wallet" => ses[r].held >= ses[r].pre + Pending(r)
    /\ record[r] = "refunded" => ref[r] \notin {"none", "save"} /\ ses[r].src = "sub"

\* A session is opened with at least the quota asked for, or trusted.
Bypass(r) == ses[r].trusted /\ ~ req[r].force
Covered(r) ==
    /\ pc[r] \in {"tokenRead", "tokenDec", "funding"} =>
        arg[r] >= req[r].quota \/ Bypass(r)
    /\ pc[r] \notin Before => ses[r].pre >= req[r].quota \/ Bypass(r)

\* What the token has to have been charged.
TokenDue(r) ==
    IF ses[r].settled THEN TokenSide(r, arg[r])
    ELSE IF ref[r] = "done" THEN 0 ELSE TokenHeld(r)

\* What the refund goroutine has still to give back to the source.
RefundDue(r) ==
    IF ref[r] = "none" \/ (ref[r] = "funding" /\ ~ AlreadyRefunded(r)) THEN ses[r].pre
    ELSE IF ref[r] \in {"funding", "save", "extra"} /\ ses[r].src = "sub"
         THEN ses[r].extraReserved ELSE 0

\* What the source has to have been charged.
FundingDue(r) ==
    IF pc[r] \in Before THEN 0
    ELSE IF ses[r].settled \/ ses[r].fundingSettled THEN arg[r]
    ELSE RefundDue(r) + Pending(r)

TokenBalance(r) ==
    /\ took[r].token >= 0
    /\ ~ ses[r].settled => took[r].token >= TokenDue(r)
    /\ logged[r] = {} => took[r].token = TokenDue(r)

FundingBalance(r) ==
    /\ took[r].wallet >= 0
    /\ /\ pc[r] \notin Before /\ ses[r].src = "wallet"
       /\ ~ ses[r].fundingSettled /\ ref[r] \in {"none", "funding"}
       => took[r].wallet = ses[r].held
    /\ ref[r] = "none" \/ ses[r].src # "sub" => took[r].again = 0
    /\ logged[r] = {} => Funded(r) = FundingDue(r) - took[r].again

Ledger(r) == Booked(r) /\ Covered(r) /\ TokenBalance(r) /\ FundingBalance(r)
LedgerInv == LifeInv /\ \A r \in Requests : Ledger(r)

LEMMA LedgerMeans ==
  LedgerInv => /\ SettledExact /\ InFlightCovered /\ RejectedClean /\ NeverOverRefunded
               /\ RefundedExact
<1> SUFFICES ASSUME LedgerInv, NEW r \in Requests
    PROVE  /\ took[r].wallet >= 0 /\ took[r].token >= 0
           /\ pc[r] = "rejected" /\ logged[r] = {} => Funded(r) = 0 /\ took[r].token = 0
           /\ Quiet(r) /\ logged[r] = {} =>
               /\ ses[r].settled => Funded(r) = arg[r] /\ took[r].token = TokenSide(r, arg[r])
               /\ ses[r].refunded => Funded(r) = -took[r].again /\ took[r].token = 0
               /\ ~ ses[r].settled /\ ~ ses[r].refunded =>
                   /\ Funded(r) = ses[r].pre
                   /\ took[r].token = TokenSide(r, ses[r].pre)
                   /\ ses[r].pre >= req[r].quota \/ (ses[r].trusted /\ ~ req[r].force)
  BY DEF SettledExact, InFlightCovered, RejectedClean, NeverOverRefunded, RefundedExact
<1>1. /\ Life(r) /\ Ledger(r)
      /\ ses[r].pre \in Nat /\ arg[r] \in Nat /\ took[r].again \in Nat
  BY TypeGroups, FieldTypes DEF LedgerInv, LifeInv, TypeInv, TypeOK
<1>2. took[r].wallet >= 0 /\ took[r].token >= 0
  BY <1>1 DEF Ledger, TokenBalance, FundingBalance
<1>3. ASSUME pc[r] = "rejected", logged[r] = {}
      PROVE  Funded(r) = 0 /\ took[r].token = 0
  BY <1>1, <1>3 DEF Life, Flow, Ledger, Booked, TokenBalance, FundingBalance, FundingDue,
     TokenDue, Before
<1>4. ASSUME Quiet(r), logged[r] = {}, ses[r].settled
      PROVE  Funded(r) = arg[r] /\ took[r].token = TokenSide(r, arg[r])
  BY <1>1, <1>4 DEF Life, Flow, Quiet, Ledger, TokenBalance, FundingBalance, FundingDue,
     TokenDue, Before
<1>5. ASSUME Quiet(r), logged[r] = {}, ses[r].refunded
      PROVE  Funded(r) = -took[r].again /\ took[r].token = 0
  BY <1>1, <1>5 DEF Life, Flow, Quiet, Ledger, TokenBalance, FundingBalance, FundingDue,
     TokenDue, RefundDue, Pending, ReserveStates, Before
<1>6. ASSUME Quiet(r), logged[r] = {}, ~ ses[r].settled, ~ ses[r].refunded
      PROVE  /\ Funded(r) = ses[r].pre
             /\ took[r].token = TokenSide(r, ses[r].pre)
             /\ ses[r].pre >= req[r].quota \/ (ses[r].trusted /\ ~ req[r].force)
  <2>1. ref[r] = "none" /\ pc[r] = "open" /\ ~ ses[r].fundingSettled
    BY <1>1, <1>6 DEF Life, Flow, Quiet
  <2>2. Funded(r) = ses[r].pre
    BY <1>1, <1>6, <2>1 DEF Ledger, FundingBalance, FundingDue, RefundDue, Pending,
       ReserveStates, Before
  <2>3. took[r].token = TokenSide(r, ses[r].pre)
    BY <1>1, <1>6, <2>1 DEF Ledger, Booked, TokenBalance, TokenDue, TokenHeld, TokenSide,
       Before
  <2> QED
    BY <1>1, <2>1, <2>2, <2>3 DEF Ledger, Covered, Bypass, Before
<1> QED
  BY <1>2, <1>3, <1>4, <1>5, <1>6

LEMMA InitLedgerInv == Init => LedgerInv
  BY InitLifeInv
  DEF Init, LedgerInv, Ledger, Booked, Covered, TokenBalance, FundingBalance, TokenDue,
      TokenHeld, FundingDue, Funded, Before, NewSession

\* The log and the record of another request are not touched either.
LEMMA StepApartLog ==
  ASSUME TypeOK, NEW r \in Requests, Step(r), NEW q \in Requests \ {r}
  PROVE  logged'[q] = logged[q] /\ record'[q] = record[q]
<1> USE DEF Step
<1>1. logged'[q] = logged[q]
  BY DEF TypeOK, NewBillingSession, CallStep, TryWallet, ReadToken, ConsumeToken,
     WalletPreConsume, SubscriptionPreConsume, FundingFails, RollbackToken,
     PreConsumeError, ReserveFunding, ReserveReadToken, ReserveConsumeToken,
     RollbackFundingReserve, SettleFunding, SettleToken, Reserve, SettleBilling,
     Settle, Refund, RefundStep, RefundWallet, RefundSubscription, RefundSave,
     RefundExtra, RefundToken, AttemptFails, Log
<1>2. record'[q] = record[q]
  <2>1. ASSUME NEW n, NoMove \/ DecreaseUserQuota(r, n) \/ DecreaseTokenQuota(r, n)
               \/ PostConsumeUserSubscriptionDelta(r, n) \/ AdjustFunding(r, n)
        PROVE  record'[q] = record[q]
    BY <2>1, MovesKeepRecord DEF NoMove, db
  <2> QED
    BY <2>1 DEF TypeOK, NewBillingSession, CallStep, TryWallet, ReadToken, ConsumeToken,
       WalletPreConsume, SubscriptionPreConsume, FundingFails, RollbackToken,
       PreConsumeError, ReserveFunding, ReserveReadToken, ReserveConsumeToken,
       RollbackFundingReserve, SettleFunding, SettleToken, Reserve, SettleBilling,
       Settle, Refund, RefundStep, RefundWallet, RefundSubscription, RefundSave,
       RefundExtra, RefundToken
<1> QED
  BY <1>1, <1>2

LEMMA ApartKeepsLedger ==
  ASSUME NEW q, Ledger(q),
         pc'[q] = pc[q], ref'[q] = ref[q], req'[q] = req[q], ses'[q] = ses[q],
         took'[q] = took[q], arg'[q] = arg[q], logged'[q] = logged[q],
         record'[q] = record[q]
  PROVE  Ledger(q)'
  BY DEF Ledger, Booked, Covered, TokenBalance, FundingBalance, TokenDue, TokenHeld,
     TokenSide, FundingDue, RefundDue, Pending, Funded, Bypass, AlreadyRefunded

-----------------------------------------------------------------------------
(* What one step does to the amounts and the session of its request.       *)

Taken(r) == <<took[r].wallet, took[r].sub, took[r].token, took[r].again>>

LEMMA Moved ==
  ASSUME TypeOK, NEW r \in Requests, NEW n
  PROVE  /\ NoMove => Taken(r)' = Taken(r) /\ record'[r] = record[r]
         /\ DecreaseUserQuota(r, n) =>
              /\ Taken(r)' = <<took[r].wallet + n, took[r].sub, took[r].token,
                               took[r].again>>
              /\ record'[r] = record[r]
         /\ DecreaseTokenQuota(r, n) =>
              /\ Taken(r)' = <<took[r].wallet, took[r].sub, took[r].token + n,
                               took[r].again>>
              /\ record'[r] = record[r]
         /\ PostConsumeUserSubscriptionDelta(r, n) =>
              /\ Taken(r)' = <<took[r].wallet, took[r].sub + n, took[r].token,
                               took[r].again>>
              /\ record'[r] = record[r]
<1> USE DEF TypeOK, Taken
<1>1. NoMove => Taken(r)' = Taken(r) /\ record'[r] = record[r]
  BY DEF NoMove, db
<1>2. DecreaseUserQuota(r, n) =>
        /\ Taken(r)' = <<took[r].wallet + n, took[r].sub, took[r].token, took[r].again>>
        /\ record'[r] = record[r]
  BY DEF DecreaseUserQuota
<1>3. DecreaseTokenQuota(r, n) =>
        /\ Taken(r)' = <<took[r].wallet, took[r].sub, took[r].token + n, took[r].again>>
        /\ record'[r] = record[r]
  BY DEF DecreaseTokenQuota
<1>4. PostConsumeUserSubscriptionDelta(r, n) =>
        /\ Taken(r)' = <<took[r].wallet, took[r].sub + n, took[r].token, took[r].again>>
        /\ record'[r] = record[r]
  BY DEF PostConsumeUserSubscriptionDelta
<1> QED
  BY <1>1, <1>2, <1>3, <1>4

\* The amounts of a session, and its flags.
Books(r) == <<ses[r].pre, ses[r].tokenConsumed, ses[r].extraReserved, ses[r].held,
              ses[r].trusted>>

LEMMA FieldSet ==
  ASSUME TypeOK, NEW r \in Requests, NEW n
  PROVE  /\ UNCHANGED ses => Books(r)' = Books(r) /\ Flags(r)' = Flags(r)
         /\ ses' = [ses EXCEPT ![r].tokenConsumed = n] =>
              /\ Books(r)' = <<ses[r].pre, n, ses[r].extraReserved, ses[r].held,
                               ses[r].trusted>>
              /\ Flags(r)' = Flags(r)
         /\ ses' = [ses EXCEPT ![r].settled = TRUE] => Books(r)' = Books(r)
         /\ ses' = [ses EXCEPT ![r].refunded = TRUE] => Books(r)' = Books(r)
         /\ ses' = [ses EXCEPT ![r].fundingSettled = TRUE] => Books(r)' = Books(r)
<1> USE DEF TypeOK, Session, Books, Flags
<1>1. UNCHANGED ses => Books(r)' = Books(r) /\ Flags(r)' = Flags(r)
  OBVIOUS
<1>2. ses' = [ses EXCEPT ![r].tokenConsumed = n] =>
        /\ Books(r)' = <<ses[r].pre, n, ses[r].extraReserved, ses[r].held, ses[r].trusted>>
        /\ Flags(r)' = Flags(r)
  OBVIOUS
<1>3. ses' = [ses EXCEPT ![r].settled = TRUE] => Books(r)' = Books(r)
  OBVIOUS
<1>4. ses' = [ses EXCEPT ![r].refunded = TRUE] => Books(r)' = Books(r)
  OBVIOUS
<1>5. ses' = [ses EXCEPT ![r].fundingSettled = TRUE] => Books(r)' = Books(r)
  OBVIOUS
<1> QED
  BY <1>1, <1>2, <1>3, <1>4, <1>5

LEMMA ErrSet ==
  ASSUME TypeOK, NEW r \in Requests, NEW e, ses' = [ses EXCEPT ![r].err = e]
  PROVE  Books(r)' = Books(r)
  BY DEF TypeOK, Session, Books

LEMMA OpenBooks ==
  ASSUME TypeOK, NEW r \in Requests, NEW s, NEW n \in Nat, Open(r, s, n)
  PROVE  Books(r)' = <<arg[r], ses[r].tokenConsumed, ses[r].extraReserved, n,
                       ses[r].trusted>>
  BY DEF TypeOK, Session, Books, Open

LEMMA ReservedBooks ==
  ASSUME TypeOK, NEW r \in Requests, Reserved(r)
  PROVE  Books(r)' = <<ses[r].pre + arg[r], ses[r].tokenConsumed + arg[r],
                       ses[r].extraReserved + arg[r], ses[r].held, ses[r].trusted>>
  BY DEF TypeOK, Session, Books, Reserved

LEMMA HeldBooks ==
  ASSUME TypeOK, NEW r \in Requests, NEW n \in Int, HeldChange(r, n)
  PROVE  Books(r)' = <<ses[r].pre, ses[r].tokenConsumed, ses[r].extraReserved,
                       IF ses[r].src = "wallet" THEN ses[r].held + n ELSE ses[r].held,
                       ses[r].trusted>>
  BY FieldTypes, TypeGroups DEF TypeOK, Session, Books, HeldChange

\* A new session, and one that is kept, of a request that is being opened.
LEMMA FreshBooks ==
  ASSUME TypeOK, NEW r \in Requests, NEW src, NEW t,
         \/ ses' = [ses EXCEPT ![r] = NewSession(src)]
         \/ ses' = [ses EXCEPT ![r] = [NewSession(src) EXCEPT !.trusted = t]]
  PROVE  /\ ses'[r].pre = 0 /\ ses'[r].tokenConsumed = 0
         /\ ses'[r].extraReserved = 0 /\ ses'[r].held = 0
         /\ Flags(r)' = <<src, FALSE, FALSE, FALSE>>
<1>1. CASE ses' = [ses EXCEPT ![r] = NewSession(src)]
  <2>1. ses'[r] = NewSession(src)
    BY <1>1 DEF TypeOK
  <2> QED
    BY <2>1 DEF NewSession, Flags
<1>2. CASE ses' = [ses EXCEPT ![r] = [NewSession(src) EXCEPT !.trusted = t]]
  <2>1. ses'[r] = [NewSession(src) EXCEPT !.trusted = t]
    BY <1>2 DEF TypeOK
  <2> QED
    BY <2>1 DEF NewSession, Flags
<1> QED
  BY <1>1, <1>2

LEMMA Logged == ASSUME TypeOK, NEW r \in Requests, NEW l, Log(r, l) PROVE logged'[r] # {}
  BY DEF TypeOK, Log

LEMMA Numbers ==
  ASSUME TypeOK, NEW r \in Requests
  PROVE  /\ took[r].wallet \in Int /\ took[r].sub \in Int /\ took[r].token \in Int
         /\ took[r].again \in Nat /\ arg[r] \in Nat /\ req[r].quota \in Nat
         /\ ses[r].pre \in Nat /\ ses[r].tokenConsumed \in Nat
         /\ ses[r].extraReserved \in Nat /\ ses[r].held \in Nat
  BY DEF TypeOK, Session

-----------------------------------------------------------------------------
(* One step keeps the ledger of its request.                               *)

\* Saving the record of a refund moves nothing; when it is lost and there is
\* another attempt, what was given back is noted as to be given back again.
LEMMA Saved ==
  ASSUME TypeOK, NEW r \in Requests, RefundSave(r)
  PROVE  \/ Taken(r)' = Taken(r) /\ (record'[r] = "refunded" \/ ref'[r] # "funding")
         \/ /\ ref'[r] = "funding" /\ record'[r] = record[r]
            /\ Taken(r)' = <<took[r].wallet, took[r].sub, took[r].token,
                             took[r].again + ses[r].held>>
<1> USE DEF TypeOK, Taken
<1>1. CASE UNCHANGED took /\ record' = [record EXCEPT ![r] = "refunded"]
  BY <1>1
<1>2. CASE ref'[r] = "funding" /\ UNCHANGED record
           /\ took' = [took EXCEPT ![r].again = @ + ses[r].held]
  BY <1>2
<1>3. CASE ref'[r] # "funding" /\ took' = [took EXCEPT ![r].again = @ + 0]
  BY <1>3
<1> QED
  BY <1>1, <1>2, <1>3 DEF RefundSave

LEMMA OpeningLedger ==
  ASSUME TypeOK, NEW r \in Requests, Life(r), Ledger(r),
         ReadToken(r) \/ ConsumeToken(r) \/ WalletPreConsume(r) \/ SubscriptionPreConsume(r)
         \/ FundingFails(r) \/ RollbackToken(r)
  PROVE  Ledger(r)'
<1>0. PcOK /\ ReqOK /\ RefOK /\ SesOK /\ LogOK /\ RecordOK
  BY TypeGroups
<1> USE Numbers
<1>1. CASE ReadToken(r)
  <2>1. /\ pc[r] = "tokenRead" /\ Taken(r)' = Taken(r) /\ record'[r] = record[r]
        /\ req'[r] = req[r] /\ ref'[r] = ref[r] /\ logged'[r] = logged[r] /\ arg'[r] = arg[r]
        /\ Flags(r)' = Flags(r)
    BY <1>1, SessionKept, Moved DEF ReadToken, refunder, Reject
  <2>2. \/ /\ req[r].playground /\ pc'[r] = "funding"
           /\ Books(r)' = <<ses[r].pre, arg[r], ses[r].extraReserved, ses[r].held,
                            ses[r].trusted>>
        \/ pc'[r] = "tokenDec" /\ ~ req[r].playground /\ Books(r)' = Books(r)
        \/ pc'[r] = "rejected" /\ Books(r)' = Books(r)
    BY <1>0, <1>1, FieldSet DEF ReadToken, Reject, Goto, PcOK
  <2>3. Booked(r)' /\ Covered(r)'
    BY <2>1, <2>2 DEF Life, Flow, Ledger, Booked, Covered, Bypass, Books, Flags,
       TokenHeld, Pending, ReserveStates, Before
  <2>4. TokenBalance(r)'
    BY <2>1, <2>2 DEF Life, Flow, Ledger, Booked, TokenBalance, TokenDue, TokenHeld,
       TokenSide, Books, Flags, Taken, Before
  <2>5. FundingBalance(r)'
    BY <2>1, <2>2 DEF Life, Flow, Consent, Ledger, Booked, FundingBalance, FundingDue,
       RefundDue, AlreadyRefunded, Funded, Pending, ReserveStates, Books, Flags, Taken,
       Before
  <2> QED
    BY <2>3, <2>4, <2>5 DEF Ledger
<1>2. CASE ConsumeToken(r)
  <2>1. /\ pc[r] = "tokenDec" /\ record'[r] = record[r] /\ Flags(r)' = Flags(r)
        /\ req'[r] = req[r] /\ ref'[r] = ref[r] /\ logged'[r] = logged[r] /\ arg'[r] = arg[r]
    BY <1>2, SessionKept, Moved DEF ConsumeToken, refunder, Reject
  <2>2. \/ /\ pc'[r] = "funding"
           /\ Books(r)' = <<ses[r].pre, arg[r], ses[r].extraReserved, ses[r].held,
                            ses[r].trusted>>
           /\ Taken(r)' = <<took[r].wallet, took[r].sub, took[r].token + arg[r],
                            took[r].again>>
        \/ pc'[r] = "rejected" /\ Books(r)' = Books(r) /\ Taken(r)' = Taken(r)
    BY <1>0, <1>2, FieldSet, Moved DEF ConsumeToken, Reject, Goto, PcOK
  <2>3. Booked(r)' /\ Covered(r)'
    BY <2>1, <2>2 DEF Life, Flow, Ledger, Booked, Covered, Bypass, Books, Flags,
       TokenHeld, Pending, ReserveStates, Before
  <2>4. TokenBalance(r)'
    BY <2>1, <2>2 DEF Life, Flow, Ledger, Booked, TokenBalance, TokenDue, TokenHeld,
       TokenSide, Books, Flags, Taken, Before
  <2>5. FundingBalance(r)'
    BY <2>1, <2>2 DEF Life, Flow, Consent, Ledger, Booked, FundingBalance, FundingDue,
       RefundDue, AlreadyRefunded, Funded, Pending, ReserveStates, Books, Flags, Taken,
       Before
  <2> QED
    BY <2>3, <2>4, <2>5 DEF Ledger
<1>3. CASE WalletPreConsume(r) \/ SubscriptionPreConsume(r)
  <2>1. /\ pc[r] = "funding" /\ pc'[r] = "open" /\ Flags(r)' = Flags(r)
        /\ req'[r] = req[r] /\ ref'[r] = ref[r] /\ logged'[r] = logged[r] /\ arg'[r] = arg[r]
        /\ Books(r)' = <<arg[r], ses[r].tokenConsumed, ses[r].extraReserved, arg[r],
                         ses[r].trusted>>
    BY <1>0, <1>3, SessionKept, OpenBooks DEF WalletPreConsume, SubscriptionPreConsume,
       Open, Goto, PcOK, refunder
  <2>2. \/ /\ ses[r].src = "wallet" /\ record'[r] = record[r]
           /\ Taken(r)' = <<took[r].wallet + arg[r], took[r].sub, took[r].token,
                            took[r].again>>
        \/ /\ ses[r].src = "sub" /\ record'[r] = "consumed"
           /\ Taken(r)' = <<took[r].wallet, took[r].sub + arg[r], took[r].token,
                            took[r].again>>
    <3>1. CASE WalletPreConsume(r)
      BY <3>1, Moved DEF WalletPreConsume, Taken
    <3>2. CASE SubscriptionPreConsume(r)
      BY <1>0, <3>2 DEF SubscriptionPreConsume, Taken, TypeOK
    <3> QED
      BY <1>3, <3>1, <3>2
  <2>3. Booked(r)' /\ Covered(r)'
    BY <2>1, <2>2 DEF Life, Flow, Ledger, Booked, Covered, Bypass, Books, Flags,
       TokenHeld, Pending, ReserveStates, Before
  <2>4. TokenBalance(r)'
    BY <2>1, <2>2 DEF Life, Flow, Ledger, Booked, TokenBalance, TokenDue, TokenHeld,
       TokenSide, Books, Flags, Taken, Before
  <2>5. FundingBalance(r)'
    BY <2>1, <2>2 DEF Life, Flow, Consent, Ledger, Booked, FundingBalance, FundingDue,
       RefundDue, AlreadyRefunded, Funded, Pending, ReserveStates, Books, Flags, Taken,
       Before
  <2> QED
    BY <2>3, <2>4, <2>5 DEF Ledger
<1>4. CASE FundingFails(r)
  <2>1. /\ pc[r] = "funding" /\ pc'[r] = "rollback" /\ Flags(r)' = Flags(r)
        /\ req'[r] = req[r] /\ ref'[r] = ref[r] /\ logged'[r] = logged[r] /\ arg'[r] = arg[r]
        /\ Books(r)' = Books(r) /\ Taken(r)' = Taken(r) /\ record'[r] = record[r]
    BY <1>0, <1>4, SessionKept, ErrSet, Moved DEF FundingFails, Goto, PcOK, refunder
  <2>2. Booked(r)' /\ Covered(r)'
    BY <2>1 DEF Life, Flow, Ledger, Booked, Covered, Bypass, Books, Flags, TokenHeld,
       Pending, ReserveStates, Before
  <2>3. TokenBalance(r)'
    BY <2>1 DEF Life, Flow, Ledger, Booked, TokenBalance, TokenDue, TokenHeld, TokenSide,
       Books, Flags, Taken, Before
  <2>4. FundingBalance(r)'
    BY <2>1 DEF Life, Flow, Consent, Ledger, Booked, FundingBalance, FundingDue,
       RefundDue, AlreadyRefunded, Funded, Pending, ReserveStates, Books, Flags, Taken,
       Before
  <2> QED
    BY <2>2, <2>3, <2>4 DEF Ledger
<1>5. CASE RollbackToken(r)
  <2>1. /\ pc[r] = "rollback" /\ pc'[r] = pc[r] /\ Flags(r)' = Flags(r)
        /\ req'[r] = req[r] /\ ref'[r] = ref[r] /\ arg'[r] = arg[r]
        /\ record'[r] = record[r]
        /\ Books(r)' = <<ses[r].pre, 0, ses[r].extraReserved, ses[r].held, ses[r].trusted>>
    BY <1>5, SessionKept, FieldSet, Moved DEF RollbackToken, refunder, TokenHeld
  <2>2. \/ /\ logged'[r] = logged[r]
           /\ Taken(r)' = <<took[r].wallet, took[r].sub, took[r].token - TokenHeld(r),
                            took[r].again>>
        \/ logged'[r] # {} /\ Taken(r)' = Taken(r)
    BY <1>0, <1>5, Moved DEF RollbackToken, Log, LogOK, TokenHeld
  <2>3. Booked(r)' /\ Covered(r)'
    BY <2>1, <2>2 DEF Life, Flow, Ledger, Booked, Covered, Bypass, Books, Flags,
       TokenHeld, Pending, ReserveStates, Before
  <2>4. TokenBalance(r)'
    BY <2>1, <2>2 DEF Life, Flow, Ledger, Booked, TokenBalance, TokenDue, TokenHeld,
       TokenSide, Books, Flags, Taken, Before
  <2>5. FundingBalance(r)'
    BY <2>1, <2>2 DEF Life, Flow, Consent, Ledger, Booked, FundingBalance, FundingDue,
       RefundDue, AlreadyRefunded, Funded, Pending, ReserveStates, Books, Flags, Taken,
       Before
  <2> QED
    BY <2>3, <2>4, <2>5 DEF Ledger
<1> QED
  BY <1>1, <1>2, <1>3, <1>4, <1>5

LEMMA StartingLedger ==
  ASSUME TypeOK, NEW r \in Requests, Life(r), Ledger(r),
         NewBillingSession(r) \/ TryWallet(r) \/ PreConsumeError(r)
  PROVE  Ledger(r)'
<1>0. PcOK /\ ReqOK /\ RefOK /\ SesOK /\ LogOK /\ RecordOK
  BY TypeGroups
<1> USE Numbers
<1> DEFINE Kept == Books(r)' = Books(r) /\ Flags(r)' = Flags(r) /\ arg'[r] = arg[r]
           Fresh(src) == /\ ses'[r].pre = 0 /\ ses'[r].tokenConsumed = 0
                         /\ ses'[r].extraReserved = 0 /\ ses'[r].held = 0
                         /\ Flags(r)' = <<src, FALSE, FALSE, FALSE>>
<1>1. ASSUME NEW q \in Nat, TrySubscription(r, q)
      PROVE  pc'[r] = "tokenRead" /\ Fresh("sub") /\ arg'[r] \in Nat /\ arg'[r] >= q
  <2>1. pc'[r] = "tokenRead" /\ arg'[r] = SubConsume(q)
    BY <1>0, <1>1 DEF TrySubscription, Goto, PcOK, TypeOK
  <2>2. Fresh("sub")
    BY <1>1, FreshBooks DEF TrySubscription
  <2> QED
    BY <2>1, <2>2 DEF SubConsume
<1>2. Reject(r) => pc'[r] = "rejected" /\ Kept
  BY <1>0, FieldSet DEF Reject, Goto, PcOK
<1>3. ASSUME NEW src, Fallback(r, src)
      PROVE  \/ /\ pc'[r] = "tokenRead" /\ Fresh("sub")
                /\ arg'[r] \in Nat /\ arg'[r] >= req[r].quota
             \/ pc'[r] \in {"rejected", "wallet"} /\ Kept
  BY <1>0, <1>1, <1>2, <1>3, FieldSet DEF Fallback, Goto, PcOK
<1>4. CASE NewBillingSession(r)
  <2>1. /\ pc[r] = "idle" /\ Taken(r)' = Taken(r) /\ record'[r] = record[r]
        /\ ref'[r] = ref[r] /\ logged'[r] = logged[r]
    BY <1>4, Moved DEF NewBillingSession, refunder
  <2>2. \/ /\ pc'[r] = "tokenRead" /\ Fresh("sub")
           /\ arg'[r] \in Nat /\ arg'[r] >= req'[r].quota
        \/ pc'[r] \in {"rejected", "wallet"} /\ Kept
    <3>1. \E q \in Quotas :
            /\ req'[r].quota = q
            /\ \/ Goto(r, "wallet") /\ UNCHANGED <<ses, arg>>
               \/ TrySubscription(r, q) \/ Reject(r)
      BY <1>4 DEF NewBillingSession, TypeOK
    <3> QED
      BY <1>0, <1>1, <1>2, <3>1, FieldSet, NumAssumption DEF Goto, PcOK
  <2>3. Booked(r)' /\ Covered(r)'
    BY <2>1, <2>2 DEF Life, Flow, Ledger, Booked, Covered, Bypass, Books, Flags,
       TokenHeld, Pending, ReserveStates, Before
  <2>4. TokenBalance(r)'
    BY <2>1, <2>2, ZenonT(40) DEF Life, Flow, Ledger, Booked, TokenBalance, TokenDue, TokenHeld,
       TokenSide, Books, Flags, Taken, Before
  <2>5. FundingBalance(r)'
    BY <2>1, <2>2, ZenonT(40) DEF Life, Flow, Consent, Ledger, Booked, FundingBalance, FundingDue,
       RefundDue, AlreadyRefunded, Funded, Pending, ReserveStates, Books, Flags, Taken,
       Before
  <2> QED
    BY <2>3, <2>4, <2>5 DEF Ledger
<1>5. CASE TryWallet(r)
  <2>1. /\ pc[r] = "wallet" /\ Taken(r)' = Taken(r) /\ record'[r] = record[r]
        /\ ref'[r] = ref[r] /\ logged'[r] = logged[r] /\ req'[r] = req[r]
    BY <1>5, Moved DEF TryWallet, refunder
  <2>2. \/ /\ pc'[r] = "tokenRead" /\ Fresh("sub")
           /\ arg'[r] \in Nat /\ arg'[r] >= req[r].quota
        \/ pc'[r] \in {"rejected", "wallet"} /\ Kept
        \/ /\ pc'[r] \in {"tokenRead", "funding"} /\ Fresh("wallet")
           /\ arg'[r] = req[r].quota \/ (arg'[r] = 0 /\ Bypass(r)')
           /\ pc'[r] = "funding" => arg'[r] = 0
    <3>1. CASE Reject(r) \/ Fallback(r, "wallet")
      BY <1>2, <1>3, <3>1
    <3>2. ASSUME NEW eff, eff = IF ShouldTrust(r, wallet) THEN 0 ELSE req[r].quota,
                 ses' = [ses EXCEPT ![r] =
                           [NewSession("wallet") EXCEPT !.trusted = ShouldTrust(r, wallet)]],
                 arg' = [arg EXCEPT ![r] = eff],
                 Goto(r, IF eff > 0 THEN "tokenRead" ELSE "funding")
          PROVE  /\ pc'[r] \in {"tokenRead", "funding"} /\ Fresh("wallet")
                 /\ arg'[r] = req[r].quota \/ (arg'[r] = 0 /\ Bypass(r)')
                 /\ pc'[r] = "funding" => arg'[r] = 0
      <4>1. Fresh("wallet")
        BY <3>2, FreshBooks
      <4>2. ShouldTrust(r, wallet) => Bypass(r)'
        <5>1. ses'[r] = [NewSession("wallet") EXCEPT !.trusted = ShouldTrust(r, wallet)]
          BY <3>2 DEF TypeOK
        <5>2. ses'[r].trusted = ShouldTrust(r, wallet)
          BY <5>1 DEF NewSession
        <5> QED
          BY <2>1, <5>2 DEF ShouldTrust, Bypass
      <4>3. arg'[r] = eff
        BY <3>2 DEF TypeOK
      <4>4. pc'[r] = IF eff > 0 THEN "tokenRead" ELSE "funding"
        BY <1>0, <3>2 DEF Goto, PcOK
      <4> QED
        BY <3>2, <4>1, <4>2, <4>3, <4>4
    <3> QED
      BY <1>5, <3>1, <3>2 DEF TryWallet
  <2>3. Booked(r)' /\ Covered(r)'
    <3>1. ref'[r] = "none" /\ record'[r] # "refunded"
      BY <2>1 DEF Life, Flow, Ledger, Booked
    <3>2. Booked(r)'
      BY <2>1, <2>2, <3>1 DEF Ledger, Booked, Books, Flags, TokenHeld, Before
    <3>3. Covered(r)'
      <4>1. req[r].quota \in Nat
        BY Numbers
      <4>2. arg'[r] = req[r].quota => arg'[r] >= req'[r].quota
        BY <2>1, <4>1
      <4> HIDE DEF Fresh, Kept
      <4>3. pc'[r] \in {"tokenRead", "tokenDec", "funding"} =>
              arg'[r] >= req'[r].quota \/ Bypass(r)'
        BY <2>1, <2>2, <4>2
      <4>4. pc'[r] \in Before
        BY <2>1, <2>2 DEF Before
      <4> QED
        BY <4>3, <4>4 DEF Covered
    <3> QED
      BY <3>2, <3>3
  <2>4. TokenBalance(r)'
    BY <2>1, <2>2 DEF Life, Flow, Ledger, Booked, TokenBalance, TokenDue, TokenHeld,
       TokenSide, Books, Flags, Taken, Before
  <2>5. FundingBalance(r)'
    BY <2>1, <2>2 DEF Life, Flow, Consent, Ledger, Booked, FundingBalance, FundingDue,
       RefundDue, AlreadyRefunded, Funded, Pending, ReserveStates, Books, Flags, Taken,
       Before
  <2> QED
    BY <2>3, <2>4, <2>5 DEF Ledger
<1>6. CASE PreConsumeError(r)
  <2>1. /\ pc[r] = "rollback" /\ Taken(r)' = Taken(r) /\ record'[r] = record[r]
        /\ ref'[r] = ref[r] /\ logged'[r] = logged[r] /\ req'[r] = req[r]
        /\ TokenHeld(r) = 0
    BY <1>6, Moved DEF PreConsumeError, refunder
  <2>2. \/ /\ pc'[r] = "tokenRead" /\ Fresh("sub")
           /\ arg'[r] \in Nat /\ arg'[r] >= req[r].quota
        \/ pc'[r] \in {"rejected", "wallet"} /\ Kept
    BY <1>2, <1>3, <1>6 DEF PreConsumeError
  <2>3. Booked(r)' /\ Covered(r)'
    BY <2>1, <2>2 DEF Life, Flow, Ledger, Booked, Covered, Bypass, Books, Flags,
       TokenHeld, Pending, ReserveStates, Before
  <2>4. TokenBalance(r)'
    BY <2>1, <2>2 DEF Life, Flow, Ledger, Booked, TokenBalance, TokenDue, TokenHeld,
       TokenSide, Books, Flags, Taken, Before
  <2>5. FundingBalance(r)'
    BY <2>1, <2>2 DEF Life, Flow, Consent, Ledger, Booked, FundingBalance, FundingDue,
       RefundDue, AlreadyRefunded, Funded, Pending, ReserveStates, Books, Flags, Taken,
       Before
  <2> QED
    BY <2>3, <2>4, <2>5 DEF Ledger
<1> QED
  BY <1>4, <1>5, <1>6

LEMMA ReserveLedger ==
  ASSUME TypeOK, NEW r \in Requests, Life(r), Ledger(r),
         ReserveFunding(r) \/ ReserveReadToken(r) \/ ReserveConsumeToken(r)
         \/ RollbackFundingReserve(r) \/ \E t \in Targets : Reserve(r, t)
  PROVE  Ledger(r)'
<1>0. PcOK /\ ReqOK /\ RefOK /\ SesOK /\ LogOK /\ RecordOK
  BY TypeGroups
<1> USE Numbers
<1>1. Flags(r)' = Flags(r)
  BY SessionKept
<1>2. CASE \E t \in Targets : Reserve(r, t)
  <2>1. /\ pc[r] = "open" /\ pc'[r] = "resFunding" /\ Books(r)' = Books(r)
        /\ Taken(r)' = Taken(r) /\ record'[r] = record[r] /\ ~ ses[r].settled
        /\ Flags(r)' = Flags(r)
        /\ req'[r] = req[r] /\ ref'[r] = ref[r] /\ logged'[r] = logged[r]
    BY <1>0, <1>1, <1>2, FieldSet, Moved DEF Reserve, Reservable, Goto, PcOK, refunder
  <2>2. ref[r] = "none" /\ ~ ses[r].fundingSettled
    BY <1>2, <2>1 DEF Life, Flow, Reserve, Reservable
  <2>3. Booked(r)' /\ Covered(r)'
    BY <2>1, <2>2 DEF Life, Flow, Ledger, Booked, Covered, Bypass, Books, Flags,
       TokenHeld, Pending, ReserveStates, Before
  <2>4. TokenBalance(r)'
    BY <2>1, <2>2 DEF Life, Flow, Ledger, Booked, TokenBalance, TokenDue, TokenHeld,
       TokenSide, Books, Flags, Taken, Before
  <2>5. FundingBalance(r)'
    <3>1. FundingDue(r) = ses[r].pre + Pending(r)
      BY <2>1, <2>2 DEF Life, Flow, FundingDue, RefundDue, Before
    <3>2. FundingDue(r)' = ses'[r].pre + Pending(r)'
      BY <2>1, <2>2 DEF Life, Flow, FundingDue, RefundDue, Flags, Before
    <3>3. took[r].again = 0 /\ took'[r].again = 0
      BY <2>1, <2>2 DEF Life, Flow, Ledger, FundingBalance, Taken
    <3> QED
      BY <2>1, <2>2, <3>1, <3>2, <3>3 DEF Life, Consent, Ledger, Booked, FundingBalance,
         Funded, Pending, ReserveStates, Books, Flags, Taken, Before
  <2> QED
    BY <2>3, <2>4, <2>5 DEF Ledger
<1>3. CASE ReserveFunding(r)
  <2>1. /\ pc[r] = "resFunding" /\ ref[r] = "none" /\ record'[r] = record[r]
        /\ req'[r] = req[r] /\ ref'[r] = ref[r] /\ logged'[r] = logged[r] /\ arg'[r] = arg[r]
        /\ Flags(r)' = Flags(r)
    BY <1>1, <1>3, Moved DEF ReserveFunding, AdjustFunding, refunder, Life, Flow
  <2>2. \/ /\ pc'[r] = "resRead"
           /\ \/ /\ ses[r].src = "wallet"
                 /\ Taken(r)' = <<took[r].wallet + arg[r], took[r].sub, took[r].token,
                                  took[r].again>>
                 /\ Books(r)' = <<ses[r].pre, ses[r].tokenConsumed, ses[r].extraReserved,
                                  ses[r].held + arg[r], ses[r].trusted>>
              \/ /\ ses[r].src = "sub" /\ Books(r)' = Books(r)
                 /\ Taken(r)' = <<took[r].wallet, took[r].sub + arg[r], took[r].token,
                                  took[r].again>>
        \/ pc'[r] = "open" /\ Books(r)' = Books(r) /\ Taken(r)' = Taken(r)
    <3>1. CASE AdjustFunding(r, arg[r]) /\ HeldChange(r, arg[r]) /\ Goto(r, "resRead")
      BY <1>0, <3>1, HeldBooks, Moved DEF AdjustFunding, Goto, PcOK, Books
    <3>2. CASE NoMove /\ UNCHANGED ses /\ Goto(r, "open")
      BY <1>0, <3>2, FieldSet, Moved DEF Goto, PcOK
    <3> QED
      BY <1>3, <3>1, <3>2 DEF ReserveFunding
  <2>3. Booked(r)' /\ Covered(r)'
    BY <2>1, <2>2 DEF Life, Flow, Ledger, Booked, Covered, Bypass, Books, Flags,
       TokenHeld, Pending, ReserveStates, Before
  <2>4. TokenBalance(r)'
    BY <2>1, <2>2 DEF Life, Flow, Ledger, Booked, TokenBalance, TokenDue, TokenHeld,
       TokenSide, Books, Flags, Taken, Before
  <2>5. FundingBalance(r)'
    <3>1. FundingDue(r) = ses[r].pre + Pending(r)
      BY <2>1, <2>2 DEF Life, Flow, FundingDue, RefundDue, Before
    <3>2. FundingDue(r)' = ses'[r].pre + Pending(r)'
      BY <2>1, <2>2 DEF Life, Flow, FundingDue, RefundDue, Flags, Before
    <3>3. took[r].again = 0 /\ took'[r].again = 0
      BY <2>1, <2>2 DEF Life, Flow, Ledger, FundingBalance, Taken
    <3>4. /\ took'[r].wallet >= 0
          /\ ses'[r].src = "wallet" => took'[r].wallet = ses'[r].held
      BY <2>1, <2>2 DEF Life, Flow, Ledger, FundingBalance, Books, Flags, Taken, Before
    <3>5. ASSUME logged[r] = {} PROVE Funded(r)' = ses'[r].pre + Pending(r)'
      <4>1. Funded(r) = ses[r].pre /\ ses'[r].pre = ses[r].pre
        BY <2>1, <2>2, <3>1, <3>3, <3>5 DEF Ledger, FundingBalance, Pending, ReserveStates,
           Books
      <4>2. Funded(r)' = Funded(r) + Pending(r)'
        BY <2>1, <2>2 DEF Funded, Taken, Pending, ReserveStates
      <4> QED
        BY <4>1, <4>2
    <3>6. ses'[r].pre + Pending(r)' \in Nat
      BY <2>1, <2>2 DEF Books, Pending
    <3> QED
      BY <2>1, <3>2, <3>3, <3>4, <3>5, <3>6 DEF FundingBalance
  <2> QED
    BY <2>3, <2>4, <2>5 DEF Ledger
<1>4. CASE ReserveReadToken(r) \/ ReserveConsumeToken(r)
  <2>1. /\ pc[r] \in {"resRead", "resDec"} /\ ref[r] = "none" /\ record'[r] = record[r]
        /\ req'[r] = req[r] /\ ref'[r] = ref[r] /\ logged'[r] = logged[r] /\ arg'[r] = arg[r]
        /\ Flags(r)' = Flags(r)
    BY <1>1, <1>4, Moved DEF ReserveReadToken, ReserveConsumeToken, refunder, Life, Flow
  <2>2. \/ /\ pc'[r] = "open"
           /\ Books(r)' = <<ses[r].pre + arg[r], ses[r].tokenConsumed + arg[r],
                            ses[r].extraReserved + arg[r], ses[r].held, ses[r].trusted>>
           /\ \/ req[r].playground /\ Taken(r)' = Taken(r)
              \/ /\ ~ req[r].playground
                 /\ Taken(r)' = <<took[r].wallet, took[r].sub, took[r].token + arg[r],
                                  took[r].again>>
        \/ /\ pc'[r] = "resDec" /\ ~ req[r].playground
           /\ Books(r)' = Books(r) /\ Taken(r)' = Taken(r)
        \/ pc'[r] = "resRollback" /\ Books(r)' = Books(r) /\ Taken(r)' = Taken(r)
    <3>1. CASE ReserveReadToken(r)
      BY <1>0, <3>1, FieldSet, ReservedBooks, Moved
      DEF ReserveReadToken, Reserved, Goto, PcOK
    <3>2. CASE ReserveConsumeToken(r)
      <4>1. ~ req[r].playground
        BY <3>2 DEF ReserveConsumeToken, Ledger, Booked
      <4> QED
        BY <1>0, <3>2, <4>1, FieldSet, ReservedBooks, Moved
        DEF ReserveConsumeToken, Reserved, Goto, PcOK
    <3> QED
      BY <1>4, <3>1, <3>2
  <2>3. Booked(r)' /\ Covered(r)'
    BY <2>1, <2>2 DEF Life, Flow, Ledger, Booked, Covered, Bypass, Books, Flags,
       TokenHeld, Pending, ReserveStates, Before
  <2>4. TokenBalance(r)'
    BY <2>1, <2>2 DEF Life, Flow, Ledger, Booked, TokenBalance, TokenDue, TokenHeld,
       TokenSide, Books, Flags, Taken, Before
  <2>5. FundingBalance(r)'
    <3>1. FundingDue(r) = ses[r].pre + Pending(r)
      BY <2>1, <2>2 DEF Life, Flow, FundingDue, RefundDue, Before
    <3>2. FundingDue(r)' = ses'[r].pre + Pending(r)'
      BY <2>1, <2>2 DEF Life, Flow, FundingDue, RefundDue, Flags, Before
    <3>3. took[r].again = 0 /\ took'[r].again = 0
      BY <2>1, <2>2 DEF Life, Flow, Ledger, FundingBalance, Taken
    <3> QED
      BY <2>1, <2>2, <3>1, <3>2, <3>3 DEF Life, Consent, Ledger, Booked, FundingBalance,
         Funded, Pending, ReserveStates, Books, Flags, Taken, Before
  <2> QED
    BY <2>3, <2>4, <2>5 DEF Ledger
<1>5. CASE RollbackFundingReserve(r)
  <2>1. /\ pc[r] = "resRollback" /\ pc'[r] = "open" /\ ref[r] = "none"
        /\ req'[r] = req[r] /\ ref'[r] = ref[r] /\ arg'[r] = arg[r]
        /\ record'[r] = record[r] /\ Flags(r)' = Flags(r)
    BY <1>0, <1>1, <1>5, Moved DEF RollbackFundingReserve, AdjustFunding, Goto, PcOK,
       refunder, Life, Flow
  <2>2. \/ /\ logged'[r] = logged[r] /\ ses[r].src = "wallet"
           /\ Taken(r)' = <<took[r].wallet + -arg[r], took[r].sub, took[r].token,
                            took[r].again>>
           /\ Books(r)' = <<ses[r].pre, ses[r].tokenConsumed, ses[r].extraReserved,
                            ses[r].held + -arg[r], ses[r].trusted>>
        \/ /\ logged'[r] = logged[r] /\ ses[r].src = "sub" /\ Books(r)' = Books(r)
           /\ Taken(r)' = <<took[r].wallet, took[r].sub + -arg[r], took[r].token,
                            took[r].again>>
        \/ logged'[r] # {} /\ Books(r)' = Books(r) /\ Taken(r)' = Taken(r)
    <3>1. CASE AdjustFunding(r, -arg[r]) /\ HeldChange(r, -arg[r]) /\ UNCHANGED logged
      <4>1. -arg[r] \in Int
        BY Numbers
      <4> QED
        BY <3>1, <4>1, HeldBooks, Moved DEF AdjustFunding, Books
    <3>2. CASE NoMove /\ Log(r, "reserve") /\ UNCHANGED ses
      BY <3>2, FieldSet, Moved, Logged
    <3> QED
      BY <1>5, <3>1, <3>2 DEF RollbackFundingReserve
  <2>3. Booked(r)' /\ Covered(r)'
    BY <2>1, <2>2 DEF Life, Flow, Ledger, Booked, Covered, Bypass, Books, Flags,
       TokenHeld, Pending, ReserveStates, Before
  <2>4. TokenBalance(r)'
    BY <2>1, <2>2 DEF Life, Flow, Ledger, Booked, TokenBalance, TokenDue, TokenHeld,
       TokenSide, Books, Flags, Taken, Before
  <2>5. FundingBalance(r)'
    <3>1. FundingDue(r) = ses[r].pre + Pending(r)
      BY <2>1, <2>2 DEF Life, Flow, FundingDue, RefundDue, Before
    <3>2. FundingDue(r)' = ses'[r].pre + Pending(r)'
      BY <2>1, <2>2 DEF Life, Flow, FundingDue, RefundDue, Flags, Before
    <3>3. /\ took'[r].wallet >= 0
          /\ ses'[r].src = "wallet" => took'[r].wallet = ses'[r].held
      BY <2>1, <2>2 DEF Life, Flow, Consent, Ledger, Booked, FundingBalance, Pending,
         ReserveStates, Books, Flags, Taken, Before
    <3>5. took[r].again = 0 /\ took'[r].again = 0
      BY <2>1, <2>2 DEF Life, Flow, Ledger, FundingBalance, Taken
    <3>4. logged'[r] = {} => Funded(r)' = ses'[r].pre
      BY <2>1, <2>2, <3>1, <3>5 DEF Ledger, FundingBalance, Funded, Pending, ReserveStates,
         Books, Taken
    <3> QED
      BY <2>1, <2>2, <3>2, <3>3, <3>4, <3>5 DEF FundingBalance, Pending, ReserveStates,
         Books
  <2> QED
    BY <2>3, <2>4, <2>5 DEF Ledger
<1> QED
  BY <1>2, <1>3, <1>4, <1>5

LEMMA SettleLedger ==
  ASSUME TypeOK, NEW r \in Requests, Life(r), Ledger(r),
         SettleFunding(r) \/ SettleToken(r) \/ \E a \in Actuals : SettleBilling(r, a)
  PROVE  Ledger(r)'
<1>0. PcOK /\ ReqOK /\ RefOK /\ SesOK /\ LogOK /\ RecordOK
  BY TypeGroups
<1> USE Numbers
<1>1. CASE \E a \in Actuals : SettleBilling(r, a)
  <2>1. /\ pc[r] = "open" /\ Books(r)' = Books(r) /\ arg'[r] \in Nat
        /\ Taken(r)' = Taken(r) /\ record'[r] = record[r]
        /\ req'[r] = req[r] /\ ref'[r] = ref[r] /\ logged'[r] = logged[r]
        /\ \/ /\ pc'[r] = "open" /\ arg'[r] = ses[r].pre
              /\ Flags(r)' = <<ses[r].src, TRUE, ses[r].refunded, ses[r].fundingSettled>>
           \/ pc'[r] = "setFunding" /\ Flags(r)' = Flags(r)
    BY <1>0, <1>1, FieldSet, FlagSet, Moved, NumAssumption
    DEF SettleBilling, Settle, Goto, PcOK, refunder, TypeOK
  <2>2. ref[r] = "none" /\ ~ ses[r].fundingSettled /\ ~ ses[r].settled
    BY <1>1, <2>1 DEF Life, Flow, SettleBilling, HandlerRunning, Settle
  <2>3. Booked(r)' /\ Covered(r)'
    BY <2>1, <2>2 DEF Life, Flow, Ledger, Booked, Covered, Bypass, Books, Flags,
       TokenHeld, Pending, ReserveStates, Before
  <2>4. TokenBalance(r)'
    BY <2>1, <2>2 DEF Life, Flow, Ledger, Booked, TokenBalance, TokenDue, TokenHeld,
       TokenSide, Books, Flags, Taken, Before
  <2>5. FundingBalance(r)'
    <3>1. FundingDue(r) = ses[r].pre
      BY <2>1, <2>2 DEF FundingDue, RefundDue, Pending, ReserveStates, Before
    <3>2. FundingDue(r)' = ses[r].pre
      <4>1. CASE pc'[r] = "open" /\ ses'[r].settled
        BY <2>1, <4>1 DEF FundingDue, Before
      <4>2. CASE pc'[r] = "setFunding"
        BY <2>1, <2>2, <4>2 DEF FundingDue, RefundDue, Pending, ReserveStates, Before,
           Flags, Books
      <4> QED
        BY <2>1, <4>1, <4>2 DEF Flags
    <3> QED
      BY <2>1, <2>2, <3>1, <3>2 DEF Ledger, FundingBalance, Funded, Books, Flags, Taken,
         Before
  <2> QED
    BY <2>3, <2>4, <2>5 DEF Ledger
<1>2. CASE SettleFunding(r)
  <2>1. /\ pc[r] = "setFunding" /\ ref[r] = "none" /\ record'[r] = record[r]
        /\ req'[r] = req[r] /\ ref'[r] = ref[r] /\ logged'[r] = logged[r] /\ arg'[r] = arg[r]
        /\ ~ ses[r].settled /\ ~ ses[r].fundingSettled
        /\ Books(r)' = Books(r)
    BY <1>2, FieldSet, Moved DEF SettleFunding, AdjustFunding, refunder, Life, Flow
  <2>2. \/ /\ pc'[r] = "setToken"
           /\ Flags(r)' = <<ses[r].src, ses[r].settled, ses[r].refunded, TRUE>>
           /\ \/ /\ ses[r].src = "wallet"
                 /\ Taken(r)' = <<took[r].wallet + Delta(r), took[r].sub, took[r].token,
                                  took[r].again>>
              \/ /\ ses[r].src = "sub"
                 /\ Taken(r)' = <<took[r].wallet, took[r].sub + Delta(r), took[r].token,
                                  took[r].again>>
        \/ pc'[r] = "open" /\ Flags(r)' = Flags(r) /\ Taken(r)' = Taken(r)
    BY <1>0, <1>2, FieldSet, FlagSet, Moved DEF SettleFunding, AdjustFunding, Goto, PcOK
  <2>3. Booked(r)' /\ Covered(r)'
    BY <2>1, <2>2 DEF Life, Flow, Ledger, Booked, Covered, Bypass, Books, Flags,
       TokenHeld, Pending, ReserveStates, Before
  <2>4. TokenBalance(r)'
    BY <2>1, <2>2 DEF Life, Flow, Ledger, Booked, TokenBalance, TokenDue, TokenHeld,
       TokenSide, Books, Flags, Taken, Before
  <2>5. FundingBalance(r)'
    <3>1. FundingDue(r) = ses[r].pre
      BY <2>1 DEF FundingDue, RefundDue, Pending, ReserveStates, Before
    <3>2. CASE pc'[r] = "open"
      <4>1. FundingDue(r)' = ses[r].pre
        BY <2>1, <2>2, <3>2 DEF FundingDue, RefundDue, Pending, ReserveStates, Before,
           Flags, Books
      <4> QED
        BY <2>1, <2>2, <3>1, <3>2, <4>1 DEF Ledger, FundingBalance, Funded, Books, Flags,
           Taken, Before
    <3>3. CASE pc'[r] = "setToken"
      <4>1. FundingDue(r)' = arg[r] /\ ses'[r].fundingSettled
        BY <2>1, <2>2, <3>3 DEF FundingDue, Before, Flags
      <4>2. took'[r].wallet >= 0
        BY <2>1, <2>2, <3>3 DEF Life, Consent, Ledger, Booked, FundingBalance, Delta,
           Pending, ReserveStates, Taken, Before
      <4>4. took[r].again = 0 /\ took'[r].again = 0
        BY <2>1, <2>2, <3>3 DEF Life, Flow, Ledger, FundingBalance, Taken
      <4>3. logged[r] = {} => Funded(r)' = arg[r]
        BY <2>1, <2>2, <3>1, <3>3, <4>4 DEF Ledger, FundingBalance, Funded, Delta, Taken
      <4> QED
        BY <2>1, <4>1, <4>2, <4>3, <4>4 DEF FundingBalance
    <3> QED
      BY <2>2, <3>2, <3>3
  <2> QED
    BY <2>3, <2>4, <2>5 DEF Ledger
<1>3. CASE SettleToken(r)
  <2>1. /\ pc[r] = "setToken" /\ pc'[r] = "open" /\ ref[r] = "none"
        /\ req'[r] = req[r] /\ ref'[r] = ref[r] /\ arg'[r] = arg[r]
        /\ record'[r] = record[r] /\ Books(r)' = Books(r)
        /\ Flags(r)' = <<ses[r].src, TRUE, ses[r].refunded, ses[r].fundingSettled>>
    BY <1>0, <1>3, FieldSet, FlagSet, Moved DEF SettleToken, Goto, PcOK, refunder,
       Life, Flow
  <2>2. \/ req[r].playground /\ logged'[r] = logged[r] /\ Taken(r)' = Taken(r)
        \/ /\ ~ req[r].playground /\ logged'[r] = logged[r]
           /\ Taken(r)' = <<took[r].wallet, took[r].sub, took[r].token + Delta(r),
                            took[r].again>>
        \/ logged'[r] # {} /\ Taken(r)' = Taken(r)
    BY <1>0, <1>3, Moved, Logged DEF SettleToken
  <2>3. Booked(r)' /\ Covered(r)'
    BY <2>1, <2>2 DEF Life, Flow, Ledger, Booked, Covered, Bypass, Books, Flags,
       TokenHeld, Pending, ReserveStates, Before
  <2>4. TokenBalance(r)'
    BY <2>1, <2>2 DEF Life, Flow, Ledger, Booked, TokenBalance, TokenDue, TokenHeld,
       TokenSide, Delta, Books, Flags, Taken, Before
  <2>5. FundingBalance(r)'
    <3>1. FundingDue(r) = arg[r] /\ FundingDue(r)' = arg[r] /\ ses'[r].fundingSettled
      <4>1. ses[r].fundingSettled
        BY <2>1 DEF Ledger, Booked
      <4> QED
        BY <2>1, <4>1 DEF FundingDue, Before, Flags
    <3> QED
      BY <2>1, <2>2, <3>1 DEF Ledger, FundingBalance, Funded, Taken
  <2> QED
    BY <2>3, <2>4, <2>5 DEF Ledger
<1> QED
  BY <1>1, <1>2, <1>3

LEMMA RefundLedger ==
  ASSUME TypeOK, NEW r \in Requests, Life(r), Ledger(r), Refund(r) \/ RefundStep(r)
  PROVE  Ledger(r)'
<1>0. PcOK /\ ReqOK /\ RefOK /\ SesOK /\ LogOK /\ RecordOK
  BY TypeGroups
<1> USE Numbers
<1>1. CASE Refund(r)
  <2>1. /\ pc[r] = "open" /\ pc'[r] = "open" /\ ref[r] = "none" /\ ref'[r] = "funding"
        /\ req'[r] = req[r] /\ arg'[r] = arg[r] /\ logged'[r] = logged[r]
        /\ record'[r] = record[r] /\ Taken(r)' = Taken(r) /\ Books(r)' = Books(r)
        /\ Flags(r)' = <<ses[r].src, ses[r].settled, TRUE, ses[r].fundingSettled>>
        /\ ~ ses[r].settled /\ ~ ses[r].fundingSettled
    BY <1>0, <1>1, FieldSet, FlagSet, Moved DEF Refund, Refundable, NeedsRefund, RefOK,
       Life, Flow
  <2>2. Booked(r)' /\ Covered(r)'
    BY <2>1 DEF Life, Flow, Ledger, Booked, Covered, Bypass, Books, Flags, TokenHeld,
       Pending, ReserveStates, Before
  <2>3. TokenBalance(r)'
    BY <2>1 DEF Life, Flow, Ledger, Booked, TokenBalance, TokenDue, TokenHeld, TokenSide,
       Books, Flags, Taken, Before
  <2>4. FundingBalance(r)'
    BY <2>1 DEF Life, Flow, Consent, Ledger, Booked, FundingBalance, FundingDue,
       RefundDue, AlreadyRefunded, Funded, Pending, ReserveStates, Books, Flags, Taken,
       Before
  <2> QED
    BY <2>2, <2>3, <2>4 DEF Ledger
<1>2. CASE RefundStep(r)
  <2>1. /\ pc[r] = "open" /\ pc'[r] = "open" /\ req'[r] = req[r] /\ arg'[r] = arg[r]
        /\ Books(r)' = Books(r) /\ Flags(r)' = Flags(r)
        /\ ref[r] \in {"funding", "save", "extra", "token"}
        /\ ~ ses[r].settled /\ ~ ses[r].fundingSettled
    BY <1>2, FieldSet DEF RefundStep, RefundWallet, RefundSubscription, RefundSave,
       RefundExtra, RefundToken, Life, Flow
  <2> DEFINE Went(l) == ref'[r] = l /\ logged'[r] = logged[r]
             Still == Taken(r)' = Taken(r)
  <2>2. AttemptFails(r) => \/ Went("funding")
                           \/ ref'[r] = "extra" /\ logged'[r] # {}
    BY <1>0, Logged DEF AttemptFails, RefGoto, RefOK
  <2>3. \/ /\ ref[r] = "funding" /\ ses[r].src = "wallet" /\ record'[r] = record[r]
           /\ \/ /\ Went("extra")
                 /\ Taken(r)' = <<took[r].wallet + -ses[r].held, took[r].sub, took[r].token,
                                  took[r].again>>
              \/ ref'[r] = "extra" /\ logged'[r] # {} /\ Still
        \/ /\ ref[r] = "funding" /\ ses[r].src = "sub" /\ record'[r] = record[r]
           /\ \/ Went("extra") /\ Still /\ (AlreadyRefunded(r) \/ ses[r].held = 0)
              \/ /\ Went("save") /\ ~ AlreadyRefunded(r)
                 /\ Taken(r)' = <<took[r].wallet, took[r].sub + -ses[r].held, took[r].token,
                                  took[r].again>>
              \/ Went("funding") /\ Still
              \/ ref'[r] = "extra" /\ logged'[r] # {} /\ Still
        \/ /\ ref[r] = "save" /\ ses[r].src = "sub"
           /\ \/ Went("extra") /\ record'[r] = "refunded" /\ Still
              \/ Went("funding") /\ record'[r] = "refunded" /\ Still
              \/ /\ Went("funding") /\ record'[r] = record[r]
                 /\ Taken(r)' = <<took[r].wallet, took[r].sub, took[r].token,
                                  took[r].again + ses[r].held>>
              \/ ref'[r] = "extra" /\ logged'[r] # {} /\ Still
        \/ /\ ref[r] = "extra" /\ record'[r] = record[r]
           /\ \/ /\ Went("token") /\ Still
                 /\ ses[r].src # "sub" \/ ses[r].extraReserved = 0
              \/ /\ Went("token") /\ ses[r].src = "sub"
                 /\ Taken(r)' = <<took[r].wallet, took[r].sub + -ses[r].extraReserved,
                                  took[r].token, took[r].again>>
              \/ ref'[r] = "token" /\ logged'[r] # {} /\ Still
        \/ /\ ref[r] = "token" /\ record'[r] = record[r]
           /\ \/ /\ Went("done")
                 /\ Taken(r)' = <<took[r].wallet, took[r].sub, took[r].token + -TokenHeld(r),
                                  took[r].again>>
              \/ ref'[r] = "done" /\ logged'[r] # {} /\ Still
    <3>1. CASE RefundWallet(r)
      <4>1. ref'[r] = "extra" /\ record'[r] = record[r]
        BY <1>0, <3>1, Moved DEF RefundWallet, RefGoto, RefOK
      <4>2. CASE ses[r].held > 0
        BY <3>1, <4>1, <4>2, Moved, Logged DEF RefundWallet
      <4>3. CASE ses[r].held = 0
        BY <3>1, <4>1, <4>3, Moved DEF RefundWallet, Taken
      <4> QED
        BY <4>2, <4>3
    <3>2. CASE RefundSubscription(r)
      BY <1>0, <2>2, <3>2, Moved DEF RefundSubscription, RefGoto, RefOK
    <3>3. CASE RefundSave(r)
      BY <1>0, <2>2, <3>3, Saved DEF RefundSave, RefGoto, RefOK, RecordOK, Life, Flow
    <3>4. CASE RefundExtra(r)
      <4>1. ref'[r] = "token" /\ record'[r] = record[r]
        BY <1>0, <3>4, Moved DEF RefundExtra, RefGoto, RefOK
      <4> QED
        BY <3>4, <4>1, Moved, Logged DEF RefundExtra
    <3>5. CASE RefundToken(r)
      <4>1. ref'[r] = "done" /\ record'[r] = record[r] /\ TokenHeld(r) \in Nat
        BY <1>0, <3>5, Moved DEF RefundToken, RefGoto, RefOK, TokenHeld
      <4>2. CASE TokenHeld(r) > 0
        BY <3>5, <4>1, <4>2, Moved, Logged DEF RefundToken
      <4>3. CASE TokenHeld(r) = 0
        BY <3>5, <4>1, <4>3, Moved DEF RefundToken, Taken
      <4> QED
        BY <4>1, <4>2, <4>3
    <3> QED
      BY <1>2, <3>1, <3>2, <3>3, <3>4, <3>5 DEF RefundStep
  <2>4. Booked(r)' /\ Covered(r)'
    BY <2>1, <2>2, <2>3 DEF Life, Flow, Ledger, Booked, Covered, Bypass, Books, Flags,
       TokenHeld, Pending, ReserveStates, Before, AlreadyRefunded
  <2>5. TokenBalance(r)'
    BY <2>1, <2>2, <2>3 DEF Life, Flow, Ledger, Booked, TokenBalance, TokenDue,
       TokenHeld, TokenSide, Books, Flags, Taken, Before
  <2>6. FundingBalance(r)'
    <3>1. took'[r].wallet >= 0
      BY <2>1, <2>3 DEF Ledger, FundingBalance, Taken, Before
    <3>2. FundingDue(r) = RefundDue(r) /\ FundingDue(r)' = RefundDue(r)'
      BY <2>1 DEF FundingDue, RefundDue, Pending, ReserveStates, Books, Flags, Before
    <3>3. ASSUME logged'[r] = {}
          PROVE  Funded(r)' = RefundDue(r)' - took'[r].again
      <4>1. logged[r] = {} /\ Funded(r) = RefundDue(r) - took[r].again
        BY <2>3, <3>2, <3>3 DEF Ledger, FundingBalance
      <4>2. Funded(r)' = took'[r].wallet + took'[r].sub /\ took'[r].wallet \in Int
        BY <2>3 DEF Funded, Taken
      <4>3. CASE ref[r] = "funding" /\ ses[r].src = "wallet"
        <5>1. Funded(r) = ses[r].held /\ took[r].again = 0
          BY <2>1, <4>3 DEF Life, Consent, Ledger, FundingBalance, Funded, Before
        <5> QED
          BY <2>1, <2>3, <3>3, <4>2, <4>3, <5>1
          DEF RefundDue, Flags, Taken, Funded
      <4>4. CASE ref[r] = "funding" /\ ses[r].src = "sub"
        <5>1. ses[r].pre = ses[r].held + ses[r].extraReserved
          BY <2>1, <4>4 DEF Ledger, Booked, Before
        <5> QED
          BY <2>1, <2>3, <3>3, <4>1, <4>2, <4>4, <5>1
          DEF RefundDue, AlreadyRefunded, Books, Flags, Taken, Funded
      <4>5. CASE ref[r] = "save"
        <5>1. /\ ses[r].src = "sub" /\ record[r] # "refunded"
              /\ ses[r].pre = ses[r].held + ses[r].extraReserved
          BY <2>1, <2>3, <4>5 DEF Ledger, Booked, Before
        <5> QED
          BY <2>1, <2>3, <3>3, <4>1, <4>2, <4>5, <5>1
          DEF RefundDue, AlreadyRefunded, Books, Flags, Taken, Funded
      <4>6. CASE ref[r] = "extra"
        BY <2>1, <2>3, <3>3, <4>1, <4>2, <4>6
        DEF RefundDue, Books, Flags, Taken, Funded
      <4>7. CASE ref[r] = "token"
        BY <2>1, <2>3, <3>3, <4>1, <4>2, <4>7
        DEF RefundDue, Books, Flags, Taken, Funded
      <4> QED
        BY <2>3, <4>3, <4>4, <4>5, <4>6, <4>7
    <3>4. ref'[r] = "funding" /\ ses'[r].src = "wallet" => FALSE
      BY <2>1, <2>3 DEF Flags
    <3>5. ref'[r] # "none" /\ ses'[r].src = ses[r].src
      BY <2>1, <2>3 DEF Flags
    <3>6. ses[r].src # "sub" => took'[r].again = 0
      BY <2>3 DEF Ledger, FundingBalance, Taken
    <3> QED
      BY <2>1, <3>1, <3>2, <3>3, <3>4, <3>5, <3>6 DEF FundingBalance
  <2> QED
    BY <2>4, <2>5, <2>6 DEF Ledger
<1> QED
  BY <1>1, <1>2

LEMMA NextLedgerInv == LedgerInv /\ [Next]_vars => LedgerInv'
<1> SUFFICES ASSUME LedgerInv, [Next]_vars PROVE \A q \in Requests : Ledger(q)'
  BY NextLifeInv DEF LedgerInv
<1> TAKE q \in Requests
<1>1. TypeOK /\ Life(q) /\ Ledger(q)
  BY DEF LedgerInv, LifeInv, TypeInv
<1>2. ASSUME Step(q) PROVE Ledger(q)'
  BY <1>1, <1>2, OpeningLedger, StartingLedger, ReserveLedger, SettleLedger, RefundLedger
  DEF Step, CallStep
<1>3. ASSUME NEW r \in Requests, Step(r), q # r PROVE Ledger(q)'
  BY <1>1, <1>3, StepApart, StepApartLog, ApartKeepsLedger DEF Apart
<1>4. CASE UNCHANGED vars \/ \E s \in Subs : ResetSubscription(s)
  BY <1>1, <1>4, ApartKeepsLedger DEF vars, ResetSubscription, refunder
<1> QED
  BY <1>2, <1>3, <1>4 DEF Next, Step

\* Settle: for any amounts, reservations and faults, when it has succeeded and
\* the log has no error line for the request, funding source and token have
\* both been charged exactly the actual cost.
THEOREM BillingSettledExact == Spec => []SettledExact
  BY InitLedgerInv, NextLedgerInv, LedgerMeans, PTL DEF Spec

\* preConsume, Reserve, failed Settle: while a request is in flight both sides
\* hold exactly preConsumedQuota, which covers the quota asked for unless the
\* trust bypass applied.
THEOREM BillingInFlightCovered == Spec => []InFlightCovered
  BY InitLedgerInv, NextLedgerInv, LedgerMeans, PTL DEF Spec

\* NewBillingSession: a request that is turned away has cost nothing, along
\* every chain of fallbacks and failures, unless a failed rollback is logged.
THEOREM BillingRejectedClean == Spec => []RejectedClean
  BY InitLedgerInv, NextLedgerInv, LedgerMeans, PTL DEF Spec

\* Whatever fails and in whatever order, no request is given back more than was
\* taken for it from the wallet or the token.
THEOREM BillingNeverOverRefunded == Spec => []NeverOverRefunded
  BY InitLedgerInv, NextLedgerInv, LedgerMeans, PTL DEF Spec

\* Refund: when its goroutine has ended with nothing logged, the request has
\* cost nothing, and was given back more only what the record of an attempt
\* was lost for.
THEOREM BillingRefundedExact == Spec => []RefundedExact
  BY InitLedgerInv, NextLedgerInv, LedgerMeans, PTL DEF Spec

-----------------------------------------------------------------------------
(* The sum over all requests, along an enumeration of them.                *)

N == Cardinality(Requests)
Nth == CHOOSE e : e \in Bijection(1 .. N, Requests)

LEMMA Enumeration ==
  /\ N \in Nat /\ Nth \in [1 .. N -> Requests]
  /\ \A i, j \in 1 .. N : Nth[i] = Nth[j] => i = j
  /\ \A r \in Requests : \E i \in 1 .. N : Nth[i] = r
<1>1. N \in Nat /\ ExistsBijection(1 .. N, Requests)
  BY RequestAssumption, FS_CardinalityType DEF N
<1>2. Nth \in Bijection(1 .. N, Requests)
  BY <1>1 DEF ExistsBijection, Nth
<1> QED
  BY <1>1, <1>2, Fun_BijectionProperties

\* g runs through the partial sums of f.
Running(g, f) == g[0] = 0 /\ \A i \in 1 .. N : g[i] = g[i - 1] + f[Nth[i]]
Total(f, n) == \E g \in [0 .. N -> Int] : Running(g, f) /\ g[N] = n

LEMMA LeastIndex ==
  ASSUME NEW S, S \subseteq Nat, S # {}
  PROVE  \E i \in S : \A j \in S : i <= j
<1>1. PICK x \in S : \A y \in S : ~ (<<y, x>> \in OpToRel(<, Nat))
  BY NatLessThanWellFounded, WFMin
<1>2. ASSUME NEW y \in S PROVE x <= y
  <2>1. x \in Nat /\ y \in Nat /\ <<y, x>> \in Nat \X Nat
    OBVIOUS
  <2>2. <<y, x>>[1] = y /\ <<y, x>>[2] = x
    OBVIOUS
  <2>3. ~ y < x
    BY <1>1, <2>1, <2>2, Zenon DEF OpToRel
  <2> QED
    BY <2>1, <2>3
<1> QED
  BY <1>1, <1>2

LEMMA TotalOfNothing ==
  ASSUME NEW f, \A r \in Requests : f[r] = 0
  PROVE  Total(f, 0)
<1> DEFINE g == [i \in 0 .. N |-> 0]
<1>1. N \in Nat /\ \A i \in 1 .. N : Nth[i] \in Requests
  BY Enumeration
<1>2. g \in [0 .. N -> Int] /\ g[0] = 0 /\ g[N] = 0
  BY <1>1
<1>3. ASSUME NEW i \in 1 .. N PROVE g[i] = g[i - 1] + f[Nth[i]]
  <2>1. i \in 0 .. N /\ i - 1 \in 0 .. N
    BY <1>1
  <2> QED
    BY <1>1, <2>1
<1> HIDE DEF g
<1> QED
  BY <1>2, <1>3 DEF Total, Running

\* One amount changes, and the total by as much.
LEMMA TotalChanges ==
  ASSUME NEW f \in [Requests -> Int], NEW h \in [Requests -> Int], NEW n \in Int,
         NEW r \in Requests, \A q \in Requests \ {r} : h[q] = f[q], Total(f, n)
  PROVE  Total(h, n + h[r] - f[r])
<1>1. PICK j \in 1 .. N : Nth[j] = r
  BY Enumeration
<1>2. PICK g \in [0 .. N -> Int] : Running(g, f) /\ g[N] = n
  BY DEF Total
<1> DEFINE d == h[r] - f[r]
           k == [i \in 0 .. N |-> IF i < j THEN g[i] ELSE g[i] + d]
<1>3. N \in Nat /\ j \in 1 .. N /\ d \in Int
  BY Enumeration
<1>4. k \in [0 .. N -> Int]
  BY <1>3
<1>5. k[0] = 0 /\ k[N] = n + d
  BY <1>2, <1>3 DEF Running
<1>6. ASSUME NEW i \in 1 .. N PROVE k[i] = k[i - 1] + h[Nth[i]]
  <2>1. i \in 0 .. N /\ i - 1 \in 0 .. N /\ Nth[i] \in Requests
    BY <1>3, Enumeration
  <2>2. /\ k[i] = (IF i < j THEN g[i] ELSE g[i] + d)
        /\ k[i - 1] = (IF i - 1 < j THEN g[i - 1] ELSE g[i - 1] + d)
        /\ g[i] \in Int /\ g[i - 1] \in Int
    BY <2>1
  <2>3. g[i] = g[i - 1] + f[Nth[i]]
    BY <1>2 DEF Running
  <2>4. IF i = j THEN h[Nth[i]] = f[Nth[i]] + d ELSE h[Nth[i]] = f[Nth[i]]
    BY <1>1, <2>1, Enumeration
  <2>5. f[Nth[i]] \in Int
    BY <2>1
  <2> HIDE DEF k, d
  <2>6. CASE i < j
    BY <1>3, <2>2, <2>3, <2>4, <2>5, <2>6, SMTT(30)
  <2>7. CASE i = j
    BY <1>3, <2>2, <2>3, <2>4, <2>5, <2>7, SMTT(30)
  <2>8. CASE i > j
    BY <1>3, <2>2, <2>3, <2>4, <2>5, <2>8, SMTT(30)
  <2> QED
    BY <1>3, <2>6, <2>7, <2>8
<1>7. n + h[r] - f[r] = n + d
  OBVIOUS
<1> HIDE DEF k, d
<1> QED
  BY <1>4, <1>5, <1>6, <1>7 DEF Total, Running

\* Amounts that are not negative do not add up to less than nothing.
LEMMA TotalNotNegative ==
  ASSUME NEW f \in [Requests -> Int], NEW n \in Int, Total(f, n),
         \A r \in Requests : f[r] >= 0
  PROVE  n >= 0
<1>1. PICK g \in [0 .. N -> Int] : Running(g, f) /\ g[N] = n
  BY DEF Total
<1>2. N \in Nat
  BY Enumeration
<1> DEFINE Bad == {i \in 0 .. N : g[i] < 0}
<1>3. ASSUME Bad # {} PROVE FALSE
  <2>1. PICK m \in Bad : \A i \in Bad : m <= i
    <3>1. Bad \subseteq Nat
      BY <1>2
    <3> HIDE DEF Bad
    <3> QED
      BY <1>3, <3>1, LeastIndex
  <2>2. m \in 1 .. N /\ g[m] < 0
    BY <1>1, <1>2, <2>1 DEF Running
  <2>3. m - 1 \in 0 .. N /\ ~ m <= m - 1
    BY <1>2, <2>2
  <2>4. g[m - 1] \in Int /\ ~ g[m - 1] < 0
    BY <2>1, <2>3
  <2>5. f[Nth[m]] \in Int /\ f[Nth[m]] >= 0
    BY <2>2, Enumeration
  <2>6. g[m] = g[m - 1] + f[Nth[m]]
    BY <1>1, <2>2 DEF Running
  <2> HIDE DEF Bad
  <2> QED
    BY <2>2, <2>4, <2>5, <2>6
<1> QED
  BY <1>1, <1>2, <1>3

\* When only one amount is not 0, it is the total.
LEMMA TotalOfOne ==
  ASSUME NEW f \in [Requests -> Int], NEW n, Total(f, n), NEW r \in Requests,
         \A q \in Requests \ {r} : f[q] = 0
  PROVE  n = f[r]
<1>1. PICK g \in [0 .. N -> Int] : Running(g, f) /\ g[N] = n
  BY DEF Total
<1>2. PICK j \in 1 .. N : Nth[j] = r
  BY Enumeration
<1>3. N \in Nat
  BY Enumeration
<1> DEFINE Sofar(i) == IF i < j THEN 0 ELSE f[r]
           Bad == {i \in 0 .. N : g[i] # Sofar(i)}
<1>4. ASSUME Bad # {} PROVE FALSE
  <2>1. PICK m \in Bad : \A i \in Bad : m <= i
    <3>1. Bad \subseteq Nat
      BY <1>3
    <3> HIDE DEF Bad
    <3> QED
      BY <1>4, <3>1, LeastIndex
  <2>2. m \in 1 .. N /\ g[m] # Sofar(m)
    BY <1>1, <1>3, <2>1 DEF Running
  <2>3. m - 1 \in 0 .. N /\ ~ m <= m - 1
    BY <1>3, <2>2
  <2>4. g[m - 1] = Sofar(m - 1)
    BY <2>1, <2>3
  <2>5. IF m = j THEN f[Nth[m]] = f[r] ELSE f[Nth[m]] = 0
    BY <1>2, <2>2, Enumeration
  <2>6. g[m] = g[m - 1] + f[Nth[m]] /\ f[r] \in Int
    BY <1>1, <2>2 DEF Running
  <2> HIDE DEF Bad
  <2> QED
    BY <1>2, <1>3, <2>2, <2>4, <2>5, <2>6
<1> QED
  BY <1>1, <1>2, <1>3, <1>4

-----------------------------------------------------------------------------
(* No quota appears or disappears.                                         *)

WalletOf == [r \in Requests |-> took[r].wallet]
TokenOf == [r \in Requests |-> took[r].token]

\* What is missing from a balance is what was taken for the requests, summed up.
Conserved == Total(WalletOf, InitWallet - wallet) /\ Total(TokenOf, InitToken - token)

LEMMA Difference ==
  ASSUME NEW i \in Int, NEW b \in Int, NEW c \in Int, NEW t \in Int, NEW u \in Int,
         c + u = b + t
  PROVE  i - b + u - t = i - c
  OBVIOUS

\* A step moves quota between the balances and its own request.
LEMMA StepMoves ==
  ASSUME TypeOK, NEW r \in Requests, Step(r)
  PROVE  /\ wallet' + took'[r].wallet = wallet + took[r].wallet
         /\ token' + took'[r].token = token + took[r].token
<1> DEFINE Fair == /\ wallet' + took'[r].wallet = wallet + took[r].wallet
                   /\ token' + took'[r].token = token + took[r].token
<1> SUFFICES Fair
  OBVIOUS
<1>0. /\ wallet \in Int /\ token \in Int /\ took[r].wallet \in Int /\ took[r].token \in Int
      /\ took[r].sub \in Int /\ ses[r].held \in Nat /\ ses[r].extraReserved \in Nat
      /\ ses[r].pre \in Nat /\ ses[r].tokenConsumed \in Nat /\ arg[r] \in Nat
  BY Numbers DEF TypeOK
<1>1. NoMove => Fair
  BY <1>0 DEF NoMove, db
<1>2. ASSUME NEW n \in Int PROVE DecreaseUserQuota(r, n) => Fair
  BY <1>0 DEF DecreaseUserQuota, TypeOK
<1>3. ASSUME NEW n \in Int PROVE DecreaseTokenQuota(r, n) => Fair
  BY <1>0 DEF DecreaseTokenQuota, TypeOK
<1>4. ASSUME NEW n \in Int PROVE PostConsumeUserSubscriptionDelta(r, n) => Fair
  BY <1>0 DEF PostConsumeUserSubscriptionDelta, TypeOK
<1>5. ASSUME NEW n \in Int PROVE AdjustFunding(r, n) => Fair
  BY <1>2, <1>4 DEF AdjustFunding
<1>6. SubscriptionPreConsume(r) => Fair
  BY <1>0 DEF SubscriptionPreConsume, TypeOK
<1>7. RefundSave(r) => Fair
  BY Saved DEF RefundSave, Taken
<1>8. TokenHeld(r) \in Int /\ -TokenHeld(r) \in Int /\ Delta(r) \in Int /\ -arg[r] \in Int
      /\ -ses[r].held \in Int /\ -ses[r].extraReserved \in Int /\ arg[r] \in Int
  BY <1>0 DEF TokenHeld, Delta
<1> HIDE DEF Fair
<1>9. CASE \/ NewBillingSession(r) \/ TryWallet(r) \/ ReadToken(r) \/ FundingFails(r)
           \/ PreConsumeError(r) \/ ReserveReadToken(r) \/ Refund(r)
           \/ (\E t \in Targets : Reserve(r, t)) \/ (\E a \in Actuals : SettleBilling(r, a))
  BY <1>1, <1>9 DEF NewBillingSession, TryWallet, ReadToken, FundingFails,
     PreConsumeError, ReserveReadToken, Refund, Reserve, SettleBilling, Settle
<1>10. CASE \/ ConsumeToken(r) \/ RollbackToken(r) \/ ReserveConsumeToken(r)
            \/ SettleToken(r) \/ RefundToken(r)
  BY <1>1, <1>3, <1>8, <1>10 DEF ConsumeToken, RollbackToken, ReserveConsumeToken,
     SettleToken, RefundToken
<1>11. CASE \/ WalletPreConsume(r) \/ RefundWallet(r) \/ RefundSubscription(r) \/ RefundExtra(r)
  BY <1>1, <1>2, <1>4, <1>8, <1>11 DEF WalletPreConsume, RefundWallet, RefundSubscription,
     RefundExtra
<1>12. CASE ReserveFunding(r) \/ RollbackFundingReserve(r) \/ SettleFunding(r)
  BY <1>1, <1>5, <1>8, <1>12 DEF ReserveFunding, RollbackFundingReserve, SettleFunding
<1> QED
  BY <1>6, <1>7, <1>9, <1>10, <1>11, <1>12 DEF Step, CallStep, RefundStep

LEMMA NextConserved == TypeOK /\ TypeOK' /\ Conserved /\ [Next]_vars => Conserved'
<1> SUFFICES ASSUME TypeOK, TypeOK', Conserved, [Next]_vars PROVE Conserved'
  OBVIOUS
<1>0. /\ WalletOf \in [Requests -> Int] /\ TokenOf \in [Requests -> Int]
      /\ WalletOf' \in [Requests -> Int] /\ TokenOf' \in [Requests -> Int]
      /\ InitWallet - wallet \in Int /\ InitToken - token \in Int
      /\ wallet \in Int /\ token \in Int /\ wallet' \in Int /\ token' \in Int
      /\ InitWallet \in Int /\ InitToken \in Int
  BY NumAssumption DEF TypeOK, WalletOf, TokenOf
<1>1. ASSUME NEW r \in Requests, Step(r) PROVE Conserved'
  <2>1. \A q \in Requests \ {r} : WalletOf'[q] = WalletOf[q] /\ TokenOf'[q] = TokenOf[q]
    BY <1>1, StepApart DEF Apart, WalletOf, TokenOf
  <2>2. /\ wallet' + WalletOf'[r] = wallet + WalletOf[r]
        /\ token' + TokenOf'[r] = token + TokenOf[r]
    BY <1>1, StepMoves DEF WalletOf, TokenOf
  <2>3. /\ WalletOf'[r] \in Int /\ WalletOf[r] \in Int /\ wallet \in Int /\ wallet' \in Int
        /\ TokenOf'[r] \in Int /\ TokenOf[r] \in Int /\ token \in Int /\ token' \in Int
        /\ InitWallet \in Int /\ InitToken \in Int
    BY <1>0
  <2>4. Total(WalletOf', InitWallet - wallet + WalletOf'[r] - WalletOf[r])
    BY <1>0, <2>1, TotalChanges DEF Conserved
  <2>5. Total(TokenOf', InitToken - token + TokenOf'[r] - TokenOf[r])
    BY <1>0, <2>1, TotalChanges DEF Conserved
  <2>6. InitWallet - wallet + WalletOf'[r] - WalletOf[r] = InitWallet - wallet'
    BY <2>2, <2>3, Difference
  <2>7. InitToken - token + TokenOf'[r] - TokenOf[r] = InitToken - token'
    BY <2>2, <2>3, Difference
  <2> QED
    BY <2>4, <2>5, <2>6, <2>7 DEF Conserved
<1>2. CASE UNCHANGED vars \/ \E s \in Subs : ResetSubscription(s)
  BY <1>2 DEF vars, ResetSubscription, Conserved, WalletOf, TokenOf
<1> QED
  BY <1>1, <1>2 DEF Next, Step

LEMMA InitConserved == Init => Conserved
<1> SUFFICES ASSUME Init PROVE Conserved
  OBVIOUS
<1>1. \A r \in Requests : WalletOf[r] = 0 /\ TokenOf[r] = 0
  BY DEF Init, WalletOf, TokenOf
<1>2. InitWallet - wallet = 0 /\ InitToken - token = 0
  BY NumAssumption DEF Init
<1> QED
  BY <1>1, <1>2, TotalOfNothing DEF Conserved

-----------------------------------------------------------------------------
(* A request that is alone.                                                *)

\* What tryWallet and PreConsumeTokenQuota have checked: the balance they read
\* was not above the initial one, so what a session takes without Reserve is
\* covered by the initial one, whatever the other requests do in between.
Checked(r) ==
    /\ pc[r] \in {"tokenRead", "tokenDec", "funding"} /\ ses[r].src = "wallet" =>
         arg[r] <= InitWallet
    /\ pc[r] = "tokenDec" => TokenUnlimited \/ arg[r] <= InitToken
    /\ ~ TokenUnlimited /\ ~ req[r].playground =>
         ses[r].tokenConsumed - ses[r].extraReserved <= InitToken
    /\ pc[r] \notin Before /\ ses[r].src = "wallet" =>
         ses[r].pre - ses[r].extraReserved <= InitWallet

NothingOwed == InitWallet >= 0 /\ InitToken >= 0

LoneInv == LedgerInv /\ Conserved /\ \A r \in Requests : Checked(r)

\* No balance is ever above the initial one.
LEMMA NeverAboveInitial ==
  ASSUME LedgerInv, Conserved
  PROVE  wallet <= InitWallet /\ token <= InitToken
<1>1. TypeOK /\ \A r \in Requests : took[r].wallet >= 0 /\ took[r].token >= 0
  BY LedgerMeans DEF LedgerInv, LifeInv, TypeInv, NeverOverRefunded
<1>2. /\ WalletOf \in [Requests -> Int] /\ TokenOf \in [Requests -> Int]
      /\ wallet \in Int /\ token \in Int /\ InitWallet \in Int /\ InitToken \in Int
  BY <1>1, NumAssumption DEF TypeOK, WalletOf, TokenOf
<1>3. \A r \in Requests : WalletOf[r] >= 0 /\ TokenOf[r] >= 0
  BY <1>1 DEF WalletOf, TokenOf
<1>4. InitWallet - wallet \in Int /\ InitToken - token \in Int
  BY <1>2
<1>5. InitWallet - wallet >= 0
  BY <1>2, <1>3, <1>4, TotalNotNegative DEF Conserved
<1>6. InitToken - token >= 0
  BY <1>2, <1>3, <1>4, TotalNotNegative DEF Conserved
<1> QED
  BY <1>2, <1>5, <1>6

\* The steps of opening a session.
LEMMA OpeningChecked ==
  ASSUME TypeOK, NEW r \in Requests, Life(r), Ledger(r), Checked(r), NothingOwed,
         token <= InitToken,
         ReadToken(r) \/ ConsumeToken(r) \/ WalletPreConsume(r) \/ SubscriptionPreConsume(r)
         \/ FundingFails(r) \/ RollbackToken(r)
  PROVE  Checked(r)'
<1>0. PcOK /\ InitWallet \in Int /\ InitToken \in Int /\ token \in Int
  BY TypeGroups, NumAssumption DEF TypeOK
<1> USE Numbers, <1>0
<1>1. Flags(r)' = Flags(r) /\ req'[r] = req[r] /\ arg'[r] = arg[r]
  BY SessionKept DEF ReadToken, ConsumeToken, WalletPreConsume, SubscriptionPreConsume,
     FundingFails, RollbackToken, Reject
<1>2. CASE ReadToken(r)
  <2>1. \/ /\ req[r].playground /\ pc[r] = "tokenRead" /\ pc'[r] = "funding"
           /\ Books(r)' = <<ses[r].pre, arg[r], ses[r].extraReserved, ses[r].held,
                            ses[r].trusted>>
        \/ pc[r] = "tokenRead" /\ pc'[r] = "tokenDec" /\ TokenAllows(arg[r]) /\ Books(r)' = Books(r)
        \/ pc'[r] = "rejected" /\ Books(r)' = Books(r)
    BY <1>2, FieldSet DEF ReadToken, Reject, Goto, PcOK
  <2> QED
    BY <1>1, <2>1 DEF Checked, TokenAllows, Books, Flags, Before
<1>3. CASE ConsumeToken(r)
  <2>1. \/ /\ pc[r] = "tokenDec" /\ pc'[r] = "funding"
           /\ Books(r)' = <<ses[r].pre, arg[r], ses[r].extraReserved, ses[r].held,
                            ses[r].trusted>>
        \/ pc'[r] = "rejected" /\ Books(r)' = Books(r)
    BY <1>3, FieldSet DEF ConsumeToken, Reject, Goto, PcOK
  <2> QED
    BY <1>1, <2>1 DEF Checked, Books, Flags, Before
<1>4. CASE WalletPreConsume(r) \/ SubscriptionPreConsume(r)
  <2>1. /\ pc[r] = "funding" /\ pc'[r] = "open"
        /\ Books(r)' = <<arg[r], ses[r].tokenConsumed, ses[r].extraReserved, arg[r],
                         ses[r].trusted>>
    BY <1>4, OpenBooks DEF WalletPreConsume, SubscriptionPreConsume, Open, Goto, PcOK
  <2> QED
    BY <1>1, <2>1 DEF Checked, Books, Flags, Before
<1>5. CASE FundingFails(r)
  <2>1. pc'[r] = "rollback" /\ Books(r)' = Books(r)
    BY <1>5, ErrSet DEF FundingFails, Goto, PcOK
  <2> QED
    BY <1>1, <2>1 DEF Checked, Books, Flags, Before
<1>6. CASE RollbackToken(r)
  <2>1. /\ pc'[r] = "rollback"
        /\ Books(r)' = <<ses[r].pre, 0, ses[r].extraReserved, ses[r].held, ses[r].trusted>>
    BY <1>6, FieldSet DEF RollbackToken
  <2> QED
    BY <1>1, <2>1 DEF Checked, NothingOwed, Books, Flags, Before
<1> QED
  BY <1>2, <1>3, <1>4, <1>5, <1>6

\* The steps that choose a source.
LEMMA StartingChecked ==
  ASSUME TypeOK, NEW r \in Requests, Life(r), Ledger(r), Checked(r), NothingOwed,
         wallet <= InitWallet,
         NewBillingSession(r) \/ TryWallet(r) \/ PreConsumeError(r)
  PROVE  Checked(r)'
<1>0. PcOK /\ InitWallet \in Int /\ InitToken \in Int /\ wallet \in Int
  BY TypeGroups, NumAssumption DEF TypeOK
<1> USE Numbers, <1>0
<1> DEFINE Kept == Books(r)' = Books(r) /\ Flags(r)' = Flags(r) /\ arg'[r] = arg[r]
           Fresh(src) == /\ ses'[r].pre = 0 /\ ses'[r].tokenConsumed = 0
                         /\ ses'[r].extraReserved = 0 /\ ses'[r].held = 0
                         /\ Flags(r)' = <<src, FALSE, FALSE, FALSE>>
<1>1. ASSUME NEW q \in Nat, TrySubscription(r, q) PROVE pc'[r] = "tokenRead" /\ Fresh("sub")
  <2>1. pc'[r] = "tokenRead"
    BY <1>1 DEF TrySubscription, Goto, PcOK
  <2>2. Fresh("sub")
    BY <1>1, FreshBooks DEF TrySubscription
  <2> QED
    BY <2>1, <2>2
<1>2. Reject(r) => pc'[r] = "rejected" /\ Kept
  BY FieldSet DEF Reject, Goto, PcOK
<1>3. ASSUME NEW src, Fallback(r, src)
      PROVE  \/ pc'[r] = "tokenRead" /\ Fresh("sub")
             \/ pc'[r] \in {"rejected", "wallet"} /\ Kept
  BY <1>1, <1>2, <1>3, FieldSet DEF Fallback, Goto, PcOK
<1>4. pc'[r] = "tokenRead" /\ Fresh("sub") => Checked(r)'
  BY DEF Checked, NothingOwed, Flags, Before
<1>5. /\ pc'[r] \in {"rejected", "wallet"} /\ Kept
      /\ req'[r] = req[r] \/ ses[r].tokenConsumed = 0
      => Checked(r)'
  BY DEF Checked, NothingOwed, Books, Flags, Before
<1>6. CASE NewBillingSession(r)
  <2>1. ses[r].tokenConsumed = 0
    BY <1>6 DEF NewBillingSession, Ledger, Booked
  <2>2. \/ pc'[r] = "tokenRead" /\ Fresh("sub")
        \/ pc'[r] \in {"rejected", "wallet"} /\ Kept
    <3>1. \E q \in Quotas : \/ Goto(r, "wallet") /\ UNCHANGED <<ses, arg>>
                            \/ TrySubscription(r, q) \/ Reject(r)
      BY <1>6 DEF NewBillingSession
    <3> QED
      BY <1>1, <1>2, <3>1, FieldSet, NumAssumption DEF Goto, PcOK
  <2> QED
    BY <1>4, <1>5, <2>1, <2>2
<1>7. CASE PreConsumeError(r)
  <2>1. req'[r] = req[r]
    BY <1>7 DEF PreConsumeError
  <2> QED
    BY <1>2, <1>3, <1>4, <1>5, <1>7, <2>1 DEF PreConsumeError
<1>8. CASE TryWallet(r)
  <2>1. req'[r] = req[r]
    BY <1>8 DEF TryWallet
  <2>2. CASE Reject(r) \/ Fallback(r, "wallet")
    BY <1>2, <1>3, <1>4, <1>5, <2>1, <2>2
  <2>3. ASSUME NEW eff, eff = IF ShouldTrust(r, wallet) THEN 0 ELSE req[r].quota,
               WalletCovers(req[r].quota),
               ses' = [ses EXCEPT ![r] =
                         [NewSession("wallet") EXCEPT !.trusted = ShouldTrust(r, wallet)]],
               arg' = [arg EXCEPT ![r] = eff],
               Goto(r, IF eff > 0 THEN "tokenRead" ELSE "funding")
        PROVE  Checked(r)'
    <3>1. Fresh("wallet")
      BY <2>3, FreshBooks
    <3>2. arg'[r] = eff /\ eff \in Nat /\ eff <= InitWallet
      BY <2>3 DEF TypeOK, WalletCovers, NothingOwed
    <3>3. pc'[r] \in {"tokenRead", "funding"}
      BY <2>3 DEF Goto, PcOK
    <3> QED
      BY <3>1, <3>2, <3>3 DEF Checked, NothingOwed, Flags, Before
  <2> QED
    BY <1>8, <2>2, <2>3 DEF TryWallet
<1> QED
  BY <1>6, <1>7, <1>8

\* The calls on an open session, and the refund.
LEMMA OpenChecked ==
  ASSUME TypeOK, NEW r \in Requests, Life(r), Ledger(r), Checked(r),
         \/ ReserveFunding(r) \/ ReserveReadToken(r) \/ ReserveConsumeToken(r)
         \/ RollbackFundingReserve(r) \/ SettleFunding(r) \/ SettleToken(r)
         \/ (\E t \in Targets : Reserve(r, t)) \/ (\E a \in Actuals : SettleBilling(r, a))
         \/ Refund(r) \/ RefundStep(r)
  PROVE  Checked(r)'
<1>0. PcOK /\ InitWallet \in Int /\ InitToken \in Int
  BY TypeGroups, NumAssumption
<1> USE Numbers, <1>0
<1> DEFINE Amts == <<ses[r].pre, ses[r].tokenConsumed, ses[r].extraReserved>>
           Grown == <<ses[r].pre + arg[r], ses[r].tokenConsumed + arg[r],
                      ses[r].extraReserved + arg[r]>>
<1>1. pc[r] \notin Before /\ pc'[r] \notin Before /\ req'[r] = req[r]
  BY DEF ReserveFunding, ReserveReadToken, ReserveConsumeToken, RollbackFundingReserve,
     SettleFunding, SettleToken, Reserve, SettleBilling, Settle, Refund, RefundStep,
     RefundWallet, RefundSubscription, RefundSave, RefundExtra, RefundToken, Reserved,
     Goto, PcOK, Before, Life, Flow
<1>2. ses'[r].src = ses[r].src
  <2>1. CASE SettleFunding(r) \/ SettleToken(r) \/ Refund(r) \/ \E a \in Actuals : SettleBilling(r, a)
    BY <2>1, FlagSet, FieldSet DEF SettleFunding, SettleToken, Refund, SettleBilling,
       Settle, Flags
  <2> QED
    BY <2>1, SessionKept DEF Flags
<1>3. Amts' = Amts \/ Amts' = Grown
  <2>1. UNCHANGED ses => Amts' = Amts
    OBVIOUS
  <2>2. Reserved(r) => Amts' = Grown
    BY ReservedBooks DEF Books
  <2>3. \A n \in Int : HeldChange(r, n) => Amts' = Amts
    BY HeldBooks DEF Books
  <2>4. \/ ses' = [ses EXCEPT ![r].settled = TRUE] \/ ses' = [ses EXCEPT ![r].refunded = TRUE]
        \/ ses' = [ses EXCEPT ![r].fundingSettled = TRUE]
        => Amts' = Amts
    BY FieldSet DEF Books
  <2>5. arg[r] \in Int /\ -arg[r] \in Int
    OBVIOUS
  <2> HIDE DEF Amts, Grown
  <2> QED
    BY <2>1, <2>2, <2>3, <2>4, <2>5
    DEF ReserveFunding, ReserveReadToken, ReserveConsumeToken, RollbackFundingReserve,
        SettleFunding, SettleToken, Reserve, SettleBilling, Settle, Refund, RefundStep,
        RefundWallet, RefundSubscription, RefundSave, RefundExtra, RefundToken
<1> QED
  BY <1>1, <1>2, <1>3 DEF Checked, Before

LEMMA NextLoneInv == NothingOwed /\ LoneInv /\ [Next]_vars => LoneInv'
<1> SUFFICES ASSUME NothingOwed, LoneInv, [Next]_vars PROVE LoneInv'
  OBVIOUS
<1>1. LedgerInv' /\ TypeOK /\ TypeOK'
  BY NextLedgerInv DEF LoneInv, LedgerInv, LifeInv, TypeInv
<1>2. Conserved'
  BY <1>1, NextConserved DEF LoneInv
<1>3. wallet <= InitWallet /\ token <= InitToken
  BY NeverAboveInitial DEF LoneInv
<1>4. ASSUME NEW q \in Requests PROVE Checked(q)'
  <2>1. Life(q) /\ Ledger(q) /\ Checked(q)
    BY DEF LoneInv, LedgerInv, LifeInv
  <2>2. ASSUME Step(q) PROVE Checked(q)'
    BY <1>1, <1>3, <2>1, <2>2, OpeningChecked, StartingChecked, OpenChecked DEF Step,
       CallStep
  <2>3. ASSUME NEW r \in Requests, Step(r), q # r PROVE Checked(q)'
    BY <1>1, <2>1, <2>3, StepApart DEF Apart, Checked
  <2>4. CASE UNCHANGED vars \/ \E s \in Subs : ResetSubscription(s)
    BY <2>1, <2>4 DEF vars, ResetSubscription, Checked
  <2> QED
    BY <2>2, <2>3, <2>4 DEF Next, Step
<1> QED
  BY <1>1, <1>2, <1>4 DEF LoneInv

LEMMA InitLoneInv == NothingOwed /\ Init => LoneInv
<1> SUFFICES ASSUME NothingOwed, Init PROVE \A r \in Requests : Checked(r)
  BY InitLedgerInv, InitConserved DEF LoneInv
<1> QED
  BY NumAssumption DEF Init, NothingOwed, Checked, NewSession, Before

LEMMA LoneInvMeans == NothingOwed /\ LoneInv => LoneRequestNeverOverdraws
<1> SUFFICES ASSUME LoneInv, NothingOwed, NEW r \in Requests,
                    \A o \in Requests \ {r} : Funded(o) = 0 /\ took[o].token = 0,
                    ~ ses[r].settled, ~ ses[r].fundingSettled, ses[r].extraReserved = 0,
                    pc[r] \notin CallStates, logged[r] = {}
             PROVE  wallet >= 0 /\ (TokenUnlimited \/ token >= 0)
  BY DEF LoneRequestNeverOverdraws
<1>1. /\ TypeOK /\ Checked(r) /\ Conserved
      /\ \A o \in Requests : Life(o) /\ Ledger(o)
  BY DEF LoneInv, LedgerInv, LifeInv, TypeInv
<1>2. /\ WalletOf \in [Requests -> Int] /\ TokenOf \in [Requests -> Int]
      /\ wallet \in Int /\ token \in Int /\ InitWallet \in Int /\ InitToken \in Int
      /\ WalletOf[r] = took[r].wallet /\ TokenOf[r] = took[r].token
  BY <1>1, NumAssumption DEF TypeOK, WalletOf, TokenOf
<1>3. ASSUME NEW o \in Requests \ {r} PROVE WalletOf[o] = 0 /\ TokenOf[o] = 0
  <2>1. took[o].wallet \in Int /\ took[o].sub \in Int /\ took[o].wallet + took[o].sub = 0
    BY <1>1, Numbers DEF Funded
  <2>2. took[o].wallet = 0
    BY <1>1, <2>1 DEF Life, Consent
  <2> QED
    BY <2>2 DEF WalletOf, TokenOf
<1>4. InitWallet - wallet = took[r].wallet
  BY <1>1, <1>2, <1>3, TotalOfOne DEF Conserved
<1>5. InitToken - token = took[r].token
  BY <1>1, <1>2, <1>3, TotalOfOne DEF Conserved
<1>6. took[r].wallet <= InitWallet
  <2>1. CASE ses[r].src # "wallet" \/ pc[r] \in Before
    BY <1>1, <2>1 DEF Life, Consent, NothingOwed
  <2>2. CASE ses[r].src = "wallet" /\ pc[r] \notin Before
    <3>1. ses[r].pre \in Nat /\ ses[r].pre <= InitWallet
      BY <1>1, <1>2, <2>2, Numbers DEF Checked
    <3>2. Pending(r) = 0
      BY DEF Pending, ReserveStates, CallStates
    <3>3. RefundDue(r) \in {0, ses[r].pre}
      BY <2>2 DEF RefundDue
    <3>4. Funded(r) = RefundDue(r) + Pending(r)
      <4>1. took[r].again = 0 /\ RefundDue(r) + Pending(r) \in Int
        BY <1>1, <2>2, <3>1, <3>2, <3>3 DEF Ledger, FundingBalance
      <4> QED
        BY <1>1, <2>2, <4>1 DEF Ledger, FundingBalance, FundingDue
    <3>5. took[r].wallet \in Int /\ took[r].wallet + took[r].sub = Funded(r) /\ took[r].sub = 0
      BY <1>1, <2>2, Numbers DEF Funded, Life, Consent
    <3> QED
      BY <1>2, <3>1, <3>2, <3>3, <3>4, <3>5 DEF NothingOwed
  <2> QED
    BY <2>1, <2>2
<1>7. TokenUnlimited \/ took[r].token <= InitToken
  <2>1. took[r].token \in {0, TokenHeld(r)}
    BY <1>1 DEF Ledger, TokenBalance, TokenDue
  <2>2. ses[r].tokenConsumed \in Nat
    BY <1>1, Numbers
  <2>3. TokenUnlimited \/ TokenHeld(r) <= InitToken
    BY <1>1, <1>2, <2>2 DEF Checked, TokenHeld, NothingOwed
  <2> QED
    BY <2>1, <2>3 DEF NothingOwed
<1>8. took[r].wallet \in Int /\ took[r].token \in Int
  BY <1>1, Numbers
<1> QED
  BY <1>2, <1>4, <1>5, <1>6, <1>7, <1>8

\* Every statement of every call, failed or not, moves quota between a balance
\* and its request: at all times the wallet and the token are down by exactly
\* what all requests together have taken, for any number of them.
THEOREM BillingConserved == Spec => []Conserved
  BY BillingTypeCorrect, InitConserved, NextConserved, PTL DEF Spec

\* tryWallet and PreConsumeTokenQuota: only requests that overlap can overdraw.
\* One that is alone, and has not been settled for more or extended by Reserve,
\* leaves no negative balance, if there was none before the first request.
THEOREM BillingLoneRequestNeverOverdraws ==
  ASSUME NothingOwed
  PROVE  Spec => []LoneRequestNeverOverdraws
<1>1. LoneInv => LoneRequestNeverOverdraws
  BY LoneInvMeans
<1>2. Init => LoneInv
  BY InitLoneInv
<1>3. LoneInv /\ [Next]_vars => LoneInv'
  BY NextLoneInv
<1> QED
  BY <1>1, <1>2, <1>3, PTL DEF Spec

-----------------------------------------------------------------------------
(* What the requests hold of one subscription.                             *)

LEMMA TotalMonotone ==
  ASSUME NEW f \in [Requests -> Int], NEW h \in [Requests -> Int], NEW n, NEW m,
         Total(f, n), Total(h, m), \A r \in Requests : f[r] <= h[r]
  PROVE  n \in Int /\ m \in Int /\ n <= m
<1>1. PICK g \in [0 .. N -> Int] : Running(g, f) /\ g[N] = n
  BY DEF Total
<1>2. PICK k \in [0 .. N -> Int] : Running(k, h) /\ k[N] = m
  BY DEF Total
<1> DEFINE d == [r \in Requests |-> h[r] - f[r]]
           l == [i \in 0 .. N |-> k[i] - g[i]]
<1>3. N \in Nat
  BY Enumeration
<1>4. n \in Int /\ m \in Int
  BY <1>1, <1>2, <1>3
<1>5. d \in [Requests -> Int] /\ l \in [0 .. N -> Int] /\ m - n \in Int
  BY <1>4
<1>6. l[0] = 0 /\ l[N] = m - n
  BY <1>1, <1>2, <1>3 DEF Running
<1>7. ASSUME NEW i \in 1 .. N PROVE l[i] = l[i - 1] + d[Nth[i]]
  <2>1. i \in 0 .. N /\ i - 1 \in 0 .. N /\ Nth[i] \in Requests
    BY <1>3, Enumeration
  <2>2. /\ l[i] = k[i] - g[i] /\ l[i - 1] = k[i - 1] - g[i - 1]
        /\ d[Nth[i]] = h[Nth[i]] - f[Nth[i]]
        /\ k[i] \in Int /\ g[i] \in Int /\ k[i - 1] \in Int /\ g[i - 1] \in Int
        /\ h[Nth[i]] \in Int /\ f[Nth[i]] \in Int
    BY <2>1
  <2>3. g[i] = g[i - 1] + f[Nth[i]] /\ k[i] = k[i - 1] + h[Nth[i]]
    BY <1>1, <1>2 DEF Running
  <2> HIDE DEF d, l
  <2> QED
    BY <2>2, <2>3
<1>8. \A r \in Requests : d[r] >= 0
  OBVIOUS
<1> HIDE DEF d, l
<1>9. Total(d, m - n)
  BY <1>5, <1>6, <1>7 DEF Total, Running
<1> QED
  BY <1>4, <1>5, <1>8, <1>9, TotalNotNegative

\* The element MapThenSumSet takes out of a set.
Pick(S) == CHOOSE x \in S : TRUE

\* Induction over the sets of requests, in set form.
LEMMA RequestSets ==
  ASSUME NEW Good, {} \in Good,
         \A A \in SUBSET Requests : A # {} /\ A \ {Pick(A)} \in Good => A \in Good
  PROVE  SUBSET Requests \subseteq Good
<1> DEFINE Bad == {A \in SUBSET Requests : A \notin Good}
           Sizes == {Cardinality(A) : A \in Bad}
<1>1. \A A \in SUBSET Requests : IsFiniteSet(A) /\ Cardinality(A) \in Nat
  BY RequestAssumption, FS_Subset, FS_CardinalityType
<1>2. ASSUME Bad # {} PROVE FALSE
  <2>1. Sizes \subseteq Nat /\ Sizes # {}
    BY <1>1, <1>2
  <2>2. PICK c \in Sizes : \A e \in Sizes : c <= e
    <3> HIDE DEF Sizes
    <3> QED
      BY <2>1, LeastIndex
  <2>3. PICK A \in Bad : Cardinality(A) = c
    BY <2>2
  <2>4. A # {} /\ Pick(A) \in A
    BY <2>3 DEF Pick
  <2>5. A \ {Pick(A)} \in Bad
    BY <2>3, <2>4
  <2>6. Cardinality(A \ {Pick(A)}) = Cardinality(A) - 1
    BY <1>1, <2>3, <2>4, FS_RemoveElement
  <2>7. c <= Cardinality(A \ {Pick(A)})
    BY <2>2, <2>5
  <2> QED
    BY <1>1, <2>3, <2>6, <2>7
<1> QED
  BY <1>2

LEMMA ShareType == ASSUME TypeOK, NEW r \in Requests PROVE Share(r) \in Int
<1>1. HeldNow(r) \in Nat
  BY Numbers DEF HeldNow, HeldOf
<1> QED
  BY <1>1, Numbers DEF Share

\* The shares of a set of requests, each request for itself.
PartOf(A) == [r \in Requests |-> IF r \in A THEN Share(r) ELSE 0]

LEMMA PartType ==
  ASSUME TypeOK, NEW A
  PROVE  PartOf(A) \in [Requests -> Int]
<1>1. \A r \in Requests : Share(r) \in Int
  BY ShareType
<1> QED
  BY <1>1 DEF PartOf

LEMMA PartGrows ==
  ASSUME TypeOK, NEW A \in SUBSET Requests, A # {}, NEW n \in Int,
         Total(PartOf(A \ {Pick(A)}), n)
  PROVE  Total(PartOf(A), Share(Pick(A)) + n)
<1> DEFINE x == Pick(A)
           f == PartOf(A \ {x})
           h == PartOf(A)
<1>1. x \in A /\ x \in Requests
  BY DEF Pick
<1> HIDE DEF x
<1>2. f \in [Requests -> Int] /\ h \in [Requests -> Int]
  BY PartType
<1>3. f[x] = 0 /\ h[x] = Share(x)
  BY <1>1 DEF PartOf
<1>4. \A q \in Requests \ {x} : h[q] = f[q]
  BY DEF PartOf
<1>5. Total(f, n)
  BY DEF x
<1>6. Share(x) \in Int
  BY <1>1, ShareType
<1> HIDE DEF f, h
<1>7. Total(h, n + h[x] - f[x])
  BY <1>1, <1>2, <1>4, <1>5, TotalChanges
<1>8. n + h[x] - f[x] = Share(x) + n
  BY <1>3, <1>6
<1> QED
  BY <1>7, <1>8 DEF h, x

LEMMA PartOfNobody == Total(PartOf({}), 0)
<1>1. \A r \in Requests : PartOf({})[r] = 0
  BY DEF PartOf
<1> QED
  BY <1>1, TotalOfNothing

\* MapThenSumSet adds up the shares of a set of requests.
LEMMA SumIsTotal ==
  ASSUME TypeOK, NEW S \in SUBSET Requests
  PROVE  Total(PartOf(S), MapThenSumSet(Share, S))
<1> DEFINE Rec(f) == f = [A \in SUBSET S |->
                            IF A = {} THEN 0 ELSE Share(Pick(A)) + f[A \ {Pick(A)}]]
           f0 == CHOOSE f : Rec(f)
<1>1. MapThenSumSet(Share, S) = f0[S]
  BY DEF MapThenSumSet, MapThenFoldSet, Pick
<1>2. \A A \in SUBSET Requests : \E n \in Int : Total(PartOf(A), n)
  <2> DEFINE Good == {A \in SUBSET Requests : \E n \in Int : Total(PartOf(A), n)}
  <2>1. {} \in Good
    BY PartOfNobody
  <2>2. ASSUME NEW A \in SUBSET Requests, A # {}, A \ {Pick(A)} \in Good
        PROVE  A \in Good
    <3>1. PICK n \in Int : Total(PartOf(A \ {Pick(A)}), n)
      BY <2>2
    <3>2. Total(PartOf(A), Share(Pick(A)) + n)
      BY <2>2, <3>1, PartGrows
    <3>3. Share(Pick(A)) + n \in Int
      BY <2>2, ShareType DEF Pick
    <3> QED
      BY <3>2, <3>3
  <2>3. SUBSET Requests \subseteq Good
    <3> HIDE DEF Good
    <3> QED
      BY <2>1, <2>2, RequestSets
  <2> QED
    BY <2>3
<1>3. \E f : Rec(f)
  <2> DEFINE Sum(A) == CHOOSE n \in Int : Total(PartOf(A), n)
             f1 == [A \in SUBSET S |-> Sum(A)]
  <2>1. \A A \in SUBSET Requests : Sum(A) \in Int /\ Total(PartOf(A), Sum(A))
    BY <1>2
  <2> HIDE DEF Sum
  <2>2. \A A \in SUBSET Requests : \A n, m :
            Total(PartOf(A), n) /\ Total(PartOf(A), m) => n = m
    <3> SUFFICES ASSUME NEW A \in SUBSET Requests, NEW n, NEW m,
                        Total(PartOf(A), n), Total(PartOf(A), m)
                 PROVE  n = m
      OBVIOUS
    <3>1. PartOf(A) \in [Requests -> Int]
      BY PartType
    <3>2. \A r \in Requests : PartOf(A)[r] <= PartOf(A)[r]
      BY <3>1
    <3>3. n \in Int /\ m \in Int /\ n <= m /\ m <= n
      BY <3>1, <3>2, TotalMonotone
    <3> QED
      BY <3>3
  <2>3. Sum({}) = 0
    BY <2>1, <2>2, PartOfNobody
  <2>4. ASSUME NEW A \in SUBSET S, A # {}
        PROVE  Sum(A) = Share(Pick(A)) + Sum(A \ {Pick(A)})
    <3>1. A \in SUBSET Requests /\ A \ {Pick(A)} \in SUBSET Requests
      OBVIOUS
    <3>2. Total(PartOf(A), Share(Pick(A)) + Sum(A \ {Pick(A)}))
      BY <2>1, <2>4, <3>1, PartGrows
    <3> QED
      BY <2>1, <2>2, <3>1, <3>2
  <2>5. ASSUME NEW A \in SUBSET S
        PROVE  f1[A] = IF A = {} THEN 0 ELSE Share(Pick(A)) + f1[A \ {Pick(A)}]
    <3>1. f1[A] = Sum(A) /\ f1[A \ {Pick(A)}] = Sum(A \ {Pick(A)})
      OBVIOUS
    <3> HIDE DEF f1
    <3> QED
      BY <2>3, <2>4, <3>1
  <2>6. f1 = [A \in SUBSET S |-> f1[A]]
    OBVIOUS
  <2> HIDE DEF f1
  <2>7. Rec(f1)
    BY <2>5, <2>6
  <2> HIDE DEF Rec
  <2> QED
    BY <2>7
<1>4. Rec(f0)
  <2> HIDE DEF Rec
  <2> QED
    BY <1>3
<1>5. \A A \in SUBSET S :
        f0[A] = IF A = {} THEN 0 ELSE Share(Pick(A)) + f0[A \ {Pick(A)}]
  <2> HIDE DEF f0
  <2> QED
    BY <1>4
<1> HIDE DEF Rec, f0
<1> DEFINE Right == {A \in SUBSET Requests :
                       A \in SUBSET S => f0[A] \in Int /\ Total(PartOf(A), f0[A])}
<1>6. {} \in Right
  <2>1. f0[{}] = 0
    BY <1>5
  <2> QED
    BY <2>1, PartOfNobody
<1>7. ASSUME NEW A \in SUBSET Requests, A # {}, A \ {Pick(A)} \in Right
      PROVE  A \in Right
  <2> SUFFICES ASSUME A \in SUBSET S PROVE f0[A] \in Int /\ Total(PartOf(A), f0[A])
    OBVIOUS
  <2>1. f0[A \ {Pick(A)}] \in Int /\ Total(PartOf(A \ {Pick(A)}), f0[A \ {Pick(A)}])
    BY <1>7
  <2>2. f0[A] = Share(Pick(A)) + f0[A \ {Pick(A)}]
    BY <1>5, <1>7
  <2>3. Share(Pick(A)) \in Int
    BY <1>7, ShareType DEF Pick
  <2> QED
    BY <1>7, <2>1, <2>2, <2>3, PartGrows
<1>8. SUBSET Requests \subseteq Right
  <2> HIDE DEF Right
  <2> QED
    BY <1>6, <1>7, RequestSets
<1> QED
  BY <1>1, <1>8

\* What has been taken from the subscription for a request covers what its
\* session still has to hold of it, less what lost records make a retry give back
\* again; and only a session that is open on a subscription names one.
SubBalance(r) ==
    /\ ses[r].src # "sub" \/ pc[r] \in Before => ses[r].sub = 0
    /\ pc[r] \notin Before /\ ses[r].src = "sub" =>
        took[r].sub + took[r].again >= FundingDue(r)

\* The subscription of a session, when it is opened and afterwards.
LEMMA SubKept ==
  ASSUME TypeOK, NEW r \in Requests,
         \/ ReadToken(r) \/ ConsumeToken(r) \/ FundingFails(r) \/ RollbackToken(r)
         \/ ReserveFunding(r) \/ ReserveReadToken(r) \/ ReserveConsumeToken(r)
         \/ RollbackFundingReserve(r) \/ SettleFunding(r) \/ SettleToken(r)
         \/ Refund(r) \/ RefundStep(r)
         \/ (\E t \in Targets : Reserve(r, t)) \/ (\E a \in Actuals : SettleBilling(r, a))
  PROVE  ses'[r].sub = ses[r].sub
<1>1. UNCHANGED ses => ses'[r].sub = ses[r].sub
  OBVIOUS
<1>2. ASSUME NEW n, \/ ses' = [ses EXCEPT ![r].tokenConsumed = n]
                    \/ ses' = [ses EXCEPT ![r].err = n]
                    \/ ses' = [ses EXCEPT ![r].settled = n]
                    \/ ses' = [ses EXCEPT ![r].refunded = n]
                    \/ ses' = [ses EXCEPT ![r].fundingSettled = n]
      PROVE  ses'[r].sub = ses[r].sub
  BY <1>2 DEF TypeOK, Session
<1>3. ASSUME NEW n, HeldChange(r, n) PROVE ses'[r].sub = ses[r].sub
  BY <1>3 DEF TypeOK, Session, HeldChange
<1>4. ASSUME Reserved(r) PROVE ses'[r].sub = ses[r].sub
  BY <1>4 DEF TypeOK, Session, Reserved
<1> QED
  BY <1>1, <1>2, <1>3, <1>4
  DEF ReadToken, ConsumeToken, FundingFails, RollbackToken, ReserveFunding,
      ReserveReadToken, ReserveConsumeToken, RollbackFundingReserve, SettleFunding,
      SettleToken, Refund, RefundStep, RefundWallet, RefundSubscription, RefundSave,
      RefundExtra, RefundToken, Reserve, SettleBilling, Settle, Reject

LEMMA SubFresh ==
  ASSUME TypeOK, NEW r \in Requests,
         NewBillingSession(r) \/ TryWallet(r) \/ PreConsumeError(r)
  PROVE  ses'[r].sub = ses[r].sub \/ ses'[r].sub = 0
<1>1. ASSUME NEW src, NEW t, \/ ses' = [ses EXCEPT ![r] = NewSession(src)]
                      \/ ses' = [ses EXCEPT ![r] = [NewSession(src) EXCEPT !.trusted = t]]
      PROVE  ses'[r].sub = 0
  BY <1>1 DEF TypeOK, NewSession
<1>2. ASSUME NEW q, TrySubscription(r, q) PROVE ses'[r].sub = 0
  BY <1>1, <1>2 DEF TrySubscription
<1>3. ASSUME NEW src, Fallback(r, src) PROVE ses'[r].sub = ses[r].sub \/ ses'[r].sub = 0
  BY <1>2, <1>3 DEF Fallback, Reject
<1> QED
  BY <1>1, <1>2, <1>3 DEF NewBillingSession, TryWallet, PreConsumeError, Reject

LEMMA OpeningSub ==
  ASSUME TypeOK, NEW r \in Requests, Life(r), Ledger(r), SubBalance(r),
         \/ ReadToken(r) \/ ConsumeToken(r) \/ FundingFails(r) \/ RollbackToken(r)
         \/ NewBillingSession(r) \/ TryWallet(r) \/ PreConsumeError(r)
         \/ WalletPreConsume(r) \/ SubscriptionPreConsume(r)
  PROVE  SubBalance(r)'
<1>0. PcOK /\ ReqOK /\ RefOK /\ SesOK
  BY TypeGroups
<1> USE Numbers
<1>1. CASE \/ ReadToken(r) \/ ConsumeToken(r) \/ FundingFails(r) \/ RollbackToken(r)
           \/ NewBillingSession(r) \/ TryWallet(r) \/ PreConsumeError(r)
  <2>1. pc[r] \in Before
    BY <1>1 DEF ReadToken, ConsumeToken, FundingFails, RollbackToken, NewBillingSession,
       TryWallet, PreConsumeError, Before
  <2>2. pc'[r] \in Before
    <3>1. ASSUME NEW q, TrySubscription(r, q) \/ Reject(r) PROVE pc'[r] \in Before
      BY <1>0, <3>1 DEF TrySubscription, Reject, Goto, PcOK, Before
    <3>2. ASSUME NEW src, Fallback(r, src) PROVE pc'[r] \in Before
      BY <1>0, <3>1, <3>2 DEF Fallback, Goto, PcOK, Before
    <3> QED
      BY <1>0, <1>1, <3>1, <3>2 DEF ReadToken, ConsumeToken, FundingFails, RollbackToken,
         NewBillingSession, TryWallet, PreConsumeError, Goto, PcOK, Before
  <2>3. ses'[r].sub = 0
    BY <1>1, <2>1, SubKept, SubFresh DEF SubBalance
  <2> QED
    BY <2>2, <2>3 DEF SubBalance
<1>2. CASE WalletPreConsume(r)
  <2>1. ses'[r].src = "wallet" /\ ses'[r].sub = 0
    BY <1>0, <1>2 DEF WalletPreConsume, Open, SesOK, Session
  <2> QED
    BY <2>1 DEF SubBalance
<1>3. CASE SubscriptionPreConsume(r)
  <2>1. /\ pc[r] = "funding" /\ pc'[r] = "open" /\ Flags(r)' = Flags(r) /\ ses[r].src = "sub"
        /\ ref'[r] = ref[r] /\ arg'[r] = arg[r]
        /\ Books(r)' = <<arg[r], ses[r].tokenConsumed, ses[r].extraReserved, arg[r],
                         ses[r].trusted>>
    BY <1>0, <1>3, SessionKept, OpenBooks DEF SubscriptionPreConsume, Open, Goto, PcOK,
       refunder
  <2>2. took'[r].sub = took[r].sub + arg[r]
    BY <1>3 DEF SubscriptionPreConsume, TypeOK
  <2>3. ref[r] = "none" /\ ~ ses[r].settled /\ ~ ses[r].fundingSettled /\ took[r].sub = 0
    BY <2>1 DEF Life, Flow, Consent, Before
  <2>4. FundingDue(r)' = arg[r]
    BY <2>1, <2>3 DEF FundingDue, RefundDue, Pending, ReserveStates, Before, Flags, Books
  <2>5. took'[r].sub + took'[r].again >= arg[r]
    <3>1. took'[r].again = took[r].again
      BY <1>3 DEF SubscriptionPreConsume, TypeOK
    <3> QED
      BY <2>2, <2>3, <3>1
  <2>6. ses'[r].src = "sub" /\ pc'[r] \notin Before
    BY <2>1 DEF Flags, Before
  <2> QED
    BY <2>4, <2>5, <2>6 DEF SubBalance
<1> QED
  BY <1>1, <1>2, <1>3

\* After that what a step takes or gives back is what the session books.
LEMMA OpenSub ==
  ASSUME TypeOK, NEW r \in Requests, SubBalance(r), ses'[r].sub = ses[r].sub,
         ses'[r].src = ses[r].src, pc[r] \notin Before, pc'[r] \notin Before,
         ses[r].src = "sub" =>
            /\ FundingDue(r) \in Int /\ FundingDue(r)' \in Int /\ took'[r].sub \in Int
            /\ took'[r].again = took[r].again
            /\ FundingDue(r)' + took[r].sub <= FundingDue(r) + took'[r].sub
  PROVE  SubBalance(r)'
<1>1. ses'[r].src # "sub" \/ pc'[r] \in Before => ses'[r].sub = 0
  BY DEF SubBalance
<1>2. ASSUME ses[r].src = "sub" PROVE took'[r].sub + took'[r].again >= FundingDue(r)'
  BY <1>2, Numbers DEF SubBalance
<1> QED
  BY <1>1, <1>2 DEF SubBalance

LEMMA AgainKept ==
  ASSUME TypeOK, NEW r \in Requests,
         \/ ReserveFunding(r) \/ ReserveReadToken(r) \/ ReserveConsumeToken(r)
         \/ RollbackFundingReserve(r) \/ SettleFunding(r) \/ SettleToken(r)
         \/ Refund(r) \/ RefundWallet(r) \/ RefundSubscription(r) \/ RefundExtra(r)
         \/ RefundToken(r)
         \/ (\E t \in Targets : Reserve(r, t)) \/ (\E a \in Actuals : SettleBilling(r, a))
  PROVE  took'[r].again = took[r].again
<1>1. ASSUME NEW n, \/ NoMove \/ DecreaseUserQuota(r, n) \/ DecreaseTokenQuota(r, n)
                    \/ PostConsumeUserSubscriptionDelta(r, n)
      PROVE  took'[r].again = took[r].again
  BY <1>1, Moved DEF Taken
<1> QED
  BY <1>1 DEF ReserveFunding, ReserveReadToken, ReserveConsumeToken, AdjustFunding,
     RollbackFundingReserve, SettleFunding, SettleToken, Refund, RefundWallet,
     RefundSubscription, RefundExtra, RefundToken, Reserve, SettleBilling, Settle

LEMMA DueType == ASSUME TypeOK, NEW r \in Requests PROVE FundingDue(r) \in Nat
  BY Numbers DEF FundingDue, RefundDue, Pending

LEMMA NextDueType ==
  ASSUME TypeOK', NEW r \in Requests
  PROVE  /\ FundingDue(r)' \in Nat /\ took'[r].sub \in Int
         /\ ses'[r].pre \in Nat /\ ses'[r].extraReserved \in Nat
<1>1. /\ took'[r].sub \in Int /\ arg'[r] \in Nat
      /\ ses'[r].pre \in Nat /\ ses'[r].extraReserved \in Nat
  BY DEF TypeOK, Session
<1> QED
  BY <1>1 DEF FundingDue, RefundDue, Pending

LEMMA ReservedSub ==
  ASSUME TypeOK, TypeOK', NEW r \in Requests, Life(r), Ledger(r), SubBalance(r),
         ReserveFunding(r) \/ ReserveReadToken(r) \/ ReserveConsumeToken(r)
         \/ RollbackFundingReserve(r) \/ \E t \in Targets : Reserve(r, t)
  PROVE  SubBalance(r)'
<1>0. PcOK /\ ReqOK /\ RefOK /\ SesOK
  BY TypeGroups
<1>1. Flags(r)' = Flags(r) /\ ses'[r].sub = ses[r].sub
  BY SessionKept, SubKept
<1>2. /\ pc[r] \in {"open", "resFunding", "resRead", "resDec", "resRollback"}
      /\ pc'[r] \in {"open", "resFunding", "resRead", "resDec", "resRollback"}
  BY <1>0 DEF ReserveFunding, ReserveReadToken, ReserveConsumeToken,
     RollbackFundingReserve, Reserve, Reserved, Goto, PcOK
<1>3. ref[r] = "none" /\ ref'[r] = "none" /\ ~ ses[r].settled /\ ~ ses[r].fundingSettled
  BY DEF Life, Flow, ReserveFunding, ReserveReadToken, ReserveConsumeToken,
     RollbackFundingReserve, Reserve, Reservable, refunder
<1>4. FundingDue(r) = ses[r].pre + Pending(r) /\ FundingDue(r)' = ses'[r].pre + Pending(r)'
  BY <1>1, <1>2, <1>3 DEF FundingDue, RefundDue, Flags, Before
<1>5. ASSUME ses[r].src = "sub"
      PROVE  ses'[r].pre + Pending(r)' + took[r].sub <= ses[r].pre + Pending(r) + took'[r].sub
  <2> USE Numbers
  <2>1. CASE \E t \in Targets : Reserve(r, t)
    <3>1. pc[r] = "open" /\ pc'[r] = "resFunding" /\ Books(r)' = Books(r)
          /\ Taken(r)' = Taken(r)
      BY <1>0, <2>1, FieldSet, Moved DEF Reserve, Goto, PcOK
    <3> QED
      BY <3>1 DEF Pending, ReserveStates, Books, Taken
  <2>2. CASE ReserveFunding(r)
    <3>1. pc[r] = "resFunding" /\ arg'[r] = arg[r]
      BY <2>2 DEF ReserveFunding
    <3>2. \/ /\ pc'[r] = "resRead" /\ ses'[r].pre = ses[r].pre
             /\ took'[r].sub = took[r].sub + arg[r]
          \/ pc'[r] = "open" /\ ses'[r].pre = ses[r].pre /\ took'[r].sub = took[r].sub
      <4>1. CASE AdjustFunding(r, arg[r]) /\ HeldChange(r, arg[r]) /\ Goto(r, "resRead")
        BY <1>0, <1>5, <4>1, HeldBooks, Moved DEF AdjustFunding, Goto, PcOK, Books, Taken
      <4>2. CASE NoMove /\ UNCHANGED ses /\ Goto(r, "open")
        BY <1>0, <4>2, FieldSet, Moved DEF Goto, PcOK, Books, Taken
      <4> QED
        BY <2>2, <4>1, <4>2 DEF ReserveFunding
    <3> QED
      BY <3>1, <3>2 DEF Pending, ReserveStates
  <2>3. CASE ReserveReadToken(r) \/ ReserveConsumeToken(r)
    <3>1. pc[r] \in {"resRead", "resDec"} /\ arg'[r] = arg[r] /\ took'[r].sub = took[r].sub
      BY <2>3, Moved DEF ReserveReadToken, ReserveConsumeToken, Taken
    <3>2. \/ pc'[r] = "open" /\ ses'[r].pre = ses[r].pre + arg[r]
          \/ pc'[r] \in {"resDec", "resRollback"} /\ ses'[r].pre = ses[r].pre
      BY <1>0, <2>3, FieldSet, ReservedBooks
      DEF ReserveReadToken, ReserveConsumeToken, Reserved, Goto, PcOK, Books
    <3> QED
      BY <3>1, <3>2 DEF Pending, ReserveStates
  <2>4. CASE RollbackFundingReserve(r)
    <3>1. pc[r] = "resRollback" /\ pc'[r] = "open" /\ arg'[r] = arg[r]
      BY <1>0, <2>4 DEF RollbackFundingReserve, Goto, PcOK
    <3>2. /\ ses'[r].pre = ses[r].pre
          /\ took'[r].sub = took[r].sub + -arg[r] \/ took'[r].sub = took[r].sub
      <4>1. CASE AdjustFunding(r, -arg[r]) /\ HeldChange(r, -arg[r])
        <5>1. -arg[r] \in Int
          OBVIOUS
        <5> QED
          BY <1>5, <4>1, <5>1, HeldBooks, Moved DEF AdjustFunding, Books, Taken
      <4>2. CASE NoMove /\ UNCHANGED ses
        BY <4>2, FieldSet, Moved DEF Books, Taken
      <4> QED
        BY <2>4, <4>1, <4>2 DEF RollbackFundingReserve
    <3> QED
      BY <3>1, <3>2 DEF Pending, ReserveStates
  <2> QED
    BY <2>1, <2>2, <2>3, <2>4
<1>6. FundingDue(r) \in Int /\ FundingDue(r)' \in Int /\ took'[r].sub \in Int
  BY DueType, NextDueType
<1>7. ses'[r].src = ses[r].src
  BY <1>1 DEF Flags
<1> QED
  BY <1>1, <1>2, <1>4, <1>5, <1>6, <1>7, AgainKept, OpenSub DEF Before

LEMMA SettledSub ==
  ASSUME TypeOK, TypeOK', NEW r \in Requests, Life(r), Ledger(r), SubBalance(r),
         SettleFunding(r) \/ SettleToken(r) \/ \E a \in Actuals : SettleBilling(r, a)
  PROVE  SubBalance(r)'
<1>0. PcOK /\ ReqOK /\ RefOK /\ SesOK
  BY TypeGroups
<1>1. /\ ses'[r].sub = ses[r].sub
      /\ pc[r] \in {"open", "setFunding", "setToken"}
      /\ pc'[r] \in {"open", "setFunding", "setToken"}
      /\ ref[r] = "none" /\ ref'[r] = "none" /\ ~ ses[r].settled
  BY <1>0, SubKept DEF Life, Flow, SettleBilling, HandlerRunning, Settle, SettleFunding,
     SettleToken, Goto, PcOK, refunder
<1>2. ses'[r].src = ses[r].src
  BY <1>0, FlagSet DEF SettleBilling, Settle, SettleFunding, SettleToken, Flags
<1>3. Books(r)' = Books(r)
  BY FieldSet DEF SettleBilling, Settle, SettleFunding, SettleToken
<1>4. ASSUME ses[r].src = "sub"
      PROVE  FundingDue(r)' + took[r].sub <= FundingDue(r) + took'[r].sub
  <2> USE Numbers
  <2>1. CASE \E a \in Actuals : SettleBilling(r, a)
    <3>1. /\ pc[r] = "open" /\ Taken(r)' = Taken(r) /\ ~ ses[r].fundingSettled
          /\ \/ /\ pc'[r] = "open" /\ arg'[r] = ses[r].pre
                /\ Flags(r)' = <<ses[r].src, TRUE, ses[r].refunded, ses[r].fundingSettled>>
             \/ pc'[r] = "setFunding" /\ Flags(r)' = Flags(r)
      BY <1>0, <1>1, <2>1, FieldSet, FlagSet, Moved DEF SettleBilling, Settle, Goto,
         PcOK, TypeOK, Life, Flow
    <3>2. FundingDue(r) = ses[r].pre
      BY <1>1, <3>1 DEF FundingDue, RefundDue, Pending, ReserveStates, Before
    <3>3. FundingDue(r)' = ses[r].pre
      <4>1. CASE pc'[r] = "open" /\ ses'[r].settled /\ arg'[r] = ses[r].pre
        BY <4>1 DEF FundingDue, Before
      <4>2. CASE pc'[r] = "setFunding" /\ Flags(r)' = Flags(r)
        BY <1>1, <1>3, <3>1, <4>2 DEF FundingDue, RefundDue, Pending, ReserveStates,
           Before, Flags, Books
      <4> QED
        BY <3>1, <4>1, <4>2 DEF Flags
    <3> QED
      BY <3>1, <3>2, <3>3 DEF Taken
  <2>2. CASE SettleFunding(r)
    <3>1. pc[r] = "setFunding" /\ arg'[r] = arg[r] /\ ~ ses[r].fundingSettled
      BY <1>1, <2>2 DEF SettleFunding, Life, Flow
    <3>2. FundingDue(r) = ses[r].pre
      BY <1>1, <3>1 DEF FundingDue, RefundDue, Pending, ReserveStates, Before
    <3>3. \/ pc'[r] = "setToken" /\ ses'[r].fundingSettled
             /\ took'[r].sub = took[r].sub + Delta(r)
          \/ pc'[r] = "open" /\ Flags(r)' = Flags(r) /\ took'[r].sub = took[r].sub
      BY <1>0, <1>4, <2>2, FieldSet, FlagSet, Moved
      DEF SettleFunding, AdjustFunding, Goto, PcOK, Flags, Taken
    <3>4. CASE pc'[r] = "setToken" /\ ses'[r].fundingSettled
               /\ took'[r].sub = took[r].sub + Delta(r)
      <4>1. FundingDue(r)' = arg[r]
        BY <3>1, <3>4 DEF FundingDue, Before
      <4> QED
        BY <3>2, <3>4, <4>1 DEF Delta
    <3>5. CASE pc'[r] = "open" /\ Flags(r)' = Flags(r) /\ took'[r].sub = took[r].sub
      <4>1. FundingDue(r)' = ses[r].pre
        BY <1>1, <1>3, <3>1, <3>5 DEF FundingDue, RefundDue, Pending, ReserveStates,
           Before, Flags, Books
      <4> QED
        BY <3>2, <3>5, <4>1
    <3> QED
      BY <3>3, <3>4, <3>5
  <2>3. CASE SettleToken(r)
    <3>1. /\ pc[r] = "setToken" /\ pc'[r] = "open" /\ arg'[r] = arg[r]
          /\ took'[r].sub = took[r].sub /\ ses[r].fundingSettled /\ ses'[r].settled
      BY <1>0, <2>3, Moved, FlagSet DEF SettleToken, Goto, PcOK, Taken, Flags, Ledger,
         Booked
    <3>2. FundingDue(r) = arg[r] /\ FundingDue(r)' = arg[r]
      BY <3>1 DEF FundingDue, Before
    <3> QED
      BY <3>1, <3>2
  <2> QED
    BY <2>1, <2>2, <2>3
<1>5. FundingDue(r) \in Int /\ FundingDue(r)' \in Int /\ took'[r].sub \in Int
  BY DueType, NextDueType
<1> QED
  BY <1>1, <1>2, <1>4, <1>5, AgainKept, OpenSub DEF Before

LEMMA RefundedSub ==
  ASSUME TypeOK, TypeOK', NEW r \in Requests, Life(r), Ledger(r), SubBalance(r),
         Refund(r) \/ RefundStep(r)
  PROVE  SubBalance(r)'
<1>0. PcOK /\ ReqOK /\ RefOK /\ SesOK /\ RecordOK
  BY TypeGroups
<1>1. /\ ses'[r].sub = ses[r].sub /\ pc[r] = "open" /\ pc'[r] = "open"
      /\ ~ ses[r].settled /\ ~ ses[r].fundingSettled
  BY <1>0, SubKept DEF Life, Flow, Refund, Refundable, NeedsRefund, RefundStep,
     RefundWallet, RefundSubscription, RefundSave, RefundExtra, RefundToken
<1>2. /\ Books(r)' = Books(r) /\ ses'[r].src = ses[r].src
      /\ ~ ses'[r].settled /\ ~ ses'[r].fundingSettled
  <2>1. CASE Refund(r)
    BY <1>1, <2>1, FieldSet, FlagSet DEF Refund, Flags
  <2>2. CASE RefundStep(r)
    BY <1>1, <2>2, FieldSet, SessionKept DEF RefundStep, RefundWallet, RefundSubscription,
       RefundSave, RefundExtra, RefundToken, Flags
  <2> QED
    BY <2>1, <2>2
<1> DEFINE Lost == RefundSave(r) /\ record'[r] # "refunded" /\ ref'[r] = "funding"
<1>3. FundingDue(r) = RefundDue(r) /\ FundingDue(r)' = RefundDue(r)'
  <2>1. RefundDue(r) \in Nat /\ RefundDue(r)' \in Nat
    BY Numbers, NextDueType DEF RefundDue
  <2> QED
    BY <1>1, <1>2, <2>1 DEF FundingDue, Pending, ReserveStates, Before
<1>4. ASSUME ses[r].src = "sub", ~ Lost
      PROVE  RefundDue(r)' + took[r].sub <= RefundDue(r) + took'[r].sub
  <2> USE Numbers
  <2>0. ses[r].pre = ses[r].held + ses[r].extraReserved
    BY <1>1, <1>4 DEF Ledger, Booked, Before
  <2>1. CASE Refund(r)
    <3>1. /\ ref[r] = "none" /\ ref'[r] = "funding" /\ Taken(r)' = Taken(r)
          /\ record'[r] = record[r]
      BY <1>0, <2>1, Moved DEF Refund, Refundable, RefOK, Life, Flow
    <3>2. ~ AlreadyRefunded(r) /\ ~ AlreadyRefunded(r)'
      BY <3>1 DEF Ledger, Booked, AlreadyRefunded
    <3> QED
      BY <1>2, <3>1, <3>2 DEF RefundDue, Books, Taken
  <2>2. CASE RefundSubscription(r)
    <3>1. AttemptFails(r) => ref'[r] \in {"funding", "extra"}
      BY <1>0 DEF AttemptFails, RefGoto, RefOK
    <3>2. /\ ref[r] = "funding" /\ record'[r] = record[r]
          /\ \/ /\ ref'[r] = "extra" /\ took'[r].sub = took[r].sub
                /\ AlreadyRefunded(r) \/ ses[r].held = 0
             \/ /\ ref'[r] = "save" /\ ~ AlreadyRefunded(r)
                /\ took'[r].sub = took[r].sub + -ses[r].held
             \/ ref'[r] \in {"funding", "extra"} /\ took'[r].sub = took[r].sub
      BY <1>0, <2>2, <3>1, Moved DEF RefundSubscription, RefGoto, RefOK, Taken
    <3> QED
      BY <1>2, <1>4, <2>0, <3>2 DEF RefundDue, AlreadyRefunded, Books
  <2>3. CASE RefundSave(r)
    <3>1. /\ ref[r] = "save" /\ took'[r].sub = took[r].sub
          /\ \/ ref'[r] = "extra"
             \/ ref'[r] = "funding" /\ record'[r] = "refunded"
      <4>1. ref[r] = "save" /\ ref'[r] \in {"extra", "funding"}
        BY <1>0, <2>3 DEF RefundSave, AttemptFails, RefGoto, RefOK
      <4>2. took'[r].sub = took[r].sub
        BY <2>3, Saved DEF Taken
      <4> QED
        BY <1>4, <2>3, <4>1, <4>2
    <3> QED
      BY <1>2, <1>4, <3>1 DEF RefundDue, AlreadyRefunded, Books
  <2>4. CASE RefundExtra(r)
    <3>1. /\ ref[r] = "extra" /\ ref'[r] = "token"
          /\ \/ took'[r].sub = took[r].sub
             \/ took'[r].sub = took[r].sub + -ses[r].extraReserved
      BY <1>0, <2>4, Moved DEF RefundExtra, RefGoto, RefOK, Taken
    <3> QED
      BY <1>2, <1>4, <3>1 DEF RefundDue, Books
  <2>5. CASE RefundToken(r) \/ RefundWallet(r)
    <3>1. ref[r] = "token" /\ ref'[r] = "done" /\ took'[r].sub = took[r].sub
      BY <1>0, <1>4, <2>5, Moved DEF RefundToken, RefundWallet, RefGoto, RefOK, Taken
    <3> QED
      BY <3>1 DEF RefundDue
  <2> QED
    BY <2>1, <2>2, <2>3, <2>4, <2>5 DEF RefundStep
<1>5. FundingDue(r) \in Int /\ FundingDue(r)' \in Int /\ took'[r].sub \in Int
  BY DueType, NextDueType
<1>6. CASE Lost /\ ses[r].src = "sub"
  <2>1. /\ took'[r].sub = took[r].sub /\ took'[r].again = took[r].again + ses[r].held
        /\ record'[r] = record[r]
    BY <1>6, Saved DEF Taken
  <2>2. ref[r] = "save" /\ ref'[r] = "funding"
    BY <1>6 DEF RefundSave
  <2>3. RefundDue(r) = ses[r].extraReserved /\ RefundDue(r)' = ses[r].pre
    BY <1>2, <1>6, <2>1, <2>2 DEF RefundDue, AlreadyRefunded, Books
  <2>4. ses[r].pre = ses[r].held + ses[r].extraReserved
    BY <1>1, <1>6 DEF Ledger, Booked, Before
  <2>5. took[r].sub + took[r].again >= RefundDue(r)
    BY <1>1, <1>3, <1>6 DEF SubBalance, Before
  <2>6. took'[r].sub + took'[r].again >= FundingDue(r)'
    BY <1>3, <2>1, <2>3, <2>4, <2>5, Numbers
  <2> QED
    BY <1>1, <1>2, <1>6, <2>6 DEF SubBalance, Before
<1>7. CASE ~ Lost \/ ses[r].src # "sub"
  <2>1. took'[r].again = took[r].again
    <3>1. CASE RefundSave(r)
      <4>1. ses[r].src = "sub" /\ record[r] # "refunded"
        BY <1>1, <3>1 DEF RefundSave, Life, Flow, Ledger, Booked
      <4>2. Taken(r)' = Taken(r)
        BY <1>7, <3>1, <4>1, Saved
      <4> QED
        BY <4>2 DEF Taken
    <3> QED
      BY <3>1, AgainKept DEF RefundStep
  <2> QED
    BY <1>1, <1>2, <1>3, <1>4, <1>5, <1>7, <2>1, OpenSub DEF Before
<1> QED
  BY <1>6, <1>7

LEMMA ApartKeepsSub ==
  ASSUME NEW q, SubBalance(q),
         pc'[q] = pc[q], ref'[q] = ref[q], ses'[q] = ses[q], took'[q] = took[q],
         arg'[q] = arg[q], record'[q] = record[q]
  PROVE  SubBalance(q)'
  BY DEF SubBalance, FundingDue, RefundDue, Pending, AlreadyRefunded

LEMMA NextSubBalance ==
  ASSUME LedgerInv, LedgerInv', [Next]_vars, NEW q \in Requests, SubBalance(q)
  PROVE  SubBalance(q)'
<1>1. TypeOK /\ TypeOK' /\ Life(q) /\ Ledger(q)
  BY DEF LedgerInv, LifeInv, TypeInv
<1>2. ASSUME Step(q) PROVE SubBalance(q)'
  BY <1>1, <1>2, OpeningSub, ReservedSub, SettledSub, RefundedSub DEF Step, CallStep
<1>3. ASSUME NEW r \in Requests, Step(r), q # r PROVE SubBalance(q)'
  BY <1>1, <1>3, StepApart, StepApartLog, ApartKeepsSub DEF Apart
<1>4. CASE UNCHANGED vars \/ \E s \in Subs : ResetSubscription(s)
  BY <1>4, ApartKeepsSub DEF vars, ResetSubscription, refunder
<1> QED
  BY <1>2, <1>3, <1>4 DEF Next, Step

\* What has been taken from one subscription for each request; and that it is
\* all in amount_used, which clamping at 0 can only make larger, until the
\* subscription is reset for a new period.
SubOf(s) == [r \in Requests |-> IF ses[r].sub = s THEN took[r].sub ELSE 0]
SubHeld ==
    resets = 0 => \A s \in Subs : \E n \in Int : Total(SubOf(s), n) /\ n <= subUsed[s]

LEMMA SubOfType == ASSUME TypeOK, NEW s PROVE SubOf(s) \in [Requests -> Int]
  BY Numbers DEF SubOf

\* A step takes no more from a subscription than amount_used grows by.
LEMMA StepUsed ==
  ASSUME TypeOK, TypeOK', NEW r \in Requests, Life(r), SubBalance(r), Step(r),
         NEW s \in Subs
  PROVE  subUsed[s] + SubOf(s)'[r] <= subUsed'[s] + SubOf(s)[r]
<1> DEFINE Goal == subUsed[s] + SubOf(s)'[r] <= subUsed'[s] + SubOf(s)[r]
           Kept == subUsed'[s] = subUsed[s] /\ took'[r].sub = took[r].sub
<1> SUFFICES Goal
  OBVIOUS
<1>0. /\ subUsed[s] \in Nat /\ took[r].sub \in Int /\ arg[r] \in Nat
      /\ ses[r].held \in Nat /\ ses[r].extraReserved \in Nat /\ ses[r].pre \in Nat
  BY Numbers DEF TypeOK
<1>1. /\ SubOf(s)[r] = (IF ses[r].sub = s THEN took[r].sub ELSE 0)
      /\ SubOf(s)'[r] = (IF ses'[r].sub = s THEN took'[r].sub ELSE 0)
  BY DEF SubOf
<1>2. s # 0
  BY SubAssumption
<1>3. ASSUME NEW n, NoMove \/ DecreaseUserQuota(r, n) \/ DecreaseTokenQuota(r, n)
      PROVE  Kept
  BY <1>3 DEF NoMove, db, DecreaseUserQuota, DecreaseTokenQuota, TypeOK
<1>4. ASSUME NEW n \in Int, PostConsumeUserSubscriptionDelta(r, n)
      PROVE  /\ took'[r].sub = took[r].sub + n
             /\ ses[r].sub = s => subUsed'[s] >= subUsed[s] + n
             /\ ses[r].sub # s => subUsed'[s] = subUsed[s]
  BY <1>0, <1>4 DEF PostConsumeUserSubscriptionDelta, TypeOK, Max0
<1>5. ASSUME NEW n \in Int, PostConsumeUserSubscriptionDelta(r, n),
             ses'[r].sub = ses[r].sub
      PROVE  Goal
  <2>1. subUsed'[s] \in Nat
    BY DEF TypeOK
  <2> QED
    BY <1>0, <1>1, <1>4, <1>5, <2>1
<1>6. ASSUME Kept, ses'[r].sub = ses[r].sub PROVE Goal
  BY <1>0, <1>1, <1>6
<1>7. ASSUME Kept, pc[r] \in Before PROVE Goal
  <2>1. took[r].sub = 0
    BY <1>7 DEF Life, Consent
  <2> QED
    BY <1>0, <1>1, <1>7, <2>1
<1>8. -arg[r] \in Int /\ Delta(r) \in Int /\ -ses[r].held \in Int
      /\ -ses[r].extraReserved \in Int /\ arg[r] \in Int
  BY <1>0 DEF Delta
<1>9. CASE SubscriptionPreConsume(r)
  <2>1. ses[r].sub = 0 /\ took[r].sub = 0
    BY <1>9 DEF SubscriptionPreConsume, SubBalance, Life, Consent, Before
  <2>2. PICK t \in Subs : /\ subUsed' = [subUsed EXCEPT ![t] = @ + arg[r]]
                          /\ took' = [took EXCEPT ![r].sub = @ + arg[r]]
                          /\ Open(r, t, arg[r])
    BY <1>9 DEF SubscriptionPreConsume
  <2>3. ses'[r].sub = t /\ took'[r].sub = arg[r]
    BY <1>0, <2>1, <2>2 DEF Open, TypeOK, Session
  <2>4. subUsed'[s] = IF s = t THEN subUsed[s] + arg[r] ELSE subUsed[s]
    BY <2>2 DEF TypeOK
  <2> HIDE DEF Kept
  <2> QED
    BY <1>0, <1>1, <1>2, <2>1, <2>3, <2>4
<1> HIDE DEF Goal
<1>10. CASE \/ NewBillingSession(r) \/ TryWallet(r) \/ ReadToken(r) \/ FundingFails(r)
            \/ PreConsumeError(r) \/ ConsumeToken(r) \/ RollbackToken(r)
            \/ WalletPreConsume(r)
  <2>1. Kept
    <3> HIDE DEF Kept
    <3> QED
      BY <1>3, <1>10 DEF NewBillingSession, TryWallet, ReadToken, FundingFails,
         PreConsumeError, ConsumeToken, RollbackToken, WalletPreConsume
  <2>2. pc[r] \in Before
    BY <1>10 DEF ReadToken, ConsumeToken, FundingFails, RollbackToken, NewBillingSession,
       TryWallet, PreConsumeError, WalletPreConsume, Before
  <2> QED
    BY <1>7, <2>1, <2>2
<1>11. CASE \/ ReserveReadToken(r) \/ ReserveConsumeToken(r) \/ SettleToken(r) \/ Refund(r)
            \/ RefundToken(r) \/ RefundWallet(r) \/ RefundSave(r)
            \/ (\E t \in Targets : Reserve(r, t)) \/ (\E a \in Actuals : SettleBilling(r, a))
  <2>1. Kept
    <3>1. RefundSave(r) => Kept
      BY Saved DEF RefundSave, Taken
    <3> HIDE DEF Kept
    <3> QED
      BY <1>3, <1>11, <3>1 DEF ReserveReadToken, ReserveConsumeToken, SettleToken, Refund,
         RefundToken, RefundWallet, Reserve, SettleBilling, Settle
  <2> QED
    BY <1>6, <1>11, <2>1, SubKept DEF RefundStep
<1>12. CASE \/ ReserveFunding(r) \/ RollbackFundingReserve(r) \/ SettleFunding(r)
            \/ RefundSubscription(r) \/ RefundExtra(r)
  <2>1. ses'[r].sub = ses[r].sub
    BY <1>12, SubKept DEF RefundStep
  <2>2. \/ Kept
        \/ \E n \in Int : PostConsumeUserSubscriptionDelta(r, n)
    <3> HIDE DEF Kept
    <3> QED
      BY <1>3, <1>8, <1>12 DEF ReserveFunding, RollbackFundingReserve, SettleFunding,
         RefundSubscription, RefundExtra, AdjustFunding
  <2> HIDE DEF Kept
  <2> QED
    BY <1>5, <1>6, <2>1, <2>2
<1> QED
  BY <1>9, <1>10, <1>11, <1>12 DEF Step, CallStep, RefundStep

SubInv == LedgerInv /\ (\A r \in Requests : SubBalance(r)) /\ SubHeld

LEMMA InitSubInv == Init => SubInv
<1> SUFFICES ASSUME Init PROVE (\A r \in Requests : SubBalance(r)) /\ SubHeld
  BY InitLedgerInv DEF SubInv
<1>1. ASSUME NEW r \in Requests PROVE SubBalance(r)
  BY DEF Init, SubBalance, NewSession, Before
<1>2. ASSUME NEW s \in Subs PROVE Total(SubOf(s), 0) /\ 0 <= subUsed[s]
  <2>1. \A r \in Requests : SubOf(s)[r] = 0
    BY DEF Init, SubOf
  <2> QED
    BY <2>1, TotalOfNothing DEF Init
<1> QED
  BY <1>1, <1>2 DEF SubHeld

LEMMA NextSubHeld ==
  ASSUME SubInv, TypeOK', [Next]_vars
  PROVE  SubHeld'
<1>0. TypeOK /\ \A r \in Requests : Life(r) /\ SubBalance(r)
  BY DEF SubInv, LedgerInv, LifeInv, TypeInv
<1>1. ASSUME NEW r \in Requests, Step(r), NEW s \in Subs, NEW n \in Int,
             Total(SubOf(s), n), n <= subUsed[s]
      PROVE  \E m \in Int : Total(SubOf(s)', m) /\ m <= subUsed'[s]
  <2> DEFINE f == SubOf(s)
             h == SubOf(s)'
  <2>1. f \in [Requests -> Int]
    BY <1>0, SubOfType
  <2>2. h \in [Requests -> Int]
    <3>1. \A q \in Requests : took'[q].sub \in Int
      BY DEF TypeOK
    <3> QED
      BY <3>1 DEF SubOf
  <2>3. \A q \in Requests \ {r} : h[q] = f[q]
    BY <1>0, <1>1, StepApart DEF Apart, SubOf
  <2>4. subUsed[s] + h[r] <= subUsed'[s] + f[r]
    BY <1>0, <1>1, StepUsed
  <2>5. subUsed[s] \in Nat /\ subUsed'[s] \in Nat
    BY <1>0 DEF TypeOK
  <2>6. Total(f, n)
    BY <1>1
  <2> HIDE DEF f, h
  <2>7. Total(h, n + h[r] - f[r])
    BY <2>1, <2>2, <2>3, <2>6, TotalChanges
  <2>8. f[r] \in Int /\ h[r] \in Int
    BY <2>1, <2>2
  <2>9. n + h[r] - f[r] \in Int /\ n + h[r] - f[r] <= subUsed'[s]
    BY <1>1, <2>4, <2>5, <2>8
  <2> QED
    BY <2>7, <2>9 DEF h
<1>2. ASSUME NEW r \in Requests, Step(r) PROVE resets' = resets
  BY <1>2 DEF Step, CallStep, RefundStep, NewBillingSession, TryWallet, ReadToken,
     ConsumeToken, WalletPreConsume, SubscriptionPreConsume, FundingFails, RollbackToken,
     PreConsumeError, Fallback, ReserveFunding, ReserveReadToken, ReserveConsumeToken,
     RollbackFundingReserve, SettleFunding, SettleToken, Reserve, SettleBilling,
     Settle, Refund, RefundWallet, RefundSubscription, RefundSave, RefundExtra,
     RefundToken, AttemptFails, NoFault, Fault, bounds
<1>3. ASSUME NEW r \in Requests, Step(r) PROVE SubHeld'
  BY <1>1, <1>2, <1>3 DEF SubInv, SubHeld
<1>4. CASE UNCHANGED vars
  BY <1>4 DEF vars, SubInv, SubHeld, SubOf
<1>5. CASE \E s \in Subs : ResetSubscription(s)
  <2>1. resets' # 0
    BY <1>0, <1>5 DEF ResetSubscription, TypeOK
  <2> QED
    BY <2>1 DEF SubHeld
<1> QED
  BY <1>3, <1>4, <1>5 DEF Next, Step

LEMMA NextSubInv == SubInv /\ [Next]_vars => SubInv'
<1> SUFFICES ASSUME SubInv, [Next]_vars PROVE SubInv'
  OBVIOUS
<1>1. LedgerInv /\ LedgerInv' /\ TypeOK'
  BY NextLedgerInv DEF SubInv, LedgerInv, LifeInv, TypeInv
<1>2. \A r \in Requests : SubBalance(r)'
  BY <1>1, NextSubBalance DEF SubInv
<1> QED
  BY <1>1, <1>2, NextSubHeld DEF SubInv

\* What each session's share of a subscription is has been taken for it.
LEMMA ShareTaken ==
  ASSUME SubInv, NEW s \in Subs, NEW S, S = {r \in Requests : ses[r].sub = s},
         NEW r \in Requests
  PROVE  PartOf(S)[r] <= SubOf(s)[r]
<1>1. TypeOK /\ Life(r) /\ Ledger(r) /\ SubBalance(r) /\ s # 0
  BY SubAssumption DEF SubInv, LedgerInv, LifeInv, TypeInv
<1>2. /\ PartOf(S)[r] = (IF ses[r].sub = s THEN Share(r) ELSE 0)
      /\ SubOf(s)[r] = (IF ses[r].sub = s THEN took[r].sub ELSE 0)
  BY DEF PartOf, SubOf
<1>3. /\ took[r].sub \in Int /\ took[r].again \in Nat
      /\ HeldOf(r) \in Nat /\ FundingDue(r) \in Nat
  BY <1>1, Numbers, DueType DEF HeldOf
<1>4. ASSUME ses[r].sub = s PROVE took[r].sub + took[r].again >= FundingDue(r)
  BY <1>1, <1>4 DEF SubBalance
<1>5. HeldNow(r) <= FundingDue(r) /\ HeldNow(r) \in Nat
  <2>1. CASE Quiet(r) /\ ~ ses[r].refunded
    <3>1. pc[r] = "open" /\ ref[r] = "none"
      BY <1>1, <2>1 DEF Quiet, Life, Flow
    <3>2. ses[r].settled \/ ~ ses[r].fundingSettled
      BY <1>1, <3>1 DEF Life, Flow
    <3>3. FundingDue(r) = HeldOf(r)
      BY <1>1, <3>1, <3>2, Numbers DEF FundingDue, RefundDue, HeldOf, Pending,
         ReserveStates, Before
    <3> QED
      BY <1>3, <2>1, <3>3 DEF HeldNow
  <2>2. CASE ~ (Quiet(r) /\ ~ ses[r].refunded)
    BY <1>3, <2>2 DEF HeldNow
  <2> QED
    BY <2>1, <2>2
<1>6. Share(r) = HeldNow(r) - took[r].again
  BY DEF Share
<1> QED
  BY <1>2, <1>3, <1>4, <1>5, <1>6

LEMMA SubInvMeans == SubInv => SubscriptionKeepsShares
<1> SUFFICES ASSUME SubInv, resets = 0, NEW s \in Subs,
                    NEW S, S = {r \in Requests : ses[r].sub = s}
             PROVE  subUsed[s] >= MapThenSumSet(Share, S)
  BY DEF SubscriptionKeepsShares
<1>1. TypeOK /\ subUsed[s] \in Nat
  BY DEF SubInv, LedgerInv, LifeInv, TypeInv, TypeOK
<1>2. PICK n \in Int : Total(SubOf(s), n) /\ n <= subUsed[s]
  BY DEF SubInv, SubHeld
<1> DEFINE m == MapThenSumSet(Share, S)
<1>3. Total(PartOf(S), m)
  BY <1>1, SumIsTotal
<1> HIDE DEF m
<1>4. PartOf(S) \in [Requests -> Int] /\ SubOf(s) \in [Requests -> Int]
  BY <1>1, PartType, SubOfType
<1>5. \A r \in Requests : PartOf(S)[r] <= SubOf(s)[r]
  BY ShareTaken
<1>6. m \in Int /\ m <= n
  BY <1>2, <1>3, <1>4, <1>5, TotalMonotone
<1>7. subUsed[s] >= m
  BY <1>1, <1>2, <1>6
<1> QED
  BY <1>7 DEF m

\* RefundSubscriptionPreConsume, without any assumption on what fails: until a
\* reset, a subscription is charged what its requests hold of it or were settled
\* with, less exactly the amounts that are given back again because the record of
\* an attempt was rolled back after the quota had been returned.
THEOREM BillingSubscriptionKeepsShares == Spec => []SubscriptionKeepsShares
  BY InitSubInv, NextSubInv, SubInvMeans, PTL DEF Spec

=============================================================================
