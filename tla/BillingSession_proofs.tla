------------------------ MODULE BillingSession_proofs ------------------------
(***************************************************************************)
(* Proofs about BillingSession, for any number of requests and             *)
(* subscriptions, any amounts, any number of faults and resets.            *)
(***************************************************************************)
EXTENDS BillingSession, TLAPS

-----------------------------------------------------------------------------
(* Type correctness, by groups of variables: the balances, the session     *)
(* objects and the control state.                                          *)

Amounts == [wallet : Int, sub : Int, token : Int, again : Nat]
MoneyOK ==
    /\ wallet \in Int /\ token \in Int
    /\ subUsed \in [Subs -> Nat]
    /\ took \in [Requests -> Amounts]
SesOK == ses \in [Requests -> Session]
PcOK ==
    pc \in [Requests -> {"idle", "open", "rejected"} \cup PreStates \cup CallStates]
ArgOK == arg \in [Requests -> Nat]
ReqOK ==
    req \in [Requests -> [pref : AllPrefs, playground : BOOLEAN,
                          force : BOOLEAN, quota : Nat, authQuota : Int]]
RefOK ==
    /\ ref \in [Requests -> {"none", "funding", "save", "extra", "token", "done"}]
    /\ attempts \in [Requests -> 0 .. MaxAttempts]
RecordOK == record \in [Requests -> {"none", "consumed", "refunded"}]
LogOK == logged \in [Requests -> SUBSET Lines]
BoundsOK == faults \in 0 .. MaxFaults /\ resets \in 0 .. MaxResets

LEMMA TypeGroups ==
  TypeOK <=> /\ MoneyOK /\ SesOK /\ PcOK /\ ArgOK /\ ReqOK /\ RefOK
             /\ RecordOK /\ LogOK /\ BoundsOK
  BY DEF TypeOK, MoneyOK, SesOK, PcOK, ArgOK, ReqOK, RefOK, RecordOK, LogOK,
         BoundsOK, Amounts

\* What a rollback of a reservation takes back was held.
RollbackHeld ==
    \A r \in Requests :
        pc[r] \in {"resRead", "resDec", "resRollback"} /\ ses[r].src = "wallet"
            => arg[r] <= ses[r].held

TypeInv == TypeOK /\ RollbackHeld

\* The three operations that move quota.
LEMMA UserQuotaType ==
  ASSUME MoneyOK, NEW r \in Requests, NEW n \in Int, DecreaseUserQuota(r, n)
  PROVE  MoneyOK'
  BY DEF MoneyOK, DecreaseUserQuota, Amounts

LEMMA TokenQuotaType ==
  ASSUME MoneyOK, NEW r \in Requests, NEW n \in Int, DecreaseTokenQuota(r, n)
  PROVE  MoneyOK'
  BY DEF MoneyOK, DecreaseTokenQuota, Amounts

LEMMA SubDeltaType ==
  ASSUME MoneyOK, NEW r \in Requests, NEW n \in Int, 
         PostConsumeUserSubscriptionDelta(r, n)
  PROVE  MoneyOK'
<1>1. took' \in [Requests -> Amounts]
  BY DEF MoneyOK, PostConsumeUserSubscriptionDelta, Amounts
<1>2. subUsed' \in [Subs -> Nat]
  <2>1. \A s \in Subs : Max0(subUsed[s] + n) \in Nat
    BY DEF MoneyOK, Max0
  <2> QED
    BY <2>1 DEF MoneyOK, PostConsumeUserSubscriptionDelta
<1> QED
  BY <1>1, <1>2 DEF MoneyOK, PostConsumeUserSubscriptionDelta

LEMMA AdjustType ==
  ASSUME MoneyOK, NEW r \in Requests, NEW n \in Int, AdjustFunding(r, n)
  PROVE  MoneyOK'
  BY UserQuotaType, SubDeltaType DEF AdjustFunding

LEMMA NoMoveType == MoneyOK /\ NoMove => MoneyOK'
  BY DEF MoneyOK, NoMove, db

LEMMA NewSessionType ==
  ASSUME NEW src \in {"none", "wallet", "sub"}
  PROVE  NewSession(src) \in Session
  BY DEF NewSession, Session

LEMMA FieldTypes ==
  ASSUME SesOK, NEW r \in Requests
  PROVE  /\ ses[r].src \in {"none", "wallet", "sub"} /\ ses[r].sub \in Subs \cup {0}
         /\ ses[r].pre \in Nat /\ ses[r].tokenConsumed \in Nat
         /\ ses[r].extraReserved \in Nat /\ ses[r].held \in Nat
         /\ ses[r].trusted \in BOOLEAN /\ ses[r].fundingSettled \in BOOLEAN
         /\ ses[r].settled \in BOOLEAN /\ ses[r].refunded \in BOOLEAN
         /\ ses[r] \in Session
<1>1. ses[r] \in Session
  BY DEF SesOK
<1> QED
  BY <1>1 DEF Session

LEMMA InitTypeInv == Init => TypeInv
  BY NumAssumption, NewSessionType
  DEF Init, TypeInv, TypeOK, RollbackHeld, AllPrefs, MaxAttempts, CallStates, Lines

LEMMA NextMoney == TypeOK /\ [Next]_vars => MoneyOK'
<1> SUFFICES ASSUME MoneyOK, SesOK, ArgOK, [Next]_vars PROVE MoneyOK'
  BY TypeGroups
<1> USE NoMoveType, FieldTypes
<1>1. ASSUME NEW r \in Requests, NewBillingSession(r) PROVE MoneyOK'
  BY <1>1 DEF NewBillingSession
<1>2. ASSUME NEW r \in Requests, CallStep(r) PROVE MoneyOK'
  <2>0. arg[r] \in Nat
    BY DEF ArgOK
  <2>1. CASE TryWallet(r) \/ ReadToken(r) \/ FundingFails(r) \/ PreConsumeError(r)
             \/ ReserveReadToken(r)
    BY <2>1 DEF TryWallet, ReadToken, FundingFails, PreConsumeError, ReserveReadToken
  <2>3. CASE ConsumeToken(r) \/ ReserveConsumeToken(r)
    BY <2>0, <2>3, TokenQuotaType DEF ConsumeToken, ReserveConsumeToken
  <2>4. CASE WalletPreConsume(r)
    BY <2>0, <2>4, UserQuotaType DEF WalletPreConsume
  <2>5. CASE SubscriptionPreConsume(r)
    <3>1. took' \in [Requests -> Amounts]
      BY <2>0, <2>5 DEF SubscriptionPreConsume, MoneyOK, Amounts
    <3>2. subUsed' \in [Subs -> Nat]
      BY <2>0, <2>5 DEF SubscriptionPreConsume, MoneyOK
    <3> QED
      BY <3>1, <3>2, <2>5 DEF SubscriptionPreConsume, MoneyOK
  <2>7. CASE RollbackToken(r)
    <3>1. -TokenHeld(r) \in Int
      BY DEF TokenHeld
    <3> QED
      BY <2>7, <3>1, TokenQuotaType DEF RollbackToken
  <2>9. CASE ReserveFunding(r)
    BY <2>0, <2>9, AdjustType DEF ReserveFunding
  <2>12. CASE RollbackFundingReserve(r)
    BY <2>0, <2>12, AdjustType DEF RollbackFundingReserve
  <2>13. CASE SettleFunding(r) \/ SettleToken(r)
    <3>1. Delta(r) \in Int
      BY <2>0 DEF Delta
    <3> QED
      BY <2>13, <3>1, AdjustType, TokenQuotaType DEF SettleFunding, SettleToken
  <2> QED
    BY <1>2, <2>1, <2>3, <2>4, <2>5, <2>7, <2>9, <2>12, <2>13 DEF CallStep
<1>3. ASSUME NEW r \in Requests, NEW n, Reserve(r, n) \/ SettleBilling(r, n) PROVE MoneyOK'
  BY <1>3 DEF Reserve, SettleBilling, Settle
<1>5. ASSUME NEW r \in Requests, Refund(r) PROVE MoneyOK'
  BY <1>5 DEF Refund
<1>6. ASSUME NEW r \in Requests, RefundStep(r) PROVE MoneyOK'
  <2>1. CASE RefundWallet(r)
    BY <2>1, UserQuotaType DEF RefundWallet
  <2>2. CASE RefundSubscription(r)
    BY <2>2, SubDeltaType DEF RefundSubscription
  <2>3. CASE RefundSave(r)
    <3> DEFINE n == IF ref'[r] = "funding" THEN ses[r].held ELSE 0
    <3>1. n \in Nat
      OBVIOUS
    <3>2. took' = took \/ took' = [took EXCEPT ![r].again = @ + n]
      BY <2>3 DEF RefundSave
    <3> HIDE DEF n
    <3>3. took' \in [Requests -> Amounts]
      BY <3>1, <3>2 DEF MoneyOK, Amounts
    <3> QED
      BY <2>3, <3>3 DEF RefundSave, MoneyOK
  <2>4. CASE RefundExtra(r)
    BY <2>4, SubDeltaType DEF RefundExtra
  <2>5. CASE RefundToken(r)
    <3>1. -TokenHeld(r) \in Int
      BY DEF TokenHeld
    <3> QED
      BY <2>5, <3>1, TokenQuotaType DEF RefundToken
  <2> QED
    BY <1>6, <2>1, <2>2, <2>3, <2>4, <2>5 DEF RefundStep
<1>7. ASSUME NEW s \in Subs, ResetSubscription(s) PROVE MoneyOK'
  BY <1>7 DEF ResetSubscription, MoneyOK
<1>8. CASE UNCHANGED vars
  BY <1>8 DEF vars, MoneyOK
<1> QED
  BY <1>1, <1>2, <1>3, <1>5, <1>6, <1>7, <1>8 DEF Next

LEMMA MovesKeepRecord ==
  ASSUME NEW r, NEW n
  PROVE  /\ DecreaseUserQuota(r, n) => UNCHANGED record
         /\ DecreaseTokenQuota(r, n) => UNCHANGED record
         /\ PostConsumeUserSubscriptionDelta(r, n) => UNCHANGED record
         /\ AdjustFunding(r, n) => UNCHANGED record
  BY DEF DecreaseUserQuota, DecreaseTokenQuota, PostConsumeUserSubscriptionDelta,
         AdjustFunding

LEMMA GotoType ==
  ASSUME PcOK, NEW r \in Requests,
         NEW l \in {"idle", "open", "rejected"} \cup PreStates \cup CallStates, Goto(r, l)
  PROVE  PcOK'
  BY DEF PcOK, Goto

LEMMA Labels ==
  {"idle", "open", "rejected", "wallet", "tokenRead", "tokenDec", "funding", "rollback",
   "resFunding", "resRead", "resDec", "resRollback", "setFunding", "setToken"}
    \subseteq {"idle", "open", "rejected"} \cup PreStates \cup CallStates
  BY DEF PreStates, CallStates

LEMMA NextPc == PcOK /\ [Next]_vars => PcOK'
<1> SUFFICES ASSUME PcOK, [Next]_vars PROVE PcOK'
  OBVIOUS
<1>0. UNCHANGED pc => PcOK'
  BY DEF PcOK
<1> USE <1>0, GotoType, Labels
<1>1. ASSUME NEW r \in Requests, NewBillingSession(r) PROVE PcOK'
  BY <1>1 DEF NewBillingSession, TrySubscription, Reject
<1>2. ASSUME NEW r \in Requests, CallStep(r) PROVE PcOK'
  <2>0. ASSUME NEW src, Fallback(r, src) PROVE PcOK'
    BY <2>0 DEF Fallback, TrySubscription, Reject
  <2>1. CASE TryWallet(r) \/ PreConsumeError(r)
    BY <2>0, <2>1 DEF TryWallet, PreConsumeError, Reject
  <2>2. CASE ReadToken(r) \/ ConsumeToken(r) \/ FundingFails(r)
    BY <2>2 DEF ReadToken, ConsumeToken, FundingFails, Reject
  <2>3. CASE WalletPreConsume(r) \/ SubscriptionPreConsume(r) \/ RollbackToken(r)
    BY <2>3 DEF WalletPreConsume, SubscriptionPreConsume, Open, RollbackToken
  <2>4. CASE ReserveFunding(r) \/ ReserveReadToken(r) \/ ReserveConsumeToken(r)
             \/ RollbackFundingReserve(r)
    BY <2>4 DEF ReserveFunding, ReserveReadToken, ReserveConsumeToken,
       RollbackFundingReserve, Reserved
  <2>5. CASE SettleFunding(r) \/ SettleToken(r)
    BY <2>5 DEF SettleFunding, SettleToken
  <2> QED
    BY <1>2, <2>1, <2>2, <2>3, <2>4, <2>5 DEF CallStep
<1>3. ASSUME NEW r \in Requests, NEW n, Reserve(r, n) \/ SettleBilling(r, n) PROVE PcOK'
  BY <1>3 DEF Reserve, SettleBilling, Settle
<1>4. ASSUME NEW r \in Requests, Refund(r) \/ RefundStep(r) PROVE PcOK'
  BY <1>4 DEF Refund, RefundStep, RefundWallet, RefundSubscription, RefundSave,
     RefundExtra, RefundToken
<1>5. CASE UNCHANGED vars \/ \E s \in Subs : ResetSubscription(s)
  BY <1>5 DEF vars, ResetSubscription
<1> QED
  BY <1>1, <1>2, <1>3, <1>4, <1>5 DEF Next

LEMMA NextArg == TypeOK /\ [Next]_vars => ArgOK'
<1> SUFFICES ASSUME ArgOK, ReqOK, SesOK, [Next]_vars PROVE ArgOK'
  BY TypeGroups
<1>1. UNCHANGED arg => ArgOK'
  BY DEF ArgOK
<1>2. ASSUME NEW r \in Requests, NEW n \in Nat, arg' = [arg EXCEPT ![r] = n] PROVE ArgOK'
  BY <1>2 DEF ArgOK
<1>3. ASSUME NEW r \in Requests, NEW q \in Nat, TrySubscription(r, q) PROVE ArgOK'
  BY <1>2, <1>3 DEF TrySubscription, SubConsume
<1>4. ASSUME NEW r \in Requests PROVE req[r].quota \in Nat
  BY DEF ReqOK
<1>5. ASSUME NEW r \in Requests, NEW src, Fallback(r, src) PROVE ArgOK'
  BY <1>1, <1>3, <1>4, <1>5 DEF Fallback, Reject
<1>6. ASSUME NEW r \in Requests, NewBillingSession(r) PROVE ArgOK'
  BY <1>1, <1>3, <1>6, NumAssumption DEF NewBillingSession, Reject
<1>7. ASSUME NEW r \in Requests, CallStep(r) PROVE ArgOK'
  <2>1. CASE TryWallet(r) \/ PreConsumeError(r)
    BY <1>1, <1>2, <1>4, <1>5, <2>1 DEF TryWallet, PreConsumeError, Reject
  <2>2. CASE ~ (TryWallet(r) \/ PreConsumeError(r))
    BY <1>1, <1>7, <2>2 DEF CallStep, ReadToken, ConsumeToken, Reject,
       WalletPreConsume, SubscriptionPreConsume, FundingFails, RollbackToken,
       ReserveFunding, ReserveReadToken, ReserveConsumeToken,
       RollbackFundingReserve, SettleFunding, SettleToken
  <2> QED
    BY <2>1, <2>2
<1>8. ASSUME NEW r \in Requests, NEW t \in Targets, Reserve(r, t) PROVE ArgOK'
  <2>1. t - ses[r].pre \in Nat
    BY <1>8, FieldTypes, NumAssumption DEF Reserve, Reservable
  <2> QED
    BY <1>2, <1>8, <2>1 DEF Reserve
<1>9. ASSUME NEW r \in Requests, NEW a \in Actuals, SettleBilling(r, a) PROVE ArgOK'
  BY <1>2, <1>9, NumAssumption DEF SettleBilling, Settle
<1>10. ASSUME NEW r \in Requests, Refund(r) \/ RefundStep(r) PROVE ArgOK'
  BY <1>1, <1>10 DEF Refund, RefundStep, RefundWallet, RefundSubscription, RefundSave,
     RefundExtra, RefundToken
<1>11. CASE UNCHANGED vars \/ \E s \in Subs : ResetSubscription(s)
  BY <1>1, <1>11 DEF vars, ResetSubscription
<1> QED
  BY <1>6, <1>7, <1>8, <1>9, <1>10, <1>11 DEF Next

LEMMA NextReq == TypeOK /\ [Next]_vars => ReqOK'
<1> SUFFICES ASSUME MoneyOK, ReqOK, [Next]_vars PROVE ReqOK'
  BY TypeGroups
<1>1. UNCHANGED req => ReqOK'
  BY DEF ReqOK
<1>2. ASSUME NEW r \in Requests, NewBillingSession(r) PROVE ReqOK'
  BY <1>2, NumAssumption, ModeAssumption DEF NewBillingSession, ReqOK, MoneyOK, AllPrefs
<1> QED
  BY <1>1, <1>2 DEF Next, CallStep, TryWallet, ReadToken, ConsumeToken,
     WalletPreConsume, SubscriptionPreConsume, FundingFails, RollbackToken,
     PreConsumeError, ReserveFunding, ReserveReadToken, ReserveConsumeToken,
     RollbackFundingReserve, SettleFunding, SettleToken, Reserve, SettleBilling,
     Settle, Refund, RefundStep, RefundWallet, RefundSubscription, RefundSave,
     RefundExtra, RefundToken, ResetSubscription, vars

LEMMA AttemptType ==
  ASSUME RefOK, NEW r \in Requests, AttemptFails(r)
  PROVE  RefOK'
  BY DEF RefOK, AttemptFails, MaxAttempts, RefGoto

LEMMA NextRef == TypeOK /\ [Next]_vars => RefOK'
<1> SUFFICES ASSUME RefOK, [Next]_vars PROVE RefOK'
  BY TypeGroups
<1>1. UNCHANGED <<ref, attempts>> => RefOK'
  BY DEF RefOK
<1>2. ASSUME NEW r \in Requests, Refund(r) PROVE RefOK'
  BY <1>2 DEF RefOK, Refund
<1>3. ASSUME NEW r \in Requests, RefundStep(r) PROVE RefOK'
  <2>1. ASSUME UNCHANGED attempts, NEW l \in {"save", "extra", "token", "done"},
               RefGoto(r, l)
        PROVE  RefOK'
    BY <2>1 DEF RefOK, RefGoto
  <2> QED
    BY <1>3, <2>1, AttemptType DEF RefundStep, RefundWallet, RefundSubscription,
       RefundSave, RefundExtra, RefundToken
<1> QED
  BY <1>1, <1>2, <1>3 DEF Next, CallStep, NewBillingSession, TryWallet, ReadToken,
     ConsumeToken, WalletPreConsume, SubscriptionPreConsume, FundingFails,
     RollbackToken, PreConsumeError, ReserveFunding, ReserveReadToken,
     ReserveConsumeToken, RollbackFundingReserve, SettleFunding, SettleToken,
     Reserve, SettleBilling, Settle, ResetSubscription, vars, refunder

LEMMA NextRecord == TypeOK /\ [Next]_vars => RecordOK'
<1> SUFFICES ASSUME RecordOK, [Next]_vars PROVE RecordOK'
  BY TypeGroups
<1>1. UNCHANGED record => RecordOK'
  BY DEF RecordOK
<1>2. ASSUME NEW r \in Requests, NEW n,
             NoMove \/ DecreaseUserQuota(r, n) \/ DecreaseTokenQuota(r, n)
             \/ PostConsumeUserSubscriptionDelta(r, n) \/ AdjustFunding(r, n)
      PROVE  RecordOK'
  BY <1>1, <1>2, MovesKeepRecord DEF NoMove, db
<1>3. ASSUME NEW r \in Requests, SubscriptionPreConsume(r) \/ RefundSave(r)
      PROVE  RecordOK'
  BY <1>3 DEF RecordOK, SubscriptionPreConsume, RefundSave
<1>4. ASSUME NEW r \in Requests, CallStep(r) PROVE RecordOK'
  BY <1>2, <1>3, <1>4 DEF CallStep, TryWallet, ReadToken, ConsumeToken,
     WalletPreConsume, FundingFails, RollbackToken, PreConsumeError, ReserveFunding,
     ReserveReadToken, ReserveConsumeToken, RollbackFundingReserve, SettleFunding,
     SettleToken
<1>5. ASSUME NEW r \in Requests, RefundStep(r) PROVE RecordOK'
  BY <1>2, <1>3, <1>5 DEF RefundStep, RefundWallet, RefundSubscription, RefundExtra,
     RefundToken
<1> QED
  BY <1>1, <1>2, <1>4, <1>5 DEF Next, NewBillingSession, Reserve, SettleBilling,
     Settle, Refund, ResetSubscription, vars

LEMMA NextLog == TypeOK /\ [Next]_vars => LogOK'
<1> SUFFICES ASSUME LogOK, [Next]_vars PROVE LogOK'
  BY TypeGroups
<1>1. UNCHANGED logged => LogOK'
  BY DEF LogOK
<1>2. ASSUME NEW r \in Requests, NEW l \in Lines, Log(r, l) PROVE LogOK'
  BY <1>2 DEF LogOK, Log
<1>3. {"rollback", "reserve", "settle", "funding", "extra", "token"} \subseteq Lines
  BY DEF Lines
<1> QED
  BY <1>1, <1>2, <1>3 DEF Next, CallStep, NewBillingSession, TryWallet, ReadToken,
     ConsumeToken, WalletPreConsume, SubscriptionPreConsume, FundingFails,
     RollbackToken, PreConsumeError, ReserveFunding, ReserveReadToken,
     ReserveConsumeToken, RollbackFundingReserve, SettleFunding, SettleToken,
     Reserve, SettleBilling, Settle, Refund, RefundStep, RefundWallet, RefundSubscription,
     AttemptFails, RefundSave, RefundExtra, RefundToken, ResetSubscription, vars

LEMMA NextBounds == TypeOK /\ [Next]_vars => BoundsOK'
<1> SUFFICES ASSUME BoundsOK, [Next]_vars PROVE BoundsOK'
  BY TypeGroups
<1>1. NoFault \/ Fault => BoundsOK'
  BY NumAssumption DEF BoundsOK, Fault, NoFault, bounds
<1>2. ASSUME NEW s \in Subs, ResetSubscription(s) PROVE BoundsOK'
  BY <1>2, NumAssumption DEF BoundsOK, ResetSubscription
<1>3. ASSUME NEW r \in Requests, NEW src, Fallback(r, src) PROVE BoundsOK'
  BY <1>1, <1>3 DEF Fallback
<1>4. UNCHANGED vars => BoundsOK'
  BY DEF vars, BoundsOK
<1> QED
  BY <1>1, <1>2, <1>3, <1>4 DEF Next, CallStep, NewBillingSession, TryWallet, ReadToken,
     ConsumeToken, WalletPreConsume, SubscriptionPreConsume, FundingFails,
     RollbackToken, PreConsumeError, ReserveFunding, ReserveReadToken,
     ReserveConsumeToken, RollbackFundingReserve, SettleFunding, SettleToken,
     Reserve, SettleBilling, Settle, Refund, RefundStep, RefundWallet, RefundSubscription,
     AttemptFails, RefundSave, RefundExtra, RefundToken

LEMMA NextSes == TypeInv /\ [Next]_vars => SesOK'
<1> SUFFICES ASSUME SesOK, ArgOK, RollbackHeld, [Next]_vars PROVE SesOK'
  BY TypeGroups DEF TypeInv
<1>1. UNCHANGED ses => SesOK'
  BY DEF SesOK
<1>2. ASSUME NEW r \in Requests, NEW s \in Session, ses' = [ses EXCEPT ![r] = s]
      PROVE  SesOK'
  BY <1>2 DEF SesOK
<1>3. ASSUME NEW r \in Requests, NEW n \in Nat, ses' = [ses EXCEPT ![r].tokenConsumed = n]
      PROVE  SesOK'
  BY <1>3 DEF SesOK, Session
<1>4. ASSUME NEW r \in Requests,
             \/ ses' = [ses EXCEPT ![r].fundingSettled = TRUE]
             \/ ses' = [ses EXCEPT ![r].settled = TRUE]
             \/ ses' = [ses EXCEPT ![r].refunded = TRUE]
      PROVE  SesOK'
  <2>1. CASE ses' = [ses EXCEPT ![r].fundingSettled = TRUE]
    BY <2>1, ZenonT(40) DEF SesOK, Session
  <2>2. CASE ses' = [ses EXCEPT ![r].settled = TRUE]
    BY <2>2, ZenonT(40) DEF SesOK, Session
  <2>3. CASE ses' = [ses EXCEPT ![r].refunded = TRUE]
    BY <2>3, ZenonT(40) DEF SesOK, Session
  <2> QED
    BY <1>4, <2>1, <2>2, <2>3
<1>5. ASSUME NEW r \in Requests PROVE arg[r] \in Nat
  BY DEF ArgOK
<1>6. ASSUME NEW r \in Requests, NEW src, Fallback(r, src) PROVE SesOK'
  BY <1>1, <1>2, <1>6, NewSessionType DEF Fallback, TrySubscription, Reject
<1>7. ASSUME NEW r \in Requests, NewBillingSession(r) PROVE SesOK'
  BY <1>1, <1>2, <1>7, NewSessionType DEF NewBillingSession, TrySubscription, Reject
<1>8. ASSUME NEW r \in Requests, NEW s \in Subs \cup {0}, NEW n \in Nat, Open(r, s, n)
      PROVE  SesOK'
  <2>1. [ses[r] EXCEPT !.sub = s, !.held = n, !.pre = arg[r]] \in Session
    BY <1>5, FieldTypes DEF Session
  <2> QED
    BY <1>8, <2>1 DEF Open, SesOK
<1>9. ASSUME NEW r \in Requests, Reserved(r) PROVE SesOK'
  <2>1. /\ ses[r].pre + arg[r] \in Nat /\ ses[r].tokenConsumed + arg[r] \in Nat
        /\ ses[r].extraReserved + arg[r] \in Nat
    BY <1>5, FieldTypes
  <2>2. [ses[r] EXCEPT !.pre = @ + arg[r], !.tokenConsumed = @ + arg[r],
                       !.extraReserved = @ + arg[r]] \in Session
    BY <2>1, FieldTypes DEF Session
  <2> QED
    BY <1>9, <2>2 DEF Reserved, SesOK
<1>10. ASSUME NEW r \in Requests, NEW n \in Int, HeldChange(r, n),
              ses[r].src = "wallet" => ses[r].held + n >= 0
       PROVE  SesOK'
  <2>1. ses[r].held + (IF ses[r].src = "wallet" THEN n ELSE 0) \in Nat
    BY <1>10, FieldTypes
  <2> QED
    BY <1>10, <2>1 DEF HeldChange, SesOK, Session
<1>11. ASSUME NEW r \in Requests, CallStep(r) PROVE SesOK'
  <2>1. CASE TryWallet(r)
    <3>1. ASSUME NEW b \in BOOLEAN
          PROVE  [NewSession("wallet") EXCEPT !.trusted = b] \in Session
      BY DEF NewSession, Session
    <3>2. ShouldTrust(r, wallet) \in BOOLEAN
      BY DEF ShouldTrust
    <3> QED
      BY <1>1, <1>2, <1>6, <2>1, <3>1, <3>2 DEF TryWallet, Reject
  <2>2. CASE ReadToken(r) \/ ConsumeToken(r) \/ RollbackToken(r) \/ PreConsumeError(r)
    BY <1>1, <1>3, <1>5, <1>6, <2>2
    DEF ReadToken, ConsumeToken, RollbackToken, PreConsumeError, Reject
  <2>3. CASE WalletPreConsume(r) \/ SubscriptionPreConsume(r)
    BY <1>5, <1>8, <2>3 DEF WalletPreConsume, SubscriptionPreConsume
  <2>4. CASE FundingFails(r)
    BY <2>4 DEF FundingFails, SesOK, Session
  <2>5. CASE ReserveFunding(r)
    BY <1>1, <1>5, <1>10, <2>5, FieldTypes DEF ReserveFunding
  <2>6. CASE RollbackFundingReserve(r)
    <3>1. -arg[r] \in Int /\ (ses[r].src = "wallet" => ses[r].held + (-arg[r]) >= 0)
      BY <1>5, <2>6, FieldTypes DEF RollbackFundingReserve, RollbackHeld
    <3> QED
      BY <1>1, <1>10, <2>6, <3>1 DEF RollbackFundingReserve
  <2>7. CASE ReserveReadToken(r) \/ ReserveConsumeToken(r)
    BY <1>1, <1>9, <2>7 DEF ReserveReadToken, ReserveConsumeToken
  <2>8. CASE SettleFunding(r) \/ SettleToken(r)
    BY <1>1, <1>4, <2>8 DEF SettleFunding, SettleToken
  <2> QED
    BY <1>11, <2>1, <2>2, <2>3, <2>4, <2>5, <2>6, <2>7, <2>8 DEF CallStep
<1>12. ASSUME NEW r \in Requests, NEW n, Reserve(r, n) \/ SettleBilling(r, n) PROVE SesOK'
  BY <1>1, <1>4, <1>12 DEF Reserve, SettleBilling, Settle
<1>13. ASSUME NEW r \in Requests, Refund(r) \/ RefundStep(r) PROVE SesOK'
  BY <1>1, <1>4, <1>13 DEF Refund, RefundStep, RefundWallet, RefundSubscription,
     RefundSave, RefundExtra, RefundToken
<1>14. CASE UNCHANGED vars \/ \E s \in Subs : ResetSubscription(s)
  BY <1>1, <1>14 DEF vars, ResetSubscription
<1> QED
  BY <1>7, <1>11, <1>12, <1>13, <1>14 DEF Next

\* A step of one request does not touch the variables of another.
Step(r) ==
    \/ NewBillingSession(r) \/ CallStep(r) \/ Refund(r) \/ RefundStep(r)
    \/ \E t \in Targets : Reserve(r, t)
    \/ \E a \in Actuals : SettleBilling(r, a)

Apart(r) ==
    \A q \in Requests \ {r} :
        /\ pc'[q] = pc[q] /\ ref'[q] = ref[q] /\ req'[q] = req[q]
        /\ ses'[q] = ses[q] /\ took'[q] = took[q] /\ arg'[q] = arg[q]

LEMMA StepApart == ASSUME TypeOK, NEW r \in Requests, Step(r) PROVE Apart(r)
<1> USE DEF Step
<1>1. \A q \in Requests \ {r} : req'[q] = req[q]
  BY DEF TypeOK, NewBillingSession, CallStep, TryWallet, ReadToken, ConsumeToken,
     WalletPreConsume, SubscriptionPreConsume, FundingFails, RollbackToken,
     PreConsumeError, ReserveFunding, ReserveReadToken, ReserveConsumeToken,
     RollbackFundingReserve, SettleFunding, SettleToken, Reserve, SettleBilling,
     Settle, Refund, RefundStep, RefundWallet, RefundSubscription, RefundSave,
     RefundExtra, RefundToken
<1>2. \A q \in Requests \ {r} : ref'[q] = ref[q]
  BY DEF TypeOK, NewBillingSession, CallStep, TryWallet, ReadToken, ConsumeToken,
     WalletPreConsume, SubscriptionPreConsume, FundingFails, RollbackToken,
     PreConsumeError, ReserveFunding, ReserveReadToken, ReserveConsumeToken,
     RollbackFundingReserve, SettleFunding, SettleToken, Reserve, SettleBilling,
     Settle, Refund, RefundStep, RefundWallet, RefundSubscription, RefundSave,
     RefundExtra, RefundToken, RefGoto, AttemptFails, refunder
<1>3. \A q \in Requests \ {r} : pc'[q] = pc[q]
  BY DEF TypeOK, NewBillingSession, CallStep, TryWallet, ReadToken, ConsumeToken,
     WalletPreConsume, SubscriptionPreConsume, FundingFails, RollbackToken,
     PreConsumeError, ReserveFunding, ReserveReadToken, ReserveConsumeToken,
     RollbackFundingReserve, SettleFunding, SettleToken, Reserve, SettleBilling,
     Settle, Refund, RefundStep, RefundWallet, RefundSubscription, RefundSave,
     RefundExtra, RefundToken, Goto, Reject, Fallback, TrySubscription, Open, Reserved
<1>4. \A q \in Requests \ {r} : ses'[q] = ses[q]
  BY DEF TypeOK, NewBillingSession, CallStep, TryWallet, ReadToken, ConsumeToken,
     WalletPreConsume, SubscriptionPreConsume, FundingFails, RollbackToken,
     PreConsumeError, ReserveFunding, ReserveReadToken, ReserveConsumeToken,
     RollbackFundingReserve, SettleFunding, SettleToken, Reserve, SettleBilling,
     Settle, Refund, RefundStep, RefundWallet, RefundSubscription, RefundSave,
     RefundExtra, RefundToken, Goto, Reject, Fallback, TrySubscription, Open, Reserved,
     HeldChange
<1>5. \A q \in Requests \ {r} : took'[q] = took[q]
  BY DEF TypeOK, NewBillingSession, CallStep, TryWallet, ReadToken, ConsumeToken,
     WalletPreConsume, SubscriptionPreConsume, FundingFails, RollbackToken,
     PreConsumeError, ReserveFunding, ReserveReadToken, ReserveConsumeToken,
     RollbackFundingReserve, SettleFunding, SettleToken, Reserve, SettleBilling,
     Settle, Refund, RefundStep, RefundWallet, RefundSubscription, RefundSave,
     RefundExtra, RefundToken, NoMove, DecreaseUserQuota, DecreaseTokenQuota,
     PostConsumeUserSubscriptionDelta, AdjustFunding
<1>6. \A q \in Requests \ {r} : arg'[q] = arg[q]
  BY DEF TypeOK, NewBillingSession, CallStep, TryWallet, ReadToken, ConsumeToken,
     WalletPreConsume, SubscriptionPreConsume, FundingFails, RollbackToken,
     PreConsumeError, ReserveFunding, ReserveReadToken, ReserveConsumeToken,
     RollbackFundingReserve, SettleFunding, SettleToken, Reserve, SettleBilling,
     Settle, Refund, RefundStep, RefundWallet, RefundSubscription, RefundSave,
     RefundExtra, RefundToken, Reject, Fallback, TrySubscription
<1> QED
  BY <1>1, <1>2, <1>3, <1>4, <1>5, <1>6 DEF Apart

LEMMA StepRollbackHeld ==
  ASSUME TypeInv, NEW r \in Requests, Step(r),
         pc'[r] \in {"resRead", "resDec", "resRollback"}, ses'[r].src = "wallet"
  PROVE  arg'[r] <= ses'[r].held
<1>1. PcOK /\ SesOK /\ ArgOK
  BY TypeGroups DEF TypeInv
<1>2. ReserveFunding(r) \/ ReserveReadToken(r) \/ ReserveConsumeToken(r) \/ RefundStep(r)
  BY <1>1 DEF Step, PcOK, NewBillingSession, CallStep, TryWallet, ReadToken, ConsumeToken,
     WalletPreConsume, SubscriptionPreConsume, FundingFails, RollbackToken,
     PreConsumeError, RollbackFundingReserve, SettleFunding, SettleToken, Reserve,
     SettleBilling, Settle, Refund, Goto, Reject, Fallback, TrySubscription, Open,
     Reserved
<1>3. CASE ReserveFunding(r)
  <2>1. HeldChange(r, arg[r]) /\ arg'[r] = arg[r]
    BY <1>1, <1>3 DEF ReserveFunding, Goto, PcOK
  <2>2. ses'[r].src = ses[r].src /\ ses'[r].held = ses[r].held + arg[r]
    BY <1>1, <2>1 DEF HeldChange, SesOK, Session
  <2> QED
    BY <1>1, <2>1, <2>2, FieldTypes DEF ArgOK
<1>4. CASE ReserveReadToken(r) \/ ReserveConsumeToken(r)
  BY <1>1, <1>4 DEF ReserveReadToken, ReserveConsumeToken, Reserved, Goto, PcOK,
     TypeInv, RollbackHeld
<1>5. CASE RefundStep(r)
  BY <1>5 DEF RefundStep, RefundWallet, RefundSubscription, RefundSave, RefundExtra,
     RefundToken, TypeInv, RollbackHeld
<1> QED
  BY <1>2, <1>3, <1>4, <1>5

LEMMA NextStep ==
  ASSUME [Next]_vars
  PROVE  \/ \E r \in Requests : Step(r)
         \/ UNCHANGED <<pc, ref, req, ses, took, arg>>
  BY DEF Next, Step, ResetSubscription, refunder, vars

LEMMA NextTypeInv == TypeInv /\ [Next]_vars => TypeInv'
<1> SUFFICES ASSUME TypeInv, [Next]_vars PROVE TypeInv'
  OBVIOUS
<1>1. TypeOK'
  <2>1. TypeOK /\ PcOK
    BY TypeGroups DEF TypeInv
  <2>2. MoneyOK' /\ SesOK' /\ PcOK' /\ ArgOK' /\ ReqOK'
    BY <2>1, NextMoney, NextSes, NextPc, NextArg, NextReq
  <2>3. RefOK' /\ RecordOK' /\ LogOK' /\ BoundsOK'
    BY <2>1, NextRef, NextRecord, NextLog, NextBounds
  <2> QED
    BY <2>2, <2>3, TypeGroups, PTL
<1>2. RollbackHeld'
  <2>1. CASE UNCHANGED <<pc, ref, req, ses, took, arg>>
    BY <2>1 DEF TypeInv, RollbackHeld
  <2>2. ASSUME NEW r \in Requests, Step(r) PROVE RollbackHeld'
    BY <2>2, StepApart, StepRollbackHeld DEF TypeInv, RollbackHeld, Apart
  <2> QED
    BY <2>1, <2>2, NextStep
<1> QED
  BY <1>1, <1>2 DEF TypeInv

\* NewBillingSession, Reserve, Settle, Refund and its goroutine keep the types of
\* all variables: no amount of a session and no used amount becomes negative.
THEOREM BillingTypeCorrect == Spec => []TypeOK
<1>1. TypeInv => TypeOK
  BY DEF TypeInv
<1> QED
  BY <1>1, InitTypeInv, NextTypeInv, PTL DEF Spec

-----------------------------------------------------------------------------
(* The life cycle of one request: an invariant over its own variables.     *)

Before == {"idle", "wallet", "tokenRead", "tokenDec", "funding", "rollback", "rejected"}
WalletConsent(r) ==
    \/ req[r].pref \in {"wallet_only", "wallet_first"}
    \/ req[r].pref = "subscription_first" /\ (AllowOverflow \/ Subs = {})

\* The order of calls: nothing is settled or refunded while a call is under way,
\* the goroutine exists exactly for refunded sessions, and a committed funding
\* source is followed by the end of Settle.
Flow(r) ==
    /\ pc[r] # "open" => ref[r] = "none" /\ ~ ses[r].settled
    /\ ses[r].refunded <=> ref[r] # "none"
    /\ ses[r].refunded => ~ ses[r].settled /\ ~ ses[r].fundingSettled
    /\ ses[r].fundingSettled => pc[r] = "setToken" \/ ses[r].settled
    /\ ref[r] = "save" => ses[r].src = "sub"

\* The source of a session is one the user agreed to, and only it is charged.
Consent(r) ==
    /\ pc[r] = "idle" => ses[r].src = "none"
    /\ pc[r] = "wallet" \/ ses[r].src = "wallet" => WalletConsent(r)
    /\ ses[r].src = "sub" => req[r].pref # "wallet_only"
    /\ ses[r].src # "wallet" \/ pc[r] \in Before => took[r].wallet = 0
    /\ ses[r].src # "sub" \/ pc[r] \in Before => took[r].sub = 0

Life(r) == Flow(r) /\ Consent(r)

\* Everything the invariant says about a request; and what a step may change.
Row(r) == <<pc[r], ref[r], req[r].pref, ses[r].src, ses[r].settled, ses[r].refunded,
            ses[r].fundingSettled, took[r].wallet, took[r].sub>>

LEMMA RowKeepsLife == ASSUME NEW r, Row(r)' = Row(r), Life(r) PROVE Life(r)'
  BY DEF Row, Life, Flow, Consent, WalletConsent, Before

\* The fields of a session the invariant is about.
Flags(r) == <<ses[r].src, ses[r].settled, ses[r].refunded, ses[r].fundingSettled>>

LEMMA SessionKept ==
  ASSUME TypeOK, NEW r \in Requests,
         \/ ReadToken(r) \/ ConsumeToken(r) \/ WalletPreConsume(r)
         \/ SubscriptionPreConsume(r) \/ FundingFails(r) \/ RollbackToken(r)
         \/ ReserveFunding(r) \/ ReserveReadToken(r) \/ ReserveConsumeToken(r)
         \/ RollbackFundingReserve(r) \/ RefundStep(r) \/ \E t \in Targets : Reserve(r, t)
  PROVE  Flags(r)' = Flags(r)
<1> USE DEF Flags
<1>1. UNCHANGED ses => Flags(r)' = Flags(r)
  OBVIOUS
<1>2. ASSUME NEW n, ses' = [ses EXCEPT ![r].tokenConsumed = n] PROVE Flags(r)' = Flags(r)
  BY <1>2 DEF TypeOK, Session
<1>3. ASSUME NEW n, ses' = [ses EXCEPT ![r].err = n] PROVE Flags(r)' = Flags(r)
  BY <1>3 DEF TypeOK, Session
<1>4. ASSUME NEW n, HeldChange(r, n) PROVE Flags(r)' = Flags(r)
  BY <1>4 DEF TypeOK, Session, HeldChange
<1>5. ASSUME NEW s, NEW n, Open(r, s, n) PROVE Flags(r)' = Flags(r)
  BY <1>5 DEF TypeOK, Session, Open
<1>6. ASSUME Reserved(r) PROVE Flags(r)' = Flags(r)
  BY <1>6 DEF TypeOK, Session, Reserved
<1> HIDE DEF Flags
<1> QED
  BY <1>1, <1>2, <1>3, <1>4, <1>5, <1>6
  DEF ReadToken, ConsumeToken, WalletPreConsume, SubscriptionPreConsume, FundingFails,
      RollbackToken, ReserveFunding, ReserveReadToken, ReserveConsumeToken,
      RollbackFundingReserve, RefundStep, RefundWallet, RefundSubscription,
      RefundSave, RefundExtra, RefundToken, Reserve, Reject

LEMMA FlagSet ==
  ASSUME TypeOK, NEW r \in Requests
  PROVE  /\ ses' = [ses EXCEPT ![r].settled = TRUE] =>
              Flags(r)' = <<ses[r].src, TRUE, ses[r].refunded, ses[r].fundingSettled>>
         /\ ses' = [ses EXCEPT ![r].refunded = TRUE] =>
              Flags(r)' = <<ses[r].src, ses[r].settled, TRUE, ses[r].fundingSettled>>
         /\ ses' = [ses EXCEPT ![r].fundingSettled = TRUE] =>
              Flags(r)' = <<ses[r].src, ses[r].settled, ses[r].refunded, TRUE>>
<1>1. ses' = [ses EXCEPT ![r].settled = TRUE] =>
        Flags(r)' = <<ses[r].src, TRUE, ses[r].refunded, ses[r].fundingSettled>>
  BY DEF TypeOK, Session, Flags
<1>2. ses' = [ses EXCEPT ![r].refunded = TRUE] =>
        Flags(r)' = <<ses[r].src, ses[r].settled, TRUE, ses[r].fundingSettled>>
  BY DEF TypeOK, Session, Flags
<1>3. ses' = [ses EXCEPT ![r].fundingSettled = TRUE] =>
        Flags(r)' = <<ses[r].src, ses[r].settled, ses[r].refunded, TRUE>>
  BY DEF TypeOK, Session, Flags
<1> QED
  BY <1>1, <1>2, <1>3

LEMMA AmountMoved ==
  ASSUME TypeOK, NEW r \in Requests, NEW n
  PROVE  /\ NoMove \/ DecreaseTokenQuota(r, n) =>
               took'[r].wallet = took[r].wallet /\ took'[r].sub = took[r].sub
         /\ DecreaseUserQuota(r, n) => took'[r].sub = took[r].sub
         /\ PostConsumeUserSubscriptionDelta(r, n) => took'[r].wallet = took[r].wallet
         /\ AdjustFunding(r, n) =>
               /\ ses[r].src # "wallet" => took'[r].wallet = took[r].wallet
               /\ ses[r].src # "sub" => took'[r].sub = took[r].sub
<1>1. NoMove => took'[r].wallet = took[r].wallet /\ took'[r].sub = took[r].sub
  BY DEF NoMove
<1>2. DecreaseTokenQuota(r, n) =>
        took'[r].wallet = took[r].wallet /\ took'[r].sub = took[r].sub
  BY DEF TypeOK, DecreaseTokenQuota
<1>3. DecreaseUserQuota(r, n) => took'[r].sub = took[r].sub
  BY DEF TypeOK, DecreaseUserQuota
<1>4. PostConsumeUserSubscriptionDelta(r, n) => took'[r].wallet = took[r].wallet
  BY DEF TypeOK, PostConsumeUserSubscriptionDelta
<1> QED
  BY <1>1, <1>2, <1>3, <1>4 DEF AdjustFunding

LEMMA StepLife ==
  ASSUME TypeOK, NEW r \in Requests, Life(r), Step(r)
  PROVE  Life(r)'
<1>0. PcOK /\ ReqOK /\ RefOK /\ SesOK
  BY TypeGroups
<1>1. CASE \/ ReadToken(r) \/ ConsumeToken(r) \/ FundingFails(r) \/ RollbackToken(r)
  <2>1. /\ pc[r] \in Before \ {"idle", "wallet"} /\ pc'[r] \in Before \ {"idle", "wallet"}
        /\ ref'[r] = ref[r] /\ req'[r] = req[r]
    BY <1>0, <1>1 DEF ReadToken, ConsumeToken, FundingFails, RollbackToken, Reject, Goto,
       PcOK, Before, refunder
  <2>2. Flags(r)' = Flags(r)
    BY <1>1, SessionKept
  <2>3. took'[r].wallet = took[r].wallet /\ took'[r].sub = took[r].sub
    BY <1>1, AmountMoved DEF ReadToken, ConsumeToken, FundingFails, RollbackToken
  <2> QED
    BY <2>1, <2>2, <2>3 DEF Life, Flow, Consent, WalletConsent, Flags, Before
<1>2. CASE WalletPreConsume(r) \/ SubscriptionPreConsume(r)
  <2>1. /\ pc[r] = "funding" /\ pc'[r] = "open" /\ ref'[r] = ref[r] /\ req'[r] = req[r]
    BY <1>0, <1>2 DEF WalletPreConsume, SubscriptionPreConsume, Open, Goto, PcOK, refunder
  <2>2. Flags(r)' = Flags(r)
    BY <1>2, SessionKept
  <2>3. /\ ses[r].src # "wallet" => took'[r].wallet = took[r].wallet
        /\ ses[r].src # "sub" => took'[r].sub = took[r].sub
    <3>1. CASE WalletPreConsume(r)
      BY <3>1, AmountMoved DEF WalletPreConsume
    <3>2. CASE SubscriptionPreConsume(r)
      BY <3>2 DEF SubscriptionPreConsume, TypeOK
    <3> QED
      BY <1>2, <3>1, <3>2
  <2> QED
    BY <2>1, <2>2, <2>3 DEF Life, Flow, Consent, WalletConsent, Flags, Before
<1>3. CASE \/ ReserveFunding(r) \/ ReserveReadToken(r) \/ ReserveConsumeToken(r)
           \/ RollbackFundingReserve(r) \/ \E t \in Targets : Reserve(r, t)
  <2>1. /\ pc[r] \notin Before \cup {"setToken"} /\ pc'[r] \notin Before \cup {"setToken"}
        /\ ref'[r] = ref[r] /\ req'[r] = req[r]
        /\ pc[r] # "open" \/ (~ ses[r].settled /\ ~ ses[r].refunded)
    BY <1>0, <1>3 DEF ReserveFunding, ReserveReadToken, ReserveConsumeToken,
       RollbackFundingReserve, Reserve, Reservable, Reserved, Goto, PcOK, Before, refunder
  <2>2. Flags(r)' = Flags(r)
    BY <1>3, SessionKept
  <2>3. /\ ses[r].src # "wallet" => took'[r].wallet = took[r].wallet
        /\ ses[r].src # "sub" => took'[r].sub = took[r].sub
    BY <1>3, AmountMoved DEF ReserveFunding, ReserveReadToken, ReserveConsumeToken,
       RollbackFundingReserve, Reserve
  <2> QED
    BY <2>1, <2>2, <2>3 DEF Life, Flow, Consent, WalletConsent, Flags, Before
<1>4. CASE \E a \in Actuals : SettleBilling(r, a)
  <2>1. /\ pc[r] = "open" /\ ref'[r] = ref[r] /\ req'[r] = req[r]
        /\ ~ ses[r].settled /\ ~ ses[r].refunded
        /\ \/ pc'[r] = "setFunding" /\ Flags(r)' = Flags(r)
           \/ /\ pc'[r] = "open"
              /\ Flags(r)' = <<ses[r].src, TRUE, ses[r].refunded, ses[r].fundingSettled>>
    BY <1>0, <1>4, FlagSet DEF SettleBilling, HandlerRunning, Settle, Goto, PcOK,
       refunder, Flags
  <2>2. took'[r].wallet = took[r].wallet /\ took'[r].sub = took[r].sub
    BY <1>4, AmountMoved DEF SettleBilling, Settle
  <2> QED
    BY <2>1, <2>2 DEF Life, Flow, Consent, WalletConsent, Flags, Before
<1>5. CASE SettleFunding(r)
  <2>1. /\ pc[r] = "setFunding" /\ ref'[r] = ref[r] /\ req'[r] = req[r]
        /\ \/ pc'[r] = "open" /\ Flags(r)' = Flags(r)
           \/ /\ pc'[r] = "setToken"
              /\ Flags(r)' = <<ses[r].src, ses[r].settled, ses[r].refunded, TRUE>>
    BY <1>0, <1>5, FlagSet DEF SettleFunding, Goto, PcOK, refunder, Flags
  <2>2. /\ ses[r].src # "wallet" => took'[r].wallet = took[r].wallet
        /\ ses[r].src # "sub" => took'[r].sub = took[r].sub
    BY <1>5, AmountMoved DEF SettleFunding
  <2> QED
    BY <2>1, <2>2 DEF Life, Flow, Consent, WalletConsent, Flags, Before
<1>6. CASE SettleToken(r)
  <2>1. /\ pc[r] = "setToken" /\ pc'[r] = "open" /\ ref'[r] = ref[r] /\ req'[r] = req[r]
        /\ Flags(r)' = <<ses[r].src, TRUE, ses[r].refunded, ses[r].fundingSettled>>
    BY <1>0, <1>6, FlagSet DEF SettleToken, Goto, PcOK, refunder
  <2>2. took'[r].wallet = took[r].wallet /\ took'[r].sub = took[r].sub
    BY <1>6, AmountMoved DEF SettleToken
  <2> QED
    BY <2>1, <2>2 DEF Life, Flow, Consent, WalletConsent, Flags, Before
<1>7. CASE Refund(r)
  <2>1. /\ pc[r] = "open" /\ pc'[r] = "open" /\ ref'[r] = "funding" /\ req'[r] = req[r]
        /\ ~ ses[r].settled /\ ~ ses[r].fundingSettled
        /\ Flags(r)' = <<ses[r].src, ses[r].settled, TRUE, ses[r].fundingSettled>>
    BY <1>0, <1>7, FlagSet DEF Refund, Refundable, NeedsRefund, RefOK
  <2>2. took'[r].wallet = took[r].wallet /\ took'[r].sub = took[r].sub
    BY <1>7, AmountMoved DEF Refund
  <2> QED
    BY <2>1, <2>2 DEF Life, Flow, Consent, WalletConsent, Flags, Before
<1>8. CASE RefundStep(r)
  <2>1. /\ pc'[r] = pc[r] /\ req'[r] = req[r] /\ ref[r] # "none" /\ ref'[r] # "none"
        /\ ref'[r] = "save" => ses[r].src = "sub"
    BY <1>0, <1>8 DEF RefundStep, RefundWallet, RefundSubscription, RefundSave,
       RefundExtra, RefundToken, AttemptFails, RefGoto, RefOK
  <2>2. Flags(r)' = Flags(r)
    BY <1>8, SessionKept
  <2>3. /\ ses[r].src # "wallet" => took'[r].wallet = took[r].wallet
        /\ ses[r].src # "sub" => took'[r].sub = took[r].sub
    <3>1. CASE RefundSave(r)
      BY <3>1 DEF RefundSave, TypeOK
    <3> QED
      BY <1>8, <3>1, AmountMoved DEF RefundStep, RefundWallet, RefundSubscription,
         RefundExtra, RefundToken
  <2> QED
    BY <2>1, <2>2, <2>3 DEF Life, Flow, Consent, WalletConsent, Flags, Before
<1>9. CASE NewBillingSession(r) \/ TryWallet(r) \/ PreConsumeError(r)
  <2> DEFINE Fresh(src) == ses'[r].src = src /\ ~ ses'[r].settled /\ ~ ses'[r].refunded
                           /\ ~ ses'[r].fundingSettled
  <2>1. pc[r] \in Before /\ ref'[r] = ref[r]
    BY <1>9 DEF NewBillingSession, TryWallet, PreConsumeError, Before, refunder
  <2>2. took'[r].wallet = took[r].wallet /\ took'[r].sub = took[r].sub
    BY <1>9, AmountMoved DEF NewBillingSession, TryWallet, PreConsumeError
  <2>3. ASSUME NEW q, TrySubscription(r, q)
        PROVE  pc'[r] = "tokenRead" /\ Fresh("sub")
    BY <1>0, <2>3 DEF TrySubscription, NewSession, SesOK, Goto, PcOK
  <2>4. ASSUME Reject(r) PROVE pc'[r] = "rejected" /\ Flags(r)' = Flags(r)
    BY <1>0, <2>4 DEF Reject, Goto, PcOK, Flags
  <2>5. ASSUME NEW src, Fallback(r, src), UNCHANGED req
        PROVE  \/ pc'[r] = "tokenRead" /\ Fresh("sub") /\ req'[r].pref = "wallet_first"
               \/ pc'[r] = "rejected" /\ Flags(r)' = Flags(r) /\ req'[r] = req[r]
               \/ /\ pc'[r] = "wallet" /\ Flags(r)' = Flags(r) /\ req'[r] = req[r]
                  /\ WalletConsent(r)'
    BY <1>0, <2>3, <2>4, <2>5 DEF Fallback, Goto, PcOK, Flags, WalletConsent
  <2>6. \/ pc'[r] = "tokenRead" /\ Fresh("sub") /\ req'[r].pref # "wallet_only"
        \/ pc'[r] = "rejected" /\ Flags(r)' = Flags(r) /\ (req'[r] = req[r] \/ pc[r] = "idle")
        \/ /\ pc'[r] = "wallet" /\ Flags(r)' = Flags(r) /\ WalletConsent(r)'
           /\ req'[r] = req[r] \/ pc[r] = "idle"
        \/ /\ pc[r] = "wallet" /\ pc'[r] \in {"tokenRead", "funding"} /\ Fresh("wallet")
           /\ req'[r] = req[r]
    <3>1. CASE NewBillingSession(r)
      BY <1>0, <2>3, <2>4, <3>1 DEF NewBillingSession, StartsWithWallet, Goto, PcOK,
         ReqOK, Flags, WalletConsent
    <3>2. CASE TryWallet(r)
      BY <1>0, <2>4, <2>5, <3>2 DEF TryWallet, NewSession, SesOK, Goto, PcOK
    <3>3. CASE PreConsumeError(r)
      BY <2>4, <2>5, <3>3 DEF PreConsumeError
    <3> QED
      BY <1>9, <3>1, <3>2, <3>3
  <2> QED
    BY <2>1, <2>2, <2>6 DEF Life, Flow, Consent, WalletConsent, Flags, Before
<1> QED
  BY <1>1, <1>2, <1>3, <1>4, <1>5, <1>6, <1>7, <1>8, <1>9 DEF Step, CallStep

LifeInv == TypeInv /\ \A r \in Requests : Life(r)

LEMMA InitLifeInv == Init => LifeInv
  BY InitTypeInv
  DEF Init, LifeInv, Life, Flow, Consent, WalletConsent, Before, NewSession

LEMMA NextLifeInv == LifeInv /\ [Next]_vars => LifeInv'
<1> SUFFICES ASSUME LifeInv, [Next]_vars PROVE \A q \in Requests : Life(q)'
  BY NextTypeInv DEF LifeInv
<1> TAKE q \in Requests
<1>1. ASSUME NEW r \in Requests, Step(r), q # r PROVE Row(q)' = Row(q)
  BY <1>1, StepApart DEF LifeInv, TypeInv, Apart, Row
<1>2. CASE UNCHANGED <<pc, ref, req, ses, took, arg>>
  BY <1>2, RowKeepsLife DEF LifeInv, Row
<1> QED
  BY <1>1, <1>2, NextStep, StepLife, RowKeepsLife DEF LifeInv, TypeInv

\* NewBillingSession: for any number of requests, subscriptions and faults, one
\* source at most pays for a request, and one the user agreed to.
THEOREM BillingFundingByConsent == Spec => []FundingByConsent
<1>1. LifeInv => FundingByConsent
  BY DEF LifeInv, Life, Consent, WalletConsent, FundingByConsent
<1> QED
  BY <1>1, InitLifeInv, NextLifeInv, PTL DEF Spec

\* A settled session is final for every interleaving: no step moves quota for it.
THEOREM BillingSettledIsFinal == Spec => SettledIsFinal
<1>1. ASSUME LifeInv, [Next]_vars, NEW q \in Requests, ses[q].settled
      PROVE  took'[q] = took[q] /\ ses'[q].settled
  <2>1. TypeOK /\ pc[q] = "open" /\ ref[q] = "none"
    BY <1>1 DEF LifeInv, TypeInv, Life, Flow
  <2>2. ASSUME Step(q) PROVE FALSE
    BY <1>1, <2>1, <2>2 DEF Step, NewBillingSession, CallStep, TryWallet, ReadToken,
       ConsumeToken, WalletPreConsume, SubscriptionPreConsume, FundingFails,
       RollbackToken, PreConsumeError, ReserveFunding, ReserveReadToken,
       ReserveConsumeToken, RollbackFundingReserve, SettleFunding, SettleToken,
       Reserve, Reservable, SettleBilling, Settle, Refund, Refundable, RefundStep,
       RefundWallet, RefundSubscription, RefundSave, RefundExtra, RefundToken
  <2>3. ASSUME NEW r \in Requests, Step(r), r # q
        PROVE  took'[q] = took[q] /\ ses'[q] = ses[q]
    BY <2>1, <2>3, StepApart DEF Apart
  <2> QED
    BY <1>1, <2>2, <2>3, NextStep
<1>2. LifeInv /\ [Next]_vars =>
        [\A r \in Requests : ses[r].settled => took'[r] = took[r] /\ ses'[r].settled]_vars
  BY <1>1
<1> QED
  BY <1>2, InitLifeInv, NextLifeInv, PTL DEF Spec, SettledIsFinal

-----------------------------------------------------------------------------
(* Subscriptions.                                                          *)

LEMMA NextSubWithinTotal == TypeOK /\ SubWithinTotal /\ [Next]_vars => SubWithinTotal'
<1> SUFFICES ASSUME TypeOK, SubWithinTotal, [Next]_vars PROVE SubWithinTotal'
  OBVIOUS
<1>1. UNCHANGED subUsed => SubWithinTotal'
  BY DEF SubWithinTotal
<1>2. ASSUME NEW r \in Requests, NEW n, PostConsumeUserSubscriptionDelta(r, n)
      PROVE  SubWithinTotal'
  BY <1>2 DEF PostConsumeUserSubscriptionDelta, SubRoom, SubWithinTotal, TypeOK
<1>3. ASSUME NEW r \in Requests, SubscriptionPreConsume(r) PROVE SubWithinTotal'
  <2>1. arg[r] \in Nat /\ \A s \in Subs : SubTotal[s] \in Nat /\ subUsed[s] \in Nat
    BY SubAssumption DEF TypeOK
  <2> QED
    BY <1>3, <2>1 DEF SubscriptionPreConsume, FirstRoom, HasRoom, SubWithinTotal, TypeOK
<1>4. ASSUME NEW s \in Subs, ResetSubscription(s) PROVE SubWithinTotal'
  <2>1. \A t \in Subs : SubTotal[t] \in Nat
    BY SubAssumption
  <2> QED
    BY <1>4, <2>1 DEF ResetSubscription, SubWithinTotal, TypeOK
<1>5. ASSUME NEW r \in Requests, NEW n,
             NoMove \/ DecreaseUserQuota(r, n) \/ DecreaseTokenQuota(r, n)
             \/ AdjustFunding(r, n)
      PROVE  SubWithinTotal'
  BY <1>1, <1>2, <1>5 DEF NoMove, db, DecreaseUserQuota, DecreaseTokenQuota, AdjustFunding
<1>6. ASSUME NEW r \in Requests, CallStep(r) PROVE SubWithinTotal'
  BY <1>3, <1>5, <1>6 DEF CallStep, TryWallet, ReadToken, ConsumeToken,
     WalletPreConsume, FundingFails, RollbackToken, PreConsumeError, ReserveFunding,
     ReserveReadToken, ReserveConsumeToken, RollbackFundingReserve, SettleFunding,
     SettleToken
<1>7. ASSUME NEW r \in Requests, RefundStep(r) PROVE SubWithinTotal'
  BY <1>1, <1>2, <1>5, <1>7 DEF RefundStep, RefundWallet, RefundSubscription,
     RefundSave, RefundExtra, RefundToken
<1> QED
  BY <1>1, <1>4, <1>5, <1>6, <1>7 DEF Next, NewBillingSession, Reserve, SettleBilling,
     Settle, Refund, vars

\* PreConsumeUserSubscription and PostConsumeUserSubscriptionDelta: for any
\* number of concurrent requests, retries and resets, no subscription is used
\* beyond its total.
THEOREM BillingSubWithinTotal == Spec => []SubWithinTotal
<1>1. Init => SubWithinTotal
  BY SubAssumption DEF Init, SubWithinTotal
<1>2. TypeInv => TypeOK
  BY DEF TypeInv
<1> QED
  BY <1>1, <1>2, InitTypeInv, NextTypeInv, NextSubWithinTotal, PTL DEF Spec

=============================================================================
