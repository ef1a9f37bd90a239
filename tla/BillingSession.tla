--------------------------- MODULE BillingSession ---------------------------
(***************************************************************************)
(* The billing life cycle of relayed requests: a BillingSession pre-       *)
(* consumes quota from the token and from one funding source (wallet or    *)
(* subscription), may reserve more, and is in the end settled against the  *)
(* actual cost or refunded by a background goroutine.                      *)
(*                                                                         *)
(* Every database statement or transaction is one step, so the steps of    *)
(* concurrent requests interleave between them, and each may fail.  The    *)
(* configuration modelled is the default one: no Redis, no batch update.   *)
(* All requests belong to one user and use one of his tokens.              *)
(***************************************************************************)
EXTENDS Integers, FiniteSets, FiniteSetsExt

CONSTANTS
    Requests,        \* the relayed requests
    Subs,            \* active subscriptions 1..n, in end_time order
    SubTotal,        \* amount_total of each subscription; 0 is unlimited
    InitWallet,      \* user.quota before the first request
    InitToken,       \* token.remain_quota before the first request
    TokenUnlimited,  \* token.unlimited_quota
    AllowOverflow,   \* every active subscription has allow_wallet_overflow
    TrustQuota,      \* common.GetTrustQuota()
    Prefs,           \* billing preferences that occur
    Playgrounds,     \* values of relayInfo.IsPlayground that occur
    Forces,          \* values of relayInfo.ForcePreConsume that occur
    Quotas,          \* quotas a request asks to pre-consume
    Actuals,         \* actual costs a request is settled with
    Targets,         \* targets passed to Reserve
    SaveFaults,      \* how saving a refunded record can fail
    MaxFaults,       \* bound on failing database operations
    MaxResets        \* bound on periodic subscription resets

AllPrefs == {"subscription_only", "wallet_only", "wallet_first",
             "subscription_first"}

ASSUME NumAssumption ==
    /\ InitWallet \in Int /\ InitToken \in Int /\ TrustQuota \in Nat
    /\ MaxFaults \in Nat /\ MaxResets \in Nat
    /\ Quotas \subseteq Nat /\ Actuals \subseteq Nat /\ Targets \subseteq Nat
ASSUME RequestAssumption == IsFiniteSet(Requests)
ASSUME SubAssumption ==
    /\ Subs \subseteq Nat \ {0}
    /\ SubTotal \in [Subs -> Nat]
ASSUME ModeAssumption ==
    /\ Prefs \subseteq AllPrefs
    /\ Playgrounds \subseteq BOOLEAN /\ Forces \subseteq BOOLEAN
    /\ TokenUnlimited \in BOOLEAN /\ AllowOverflow \in BOOLEAN
    /\ SaveFaults \subseteq {"lost_save", "lost_ack"}

VARIABLES
    \* database
    wallet,     \* user.quota
    token,      \* token.remain_quota
    subUsed,    \* amount_used of each subscription
    record,     \* subscription_pre_consume_records status, by request id
    \* the request and its session
    req,        \* what the caller asked for: relayInfo and its settings
    ses,        \* the BillingSession and its FundingSource
    pc,         \* where the call on the session (holding s.mu) stands
    arg,        \* the amount argument of the call in progress
    \* the goroutine started by Refund
    ref,        \* its next step
    attempts,   \* failed attempts of refundWithRetry
    \* observation and bounds
    took,       \* net amount moved out of each balance for a request, and
                \* what a retry of its refund will give back once more
    logged,     \* error lines written to the log for a request
    faults, resets

vars == <<wallet, token, subUsed, record, req, ses, pc, arg, ref, attempts,
          took, logged, faults, resets>>
db == <<wallet, token, subUsed, record>>
bounds == <<faults, resets>>
refunder == <<ref, attempts>>

MaxAttempts == 3

Lines == {"rollback", "reserve", "settle", "funding", "extra", "token"}

Session == [src : {"none", "wallet", "sub"}, sub : Subs \cup {0},
            pre : Nat, tokenConsumed : Nat, extraReserved : Nat, held : Nat,
            trusted : BOOLEAN, fundingSettled : BOOLEAN, settled : BOOLEAN,
            refunded : BOOLEAN, err : {"none", "insufficient", "update"}]

NewSession(src) ==
    [src |-> src, sub |-> 0, pre |-> 0, tokenConsumed |-> 0,
     extraReserved |-> 0, held |-> 0, trusted |-> FALSE,
     fundingSettled |-> FALSE, settled |-> FALSE, refunded |-> FALSE,
     err |-> "none"]

PreStates == {"wallet", "tokenRead", "tokenDec", "funding", "rollback"}
CallStates == {"resFunding", "resRead", "resDec", "resRollback",
               "setFunding", "setToken"}

\* Types: balances, sessions and records; in particular amount_used and what a
\* session holds never become negative (PostConsumeUserSubscriptionDelta clamps).
TypeOK ==
    /\ wallet \in Int
    /\ token \in Int
    /\ subUsed \in [Subs -> Nat]
    /\ record \in [Requests -> {"none", "consumed", "refunded"}]
    /\ req \in [Requests -> [pref : AllPrefs, playground : BOOLEAN,
                             force : BOOLEAN, quota : Nat, authQuota : Int]]
    /\ ses \in [Requests -> Session]
    /\ pc \in [Requests -> {"idle", "open", "rejected"}
                             \cup PreStates \cup CallStates]
    /\ arg \in [Requests -> Nat]
    /\ ref \in [Requests -> {"none", "funding", "save", "extra", "token",
                             "done"}]
    /\ attempts \in [Requests -> 0 .. MaxAttempts]
    /\ took \in [Requests -> [wallet : Int, sub : Int, token : Int,
                              again : Nat]]
    /\ logged \in [Requests -> SUBSET Lines]
    /\ faults \in 0 .. MaxFaults
    /\ resets \in 0 .. MaxResets

Init ==
    /\ wallet = InitWallet
    /\ token = InitToken
    /\ subUsed = [s \in Subs |-> 0]
    /\ record = [r \in Requests |-> "none"]
    /\ req = [r \in Requests |->
                [pref |-> "subscription_first", playground |-> FALSE,
                 force |-> FALSE, quota |-> 0, authQuota |-> 0]]
    /\ ses = [r \in Requests |-> NewSession("none")]
    /\ pc = [r \in Requests |-> "idle"]
    /\ arg = [r \in Requests |-> 0]
    /\ ref = [r \in Requests |-> "none"]
    /\ attempts = [r \in Requests |-> 0]
    /\ took = [r \in Requests |->
                [wallet |-> 0, sub |-> 0, token |-> 0, again |-> 0]]
    /\ logged = [r \in Requests |-> {}]
    /\ faults = 0
    /\ resets = 0

-----------------------------------------------------------------------------
(* Database operations.  Each moves quota between a balance and a request. *)

\* A database operation returns an error and has no effect.
Fault == faults < MaxFaults /\ faults' = faults + 1 /\ UNCHANGED resets
NoFault == UNCHANGED bounds

\* DecreaseUserQuota(n), or IncreaseUserQuota(-n) for a negative n: a relative
\* update of the row, without a lower limit.
DecreaseUserQuota(r, n) ==
    /\ wallet' = wallet - n
    /\ took' = [took EXCEPT ![r].wallet = @ + n]
    /\ UNCHANGED <<token, subUsed, record>>

\* DecreaseTokenQuota(n), or IncreaseTokenQuota(-n).
DecreaseTokenQuota(r, n) ==
    /\ token' = token - n
    /\ took' = [took EXCEPT ![r].token = @ + n]
    /\ UNCHANGED <<wallet, subUsed, record>>

\* PostConsumeUserSubscriptionDelta, one transaction.  amount_used is clamped
\* at 0, and the update is refused when it would exceed the total.
Unclamped(n) == n  \* mutant: no lower limit
Max0(n) == IF n < 0 THEN 0 ELSE n
AnyRoom(s, delta) == TRUE  \* mutant: the total is not checked
SubRoom(s, delta) ==
    SubTotal[s] = 0 \/ Max0(subUsed[s] + delta) <= SubTotal[s]
PostConsumeUserSubscriptionDelta(r, delta) ==
    LET s == ses[r].sub IN
    /\ SubRoom(s, delta)
    /\ subUsed' = [subUsed EXCEPT ![s] = Max0(@ + delta)]
    /\ took' = [took EXCEPT ![r].sub = @ + delta]
    /\ UNCHANGED <<wallet, token, record>>

\* The candidates of PreConsumeUserSubscription: the first subscription in
\* end_time order with enough left.
HasRoom(s, n) == SubTotal[s] = 0 \/ SubTotal[s] - subUsed[s] >= n
FirstRoom(s, n) == HasRoom(s, n) /\ \A t \in Subs : HasRoom(t, n) => s <= t

\* FundingSource.Settle(delta) and the reservations: the session's own source.
AdjustFunding(r, delta) ==
    \/ ses[r].src = "wallet" /\ DecreaseUserQuota(r, delta)
    \/ ses[r].src = "sub" /\ PostConsumeUserSubscriptionDelta(r, delta)

NoMove == UNCHANGED <<db, took>>
Goto(r, l) == pc' = [pc EXCEPT ![r] = l]
Log(r, l) == logged' = [logged EXCEPT ![r] = @ \cup {l}]

-----------------------------------------------------------------------------
(* NewBillingSession and preConsume.                                       *)

\* trySubscription: at least 1 is consumed, and the pre-consume argument is
\* the same amount.
SubConsume(quota) == IF quota <= 0 THEN 1 ELSE quota
TrySubscription(r, quota) ==
    /\ ses' = [ses EXCEPT ![r] = NewSession("sub")]
    /\ arg' = [arg EXCEPT ![r] = SubConsume(quota)]
    /\ Goto(r, "tokenRead")

Reject(r) == Goto(r, "rejected") /\ UNCHANGED <<ses, arg>>

\* A request arrives; the switch on the normalised preference starts with one
\* of the two sources.  token_quota was put in the context by the token check.
WalletFirstAlways(p) == p # "subscription_only"  \* mutant
StartsWithWallet(p) ==
    \/ p \in {"wallet_only", "wallet_first"}
    \/ p = "subscription_first" /\ Subs = {}
NewBillingSession(r) ==
    /\ pc[r] = "idle"
    /\ \E p \in Prefs, pg \in Playgrounds, f \in Forces, q \in Quotas :
        /\ req' = [req EXCEPT ![r] = [pref |-> p, playground |-> pg,
                       force |-> f, quota |-> q, authQuota |-> token]]
        /\ \/ /\ StartsWithWallet(p)
              /\ Goto(r, "wallet") /\ UNCHANGED <<ses, arg>> /\ NoFault
           \/ ~ StartsWithWallet(p) /\ TrySubscription(r, q) /\ NoFault
           \/ p = "subscription_first" /\ Reject(r) /\ Fault
    /\ NoMove
    /\ UNCHANGED <<refunder, logged>>

\* The reaction to ErrorCodeInsufficientUserQuota from a source: the other
\* source, when the preference (and the plan) allows it.
FallbackAlways(r, from) ==  \* mutant: each source falls back to the other
    /\ IF from = "wallet" THEN TrySubscription(r, req[r].quota)
       ELSE Goto(r, "wallet") /\ UNCHANGED <<ses, arg>>
    /\ NoFault
Fallback(r, from) ==
    LET toSub == from = "wallet" /\ req[r].pref = "wallet_first"
        toWallet == from = "sub" /\ req[r].pref = "subscription_first"
    IN  \/ toSub /\ TrySubscription(r, req[r].quota) /\ NoFault
        \/ toWallet /\ Reject(r) /\ Fault
        \/ /\ toWallet /\ AllowOverflow
           /\ Goto(r, "wallet") /\ UNCHANGED <<ses, arg>> /\ NoFault
        \/ /\ ~ toSub /\ ~ (toWallet /\ AllowOverflow)
           /\ Reject(r) /\ NoFault

\* shouldTrust for a wallet session with the user quota just read.
TrustTasks(r, userQuota) ==  \* mutant: async tasks are trusted too
    /\ TrustQuota > 0
    /\ TokenUnlimited \/ req[r].authQuota > TrustQuota
    /\ userQuota > TrustQuota
ShouldTrust(r, userQuota) ==
    /\ ~ req[r].force
    /\ TrustQuota > 0
    /\ TokenUnlimited \/ req[r].authQuota > TrustQuota
    /\ userQuota > TrustQuota

\* tryWallet: read the user's quota, check it, and open a wallet session.
WalletPositive(quota) == wallet > 0  \* mutant: the quota is not compared
WalletCovers(quota) == wallet > 0 /\ wallet - quota >= 0
TryWallet(r) ==
    /\ pc[r] = "wallet"
    /\ \/ /\ WalletCovers(req[r].quota)
          /\ LET trust == ShouldTrust(r, wallet)
                 eff == IF trust THEN 0 ELSE req[r].quota
             IN  /\ ses' = [ses EXCEPT ![r] =
                              [NewSession("wallet") EXCEPT !.trusted = trust]]
                 /\ arg' = [arg EXCEPT ![r] = eff]
                 /\ Goto(r, IF eff > 0 THEN "tokenRead" ELSE "funding")
          /\ NoFault
       \/ ~ WalletCovers(req[r].quota) /\ Fallback(r, "wallet")
       \/ Reject(r) /\ Fault
    /\ NoMove
    /\ UNCHANGED <<req, refunder, logged>>

\* PreConsumeTokenQuota, first half: read the token and check what remains.
TokenAllows(n) == TokenUnlimited \/ token >= n
ReadToken(r) ==
    /\ pc[r] = "tokenRead"
    /\ \/ /\ req[r].playground
          /\ ses' = [ses EXCEPT ![r].tokenConsumed = arg[r]]
          /\ Goto(r, "funding") /\ NoFault /\ UNCHANGED arg
       \/ /\ ~ req[r].playground /\ TokenAllows(arg[r])
          /\ Goto(r, "tokenDec") /\ NoFault /\ UNCHANGED <<ses, arg>>
       \/ ~ req[r].playground /\ ~ TokenAllows(arg[r]) /\ Reject(r) /\ NoFault
       \/ ~ req[r].playground /\ Reject(r) /\ Fault
    /\ NoMove
    /\ UNCHANGED <<req, refunder, logged>>

\* Second half: take the quota from the token.
ConsumeToken(r) ==
    /\ pc[r] = "tokenDec"
    /\ \/ /\ DecreaseTokenQuota(r, arg[r])
          /\ ses' = [ses EXCEPT ![r].tokenConsumed = arg[r]]
          /\ Goto(r, "funding") /\ NoFault /\ UNCHANGED arg
       \/ NoMove /\ Reject(r) /\ Fault
    /\ UNCHANGED <<req, refunder, logged>>

\* preConsume has charged both sides: the session is handed to the caller.
Open(r, subId, held) ==
    /\ ses' = [ses EXCEPT ![r].sub = subId, ![r].held = held,
                          ![r].pre = arg[r]]
    /\ Goto(r, "open")

\* WalletFunding.PreConsume.
WalletPreConsume(r) ==
    /\ pc[r] = "funding" /\ ses[r].src = "wallet"
    /\ IF arg[r] > 0 THEN DecreaseUserQuota(r, arg[r]) ELSE NoMove
    /\ Open(r, 0, arg[r]) /\ NoFault
    /\ UNCHANGED <<req, arg, refunder, logged>>

\* SubscriptionFunding.PreConsume: one transaction picks a subscription,
\* writes the idempotency record and consumes.
SubscriptionPreConsume(r) ==
    /\ pc[r] = "funding" /\ ses[r].src = "sub"
    /\ \E s \in Subs :
        /\ FirstRoom(s, arg[r])
        /\ subUsed' = [subUsed EXCEPT ![s] = @ + arg[r]]
        /\ took' = [took EXCEPT ![r].sub = @ + arg[r]]
        /\ record' = [record EXCEPT ![r] = "consumed"]
        /\ Open(r, s, arg[r])
    /\ NoFault
    /\ UNCHANGED <<wallet, token, req, arg, refunder, logged>>

\* funding.PreConsume fails.  No subscription with room, and also a failing
\* query for them, count as insufficient quota; anything else does not.
FundingFails(r) ==
    /\ pc[r] = "funding"
    /\ \E e \in {"insufficient", "update"} :
        /\ ses' = [ses EXCEPT ![r].err = e]
        /\ \/ /\ ses[r].src = "sub" /\ e = "insufficient" /\ NoFault
              /\ \A s \in Subs : ~ HasRoom(s, arg[r])
           \/ ses[r].src = "sub" /\ Fault
           \/ ses[r].src = "wallet" /\ e = "update" /\ arg[r] > 0 /\ Fault
    /\ Goto(r, "rollback")
    /\ NoMove
    /\ UNCHANGED <<req, arg, refunder, logged>>

\* The token is given back and the error is returned, or acted upon.
NoTokenHeld(r) == 0  \* mutant: the token is never given back
TokenHeld(r) == IF req[r].playground THEN 0 ELSE ses[r].tokenConsumed
RollbackToken(r) ==
    /\ pc[r] = "rollback"
    /\ TokenHeld(r) > 0
    /\ ses' = [ses EXCEPT ![r].tokenConsumed = 0]
    /\ \/ DecreaseTokenQuota(r, -TokenHeld(r)) /\ NoFault /\ UNCHANGED logged
       \/ NoMove /\ Fault /\ Log(r, "rollback")
    /\ UNCHANGED <<req, arg, pc, refunder>>
PreConsumeError(r) ==
    /\ pc[r] = "rollback"
    /\ TokenHeld(r) = 0
    /\ \/ ses[r].err = "insufficient" /\ Fallback(r, ses[r].src)
       \/ ses[r].err = "update" /\ Reject(r) /\ NoFault
    /\ NoMove
    /\ UNCHANGED <<req, refunder, logged>>

-----------------------------------------------------------------------------
(* Reserve, Settle.  pc leaves "open" while the call holds the mutex.      *)

\* Reserve raises the reservation to the target, funding first.
ReservableLate(r, target) ==  \* mutant: settled sessions too
    ~ ses[r].refunded /\ ~ ses[r].trusted /\ target > ses[r].pre
Reservable(r, target) ==
    /\ ~ ses[r].settled /\ ~ ses[r].refunded /\ ~ ses[r].trusted
    /\ target > ses[r].pre
Reserve(r, target) ==
    /\ pc[r] = "open"
    /\ Reservable(r, target)
    /\ arg' = [arg EXCEPT ![r] = target - ses[r].pre]
    /\ Goto(r, "resFunding")
    /\ NoMove /\ NoFault
    /\ UNCHANGED <<req, ses, refunder, logged>>

\* reserveFunding.  Only the wallet funding remembers it in `consumed`.
HeldChange(r, n) ==
    ses' = [ses EXCEPT ![r].held = @ + IF ses[r].src = "wallet" THEN n ELSE 0]
ReserveFunding(r) ==
    /\ pc[r] = "resFunding"
    /\ \/ /\ AdjustFunding(r, arg[r]) /\ HeldChange(r, arg[r])
          /\ Goto(r, "resRead") /\ NoFault
       \/ /\ ses[r].src = "sub" /\ ~ SubRoom(ses[r].sub, arg[r])
          /\ NoMove /\ Goto(r, "open") /\ NoFault /\ UNCHANGED ses
       \/ NoMove /\ Goto(r, "open") /\ Fault /\ UNCHANGED ses
    /\ UNCHANGED <<req, arg, refunder, logged>>

\* The fields updated after both reservations succeeded.
ReservedNoExtra(r) ==  \* mutant: extraReserved is not recorded
    /\ ses' = [ses EXCEPT ![r].pre = @ + arg[r],
                          ![r].tokenConsumed = @ + arg[r]]
    /\ Goto(r, "open")
Reserved(r) ==
    /\ ses' = [ses EXCEPT ![r].pre = @ + arg[r],
                          ![r].tokenConsumed = @ + arg[r],
                          ![r].extraReserved = @ + arg[r]]
    /\ Goto(r, "open")

\* reserveToken: nothing to do for the playground, otherwise
\* PreConsumeTokenQuota in its two steps.
ReserveReadToken(r) ==
    /\ pc[r] = "resRead"
    /\ \/ req[r].playground /\ Reserved(r) /\ NoFault
       \/ /\ ~ req[r].playground /\ TokenAllows(arg[r])
          /\ Goto(r, "resDec") /\ NoFault /\ UNCHANGED ses
       \/ /\ ~ req[r].playground /\ ~ TokenAllows(arg[r])
          /\ Goto(r, "resRollback") /\ NoFault /\ UNCHANGED ses
       \/ /\ ~ req[r].playground
          /\ Goto(r, "resRollback") /\ Fault /\ UNCHANGED ses
    /\ NoMove
    /\ UNCHANGED <<req, arg, refunder, logged>>
ReserveConsumeToken(r) ==
    /\ pc[r] = "resDec"
    /\ \/ DecreaseTokenQuota(r, arg[r]) /\ Reserved(r) /\ NoFault
       \/ NoMove /\ Goto(r, "resRollback") /\ Fault /\ UNCHANGED ses
    /\ UNCHANGED <<req, arg, refunder, logged>>

\* rollbackFundingReserve.
RollbackFundingReserve(r) ==
    /\ pc[r] = "resRollback"
    /\ \/ /\ AdjustFunding(r, -arg[r]) /\ HeldChange(r, -arg[r])
          /\ NoFault /\ UNCHANGED logged
       \/ NoMove /\ Fault /\ Log(r, "reserve") /\ UNCHANGED ses
    /\ Goto(r, "open")
    /\ UNCHANGED <<req, arg, refunder>>

\* Settle(actual): nothing when settled; no movement when the reservation is
\* exact.
Settle(r, actual) ==
    /\ pc[r] = "open"
    /\ ~ ses[r].settled
    /\ arg' = [arg EXCEPT ![r] = actual]
    /\ \/ /\ actual = ses[r].pre
          /\ ses' = [ses EXCEPT ![r].settled = TRUE] /\ UNCHANGED pc
       \/ actual # ses[r].pre /\ Goto(r, "setFunding") /\ UNCHANGED ses
    /\ NoMove /\ NoFault
    /\ UNCHANGED <<req, refunder, logged>>

\* SettleBilling is called inside the request's handler, which has deferred
\* Refund to its end: the session does not check that it was not refunded, the
\* order of the handler sees to it.
HandlerRunning(r) == ~ ses[r].refunded
SettleBilling(r, actual) == HandlerRunning(r) /\ Settle(r, actual)

FullDelta(r) == arg[r]  \* mutant: the pre-consumed quota is forgotten
Delta(r) == arg[r] - ses[r].pre

\* funding.Settle(delta); an error is returned before anything is marked.
SettleFunding(r) ==
    /\ pc[r] = "setFunding"
    /\ \/ /\ AdjustFunding(r, Delta(r)) /\ NoFault /\ Goto(r, "setToken")
          /\ ses' = [ses EXCEPT ![r].fundingSettled = TRUE]
       \/ /\ ses[r].src = "sub" /\ ~ SubRoom(ses[r].sub, Delta(r))
          /\ NoMove /\ NoFault /\ Goto(r, "open") /\ UNCHANGED ses
       \/ NoMove /\ Fault /\ Goto(r, "open") /\ UNCHANGED ses
    /\ UNCHANGED <<req, arg, refunder, logged>>

\* The token follows; its error is logged and the session is settled anyway.
SettleToken(r) ==
    /\ pc[r] = "setToken"
    /\ \/ req[r].playground /\ NoMove /\ NoFault /\ UNCHANGED logged
       \/ /\ ~ req[r].playground
          /\ DecreaseTokenQuota(r, Delta(r)) /\ NoFault /\ UNCHANGED logged
       \/ ~ req[r].playground /\ NoMove /\ Fault /\ Log(r, "settle")
    /\ ses' = [ses EXCEPT ![r].settled = TRUE]
    /\ Goto(r, "open")
    /\ UNCHANGED <<req, arg, refunder>>

-----------------------------------------------------------------------------
(* Refund and its goroutine.                                               *)

NeedsRefund(r) ==
    /\ ~ ses[r].settled /\ ~ ses[r].refunded /\ ~ ses[r].fundingSettled
    /\ \/ ses[r].tokenConsumed > 0
       \/ ses[r].src = "sub" /\ ses[r].held > 0

RefundableHeld(r) == ses[r].tokenConsumed > 0  \* mutant: the flags are ignored
Refundable(r) ==
    ~ ses[r].settled /\ ~ ses[r].refunded /\ NeedsRefund(r)
Refund(r) ==
    /\ pc[r] = "open"
    /\ Refundable(r)
    /\ ses' = [ses EXCEPT ![r].refunded = TRUE]
    /\ ref' = [ref EXCEPT ![r] = "funding"]
    /\ NoMove /\ NoFault
    /\ UNCHANGED <<req, arg, pc, attempts, logged>>

RefGoto(r, l) == ref' = [ref EXCEPT ![r] = l]

\* WalletFunding.Refund: never retried.
RefundWallet(r) ==
    /\ ref[r] = "funding" /\ ses[r].src = "wallet"
    /\ \/ /\ IF ses[r].held > 0 THEN DecreaseUserQuota(r, -ses[r].held)
                                ELSE NoMove
          /\ NoFault /\ UNCHANGED logged
       \/ ses[r].held > 0 /\ NoMove /\ Fault /\ Log(r, "funding")
    /\ RefGoto(r, "extra")
    /\ UNCHANGED <<req, ses, arg, pc, attempts>>

\* One failed attempt of refundWithRetry: try again from the record, or log
\* and go on after the last one.
AttemptAborts(r) ==  \* mutant: the goroutine returns on the first error
    /\ attempts' = [attempts EXCEPT ![r] = @ + 1]
    /\ Fault /\ RefGoto(r, "none") /\ UNCHANGED logged
AttemptFails(r) ==
    /\ attempts' = [attempts EXCEPT ![r] = @ + 1]
    /\ Fault
    /\ \/ attempts[r] + 1 < MaxAttempts /\ RefGoto(r, "funding") /\ UNCHANGED logged
       \/ attempts[r] + 1 = MaxAttempts /\ RefGoto(r, "extra") /\ Log(r, "funding")

\* RefundSubscriptionPreConsume, up to the call of
\* PostConsumeUserSubscriptionDelta, which commits its own transaction.
AlreadyRefundedNever(r) == FALSE  \* mutant: the record is not looked at
AlreadyRefunded(r) == record[r] = "refunded"
RefundSubscription(r) ==
    /\ ref[r] = "funding" /\ ses[r].src = "sub"
    /\ \/ /\ AlreadyRefunded(r) \/ ses[r].held <= 0
          /\ NoMove /\ RefGoto(r, "extra") /\ NoFault /\ UNCHANGED <<attempts, logged>>
       \/ /\ ~ AlreadyRefunded(r) /\ ses[r].held > 0
          /\ PostConsumeUserSubscriptionDelta(r, -ses[r].held)
          /\ RefGoto(r, "save") /\ NoFault /\ UNCHANGED <<attempts, logged>>
       \/ ses[r].held > 0 /\ NoMove /\ AttemptFails(r)
    /\ UNCHANGED <<req, ses, arg, pc>>

\* The rest of it: the record is saved as refunded and the outer transaction
\* commits.  The save can be lost with the outer transaction, and a retry then
\* finds the record as it was; or only its acknowledgement is lost.
RefundSave(r) ==
    /\ ref[r] = "save"
    /\ \/ /\ record' = [record EXCEPT ![r] = "refunded"]
          /\ RefGoto(r, "extra") /\ NoFault /\ UNCHANGED <<took, attempts, logged>>
       \/ /\ "lost_ack" \in SaveFaults
          /\ record' = [record EXCEPT ![r] = "refunded"] /\ AttemptFails(r)
          /\ UNCHANGED took
       \/ /\ "lost_save" \in SaveFaults
          /\ UNCHANGED record /\ AttemptFails(r)
          /\ took' = [took EXCEPT ![r].again =
                        @ + IF ref'[r] = "funding" THEN ses[r].held ELSE 0]
    /\ UNCHANGED <<wallet, token, subUsed, req, ses, arg, pc>>

\* What Reserve added on a subscription is given back separately.
RefundExtra(r) ==
    /\ ref[r] = "extra"
    /\ LET due == ses[r].extraReserved > 0 /\ ses[r].src = "sub" IN
       \/ ~ due /\ NoMove /\ NoFault /\ UNCHANGED logged
       \/ /\ due /\ PostConsumeUserSubscriptionDelta(r, -ses[r].extraReserved)
          /\ NoFault /\ UNCHANGED logged
       \/ due /\ NoMove /\ Fault /\ Log(r, "extra")
    /\ RefGoto(r, "token")
    /\ UNCHANGED <<req, ses, arg, pc, attempts>>

RefundToken(r) ==
    /\ ref[r] = "token"
    /\ \/ TokenHeld(r) = 0 /\ NoMove /\ NoFault /\ UNCHANGED logged
       \/ /\ TokenHeld(r) > 0 /\ DecreaseTokenQuota(r, -TokenHeld(r))
          /\ NoFault /\ UNCHANGED logged
       \/ TokenHeld(r) > 0 /\ NoMove /\ Fault /\ Log(r, "token")
    /\ RefGoto(r, "done")
    /\ UNCHANGED <<req, ses, arg, pc, attempts>>

\* maybeResetUserSubscriptionWithPlanTx: a period has ended and amount_used of
\* a subscription starts again at 0.  ResetDueSubscriptions does this at any
\* time; a pre-consumption that finds a reset due is this step followed by
\* SubscriptionPreConsume.
ResetSubscription(s) ==
    /\ resets < MaxResets
    /\ resets' = resets + 1
    /\ subUsed' = [subUsed EXCEPT ![s] = 0]
    /\ UNCHANGED <<wallet, token, record, req, ses, pc, arg, refunder, took,
                   logged, faults>>

-----------------------------------------------------------------------------
CallStep(r) ==
    \/ TryWallet(r) \/ ReadToken(r) \/ ConsumeToken(r)
    \/ WalletPreConsume(r) \/ SubscriptionPreConsume(r) \/ FundingFails(r)
    \/ RollbackToken(r) \/ PreConsumeError(r)
    \/ ReserveFunding(r) \/ ReserveReadToken(r) \/ ReserveConsumeToken(r)
    \/ RollbackFundingReserve(r)
    \/ SettleFunding(r) \/ SettleToken(r)

RefundStep(r) ==
    \/ RefundWallet(r) \/ RefundSubscription(r) \/ RefundSave(r)
    \/ RefundExtra(r) \/ RefundToken(r)

Next ==
    \/ \E r \in Requests :
        \/ NewBillingSession(r)
        \/ CallStep(r)
        \/ \E t \in Targets : Reserve(r, t)
        \/ \E a \in Actuals : SettleBilling(r, a)
        \/ Refund(r)
        \/ RefundStep(r)
    \/ \E s \in Subs : ResetSubscription(s)

Spec == Init /\ [][Next]_vars

\* A call that started runs to its end and a goroutine that was started is
\* scheduled: the Go runtime gives both.  Callers and resets owe nothing.
Fairness == \A r \in Requests : WF_vars(CallStep(r)) /\ WF_vars(RefundStep(r))

FairSpec == Spec /\ Fairness

-----------------------------------------------------------------------------
(* Properties.                                                             *)

Funded(r) == took[r].wallet + took[r].sub
\* What the token was charged when the funding source was charged n.
TokenSide(r, n) == IF req[r].playground THEN 0 ELSE n
\* No call is in progress and the refund goroutine is not running.
Quiet(r) == pc[r] = "open" /\ ref[r] \in {"none", "done"}

\* Settle: once it has succeeded, funding source and token have both been
\* charged exactly the actual cost, whatever was pre-consumed, reserved, rolled
\* back or failed before; unless the log has an error line for the request.
SettledExact ==
    \A r \in Requests :
        Quiet(r) /\ ses[r].settled /\ logged[r] = {} =>
            /\ Funded(r) = arg[r]
            /\ took[r].token = TokenSide(r, arg[r])

\* Refund: when its goroutine has ended, the request has cost nothing, and no
\* more was given back than what retries gave back again because the record of
\* an attempt was lost; unless the log has an error line for it.
RefundedExact ==
    \A r \in Requests :
        Quiet(r) /\ ses[r].refunded /\ logged[r] = {} =>
            Funded(r) = -took[r].again /\ took[r].token = 0

\* preConsume, Reserve and failed Settle calls: while a request is in flight
\* both sides hold exactly preConsumedQuota, and this covers the quota asked
\* for unless the trust bypass applied, which it never does to async tasks.
InFlightCovered ==
    \A r \in Requests :
        Quiet(r) /\ ~ ses[r].settled /\ ~ ses[r].refunded /\ logged[r] = {} =>
            /\ Funded(r) = ses[r].pre
            /\ took[r].token = TokenSide(r, ses[r].pre)
            /\ ses[r].pre >= req[r].quota \/ (ses[r].trusted /\ ~ req[r].force)

\* preConsume and the fallback between sources: a request that is turned away
\* has cost nothing, whichever steps had been done; unless the rollback failed.
RejectedClean ==
    \A r \in Requests :
        pc[r] = "rejected" /\ logged[r] = {} =>
            Funded(r) = 0 /\ took[r].token = 0

\* At no time, and whatever fails, has more been given back for a request than
\* was taken for it from the wallet or the token.
NeverOverRefunded ==
    \A r \in Requests : took[r].wallet >= 0 /\ took[r].token >= 0

\* NewBillingSession: one source pays for a request, and the wallet only does
\* when the preference or every active subscription allows it.
FundingByConsent ==
    \A r \in Requests :
        /\ took[r].wallet = 0 \/ took[r].sub = 0
        /\ took[r].wallet # 0 =>
              \/ req[r].pref \in {"wallet_only", "wallet_first"}
              \/ req[r].pref = "subscription_first" /\ (AllowOverflow \/ Subs = {})
        /\ took[r].sub # 0 => req[r].pref # "wallet_only"

\* tryWallet and PreConsumeTokenQuota check and then take in two statements:
\* only requests that overlap can overdraw.  One that is alone, and has not
\* been settled for more or extended by Reserve, leaves no negative balance.
LoneRequestNeverOverdraws ==
    \A r \in Requests :
        /\ \A o \in Requests \ {r} : Funded(o) = 0 /\ took[o].token = 0
        /\ ~ ses[r].settled /\ ~ ses[r].fundingSettled
        /\ ses[r].extraReserved = 0 /\ pc[r] \notin CallStates
        /\ logged[r] = {}
        => wallet >= 0 /\ (TokenUnlimited \/ token >= 0)

\* PreConsumeUserSubscription and PostConsumeUserSubscriptionDelta: no
\* subscription is used beyond its total, across fallbacks, refunds and resets.
SubWithinTotal ==
    \A s \in Subs : SubTotal[s] = 0 \/ subUsed[s] <= SubTotal[s]

\* RefundSubscriptionPreConsume "is idempotent": retries of a refund never eat
\* into what other requests hold of, or were charged to, the subscription.  The
\* code breaks this when it loses the record of an attempt.
HeldOf(r) == IF ses[r].settled THEN arg[r] ELSE ses[r].pre
SubscriptionRefundIdempotent ==
    resets = 0 => \A s \in Subs :
        subUsed[s] >= MapThenSumSet(HeldOf,
            {r \in Requests : Quiet(r) /\ ses[r].sub = s /\ ~ ses[r].refunded})

\* What RefundSubscriptionPreConsume does keep, whatever fails and however often
\* it is retried: the subscription is charged what its requests hold of it, or
\* were settled with, except for the amounts whose record was lost, each of
\* which is given back once more and not more often.
HeldNow(r) == IF Quiet(r) /\ ~ ses[r].refunded THEN HeldOf(r) ELSE 0
Share(r) == HeldNow(r) - took[r].again
SubscriptionKeepsShares ==
    resets = 0 => \A s \in Subs :
        subUsed[s] >= MapThenSumSet(Share, {r \in Requests : ses[r].sub = s})

\* Settle: a settled session is final.  No later step, of the goroutine or of
\* another call, moves quota for the request.
SettledIsFinal ==
    [][\A r \in Requests : ses[r].settled =>
          took'[r] = took[r] /\ ses'[r].settled]_vars

\* Every call on a session returns: no chain of fallbacks, rollbacks and
\* errors goes on for ever.
CallsReturn ==
    \A r \in Requests :
        pc[r] \notin {"idle", "open", "rejected"} ~> pc[r] \in {"open", "rejected"}

\* A session marked refunded is refunded: its goroutine ends, after at most
\* three attempts at the subscription.
RefundFinishes ==
    \A r \in Requests : ses[r].refunded ~> ref[r] = "done"

=============================================================================
