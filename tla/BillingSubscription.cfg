SPECIFICATION Spec
CONSTANTS
    Requests = {r1, r2}
    Subs <- MCSubs2
    SubTotal <- MCTotal2
    InitWallet = 2
    InitToken = 5
    TokenUnlimited = FALSE
    AllowOverflow = TRUE
    TrustQuota = 0
    Prefs = {"subscription_only", "subscription_first", "wallet_first"}
    Playgrounds = {FALSE}
    Forces = {FALSE}
    Quotas = {0, 2}
    Actuals = {1, 4}
    Targets = {3}
    SaveFaults = {"lost_save", "lost_ack"}
    MaxFaults = 1
    MaxResets = 1
SYMMETRY Sym
INVARIANTS
    TypeOK
    RefundedExact
    RejectedClean
    SubWithinTotal
    SubscriptionKeepsShares
CHECK_DEADLOCK FALSE
