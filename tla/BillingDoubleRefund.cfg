SPECIFICATION Spec
CONSTANTS
    Requests = {r1, r2}
    Subs <- MCSubs1
    SubTotal <- MCTotal1
    InitWallet = 3
    InitToken = 5
    TokenUnlimited = TRUE
    AllowOverflow = FALSE
    TrustQuota = 0
    Prefs = {"subscription_first"}
    Playgrounds = {FALSE}
    Forces = {FALSE}
    Quotas = {2}
    Actuals = {1, 4}
    Targets = {3}
    SaveFaults = {"lost_save"}
    MaxFaults = 1
    MaxResets = 0
INVARIANTS
    SubscriptionRefundIdempotent
CHECK_DEADLOCK FALSE
