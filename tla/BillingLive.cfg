SPECIFICATION FairSpec
CONSTANTS
    Requests = {r1, r2}
    Subs <- MCSubs1
    SubTotal <- MCTotal1
    InitWallet = 2
    InitToken = 3
    TokenUnlimited = FALSE
    AllowOverflow = FALSE
    TrustQuota = 0
    Prefs = {"subscription_first", "wallet_first"}
    Playgrounds = {FALSE}
    Forces = {FALSE}
    Quotas = {2, 3}
    Actuals = {1}
    Targets = {3}
    SaveFaults = {"lost_ack", "lost_save"}
    MaxFaults = 3
    MaxResets = 0
INVARIANTS
    FundingByConsent
    NeverOverRefunded
PROPERTIES
    CallsReturn
    RefundFinishes
CHECK_DEADLOCK FALSE
