SPECIFICATION Spec
CONSTANTS
    Requests = {r1, r2}
    Subs <- MCSubs0
    SubTotal <- MCTotal0
    InitWallet = 3
    InitToken = 4
    TokenUnlimited = FALSE
    AllowOverflow = TRUE
    TrustQuota = 2
    Prefs = {"wallet_only", "subscription_first"}
    Playgrounds = {FALSE, TRUE}
    Forces = {FALSE, TRUE}
    Quotas = {0, 2, 4}
    Actuals = {0, 3}
    Targets = {3}
    SaveFaults = {}
    MaxFaults = 1
    MaxResets = 0
SYMMETRY Sym
INVARIANTS
    SettledExact
    InFlightCovered
    LoneRequestNeverOverdraws
PROPERTIES
    SettledIsFinal
CHECK_DEADLOCK FALSE
