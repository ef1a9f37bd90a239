SPECIFICATION Spec
CONSTANTS
    base = base
    flat = flat
    loose = loose
    custom = custom
    Configs <- Shown
    Default = base
    Loose = {loose}
    ReadAs <- ZeroCoefficients
    Opaque = {custom}
    Groups <- EnteredGroups
    Presets <- Templates
    Typed <- TypedExprs
    Stored <- StoredExprs
    MaxGroups = 2
    MaxSaves = 1
INVARIANTS
    PriceAlwaysSurvives
