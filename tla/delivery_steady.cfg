SPECIFICATION FairSpec
CONSTANTS
    signal = signal
    summary = summary
    revised = revised
    k1 = k1
    k2 = k2
    Output <- Outputs
    Key <- Keys
    KeyOf <- KeyOfOutput
    MaxBuffer = 2
    PageLimit = 1
    MaxEmits = 4
    MaxCrashes = 0
    MaxForeign = 0
    MaxLosses = 2
INVARIANT
    EmptyPageIsComplete
PROPERTY
    AcceptedIsDelivered
