SPECIFICATION Spec
CONSTANTS
    signal = signal
    summary = summary
    revised = revised
    k1 = k1
    k2 = k2
    Output <- Outputs
    Key <- Keys
    KeyOf <- KeyOfOutput
    MaxBuffer = 1
    PageLimit = 1
    MaxEmits = 3
    MaxCrashes = 1
    MaxForeign = 1
    MaxLosses = 1
INVARIANTS
    FlushedStays
    ReleasedWasDelivered
    AnsweredAckStays
