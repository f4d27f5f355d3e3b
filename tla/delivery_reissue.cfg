SPECIFICATION Spec
CONSTANTS
    signal = signal
    summary = summary
    revised = revised
    k1 = k1
    k2 = k2
    Output <- Outputs
    Key <- Keys
    KeyOf <- KeyOfOutput
    MaxBuffer = 2
    PageLimit = 1
    MaxEmits = 2
    MaxCrashes = 1
    MaxForeign = 0
    MaxLosses = 0
INVARIANT
    NeverReissued
