SPECIFICATION Spec
CONSTANTS
    Mask = 3
    Modulus = 8
    MayLosePriv = TRUE
INVARIANT StoppedWillWake
