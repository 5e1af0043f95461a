SPECIFICATION Spec
CONSTANTS
    Mask = 2
    Modulus = 8
    MayLosePriv = TRUE
PROPERTY BuffersComeBack
