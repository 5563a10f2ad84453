SPECIFICATION Spec
CONSTANTS
    Inputs <- MCInputs
    Numbers <- MCNumbers
    Sizes = {7, 64}
INVARIANTS
    Packing
    RoundTrip
    Ucs2Arrives
    OnlyTheTailIsLost
