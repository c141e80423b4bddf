SPECIFICATION Spec
CONSTANTS
    Keys = {k1, k2, k3, k4}
    Limit = 2
    Window = 3
    MaxKeys = 2
    MaxTime = 3
    MaxAdmitted = 3
SYMMETRY Symmetry
INVARIANTS Inv RateIsBounded RefusalIsDeserved
