SPECIFICATION Spec
CONSTANTS
    g1 = g1
    g2 = g2
    g3 = g3
    Callers <- MCCallers
    NoHelper = NoHelper
    NeverBuilt = NeverBuilt
    MaxCalls = 2
INVARIANT
    NilErrorMeansHelper
