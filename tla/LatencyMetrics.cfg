CONSTANTS
    Requests = {r1, r2}
    Never = Never
    Horizon = 3
    Boundaries <- TwoBounds
SPECIFICATION Spec
INVARIANTS
    TypeOK
    ExportIsCumulative
    OneLatency
    QuantilesNearRank
PROPERTY TimingsNested
SYMMETRY RequestSymmetry
CHECK_DEADLOCK FALSE
