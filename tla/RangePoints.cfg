SPECIFICATION Spec
CONSTANTS
    Precision = 10
    HalfPi <- MCHalfPi
    ToleranceDivisor = 16
    LatRanges <- MCLatRanges
    LonRanges <- MCLonRanges
INVARIANTS GeneratedPointsAreValid
CHECK_DEADLOCK FALSE
