\* Prices from below the lowest limit to above the highest.
SPECIFICATION Spec
CONSTANTS
    MaxBrackets = 4
    Steps = {1, 2, 3}
    Prices <- PricesAround
    Amounts = {0, 5, 8}
INVARIANTS TypeOK HalfStepMargin NeverRunsShort DepositsAreCorrect OnlyDustIsLeft
CHECK_DEADLOCK FALSE
