SPECIFICATION Spec
CONSTANTS
    Lengths <- MCLengths
    Leftovers <- MCLeftovers
CHECK_DEADLOCK FALSE
INVARIANTS RoundTrip TooLongIsMalformed SumFits
