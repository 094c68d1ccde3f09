SPECIFICATION Spec
CONSTANTS
    MaxName = 3
    Dollar = {1}
    Filters <- MCFilters
    Wills <- MCWills
CHECK_DEADLOCK FALSE
INVARIANTS TypeOK FindsEveryMatch FindsNothingElse
PROPERTIES NothingLeft OutlivesPublish
