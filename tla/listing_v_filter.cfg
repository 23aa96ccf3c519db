SPECIFICATION Spec
CONSTANTS
    Rows = {1, 2, 3, 4}
    PageSize = 2
    Matching = {2, 3, 4}
    Rubro = {1, 3, 4}
INVARIANT MoreOfTheSame
CHECK_DEADLOCK FALSE
