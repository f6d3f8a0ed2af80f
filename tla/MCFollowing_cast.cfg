SPECIFICATION Spec
CONSTANTS
    s1 = s1
    s2 = s2
    few = few
    none = none
    Shops <- TwoShops
    Incomplete = {}
    Anonymous = {}
    Recommendations <- BothOrOne
    RowsOnScreen = 1
    MaxAppearances = 2
    MaxFetches = 1
INVARIANT CellsCast
CHECK_DEADLOCK FALSE
