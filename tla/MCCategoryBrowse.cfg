SPECIFICATION Spec
CONSTANTS
    c1 = c1
    c2 = c2
    s1 = s1
    s2 = s2
    s3 = s3
    t1 = t1
    t3 = t3
    All = All
    Categories <- AllCategories
    TopLevel <- FirstLevel
    Children <- Tree
    Shortened <- Folded
    MaxScreens = 4
    MaxAsks = 8
INVARIANTS TypeOK PathsLead ChosenIsAPath ListMatchesButton
CHECK_DEADLOCK FALSE
