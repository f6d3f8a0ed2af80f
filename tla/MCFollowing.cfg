SPECIFICATION Spec
CONSTANTS
    s1 = s1
    s2 = s2
    few = few
    none = none
    Shops <- FourShops
    Incomplete <- NotAll
    Anonymous <- NoUser
    Recommendations <- AlsoIncomplete
    RowsOnScreen = 1
    MaxAppearances = 3
    MaxFetches = 2
INVARIANTS TypeOK NotSaidEmpty FollowedOncePerFetch FeedShowsFollowed CrashesHaveCause
CHECK_DEADLOCK FALSE
