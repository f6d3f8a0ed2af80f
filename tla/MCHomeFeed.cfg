SPECIFICATION FairSpec
CONSTANTS
    LastPage = 3
    MaxVisits = 3
    MaxAsks = 6
INVARIANTS TypeOK TwicePerVisit NoSkippedPage StartsWithFirstPage
PROPERTIES RowsKeepTheirItems PagesArrive
CHECK_DEADLOCK FALSE
