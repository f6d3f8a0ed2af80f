SPECIFICATION FairSpec
CONSTANTS
    p1 = p1
    p2 = p2
    n1 = n1
    DefaultName = n1
    Pictures <- TwoPictures
    Names <- OneName
    MaxForms = 1
    MaxSubmissions = 2
INVARIANTS TypeOK NegoFormHasNoPrice SentItemsArePriced PictureIsStored
PROPERTIES SubmissionsEnd PostedOnce
