SPECIFICATION Spec
CONSTANTS
    Characters <- const_Characters
    Texts <- const_Texts
    Numerals <- const_Numerals
    Prices <- const_Prices
    MaxOthers = 4
    Reach = 6
INVARIANTS SubstringIsSlice CommasGroupThousands InsertCommaIdempotent LabelsMatchItems
CHECK_DEADLOCK FALSE
