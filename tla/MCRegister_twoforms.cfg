SPECIFICATION Spec
CONSTANTS
    p1 = p1
    p2 = p2
    n1 = n1
    DefaultName = n1
    Pictures <- OnePicture
    Names <- OneName
    MaxForms = 2
    MaxSubmissions = 2
INVARIANTS SentAsSubmitted
