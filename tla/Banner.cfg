SPECIFICATION Spec
CONSTANTS
    q1 = q1
    q2 = q2
    Query = {q1, q2}
    Nothing = Nothing
    MaxSearches = 3
    MaxPolls = 2
CHECK_DEADLOCK FALSE
INVARIANTS
    TypeOK
    RestsOnItsText
PROPERTY GoesBackByCrossing
