SPECIFICATION FairSpec
CONSTANTS
    matrix = matrix
    seafile = seafile
    grommunio = grommunio
    Web = {matrix, seafile}
    Mail = {grommunio}
    Timeout = 2
    ImapTimeout = 3
    MaxHits = 2
    MaxTime = 6
CHECK_DEADLOCK FALSE
INVARIANTS
    TypeOK
    OnlyLogoutDelays
    WholeOrNothing
    SessionsLoggedOut
PROPERTIES
    EventuallyResponds
    KeepsPromise
