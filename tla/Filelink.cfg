SPECIFICATION Spec
CONSTANTS
    work = work
    home = home
    depot = depot
    other = other
    Account = {work, home}
    Id = {1}
    Server = {depot, other}
    NoServer = NoServer
    NoFile = NoFile
    Foreign = Foreign
CHECK_DEADLOCK FALSE
INVARIANTS
    TypeOK
    LinkKeepsFile
    LinkIsRecorded
    LeftBehindByOwnFailure
