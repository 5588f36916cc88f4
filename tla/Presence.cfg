SPECIFICATION FairSpec
CONSTANTS
    alice = alice
    bob = bob
    r1 = r1
    r2 = r2
    User = {alice, bob}
    Room = {r1, r2}
    Nowhere = Nowhere
    MatrixStatus = {"online"}
    Agenda <- MCAgenda
    Pending = Pending
    Unknown = Unknown
CHECK_DEADLOCK FALSE
INVARIANTS
    TypeOK
    StayingIsShown
    MeetingHasReason
PROPERTY EventsKeepComing
