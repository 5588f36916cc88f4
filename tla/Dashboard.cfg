SPECIFICATION FairSpec
CONSTANTS
    Order <- MCOrder
    Followed = {"caddy", "synapse"}
    Title = {"v1", ""}
    Plain <- MCPlain
    Current <- MCCurrent
    MaxBreaks = 2
INVARIANTS
    PageTypeOK
    RowIsOwn
    GapExplained
PROPERTY PageKeepsComing
