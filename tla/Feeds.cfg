SPECIFICATION Spec
CONSTANTS
    first = first
    second = second
    other = other
    Entry <- MCEntry
    NFeeds = 2
    FeedOf <- MCFeedOf
    Dated = {first, other}
    Run = {daily, manual}
    Scheduled = daily
    Day = 2
    Drift = 1
    Window = 2
    MaxPerFeed = 1
    MaxFaults = 1
    MaxIssues = 2
INVARIANTS
    TypeOK
    CalmMeansOneIssue
    MissedOnlyByOutage
