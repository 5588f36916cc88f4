SPECIFICATION Spec
CONSTANTS
    first = first
    second = second
    other = other
    Entry <- MCEntry
    NFeeds = 2
    FeedOf <- MCFeedOf
    Dated = {first, second, other}
    Run = {daily, manual}
    Scheduled = daily
    Day = 1
    Drift = 0
    Window = 2
    MaxPerFeed = 1
    MaxFaults = 0
    MaxIssues = 2
INVARIANT NewEntryReported
