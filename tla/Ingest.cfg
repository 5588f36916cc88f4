SPECIFICATION FairSpec
CONSTANTS
    r1 = r1
    r2 = r2
    s1 = s1
    txt = txt
    Recorded = {r1, r2}
    Staged = {s1, txt}
    Video = {r1, r2, s1}
    Period = 3
    Drift = 1
    Window = 4
    MaxVideos = 3
    MaxFaults = 2
INVARIANTS
    TypeOK
    NoCoverageGap
    AtMostTwice
PROPERTIES
    StagedReachesPeertube
    WebhookKeepsHold
