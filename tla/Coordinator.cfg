SPECIFICATION FairSpec
CONSTANTS
    NumSites = 2
    Slots = 2
    Threshold = 2
    SiteThreshold = 3
    SiteSkip = 2
    ProbeEvery = 2
INVARIANTS
    TrialNotLost
    BlackHoleIsSkipped
PROPERTIES
    OpenIsProbed
