SPECIFICATION ReviewSpec
CONSTANTS
    Handlers = {h1, h2}
    MaxTexts = 3
    LeadIds = {1, 2}
    ReminderIds = {1, 2}
    Keys = {k1, k2}
    LastDay = 2
    LeadStages = {"newly_discovered", "connected", "not_fit"}
    NoLead = NoLead
    NoKey = NoKey
    Times = {t1, t2}
    NoTime = NoTime
    Unwatched = Unwatched
    Tokens = {c1}
    MaxTtl = 2
    LastMoment = 4
    ScoredEvents = {e1, e2}
    Suggestions = {s2}
    TopWeight = 2
    MaxScores = 3
    Confirmations = {1, 2}
    MaxActions = 1
    MaxLog = 3
    MaxPurposes = 2
    Artifacts = {a1, a2, a3}
CONSTRAINT BeforeRace
SYMMETRY Symmetry
CHECK_DEADLOCK FALSE
INVARIANTS ReviewTypeOK ContentIsReviewed
PROPERTIES FollowUpIsKept TokensAreBounded ScoresAreCurrent BrowserIsSupervised BrowserIsPermitted
