SPECIFICATION OperationsSpec
CONSTANTS
    Subs = {s1}
    Deliveries = {x1, x2}
    NoSub = NoSub
    Keys = {k1, k2}
    MaxAttempts = 2
    MaxPosts = 2
    Handlers = {h1, h2}
    Batches <- MCBatches
    LastHour = 2
    MaxWindow = 1
    RuleWindow = 2
    Needed = 2
    MaxComputed = 3
    RuleCount = 2
    SystemRules = {1}
    LastWindow = 1
    MaxAlerts = 3
    MailTypes = {m1}
    InboxTypes = {i1}
    FirstType = i1
    MaxNotes = 1
    Orgs = {x1, x2}
    Configured = "test_like"
    NoOrg = NoOrg
    MaxSnapshots = 2
    ScrapeTokens = {w1}
    NoScrapeToken = NoScrapeToken
    NoPolicy = NoPolicy
    InstalledSdks = {}
    LeadRows = {l1, l2}
    UserRows = {u1}
    ObservationRows = {o1}
CONSTRAINT BeforeRace
SYMMETRY Symmetry
CHECK_DEADLOCK FALSE
INVARIANTS OperationsTypeOK HealthIsFair ExportsAreAccepted DeletedOnce
PROPERTIES DeliveriesAreSound AlertsAreAccounted PreferencesDecide ModeIsObeyed
