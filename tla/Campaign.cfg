SPECIFICATION CampaignSpec
CONSTANTS
    Rules = {1}
    Triggers = {1}
    Events = {1, 2}
    Callers = {h1, h2}
    NoTrigger = NoTrigger
    NoEvent = NoEvent
    Users = {1, 2}
    Invites = {i1}
    Roles = {"owner", "admin"}
    NoUser = NoUser
    Handlers = {h1, h2}
    Logins = {l1, l2, l3}
    Threshold = 3
    CalendarEvents = {1, 2, 3}
    Campaigns = {1, 2}
    EveryCampaign = EveryCampaign
    Regions = {eu}
    NoRegion = NoRegion
    ListLimit = 2
    LastInstant = 1
    Variants = {v1, v2}
    AiVariants = {v2}
    Answers = {q1}
    RuleBased = RuleBased
    MaxSets = 2
    MaxApprovals = 2
    Actors = {1, 2}
    MaxGenerations = 2
    MaxPlans = 2
    MaxFeedback = 2
    Zones = {"UTC", "Asia"}
    SourceRows = {1, 2, 3}
    NoRow = NoRow
CONSTRAINT BeforeRace
SYMMETRY Symmetry
CHECK_DEADLOCK FALSE
INVARIANTS CampaignTypeOK ResolvedIsConfirmed GuessesBounded FeedsAreRight
PROPERTIES MembersAreGoverned AssistanceIsReviewed PreferencesAreKept SourcesAreGoverned
