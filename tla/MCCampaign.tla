------------------------------- MODULE MCCampaign -------------------------------
(* Who works on campaigns, with which sources and along which plans.  The    *)
(* components share nothing but the form of a request, so an instance of     *)
(* each is checked on its own: part says which one runs.                     *)
EXTENDS AutoDisable, Membership, LoginLimit, CalendarExport, QueryExpansion, Engagement,
        Locales, SourceRegistry, TLC

VARIABLE part

Parts == {"tick", "members", "login", "calendar", "expansion", "engagement", "locales",
          "registry"}

campaignVars ==
    <<part, vars, membershipVars, loginVars, feedVars, expansionVars, engagementVars,
      localeVars, registryVars>>

CampaignInit ==
    /\ part \in Parts
    /\ Init
    /\ MembershipInit
    /\ LoginInit
    /\ FeedInit
    /\ ExpansionInit
    /\ EngagementInit
    /\ LocalesInit
    /\ RegistryInit

-----------------------------------------------------------------------------
(* Bounds. *)

\* Ids are interchangeable, and are numbers here: the lowest that is free comes first.
LowestFirst ==
    /\ \A e \in Events : status[e] # "unused" => \A f \in 1 .. e : status[f] # "unused"
    /\ known # {} => 1 \in known
    /\ \A i \in DOMAIN listing : listing[i] = Len(listing) - i + 1
    /\ listing # <<>> => belongs[1] = 1
    /\ feedback # <<>> => feedback[1].actor = 1
    /\ Registered = 1 .. Cardinality(Registered)

Working == {h \in Handlers : req[h] # Idle}

\* Regions matter where a filter may name one, which no export of a watchlist does.
CalendarBound == watchlist = <<>> \/ \A e \in CalendarEvents : region[e] = NoRegion

\* One reviewer edits a set at a time, so that an approval may meet the edit.
ExpansionBound == Cardinality({h \in Handlers : Busy(h, "patch")}) <= 1

\* The score matters before there is feedback only.
EngagementBound == ~scored \/ (feedback = <<>> /\ \A h \in Handlers : ~Busy(h, "feedback"))

\* Requests meet on the same preferences, the user's or the organization's, and a
\* refusal is the last to happen.
LocalesBound ==
    /\ refusals = {} \/ Working = {}
    /\ \A h, x \in Working : req[h].whose = req[x].whose
    /\ \/ stored.organization = Defaults /\ \A h \in Working : req[h].whose = "user"
       \/ stored.user = Defaults

\* A request meets another while it provisions the first sources that are no feeds, and
\* two sources are registered beforehand at most.
RegistryBound ==
    /\ \/ Cardinality(Working) <= 1
       \/ /\ OfEngine("feed") = {}
          /\ \E h \in Handlers : Busy(h, "provision")
          /\ \A h \in Handlers : ~Busy(h, "patch")
    /\ Cardinality(Registered) <= 2 \/ Working = {}
    /\ \A s \in OfEngine("feed") : registry[s].fit
    /\ pinned = {} \/ \A h \in Handlers : ~Busy(h, "patch")

Within ==
    /\ LowestFirst
    /\ part = "calendar" => CalendarBound
    /\ part = "expansion" => ExpansionBound
    /\ part = "engagement" => EngagementBound
    /\ part = "locales" => LocalesBound
    /\ part = "registry" => RegistryBound

-----------------------------------------------------------------------------
\* All components but p rest, and p stays within its bounds.
Alone(p) ==
    /\ UNCHANGED part
    /\ IF p \in {"tick", "login", "calendar"} THEN UNCHANGED requestVars ELSE TRUE
    /\ IF p = "tick" THEN TRUE ELSE UNCHANGED vars
    /\ IF p = "members" THEN TRUE ELSE UNCHANGED <<memberVars, live, inviteVars, raced>>
    /\ IF p = "login" THEN TRUE ELSE UNCHANGED loginVars
    /\ IF p = "calendar" THEN TRUE ELSE UNCHANGED feedVars
    /\ IF p = "expansion" THEN TRUE ELSE UNCHANGED <<expansionRows, overtaken>>
    /\ IF p = "engagement" THEN TRUE ELSE UNCHANGED <<engagementRows, crossed>>
    /\ IF p = "locales" THEN TRUE
       ELSE UNCHANGED <<stored, trail, broken, refusals, chosen, crossedOver>>
    /\ IF p = "registry" THEN TRUE ELSE UNCHANGED <<registry, pinned>>
    /\ Within'

CampaignNext ==
    \/ part = "tick" /\ TickNext /\ Alone("tick")
    \/ part = "members" /\ MembershipNext /\ Alone("members")
    \/ part = "login" /\ LoginNext /\ Alone("login")
    \/ part = "calendar" /\ FeedNext /\ Alone("calendar")
    \/ part = "expansion" /\ ExpansionNext /\ Alone("expansion")
    \/ part = "engagement" /\ EngagementNext /\ Alone("engagement")
    \/ part = "locales" /\ LocalesNext /\ Alone("locales")
    \/ part = "registry" /\ RegistryNext /\ Alone("registry")

CampaignSpec == CampaignInit /\ [][CampaignNext]_campaignVars

\* After a race the properties claim nothing: such a state is not left.
BeforeRace == ~raced /\ ~overtaken /\ ~crossed /\ ~crossedOver

\* Requests are interchangeable; used without liveness.
Symmetry == Permutations(Handlers)

\* Every variable of the component that runs has its values.
CampaignTypeOK ==
    CASE part = "members" -> MembershipTypeOK
      [] part = "login" -> LoginTypeOK
      [] part = "calendar" -> FeedTypeOK
      [] part = "expansion" -> ExpansionTypeOK
      [] part = "engagement" -> EngagementTypeOK
      [] part = "locales" -> LocalesTypeOK
      [] part = "registry" -> RegistryTypeOK
      [] part = "tick" -> TypeOK

\* What is suggested to a team is used as it was reviewed, one plan at a time: variants
\* of queries, hypotheses, plans and feedback.
AssistanceIsReviewed ==
    /\ [](UsedWasReviewed /\ OneApproved /\ VersionNamesVariants /\ AcceptedOnce)
    /\ PlansAreFollowed

=============================================================================
