-------------------------------- MODULE MCReview --------------------------------
(* What a team does with the events it finds, in a browser too.  The         *)
(* components share nothing but the form of a request, so an instance of     *)
(* each is checked on its own: part says which one runs.                     *)
EXTENDS ContentReview, Leads, Watchlist, CalendarTokens, Scoring, BrowserSessions,
        BrowserProfiles, CloakBrowser, DebugArtifacts, TLC

VARIABLE part

Parts == {"content", "leads", "watchlist", "calendar", "scoring",
          "session", "profile", "cloak", "artifacts"}

reviewVars ==
    <<part, contentVars, leadsVars, watchlistVars, calendarVars, scoringVars,
      sessionVars, profileVars, policyVars, artifactVars>>

ReviewInit ==
    /\ part \in Parts
    /\ ContentInit
    /\ LeadsInit
    /\ WatchlistInit
    /\ CalendarInit
    /\ ScoringInit
    /\ SessionInit
    /\ ProfileInit
    /\ PolicyInit
    /\ ArtifactInit
    /\ part # "scoring" => weights = 0
    /\ part # "cloak" => ~killSwitch /\ pinMatches = [p \in 1 .. MaxPurposes |-> TRUE]

-----------------------------------------------------------------------------
(* Bounds. *)

\* Ids are interchangeable, and are numbers here: the lowest that is
\* free comes first.
LowestFirst ==
    /\ \A l \in LeadIds : key[l] # NoKey => \A k \in 1 .. l : key[k] # NoKey
    /\ \A r \in ReminderIds : about[r] # NoLead => \A k \in 1 .. r : about[k] # NoLead
    /\ \A c \in Confirmations : conf[c] # "none" => \A k \in 1 .. c : conf[k] # "none"

\* A PATCH gives a lead a company, or a stage and a date.  Once companies are
\* given, or differ, there are neither reminders nor outcomes.
FewRenamings ==
    LET renaming == {h \in Handlers : Busy(h, "patch") /\ req[h].key # NoKey}
        companies == {key[l] : l \in LeadIds} \ {NoKey}
    IN  /\ \A h \in renaming : req[h].stage = "kept" /\ req[h].date = 0
        /\ renamed \cup renaming # {} \/ Cardinality(companies) > 1 =>
               ReminderRows = {} /\ \A l \in LeadIds : outcomes[l] = {}

\* Where a suggestion is made there is at most one score, or one being calculated.
FewScores ==
    \A s \in Suggestions :
        decision[s] # "none" =>
            inserted + Cardinality({h \in Handlers : req[h].op \in ScoringOps}) <= 1

Within ==
    /\ LowestFirst
    /\ part = "scoring" => FewScores
    /\ part = "leads" => FewRenamings
    /\ part = "calendar" => FewUses

-----------------------------------------------------------------------------
\* All components but p rest, and p stays within its bounds.
Alone(p) ==
    /\ UNCHANGED part
    /\ IF p = "content" THEN TRUE ELSE UNCHANGED <<draftVars, contentHistory, overwrote>>
    /\ IF p = "leads" THEN TRUE ELSE UNCHANGED <<leadVars, reminderVars, today, renamed, overtook>>
    /\ IF p = "watchlist" THEN TRUE ELSE UNCHANGED <<watch, row, story, gap, behind>>
    /\ IF p = "calendar" THEN TRUE ELSE UNCHANGED <<tokenVars, served, moment, miscounted>>
    /\ IF p = "scoring" THEN TRUE ELSE UNCHANGED scoringRows
    /\ IF p = "session" THEN TRUE ELSE UNCHANGED <<rowVars, liveVars, logVars, sessionHistory>>
    /\ IF p = "profile" THEN TRUE ELSE UNCHANGED <<profileRow, outdone>>
    /\ IF p = "cloak" THEN TRUE
       ELSE UNCHANGED <<policyRow, pinMatches, killSwitch, policyHistory>>
    /\ IF p = "artifacts" THEN TRUE ELSE UNCHANGED <<artifact, overdue, onDisk, debug, together>>
    /\ Within'

ReviewNext ==
    \/ part = "content" /\ ContentNext /\ Alone("content")
    \/ part = "leads" /\ LeadsNext /\ Alone("leads")
    \/ part = "watchlist" /\ WatchlistNext /\ Alone("watchlist")
    \/ part = "calendar" /\ CalendarNext /\ Alone("calendar")
    \/ part = "scoring" /\ ScoringNext /\ Alone("scoring")
    \/ part = "session" /\ SessionNext /\ Alone("session")
    \/ part = "profile" /\ ProfileNext /\ Alone("profile")
    \/ part = "cloak" /\ PolicyNext /\ Alone("cloak")
    \/ part = "artifacts" /\ ArtifactNext /\ Alone("artifacts")

ReviewSpec == ReviewInit /\ [][ReviewNext]_reviewVars

\* After a race the properties claim nothing: such a state is not left.
BeforeRace ==
    /\ ~overwrote /\ ~overtook /\ ~behind /\ ~miscounted /\ ~doubled
    /\ ~surpassed /\ ~unlogged /\ ~outdone /\ ~overruled

\* Requests, and keys, are interchangeable; used without liveness.
Symmetry == Permutations(Handlers) \cup Permutations(Keys)

\* Every variable of the component that runs has its values.
ReviewTypeOK ==
    CASE part = "content" -> ContentTypeOK
      [] part = "leads" -> LeadsTypeOK
      [] part = "watchlist" -> WatchlistTypeOK
      [] part = "calendar" -> CalendarTypeOK
      [] part = "scoring" -> ScoringTypeOK
      [] part = "session" -> SessionTypeOK
      [] part = "profile" -> ProfileTypeOK
      [] part = "cloak" -> PolicyTypeOK
      [] part = "artifacts" -> ArtifactTypeOK

\* Leads, their reminders and the watches of their events keep their records straight.
FollowUpIsKept == FollowUpsAgree /\ [](HistoryIsAChain /\ HistoryTells)

\* A browser session is supervised, and what was captured of it is there.
BrowserIsSupervised == SessionsAreSupervised /\ [](RowsHaveFiles /\ CapturesAreWhole)

\* The browser starts with a login somebody consented to, and with the engine that was
\* approved.
BrowserIsPermitted ==
    ProfilesAreConsented /\ [](LaunchesAreApproved /\ WithdrawnStaysOff)

=============================================================================
