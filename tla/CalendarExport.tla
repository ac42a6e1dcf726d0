---------------------------- MODULE CalendarExport ----------------------------
(***************************************************************************)
(* The calendars LiveLead exports (CalendarExportService's builders and    *)
(* the formatter): one event, the events the user watches, or the events   *)
(* that pass a filter by campaign and region, as the entries of a calendar *)
(* in the order of their starts.                                           *)
(*                                                                         *)
(* A builder reads everything in one query and writes no more than audit   *)
(* entries, so an export is one step.  The response stays visible until    *)
(* the next step.  Text, and the audit entries, are left out.              *)
(***************************************************************************)
EXTENDS Sequences, Integers, FiniteSets

CONSTANTS
    CalendarEvents,  \* ids of events
    Campaigns,       \* campaigns the events belong to
    EveryCampaign,   \* a filter without campaign_id
    Regions,         \* regions the events are in
    NoRegion,        \* an event without a region, and a filter without one
    ListLimit,       \* the limit of both queries, 200
    LastInstant      \* bound of the model: the instants are 0 .. LastInstant

ASSUME CalendarAssumption ==
    /\ ListLimit \in Nat \ {0}
    /\ LastInstant \in Nat
    /\ EveryCampaign \notin Campaigns
    /\ NoRegion \notin Regions

VARIABLES
    listing,     \* the organization's events, the newest observed first
    starts,      \* starts_at
    belongs,     \* campaign_id
    region,      \* region
    watchlist,   \* the user's entries, the last updated first
    instant,     \* the clock
    feed         \* the response of the last step

eventColumns == <<listing, starts, belongs, region>>
feedVars == <<eventColumns, watchlist, instant, feed>>

-----------------------------------------------------------------------------
Instants == 0 .. LastInstant
Undated == LastInstant + 1          \* starts_at is null: sorted as datetime.max

\* CalendarExportFilter, of which industry and label decide nothing.
Filters == [campaign : Campaigns \cup {EveryCampaign}, region : Regions \cup {NoRegion}]
NoFilter == [campaign |-> EveryCampaign, region |-> NoRegion]

NoFeed == [scope |-> "none", status |-> "none", filter |-> NoFilter, body |-> <<>>]

FeedInit ==
    /\ listing = <<>>
    /\ starts = [e \in CalendarEvents |-> Undated]
    /\ belongs = [e \in CalendarEvents |-> EveryCampaign]
    /\ region = [e \in CalendarEvents |-> NoRegion]
    /\ watchlist = <<>>
    /\ instant = 0
    /\ feed = NoFeed

Listed(e) == \E i \in DOMAIN listing : listing[i] = e

\* add_event_with_observation: an event is observed for the first time.
Observed(e, c, t, r) ==
    /\ ~Listed(e)
    /\ listing' = <<e>> \o listing
    /\ starts' = [starts EXCEPT ![e] = t]
    /\ belongs' = [belongs EXCEPT ![e] = c]
    /\ region' = [region EXCEPT ![e] = r]
    /\ feed' = NoFeed
    /\ UNCHANGED <<watchlist, instant>>

\* An analyst's correction of the event, which may take the date or the region away.
Corrected(e, t, r) ==
    /\ Listed(e)
    /\ starts' = [starts EXCEPT ![e] = t]
    /\ region' = [region EXCEPT ![e] = r]
    /\ feed' = NoFeed
    /\ UNCHANGED <<listing, belongs, watchlist, instant>>

\* The positions of an event in the watchlist, and the list without position i.
WatchedAt(e) == {i \in DOMAIN watchlist : watchlist[i] = e}
Unwatched(i) == [k \in 1 .. Len(watchlist) - 1 |-> watchlist[IF k < i THEN k ELSE k + 1]]

\* Watching an event, or changing its reminder, makes its entry the newest.
WatchEvent(e) ==
    /\ Listed(e)
    /\ IF WatchedAt(e) = {} THEN watchlist' = <<e>> \o watchlist
       ELSE \E i \in WatchedAt(e) : watchlist' = <<e>> \o Unwatched(i)
    /\ feed' = NoFeed
    /\ UNCHANGED <<eventColumns, instant>>

UnwatchEvent(e) ==
    /\ \E i \in WatchedAt(e) : watchlist' = Unwatched(i)
    /\ feed' = NoFeed
    /\ UNCHANGED <<eventColumns, instant>>

InstantPasses ==
    /\ instant < LastInstant
    /\ instant' = instant + 1
    /\ feed' = NoFeed
    /\ UNCHANGED <<eventColumns, watchlist>>

-----------------------------------------------------------------------------
(* The builders. *)

\* Seeded fault: an event is confirmed only after the moment it starts.
ClassifyTimeState_After(e) ==
    IF starts[e] = Undated \/ instant <= starts[e] THEN "upcoming" ELSE "live"

\* classify_time_state: no builder passes an end, so no event is ever over.
ClassifyTimeState(e) ==
    IF starts[e] = Undated \/ instant < starts[e] THEN "upcoming" ELSE "live"

\* CALENDAR_STATUS_BY_TIME_STATE
CalendarStatus(state) ==
    CASE state = "upcoming" -> "TENTATIVE"
      [] state = "live" -> "CONFIRMED"
      [] state = "ended" -> "CANCELLED"

FormatEvent(e) == [event |-> e, status |-> CalendarStatus(ClassifyTimeState(e))]

\* The limit of a query: the positions it returns.
Limited(list) == {i \in DOMAIN list : i <= ListLimit}

\* The start of a dated event has a zone and datetime.max has none: Python
\* refuses to compare them, and the sort raises.
Sortable(list, kept) ==
    \A i, j \in kept : starts[list[i]] = Undated => starts[list[j]] = Undated

\* Python's sort keeps the order of events that start together.
SortsBefore(list, i, j) ==
    \/ starts[list[i]] < starts[list[j]]
    \/ starts[list[i]] = starts[list[j]] /\ i < j

\* Seeded fault: the entries stay in the order of the query.
InStartOrder_AsListed(list, kept) ==
    {[k \in DOMAIN order |-> list[order[k]]] :
     order \in {o \in [1 .. Cardinality(kept) -> kept] :
                   \A k, m \in DOMAIN o : k < m => o[k] < o[m]}}

\* views.sort, of the kept positions of a list: there is one such order.
InStartOrder(list, kept) ==
    {[k \in DOMAIN order |-> list[order[k]]] :
     order \in {o \in [1 .. Cardinality(kept) -> kept] :
                   \A k, m \in DOMAIN o : k < m => SortsBefore(list, o[k], o[m])}}

\* _project_items, _project_events and build_calendar; an empty calendar is
\* _empty_calendar.
Calendar(scope, filter, list, kept) ==
    IF Sortable(list, kept)
    THEN {[scope |-> scope, status |-> "served", filter |-> filter,
           body |-> [i \in DOMAIN ordered |-> FormatEvent(ordered[i])]] :
          ordered \in InStartOrder(list, kept)}
    ELSE {[scope |-> scope, status |-> "error", filter |-> filter, body |-> <<>>]}

\* GET /events/{id}.ics
GetEventIcs(e) ==
    /\ feed' \in IF Listed(e) THEN Calendar("event", NoFilter, <<e>>, {1})
                 ELSE {[NoFeed EXCEPT !.scope = "event", !.status = "not_found"]}
    /\ UNCHANGED <<eventColumns, watchlist, instant>>

\* GET /watchlist/events.ics
GetWatchlistIcs ==
    /\ feed' \in Calendar("watchlist", NoFilter, watchlist, Limited(watchlist))
    /\ UNCHANGED <<eventColumns, watchlist, instant>>

\* Seeded fault: the region of a filter with a campaign is not applied.
FilteredEvents_OneFilter(filter) ==
    {i \in Limited(listing) :
        IF filter.campaign # EveryCampaign THEN belongs[listing[i]] = filter.campaign
        ELSE filter.region \in {NoRegion, region[listing[i]]}}

\* The campaign and the region are looked for among the events the limited query
\* returned.
FilteredEvents(filter) ==
    {i \in Limited(listing) : /\ filter.campaign \in {EveryCampaign, belongs[listing[i]]}
                             /\ filter.region \in {NoRegion, region[listing[i]]}}

\* GET /events.ics; industry is accepted and ignored.
GetEventsIcs(filter) ==
    /\ feed' \in Calendar("event_filter", filter, listing, FilteredEvents(filter))
    /\ UNCHANGED <<eventColumns, watchlist, instant>>

-----------------------------------------------------------------------------
FeedNext ==
    \/ \E e \in CalendarEvents, c \in Campaigns, t \in Instants \cup {Undated},
          r \in Regions \cup {NoRegion} : Observed(e, c, t, r)
    \/ \E e \in CalendarEvents, t \in Instants \cup {Undated}, r \in Regions \cup {NoRegion} :
          Corrected(e, t, r)
    \/ \E e \in CalendarEvents : WatchEvent(e) \/ UnwatchEvent(e) \/ GetEventIcs(e)
    \/ InstantPasses
    \/ GetWatchlistIcs
    \/ \E filter \in Filters : GetEventsIcs(filter)

FeedSpec == FeedInit /\ [][FeedNext]_feedVars

-----------------------------------------------------------------------------
(* Properties. *)

FeedEvents == [i \in DOMAIN feed.body |-> feed.body[i].event]

\* The values each variable takes.  A calendar confirms the events that have
\* begun, and cancels none.
FeedTypeOK ==
    /\ listing \in Seq(CalendarEvents)
    /\ starts \in [CalendarEvents -> Instants \cup {Undated}]
    /\ belongs \in [CalendarEvents -> Campaigns \cup {EveryCampaign}]
    /\ region \in [CalendarEvents -> Regions \cup {NoRegion}]
    /\ watchlist \in Seq(CalendarEvents)
    /\ instant \in Instants
    /\ feed.scope \in {"none", "event", "watchlist", "event_filter"}
    /\ feed.status \in {"none", "served", "not_found", "error"}
    /\ feed.filter \in Filters
    /\ \A i \in DOMAIN feed.body :
          LET entry == feed.body[i]
          IN  entry.status = IF starts[entry.event] <= instant THEN "CONFIRMED" ELSE "TENTATIVE"

\* A calendar that is served lists its events once each and in the order of
\* their starts.
FeedIsOrdered ==
    \A i, j \in DOMAIN feed.body :
        i < j => /\ FeedEvents[i] # FeedEvents[j]
                 /\ starts[FeedEvents[i]] <= starts[FeedEvents[j]]

\* The event is of the campaign and in the region that are asked for.
Wanted(e, filter) ==
    /\ filter.campaign # EveryCampaign => belongs[e] = filter.campaign
    /\ filter.region # NoRegion => region[e] = filter.region

\* The calendar of a filter names events of its campaign and its region alone, and
\* leaves one out only if as many events as the limit were observed after it.
FilteredFeedIsComplete ==
    feed.scope = "event_filter" /\ feed.status = "served" =>
        /\ \A i \in DOMAIN feed.body : Wanted(FeedEvents[i], feed.filter)
        /\ \A n \in 1 .. Len(listing) :
              Wanted(listing[n], feed.filter) /\ n <= ListLimit =>
                  \E i \in DOMAIN feed.body : FeedEvents[i] = listing[n]

\* Exporting the watchlist gives the user a calendar.
WatchlistIsServed == feed.scope = "watchlist" => feed.status = "served"

\* A calendar lists what it is asked for, in order (CalendarExportService's builders).
FeedsAreRight == FeedIsOrdered /\ FilteredFeedIsComplete

=============================================================================
