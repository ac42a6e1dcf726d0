---------------------------- MODULE SourceRegistry ----------------------------
(***************************************************************************)
(* The registered sources, the ones a campaign is pinned to, and the       *)
(* browser sources that opening an event provisions from its evidence      *)
(* (SourceRepository, admin_connectors, campaign_sources,                  *)
(* evidence_provisioning, launch_sources).  One campaign, one event, whose *)
(* evidence names one domain.                                              *)
(***************************************************************************)
EXTENDS Requests, FiniteSets, Functions

CONSTANTS
    SourceRows,    \* the sources there may be
    NoRow          \* none of them

ASSUME RowsAssumption == NoRow \notin SourceRows

EvidenceEngines == {"playwright", "selenium"}

\* A source of the domain that a browser opens, or any other, such as a feed.
Engines == EvidenceEngines \cup {"feed"}

VARIABLES
    registry,    \* each row: what opens it, enabled, and fit in all that an
                 \* administrator or the clock decides besides; or Absent
    pinned       \* campaign_sources

registryVars == <<registry, pinned, requestVars>>

Absent == [engine |-> "absent"]

RegistryInit ==
    /\ registry = [s \in SourceRows |-> Absent]
    /\ pinned = {}
    /\ NoRequests

Registered == {s \in SourceRows : registry[s] # Absent}

OfEngine(e) == {s \in Registered : registry[s].engine = e}

\* evaluate_source_policy: fit stands for an approval, a valid policy, quota left, the
\* time window and a secret where one is needed.
Runnable(s) == registry[s].enabled /\ registry[s].fit

-----------------------------------------------------------------------------
(* Administration. *)

\* A change made in one step: who is under way has not seen it.
Unseen == UNCHANGED req /\ stale' = [h \in Handlers |-> req[h] # Idle]

CreateConnector(s, e, fit) ==
    /\ registry[s] = Absent
    /\ registry' = [registry EXCEPT ![s] =
           [engine |-> e, enabled |-> TRUE, fit |-> fit]]
    /\ Unseen
    /\ UNCHANGED pinned

\* PATCH holds the row it has loaded ...
PatchLoad(h, s) ==
    /\ s \in Registered
    /\ Begin(h, [op |-> "patch", row |-> s, loaded |-> registry[s]])
    /\ UNCHANGED <<registry, pinned>>

\* ... and writes, of the fields it is given, those that differ from what it loaded.
ApplyPatch(h) ==
    /\ Busy(h, "patch")
    /\ LET r == req[h]
           now == registry[r.row]
       IN  \E on \in BOOLEAN, fit \in BOOLEAN :
               registry' = [registry EXCEPT ![r.row] = [now EXCEPT
                   !.enabled = IF on # r.loaded.enabled THEN on ELSE now.enabled,
                   !.fit = IF fit # r.loaded.fit THEN fit ELSE now.fit]]
    /\ EndAndOvertake(h)
    /\ UNCHANGED pinned

\* Its hours begin or end, or automatic disabling and recovery set enabled.
SourceChanges(s) ==
    /\ s \in Registered
    /\ registry' \in {[registry EXCEPT ![s].fit = ~@], [registry EXCEPT ![s].enabled = ~@]}
    /\ Unseen
    /\ UNCHANGED pinned

-----------------------------------------------------------------------------
(* PUT /campaigns/{id}/sources *)

\* Seeded fault: nothing is looked up.
PutChecks_NoLook(h, ids) ==
    /\ Begin(h, [op |-> "put", ids |-> ids])
    /\ UNCHANGED <<registry, pinned>>

PutChecks(h, ids) ==
    /\ \A s \in ids : s \in Registered /\ Runnable(s)
    /\ Begin(h, [op |-> "put", ids |-> ids])
    /\ UNCHANGED <<registry, pinned>>

\* set_campaign_sources: delete all, insert what was asked for.
PutWrites(h) ==
    /\ Busy(h, "put")
    /\ pinned' = req[h].ids
    /\ EndAndOvertake(h)
    /\ UNCHANGED registry

PutCampaignSources(h) == (\E ids \in SUBSET SourceRows : PutChecks(h, ids)) \/ PutWrites(h)

-----------------------------------------------------------------------------
(* Provisioning, when a browser session is opened for the event. *)

\* Seeded fault: only sources that may run are looked for.
Known_Runnable(e) == {s \in OfEngine(e) : Runnable(s)}

\* by_domain_engine: one of the domain's sources with that engine, whatever its state.
Known(e) == OfEngine(e)

ProvisionLooks(h) ==
    \E found \in [EvidenceEngines -> SourceRows \cup {NoRow}] :
        /\ \A e \in DOMAIN found :
               IF Known(e) = {} THEN found[e] = NoRow ELSE found[e] \in Known(e)
        /\ ~ Range(found) \subseteq pinned
        /\ Begin(h, [op |-> "provision", found |-> found, ids |-> pinned])
        /\ UNCHANGED <<registry, pinned>>

\* Seeded fault: the campaign is pinned to the new source alone.
Linked_Alone(ids, s) == {s}

\* _link_campaign_source: every link is written again, with one more.
Linked(ids, s) == ids \cup {s}

\* Engine by engine: a source is inserted, approved, where there was none; then it is
\* linked.  The links are read again for each, but what was read before the first
\* write may be out of date.
Provisioned(t, source, ids) ==
    LET seen == IF t.wrote \/ registry[source] = Absent THEN t.links ELSE ids
    IN  IF source \in seen THEN t
        ELSE [wrote |-> TRUE, links |-> Linked(seen, source)]

ProvisionWrites(h) ==
    /\ Busy(h, "provision")
    /\ LET found == req[h].found
           missing == {e \in DOMAIN found : found[e] = NoRow}
       IN  \E new \in Injection(missing, SourceRows \ Registered) :
               LET source(e) == IF e \in missing THEN new[e] ELSE found[e]
                   start == [wrote |-> FALSE, links |-> pinned]
                   first == Provisioned(start, source("playwright"), req[h].ids)
                   end == Provisioned(first, source("selenium"), req[h].ids)
               IN  /\ registry' = [s \in SourceRows |->
                          IF s \in Range(new)
                          THEN [engine |-> CHOOSE e \in missing : new[e] = s,
                                enabled |-> TRUE, fit |-> TRUE]
                          ELSE registry[s]]
                   /\ pinned' = end.links
    /\ EndAndOvertake(h)

EnsureBrowserSources(h) == ProvisionLooks(h) \/ ProvisionWrites(h)

-----------------------------------------------------------------------------
(* The source an event is opened with. *)

LaunchableOf(S) == {s \in S \cap Registered : registry[s].engine # "feed" /\ Runnable(s)}

\* list_browser_launch_options: of the event's and the campaign's sources; of all where
\* none of those can be launched.
LaunchOptions(observed) ==
    IF LaunchableOf(observed \cup pinned) # {} THEN LaunchableOf(observed \cup pinned)
    ELSE LaunchableOf(Registered)

\* Seeded fault: the requested source is taken as it is.
LaunchSources_AsAsked(requested, observed) ==
    IF requested \in Registered THEN {requested}
    ELSE IF LaunchableOf(observed) # {} THEN LaunchableOf(observed)
    ELSE LaunchOptions(observed)

\* create_for_event: the requested source if it may run, else one the event was
\* observed at, one of the campaign, any.
LaunchSources(requested, observed) ==
    IF requested \in Registered /\ Runnable(requested) THEN {requested}
    ELSE IF LaunchableOf(observed) # {} THEN LaunchableOf(observed)
    ELSE LaunchOptions(observed)

-----------------------------------------------------------------------------
ConnectorRequest ==
    \/ \E s \in SourceRows, e \in Engines, fit \in BOOLEAN : CreateConnector(s, e, fit)
    \/ \E h \in Handlers, s \in SourceRows : PatchLoad(h, s)
    \/ \E h \in Handlers : ApplyPatch(h)

RegistryNext ==
    \/ ConnectorRequest
    \/ \E s \in SourceRows : SourceChanges(s)
    \/ \E h \in Handlers :
           \/ PutCampaignSources(h)
           \/ EnsureBrowserSources(h)
           \/ Lost(h) /\ UNCHANGED <<registry, pinned>>

RegistrySpec == RegistryInit /\ [][RegistryNext]_registryVars

-----------------------------------------------------------------------------
(* Properties. *)

SourceRecord == [engine : Engines, enabled : BOOLEAN, fit : BOOLEAN]

\* The values each variable takes; a campaign is pinned to sources there are.
RegistryTypeOK ==
    /\ registry \in [SourceRows -> SourceRecord \cup {Absent}]
    /\ pinned \subseteq Registered
    /\ stale \in [Handlers -> BOOLEAN]

\* Opening an event brings no second source for a domain that has one: an administrator
\* who disabled it, or never approved it, is not got round by another row that is
\* approved from the start (ensure_browser_sources_for_event; two at once may).
DecisionsStand ==
    [][\A h \in Handlers, e \in Engines :
           Busy(h, "provision") /\ req'[h] = Idle /\ ~stale[h] /\ OfEngine(e) # {}
           => OfEngine(e)' = OfEngine(e)]_registryVars

\* Only a PUT takes a source from a campaign: provisioning, which deletes and inserts
\* all of its links, adds to what others have pinned unless it overlaps with them.
OnlyPutsUnpin ==
    [][pinned \subseteq pinned'
       \/ \E h \in Handlers : Busy(h, "put") \/ (Busy(h, "provision") /\ stale[h])]_registryVars

\* Whatever is asked for, an event is opened with sources that may run now.
LaunchesMayRun ==
    \A requested \in Registered \cup {NoRow}, observed \in SUBSET Registered :
        \A s \in LaunchSources(requested, observed) : Runnable(s)

\* An event is opened with some source wherever a browser source may run, whatever is
\* asked for (create_for_event's chain of fallbacks).
LaunchFindsASource ==
    \A requested \in Registered \cup {NoRow}, observed \in SUBSET Registered :
        LaunchableOf(Registered) # {} => LaunchSources(requested, observed) # {}

\* Provisioning respects what people have decided about sources and campaigns, and a
\* launch finds a source that may run (evidence_provisioning, create_for_event).
SourcesAreGoverned ==
    [](LaunchesMayRun /\ LaunchFindsASource) /\ DecisionsStand /\ OnlyPutsUnpin

=============================================================================
