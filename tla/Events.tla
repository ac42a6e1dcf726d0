-------------------------------- MODULE Events --------------------------------
(***************************************************************************)
(* The canonical events of one campaign: discovery jobs persist what their *)
(* sources found, creating an event or adding an observation to one that   *)
(* matches (ingest_finding), while reviewers override fields of an event   *)
(* and clear their overrides again (EventOverrideService).                 *)
(*                                                                         *)
(* The rows of a persist stay in its session until the next query flushes  *)
(* them, which takes SQLite's write lock up to the commit: a persist looks *)
(* for matches without the lock until it has staged its first row.  A      *)
(* reviewer's handler reads its rows first and writes under the lock.      *)
(***************************************************************************)

CONSTANTS
    Ids,        \* the event ids that may be allocated
    Jobs,       \* discovery jobs, each persisting once
    NoJob,      \* no job
    Editors,   \* the requests of reviewers that may be under way at once
    Findings,   \* what a source may report
    NoFinding,  \* the finding of an id not allocated
    NoId,       \* no event
    Fields,     \* the fields a reviewer may override
    Editable,   \* bound: those that reviewers do override
    Values,     \* their values
    NoValue,    \* no value
    Said,       \* by finding and field: the value the source reported
    SourceOf,   \* by finding: the source that reported it
    ExternalId  \* by source URL: the last segment of its path

MatchedFields == {"title", "source_url"}

ASSUME ConstantsAssumption ==
    /\ NoJob \notin Jobs
    /\ NoId \notin Ids
    /\ NoFinding \notin Findings
    /\ NoValue \notin Values
    /\ MatchedFields \subseteq Fields
    /\ Editable \subseteq Fields
    /\ Said \in [Findings -> [Fields -> Values]]

VARIABLES
    \* events and event_source_observations
    events,      \* ids of the committed rows
    creator,     \* discovery_job_id of an event
    origin,      \* the finding an event was built from, kept by its observation
    canonical,   \* by id and field: the column of the event's row
    observations,\* committed rows: event, finding and job
    \* event_manual_overrides
    override,    \* by id and field: override_value
    baseline,    \* by id and field: source_backed_value
    \* the persists' sessions
    phase,       \* by job: new, running, done or failed
    found,       \* by job: the findings of its sources
    todo,        \* by job: those not yet ingested
    own,         \* by job: ids of the events it has staged
    staged,      \* by job: the observations it has staged
    lock,        \* the persist that holds the write lock
    \* reviewers' handlers between their reads and their writes
    doing,       \* idle, patch, clearing or clear
    on,          \* the event
    wants,       \* by field: the value it will write, NoValue to leave it
    saw,         \* by field: the column's value it has read
    \* history
    overlap,     \* by job: those of which one committed while the other ran
    raced,       \* by id: fields written while another handler had read them
    touched      \* by id: fields ever overridden

eventVars == <<events, creator, origin, canonical, observations>>
overrideVars == <<override, baseline>>
persistVars == <<phase, found, todo, own, staged, lock>>
handlerVars == <<doing, on, wants, saw>>
historyVars == <<overlap, raced, touched>>

vars == <<eventVars, overrideVars, persistVars, handlerVars, historyVars>>

-----------------------------------------------------------------------------
(* Deduplication. *)

\* decide_merge: the same URL or external id, or the same normalized title
\* and region (the title here stands for both).
SameEvent(title, url, f) ==
    \/ ExternalId[url] = ExternalId[Said[f]["source_url"]]
    \/ title = Said[f]["title"]

\* Seeded fault: only events that were committed are looked at.
Candidates_Committed(j) == events

\* The events ingest_finding compares with: its own are flushed by the query.
Candidates(j) == events \cup own[j]

Matches(j, f) ==
    {e \in Candidates(j) : SameEvent(canonical[e]["title"], canonical[e]["source_url"], f)}

\* The duplicate check of an observation: event, source and exact URL.
SameObservation(f, g) ==
    /\ SourceOf[f] = SourceOf[g]
    /\ Said[f]["source_url"] = Said[g]["source_url"]

Recorded(j, e, f) ==
    {o \in observations \cup staged[j] : o.event = e /\ SameObservation(o.finding, f)}

Allocated == events \cup UNION {own[j] : j \in Jobs}

Running == {j \in Jobs : phase[j] = "running"}

\* A value for some of the fields.
Columns == [Fields -> Values \cup {NoValue}]

Nothing == [f \in Fields |-> NoValue]

Init ==
    /\ events = {}
    /\ creator = [e \in Ids |-> NoJob]
    /\ origin = [e \in Ids |-> NoFinding]
    /\ canonical = [e \in Ids |-> Nothing]
    /\ observations = {}
    /\ override = [e \in Ids |-> Nothing]
    /\ baseline = [e \in Ids |-> Nothing]
    /\ phase = [j \in Jobs |-> "new"]
    /\ found = [j \in Jobs |-> {}]
    /\ todo = [j \in Jobs |-> {}]
    /\ own = [j \in Jobs |-> {}]
    /\ staged = [j \in Jobs |-> {}]
    /\ lock = NoJob
    /\ doing = [h \in Editors |-> "idle"]
    /\ on = [h \in Editors |-> NoId]
    /\ wants = [h \in Editors |-> Nothing]
    /\ saw = [h \in Editors |-> Nothing]
    /\ overlap = [j \in Jobs |-> {}]
    /\ raced = [e \in Ids |-> {}]
    /\ touched = [e \in Ids |-> {}]

-----------------------------------------------------------------------------
(* The worker persists a job's findings. *)

\* persist_events_from_discovery_job opens its session.
PersistBegin(j, fs) ==
    /\ phase[j] = "new"
    /\ phase' = [phase EXCEPT ![j] = "running"]
    /\ found' = [found EXCEPT ![j] = fs]
    /\ todo' = [todo EXCEPT ![j] = fs]
    /\ UNCHANGED <<eventVars, overrideVars, own, staged, lock, handlerVars, historyVars>>

\* The next finding is taken up: its first query flushes what is staged, and
\* waits for the write lock when there is something to flush.
TakeUp(j, f) ==
    /\ phase[j] = "running"
    /\ f \in todo[j]
    /\ todo' = [todo EXCEPT ![j] = @ \ {f}]
    /\ IF staged[j] = {}
       THEN UNCHANGED lock
       ELSE lock \in {NoJob, j} /\ lock' = j

\* The matched event has this observation already.  With two of them the
\* query for one row raises, and only PersistFails is left.
SkipFinding(j, f) ==
    /\ TakeUp(j, f)
    /\ \E e \in Matches(j, f) : \E o \in Recorded(j, e, f) : Recorded(j, e, f) = {o}
    /\ UNCHANGED <<eventVars, overrideVars, phase, found, own, staged, handlerVars, historyVars>>

\* Seeded fault: the observation is staged without its job.
MergeFinding_NoJob(j, f) ==
    /\ TakeUp(j, f)
    /\ \E e \in Matches(j, f) :
        /\ Recorded(j, e, f) = {}
        /\ staged' = [staged EXCEPT ![j] = @ \cup {[event |-> e, finding |-> f, job |-> NoJob]}]
    /\ UNCHANGED <<eventVars, overrideVars, phase, found, own, handlerVars, historyVars>>

\* A match without it gets the observation; no column of the event changes.
\* Which of several matches is first the query's order does not say.
MergeFinding(j, f) ==
    /\ TakeUp(j, f)
    /\ \E e \in Matches(j, f) :
        /\ Recorded(j, e, f) = {}
        /\ staged' = [staged EXCEPT ![j] = @ \cup {[event |-> e, finding |-> f, job |-> j]}]
    /\ UNCHANGED <<eventVars, overrideVars, phase, found, own, handlerVars, historyVars>>

\* Without a match an event and its first observation are staged.
CreateEvent(j, f) ==
    /\ TakeUp(j, f)
    /\ Matches(j, f) = {}
    /\ \E e \in Ids \ Allocated :
        /\ own' = [own EXCEPT ![j] = @ \cup {e}]
        /\ creator' = [creator EXCEPT ![e] = j]
        /\ origin' = [origin EXCEPT ![e] = f]
        /\ canonical' = [canonical EXCEPT ![e] = Said[f]]
        /\ staged' = [staged EXCEPT ![j] = @ \cup {[event |-> e, finding |-> f, job |-> j]}]
    /\ UNCHANGED <<events, observations, overrideVars, phase, found, handlerVars, historyVars>>

\* Seeded fault: the session commits although findings are left.
PersistReady_Early(j) == phase[j] = "running"

\* Every finding of every source was ingested.
PersistReady(j) == phase[j] = "running" /\ todo[j] = {}

\* The one commit of the session.
PersistCommit(j) ==
    /\ PersistReady(j)
    /\ staged[j] # {} => lock \in {NoJob, j}
    /\ events' = events \cup own[j]
    /\ observations' = observations \cup staged[j]
    /\ phase' = [phase EXCEPT ![j] = "done"]
    /\ todo' = [todo EXCEPT ![j] = {}]
    /\ own' = [own EXCEPT ![j] = {}]
    /\ staged' = [staged EXCEPT ![j] = {}]
    /\ lock' = IF lock = j THEN NoJob ELSE lock
    /\ overlap' = [k \in Jobs |-> IF k = j THEN overlap[k] \cup (Running \ {j})
                                  ELSE IF k \in Running THEN overlap[k] \cup {j}
                                  ELSE overlap[k]]
    /\ UNCHANGED <<creator, origin, canonical, overrideVars, found, handlerVars, raced, touched>>

\* An exception, a lock not obtained in time or a crash rolls all of it back.
PersistFails(j) ==
    /\ phase[j] = "running"
    /\ phase' = [phase EXCEPT ![j] = "failed"]
    /\ todo' = [todo EXCEPT ![j] = {}]
    /\ creator' = [e \in Ids |-> IF e \in own[j] THEN NoJob ELSE creator[e]]
    /\ origin' = [e \in Ids |-> IF e \in own[j] THEN NoFinding ELSE origin[e]]
    /\ canonical' = [e \in Ids |-> IF e \in own[j] THEN Nothing ELSE canonical[e]]
    /\ own' = [own EXCEPT ![j] = {}]
    /\ staged' = [staged EXCEPT ![j] = {}]
    /\ lock' = IF lock = j THEN NoJob ELSE lock
    /\ UNCHANGED <<events, observations, overrideVars, found, handlerVars, historyVars>>

-----------------------------------------------------------------------------
(* Reviewers override fields. *)

\* update_event_fields reads the event's row; the payload is not empty and
\* names allowed fields with valid values, others were dropped before.
PatchRead(h, e, updates) ==
    /\ doing[h] = "idle"
    /\ e \in events
    /\ doing' = [doing EXCEPT ![h] = "patch"]
    /\ on' = [on EXCEPT ![h] = e]
    /\ wants' = [wants EXCEPT ![h] = updates]
    /\ saw' = [saw EXCEPT ![h] = canonical[e]]
    /\ UNCHANGED <<eventVars, overrideVars, persistVars, historyVars>>

\* clear_override reads the override first.
ClearRead(h, e, f) ==
    /\ doing[h] = "idle"
    /\ e \in events
    /\ override[e][f] # NoValue
    /\ doing' = [doing EXCEPT ![h] = "clearing"]
    /\ on' = [on EXCEPT ![h] = e]
    /\ wants' = [wants EXCEPT ![h] = [Nothing EXCEPT ![f] = baseline[e][f]]]
    /\ UNCHANGED <<saw, eventVars, overrideVars, persistVars, historyVars>>

\* Then it reads the event's row.
ClearReadRow(h) ==
    /\ doing[h] = "clearing"
    /\ doing' = [doing EXCEPT ![h] = "clear"]
    /\ saw' = [saw EXCEPT ![h] = canonical[on[h]]]
    /\ UNCHANGED <<on, wants, eventVars, overrideVars, persistVars, historyVars>>

\* The fields a handler is about to write.
Target(h) == {f \in Fields : wants[h][f] # NoValue}

\* A column is written where the value differs from the one read.
Written(h) ==
    [f \in Fields |-> IF f \in Target(h) /\ wants[h][f] # saw[h][f]
                      THEN wants[h][f] ELSE canonical[on[h]][f]]

\* Fields another handler has read and is about to write are raced for.
RacedFor(h) ==
    {f \in Target(h) : \E g \in Editors \ {h} :
                          doing[g] # "idle" /\ on[g] = on[h] /\ f \in Target(g)}

Finish(h) ==
    /\ doing' = [doing EXCEPT ![h] = "idle"]
    /\ wants' = [wants EXCEPT ![h] = Nothing]
    /\ saw' = [saw EXCEPT ![h] = Nothing]
    /\ on' = [on EXCEPT ![h] = NoId]

\* Seeded fault: the baseline of an existing override is replaced as well.
UpsertedBaseline_Replaced(h, f) == saw[h][f]

\* upsert: the baseline is the value read, and kept when a row exists.
UpsertedBaseline(h, f) ==
    IF override[on[h]][f] = NoValue THEN saw[h][f] ELSE baseline[on[h]][f]

\* The overrides, the event's columns and the history in one transaction.
PatchWrite(h) ==
    /\ doing[h] = "patch"
    /\ lock = NoJob
    /\ override' = [override EXCEPT ![on[h]] =
           [f \in Fields |-> IF f \in Target(h) THEN wants[h][f] ELSE @[f]]]
    /\ baseline' = [baseline EXCEPT ![on[h]] =
           [f \in Fields |-> IF f \in Target(h) THEN UpsertedBaseline(h, f) ELSE @[f]]]
    /\ canonical' = [canonical EXCEPT ![on[h]] = Written(h)]
    /\ raced' = [raced EXCEPT ![on[h]] = @ \cup RacedFor(h)]
    /\ touched' = [touched EXCEPT ![on[h]] = @ \cup Target(h)]
    /\ Finish(h)
    /\ UNCHANGED <<events, creator, origin, observations, persistVars, overlap>>

\* The baseline goes back to the row and the override, if still there, goes.
ClearWrite(h) ==
    /\ doing[h] = "clear"
    /\ lock = NoJob
    /\ override' = [override EXCEPT ![on[h]] =
           [f \in Fields |-> IF f \in Target(h) THEN NoValue ELSE @[f]]]
    /\ baseline' = [baseline EXCEPT ![on[h]] =
           [f \in Fields |-> IF f \in Target(h) THEN NoValue ELSE @[f]]]
    /\ canonical' = [canonical EXCEPT ![on[h]] = Written(h)]
    /\ raced' = [raced EXCEPT ![on[h]] = @ \cup RacedFor(h)]
    /\ Finish(h)
    /\ UNCHANGED <<events, creator, origin, observations, persistVars, overlap, touched>>

\* A unique key taken meanwhile, a row gone, no lock in time: rolled back.
HandlerLost(h) ==
    /\ doing[h] # "idle"
    /\ Finish(h)
    /\ UNCHANGED <<eventVars, overrideVars, persistVars, historyVars>>

-----------------------------------------------------------------------------
\* What a patch may ask for: a value for some of the fields.
Updates ==
    {u \in Columns \ {Nothing} : \A f \in Fields \ Editable : u[f] = NoValue}

PersistStep(j) ==
    \/ \E fs \in SUBSET Findings : PersistBegin(j, fs)
    \/ \E f \in Findings : SkipFinding(j, f) \/ MergeFinding(j, f) \/ CreateEvent(j, f)
    \/ PersistCommit(j)
    \/ PersistFails(j)

HandlerStep(h) ==
    \/ \E e \in Ids, u \in Updates : PatchRead(h, e, u)
    \/ \E e \in Ids, f \in Fields : ClearRead(h, e, f)
    \/ ClearReadRow(h)
    \/ PatchWrite(h)
    \/ ClearWrite(h)
    \/ HandlerLost(h)

Next ==
    \/ \E j \in Jobs : PersistStep(j)
    \/ \E h \in Editors : HandlerStep(h)

Spec == Init /\ [][Next]_vars

-----------------------------------------------------------------------------
(* Properties. *)

Observations == [event : Ids, finding : Findings, job : Jobs]

\* Columns and sessions have values of their kind.
TypeOK ==
    /\ events \subseteq Ids
    /\ creator \in [Ids -> Jobs \cup {NoJob}]
    /\ origin \in [Ids -> Findings \cup {NoFinding}]
    /\ canonical \in [Ids -> Columns]
    /\ observations \subseteq Observations
    /\ override \in [Ids -> Columns]
    /\ baseline \in [Ids -> Columns]
    /\ phase \in [Jobs -> {"new", "running", "done", "failed"}]
    /\ found \in [Jobs -> SUBSET Findings]
    /\ todo \in [Jobs -> SUBSET Findings]
    /\ own \in [Jobs -> SUBSET Ids]
    /\ staged \in [Jobs -> SUBSET Observations]
    /\ lock \in Jobs \cup {NoJob}
    /\ doing \in [Editors -> {"idle", "patch", "clearing", "clear"}]
    /\ on \in [Editors -> Ids \cup {NoId}]
    /\ wants \in [Editors -> Columns]
    /\ saw \in [Editors -> Columns]
    /\ overlap \in [Jobs -> SUBSET Jobs]
    /\ raced \in [Ids -> SUBSET Fields]
    /\ touched \in [Ids -> SUBSET Fields]

\* A job that persisted recorded every one of its findings on some committed
\* event, whoever else persisted meanwhile; a job that did not left no row.
AllOrNothing ==
    /\ \A j \in Jobs : phase[j] = "done" =>
        \A f \in found[j] : \E o \in observations :
            o.event \in events /\ SameObservation(o.finding, f)
    /\ \A o \in observations : phase[o.job] = "done"
    /\ \A e \in events : phase[creator[e]] = "done"

Alike(e, d) ==
    SameEvent(Said[origin[e]]["title"], Said[origin[e]]["source_url"], origin[d])

Touched(e) == MatchedFields \cap touched[e] # {}

\* Two events that the deduplication would hold for one exist only where
\* their jobs overlapped or a reviewer had edited a field it compares; and an
\* event has the same observation twice only from jobs that overlapped.
TwinsExplained ==
    /\ \A e, d \in events : e # d /\ Alike(e, d) =>
        \/ creator[d] \in overlap[creator[e]]
        \/ Touched(e)
        \/ Touched(d)
    /\ \A o, p \in observations :
        /\ o # p
        /\ o.event = p.event
        /\ SameObservation(o.finding, p.finding)
        => p.job \in overlap[o.job]

\* As long as no two reviewers raced for a field, it shows its override, the
\* override keeps what the source said, and without one it shows just that.
BaselineKept ==
    \A e \in events, f \in Fields : f \notin raced[e] =>
        IF override[e][f] = NoValue
        THEN canonical[e][f] = Said[origin[e]][f]
        ELSE /\ canonical[e][f] = override[e][f]
             /\ baseline[e][f] = Said[origin[e]][f]

\* What the comment on event_manual_overrides says: the baseline is restored
\* exactly when the override is cleared.  Two reviewers can break it.
ClearRestoresSource ==
    \A e \in events, f \in Fields :
        override[e][f] = NoValue => canonical[e][f] = Said[origin[e]][f]

=============================================================================
