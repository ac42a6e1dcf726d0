# LiveLead: specification and verification

LiveLead finds business events on the web, curates them, and follows them up: a
FastAPI service (`src/src/livelead`), Dramatiq workers behind Redis
(`src/apps/worker`), a scheduler process (`src/apps/scheduler`), one SQLite or
PostgreSQL database behind SQLAlchemy, and a React client.  This directory holds
TLA+ models of its protocols, TLC configurations that check them on small
instances, and TLAPS proofs of the results that matter most.

Paths below are relative to `src/src/livelead` unless they begin with `apps/`.

## 1. What shapes every model

*Transactions.*  A REST handler gets one `AsyncSession`, reads rows, decides,
writes, and commits once at the end (a few commit earlier, and the models say
so).  Rows read are plain ORM objects: nothing locks them and no table has a
version column.  SQLite admits one writer at a time and takes the lock at the
first write, PostgreSQL at the first write of a row; so what a handler decided
on may be out of date when it writes.  In the models a handler is therefore two
steps, **the last read it decides on** and **the rest of its transaction**,
unless nothing that another actor can change lies between them.

*Processes.*  API process, scheduler and worker threads interleave freely.  A
step may be the last one a process takes: crashes are actions of their own
(`WorkerCrash`, `ApiCrash`, `SchedulerRollback`, `PassLost`), bounded where they
would make the state space infinite.

*Columns.*  A table is a family of functions from row ids, one per column that a
decision or a property looks at.  Ids are model values and are never reused
(they are `uuid4`).  A row that does not exist yet has the status `unused` or
`absent`.

*Requests.*  The newer modules share `Requests`: a handler `h` is idle or
carries in `req[h]` what it does and what it has read, `Begin`, `End` and `Lost`
are its first and last steps, and `EndAndOvertake` a commit that leaves every
other request `stale`, that is, working on what it read before the change.  A
request that raises is rolled back with everything it wrote, its audit entries
included; a request that changes nothing is no step.

*The identity map.*  Repositories that hand out domain objects read the row
again when they write; those that hand out the ORM row write the columns whose
new value differs from the one loaded, whatever the row holds by then, because
SQLAlchemy emits no UPDATE for an attribute set to its loaded value.  Sessions
are made with `expire_on_commit=False`.  Each module says which of the two its
repository does, and its "edit" actions write exactly those columns.

*History.*  Some properties hold only until two requests cross.  A flag of history (`stale`
requests that wrote: `overwrote`, `raced`, `crossing`, ...) says so, and the property is
stated for the states before, or with the flag as its excuse.  Where a request may spoil
what is promised without being in a race that anybody can see, the history says who did it
instead (`lost`, `renamed`, `dated`, `cleared`), and the property names exactly those rows
or jobs.  What crossing requests really do is in section 8.

## 2. Inventory

| Component (source) | State | Operations | Hard part | Correct when | Modelled in |
|---|---|---|---|---|---|
| Discovery jobs (`application/discovery/service.py`, `interfaces/rest/discovery_jobs.py`, `apps/worker/discovery_tasks.py`) | `discovery_jobs` rows, Redis messages | create, cancel, run, persist | row committed before or after its message; redelivery; cancel races the outcome | one runner per job; ends once; end explained by its sources; events only of finished jobs | Discovery, JobLifecycle |
| Discovery schedules (`application/discovery/schedule_*.py`, `apps/scheduler/main.py`) | `discovery_schedules` rows | create, patch, dispatch pass | sends before it commits; one commit for all schedules; overlap rule | no two active jobs per schedule; due schedules served; link consistent | Discovery |
| Source registry and policy (`domain/sources`, `interfaces/rest/admin_connectors.py`, `domain/browser/launch_sources.py`, `application/browser/evidence_provisioning.py`) | `source_registry`, `campaign_sources` | patch, PUT of a campaign's sources, provisioning by opening an event, launch | two provisionings, a PUT in between | a launch uses a source that may run and finds one where there is one; only a PUT unpins | SourceRegistry; a flag per source in Discovery, `enabled` in AutoDisable |
| Connectors (`infrastructure/connectors`) | none | fetch and parse | I/O | maps every failure to a status | the outcomes of `SourceReport` |
| Event ingest and overrides (`application/events`, `event_overrides`) | events, observations, overrides, the worker's session | ingest/merge, override, clear | two jobs persist at once; two reviewers edit one field; edits change what is a duplicate | recorded whole or not; twins only by overlap or edit; the baseline is kept | Events |
| Event watchlist (`application/event_watchlist`) | watch row, its history | watch, change, remove | two requests of one user | the history tells the row | Watchlist |
| Webhooks (`application/webhooks`) | subscriptions, sealed secrets, deliveries | CRUD, rotate, emit, dispatch pass, retry, test | at-least-once; retries against deletions; failing pass | no lost delivery; outcomes true; finals final | Webhooks |
| Connector auto-disable (`application/auto_disable`) | rules, events, the source's mark | CRUD, evaluate, recover, finalize | overtaking evaluations and recoveries | one event in force; recovery human-confirmed | AutoDisable |
| Connector health (`application/connector_health`) | audit entries by hour, snapshots | compute, summarize, count breaches | two windows, rates, zero runs | a trip is about a fault both windows hold; flag and status agree | ConnectorHealth |
| Identity, sessions, login limits (`application/auth`, `domain/identity`) | users, sessions; failure window and lock in memory and in the row | login, logout, lockout, restart | concurrent failures between check and record | guesses bounded | LoginLimit, Membership |
| Members (`application/member_management`) | memberships, invitations, sessions | invite, accept, revoke, role, suspend, remove | rules that read and then write | an active owner remains; sessions are of members; an invitation ends once | Membership |
| Content (`application/content`) | drafts, revisions, handoffs | generate, edit, submit, approve, reject, hand off, mark used | approval against edits | what is handed off was approved | ContentReview |
| Leads and reminders (`application/leads`, `reminders`) | leads, outcomes, reminders | create, update, outcome, complete, reschedule, refresh | two rows that should agree | one open reminder per lead, at the lead's date; ended is ended | Leads |
| Alerts (`application/observability`) | rules, alert events | evaluate, acknowledge, resolve | windows roll over; ticks overlap | one open event per window; suppressed was reported; resolved rests | Alerts |
| Notifications (`application/notifications`) | preferences, inbox | seed, patch, deliver, mark | seeding against patches | channels are independent; muted is silent | Notifications |
| Browser sessions (`application/browser/service.py`, `infrastructure/browser`) | row, runtime in memory, thread, confirmations, action log | start, act, ask, decide, stop, restart | runtime and row disagree after failure | a confirmed action is performed once; ended is ended | BrowserSessions |
| Browser profiles (`application/browser/profiles.py`) | lifecycle, consent, sealed login | create, consent, log in, revoke, renew, delete | storing against revoking | material has consent; deleted is final | BrowserProfiles |
| CloakBrowser policy (`application/cloakbrowser`) | policy row, kill switch | request, two approvals, revoke, launch check | approvals of what was read | a launch was approved and is not withdrawn | CloakBrowser |
| Debug artifacts (`application/browser/debug_artifacts.py`) | row and file | capture, list, download, clean | file before row; expiry | a row has its file; captures are whole | DebugArtifacts |
| Runtime mode, cutover, toggles (`application/runtime`) | mode in memory, events, toggles | enter, pause, roll back, enable, restart | mode set before the commit | out of live, no live toggle; the last event tells the mode | Runtime |
| Backup, restore, deletion (`application/backup_restore`) | snapshots, runs, retention, marks | record, verify, trial restore, prune, anonymize | acceptance; two deletions | enabling is accepted; a deletion is counted once | Backups, DataDeletion |
| Metrics export (`application/metrics_export`) | policy | PUT, test export, scrape | a PUT over another | an enabled sink was accepted; status of the last export | MetricsExport |
| Calendar export (`application/calendar_export`) | tokens; calendars are read only | mint, use, revoke; build | a link polled while it is revoked; filter, limit and order | uses counted; revoked is refused; a calendar lists what it is asked for | CalendarTokens, CalendarExport |
| Scoring and suggestions (`application/scoring`, `scoring_suggestions`) | scores, weights, suggestions | score, rescore, edit, suggest, accept | two rescorings | one current score; a suggestion moves weights within its bound | Scoring |
| Query expansion, copilot (`application/query_expansion`, `discovery_copilot`) | sets, answers | generate, edit, approve, accept, use | edit against approval | what discovery uses was reviewed | QueryExpansion |
| Audience, engagement, feedback (`application/audience`, `engagement`, `ai_feedback`) | generations, plans, tasks, feedback | refresh, patch a task, comment | two refreshes | one current plan; tasks move legally; feedback chains | Engagement |
| Internationalisation (`application/i18n`) | preferences, audit trail | patch, resolve | partial patches that cross | the trail rebuilds what is stored | Locales |
| Secrets vault, audit log, campaigns and queries, database and queue, process entry points | | | | as their users need | partly, see `PROJECT.json` |
| Performance monitoring, reporting, frontend, scripts, tests | rows and projections | appended and read | little | arithmetic right | not modelled |

How they interact: REST and the scheduler send discovery jobs to the worker over
Redis; the worker asks the source policy, ingests events and persists them, and
scores them; the source policy reads the flag that auto-disable and the admin's
PATCH both write; auto-disable reads the health snapshots and alerts that the
observability worker writes; the scheduler also runs the webhook pass; webhooks
read the secrets vault; leads, content, reminders, the watchlist and calendars
hang off events.  Components meet in few columns: a source's `enabled`
(AutoDisable writes it, SourceRegistry and Discovery read it) and the status of
a job.  Beyond those they share the form of a request and nothing else, which is
why most have a module that stands alone.

`PROJECT.json` lists every component with its status and every hazard at its
line.

## 3. Modules

### Discovery (with JobLifecycle, MCDiscovery, DiscoveryProofs)

State, by table: `status cancel scope progress error origin events` are columns
of `discovery_jobs` (and the sources whose findings were ingested); `queue` is
Redis; `pc wjob todo cur fetch found final` are the local variables of
`run_discovery_job` in each worker thread; `sending cancelling` are REST
handlers between two steps; `state due sources last` are columns of
`discovery_schedules`; `pass seen outcome created` are the scheduler's open
transaction; `policy` is what `evaluate_source_policy` answers of a source, or that
its row is gone; `lost` are the jobs the code gives up (history).

| Action | Code |
|---|---|
| `CreateJob`, `SendJob`, `SendJobFails`, `ApiCrash` | `create_discovery_job`: commit the row, send, mark failed if the send raises (also when the message did go out) |
| `CancelRead`, `CancelCommit` | `cancel_discovery_job`: the terminal check and the write of `cancel_requested` |
| `CreateSchedule`, `PatchSchedule` | `DiscoveryScheduleService` |
| `SchedulerScan`, `SchedulerSkip`, `SchedulerBlock`, `SchedulerCreate`, `SchedulerCommit`, `SchedulerRollback` | `dispatch_due_schedules`: list, per schedule skip, block or create **and send**, one commit at the end |
| `ReceiveMissing`, `ReceiveCancelled`, `ReceiveStart` | the head of `run_discovery_job` |
| `SourceSkip` | a source whose row is gone is passed over (`service.py:89`): its progress stays as it was, in the row that is aggregated |
| `SourceStart`, `SourceReport`, `FinalRead`, `FinalCommit`, `PersistEvents`, `Acknowledge` | its loop, its aggregate, its commits |
| `WorkerException`, `WorkerCrash` | the actor raises (`max_retries=0`, message consumed) or the process dies (message redelivered) |
| `PolicyChange`, `BecomeDue` | a source is edited or its quota is used; the clock |
| `DeleteSource` | `scripts/clean-e2e.py`, the one deleter of `sources` rows |

The scheduler's transaction holds SQLite's write lock from its first write, so
other writers wait (`DbFree`), while readers and the queue do not: that is why a
worker can receive a message whose row is not yet visible.

`JobLifecycle` is what a client of a job's row may rely on: it appears, runs,
ends once.  `Lifecycle == INSTANCE JobLifecycle WITH ...` maps a row to it.

### Webhooks (with MCWebhooks, WebhooksProofs)

`sub sealed key` are subscriptions, their sealed secrets and the master key;
`status target attempts next` are `webhook_deliveries`; `retrying testing
patching emitting batch` are handlers and the scheduler's pass between a read and
a write; `posts` is history.  Actions: `CreateSubscription`, `PatchRead`/`PatchWrite`,
`DeleteSubscription` (cancels what waits), `RotateSecret`, `KeyChange`,
`EmitRead`/`EmitInsert`, `TestRead`/`TestSend`/`TestLost`, `RetryRead`/`RetryWrite`,
`TimePasses`, and the pass: `PassList`, `PassPosts`, `PassGivesUp`, `PassLost`.
The pass names two variables it does not have after its first request
(`application/webhooks/service.py:863`), so `PassPosts` never commits: it counts
the POST, and the rest of the pass is rolled back.

### AutoDisable (with MCAutoDisable, AutoDisableProofs)

One source.  `rule watches` are its rules; `breached` the triggers the evaluator finds
breached; `status trigger fresh recoverer` the events; `enabled markedBy` the source's row;
`doing because about saw` the requests under way, `Callers` their names.  Actions:
`CreateRule`, `ChangeRule`, `PatchSource`, `EvaluateRead`/`EvaluateWrite`,
`RecoverRead`/`RecoverWrite`, `FinalizeRead`/`FinalizeWrite`, `SignalsChange`,
`CooldownPasses`; a request begins and ends with `StartCall` and `EndCall`, and `MarkSource`
writes the source's row.  No product code calls `finalize_recovery`: `Spec` leaves it out,
`TickSpec` adds the worker tick it is written for.

### Events (with MCEvents, EventsProofs)

The events of one campaign.  `events creator origin canonical observations` are
the rows of `events` and `event_source_observations`, `override baseline` those of
`event_manual_overrides`; `phase found todo own staged lock` are the worker's
session in `persist_events_from_discovery_job`; `doing on wants saw` are
reviewers' requests (`Editors`); `overlap raced touched` are history.

| Action | Code |
|---|---|
| `PersistBegin`, `PersistCommit`, `PersistFails` | the session of `persist_events_from_discovery_job`: one commit, anything else rolls back |
| `SkipFinding`, `MergeFinding`, `CreateEvent` | the three ends of `ingest_finding`; `SameEvent` is `decide_merge`, `Recorded` the query for an equal observation |
| `PatchRead`, `PatchWrite` | `update_event_fields` and the repository's `upsert` |
| `ClearRead`, `ClearReadRow`, `ClearWrite` | `clear_override`: the override, the event's row, the rest |
| `HandlerLost` | a unique key, a vanished row or the lock ends the request |

A worker's rows are staged in its session and flushed by its next query, which
takes the write lock; until then it decides without the lock (`TakeUp`).  A
column is written only where the new value differs from the one read, because
SQLAlchemy emits no UPDATE for an attribute set to its loaded value (`Written`).
With two equal observations on one event the duplicate query raises; then
`SkipFinding`, `MergeFinding` and `CreateEvent` are all disabled and the persist can only fail.
Values are compared, never parsed: the title stands for title and region, and
the timestamp field `starts_at`, which is converted on its way, is not among
the fields of the instances.

### Who works on campaigns, and with what

| Module | State | What to know |
|---|---|---|
| Requests | `req stale` | the two steps of a REST handler, see section 1 |
| Membership | users, `state role` of memberships, roles of live sessions, invitations | every rule is checked on what was read; accepting creates user, membership and session in one commit |
| LoginLimit | the limiter's window and lock in memory, `locked_until` in the row, logins under way | a login is checked by the limiter, reads the row, and is recorded: three steps, and a restart empties the memory |
| CalendarExport | listing, dates, campaigns and regions, watchlist, the last calendar | one step per export; the filter is by campaign and by region (`Filters`), among what the limited query returned; `InStartOrder` is Python's stable sort of the positions that are kept |
| CalendarTokens | a token's row, the clock, calendars served | a link's handler keeps the row of its first read |
| QueryExpansion | sets, approvals, answers, the snapshot a job uses | edits write the columns that differ from the loaded row |
| Engagement | generations of hypotheses, plans with a task, feedback | a refresh supersedes what it read |
| Locales | four columns, audit trail | a patch writes the fields it was given |
| SourceRegistry | source rows, pinned sources | evidence provisions sources by domain; `ApplyPatch` is the PATCH |

### What a team does with the events it finds

| Module | State | What to know |
|---|---|---|
| ContentReview | one draft: lifecycle, revision, text, usage | texts are numbered; decisions name the revision they read |
| Leads | leads, outcomes, reminders, the day | a lead's handler finds the reminder under the write lock, a reminder's has read it before; a PATCH may give a lead another company, and so another key, without a look for duplicates (`SetKey`; `renamed` remembers whose) |
| Watchlist | the row, its history | removing and watching again inserts a new row |
| Scoring | weights, current scores with their weights, suggestions | a scoring is three steps: the campaign's weights are read, then the current scores, then a score is appended; the worker scores the events that have none, under its lock after the first; `dated` are the scores of weights edited since they were read |
| BrowserSessions | row, live session, page, thread, confirmations, log | the loop's handlers and one thread; Playwright's runtime line by line |
| BrowserProfiles, CloakBrowser | one profile, one policy | loaded rows, column-wise writes, a switch in memory |
| DebugArtifacts | row and file per artifact | the file is written before the commit and survives a rollback |

### What runs the platform

| Module | State | What to know |
|---|---|---|
| ConnectorHealth | entries before each hour (`tally`), snapshots, trips | a window's count is a difference of two tallies; rates are compared as products |
| Alerts | rules, alert events, suppressed keys | a tick reads until the first rule it writes for, then holds the lock |
| Notifications | preferences per type and channel, inbox, mails | whether to seed, or what a PATCH leaves, is decided on one read, the row is read again by `upsert`, and the columns that differ are written: a read, a look and a write each (`SeedRead`, `SeedLook`, `SeedWrite`, ...); after the first flush the rest is under the lock |
| Runtime (EXTENDS Backups) | mode, gate, toggles, last cutover event; snapshots, runs, retention | the mode is set before the commit; `EnvironmentSpec` is the mode alone |
| MetricsExport | policy row, last results | a PUT decides on the row it read (`PutRead`), `upsert` selects it again (`PutLoad`) and the flush writes the columns that differ from that (`Dirty`, `Assigned`); a test export has the same three steps |
| DataDeletion | erased rows, audit counts | the second deletion is refused by what was read |

### Composition

`MCCampaign`, `MCReview` and `MCOperations` each extend the modules of one of
these groups.  Their components share `req` and `stale` and nothing else, so the
variable `part` says which component runs, and `Alone(p)` keeps the others where
they started: one run asks the questions of a whole group, and the variables of
each component are those its own specification has.  `Within` keeps ids in order
(they are numbers, the lowest free one comes first).  `BeforeRace` is a CONSTRAINT:
states in which a history flag is set are checked and not left, since the
properties claim nothing after.

A property such as `MembersAreGoverned` bundles what its component promises; the
module states the parts first, each under a name of its own.


## 4. Runs

| Run (configuration) | Instance | Question and result | Properties |
|---|---|---|---|
| `discovery_jobs` (DiscoveryJobs) | 1 job, 2 sources, 2 workers, no schedule, every kind of failure, 3 failures | types; never two runners; every end is explained by the row; the outcome is terminal unless every source was deleted. Holds | `TypeOK`, `SingleRunner`, `OutcomeExplained`, `FinalStatusIsTerminal` |
| `discovery_no_crash` (DiscoveryNoCrash) | 2 jobs, 1 source, 1 schedule, 1 worker, 1 failure, which is no worker's death and no ambiguous send | overlap rule, provenance of events, schedule link, refinement of `JobLifecycle`. Holds | `NoOverlap`, `EventsHaveProvenance`, `ScheduleLink`, `ImplementsLifecycle` |
| `discovery_liveness` (DiscoveryLiveness) | 1 job, 1 source, 1 schedule, 1 worker, 1 failure of any kind, `FairSpec` | REST jobs end, or were given up in one of three ways; due schedules are served. Holds | `RestJobsEnd`, `DueSchedulesServed` |
| `discovery_stuck_job` (DiscoveryStuckJob) | as above without failures | jobs of schedules end. **Violated** | `ScheduledJobsEnd` |
| `webhooks_resend` (WebhooksResend) | 1 delivery, up to 3 POSTs | at most `max_attempts` POSTs. **Violated** | `PostsBounded` |
| `auto_disable` (AutoDisable) | 2 rules, 2 triggers, 3 events, 2 requests | the source's row and its events agree. Holds | `TypeOK`, `ActiveIsMarked`, `MarkIsCurrent` |
| `auto_disable_run` (AutoDisableRun) | 1 rule, 1 trigger, 2 events, 1 request | a source with an active event is not run. **Violated** | `AutoDisabledIsNotRun` |
| `events` (Events) | 3 jobs, 2 findings that differ in their URL, 2 events; one reviewer editing titles, or one event and two requests on two fields | whole or nothing; twins explained; the baseline is kept unless raced. Holds | `TypeOK`, `BaselineKept`, `AllOrNothing`, `TwinsExplained` |
| `events_clear` (EventsClear) | 1 event, 2 requests on two fields | clearing restores the source's value. **Violated** | `ClearRestoresSource` |
| `campaign` (Campaign) | 2 requests that overlap, in each component of the first group; 3 logins, 2 users and an invitation, 3 events to list | see below. Holds | `CampaignTypeOK`, `ResolvedIsConfirmed`, `GuessesBounded`, `FeedsAreRight`, `MembersAreGoverned`, `AssistanceIsReviewed`, `PreferencesAreKept`, `SourcesAreGoverned` |
| `review` (Review) | the same for the second group; 2 leads and reminders, 2 scored events, one browser session, profile and policy, 3 artifacts | see below. Holds | `ReviewTypeOK`, `ContentIsReviewed`, `FollowUpIsKept`, `TokensAreBounded`, `ScoresAreCurrent`, `BrowserIsSupervised`, `BrowserIsPermitted` |
| `operations` (Operations) | the same for the third group; 1 subscription with 2 deliveries, hours 0 to 2, 2 rules, 2 organizations | see below. Holds | `OperationsTypeOK`, `HealthIsFair`, `ExportsAreAccepted`, `DeletedOnce`, `DeliveriesAreSound`, `AlertsAreAccounted`, `PreferencesDecide`, `ModeIsObeyed` |

The last three visit 0.50, 0.91 and 0.73 million distinct states, the others 3
thousand to 0.88 million.  Their properties bundle what their components promise:

| Property | Says |
|---|---|
| `ResolvedIsConfirmed` | with the worker tick, an event is resolved only after somebody asked for it |
| `GuessesBounded` | wrong guesses in a window stay below the threshold plus the logins that were under way |
| `FeedsAreRight` | `FeedIsOrdered`, `FilteredFeedIsComplete`: a calendar is in start order without doubles, and that of a filter has the events of its campaign and its region among the first `ListLimit` rows, all of them and no other |
| `MembersAreGoverned` | `OwnerRemains`, `SessionsAreMembers`, `EndsOnce` |
| `AssistanceIsReviewed` | `UsedWasReviewed`, `OneApproved`, `VersionNamesVariants`, `AcceptedOnce`: what discovery uses was reviewed, one set is approved, versions name their variants, an answer is accepted once; `PlansAreFollowed`: one current plan and generation, feedback chains, tasks move legally |
| `PreferencesAreKept` | `PreferenceTrail`, `PatchIsExact`: the audit trail rebuilds what is stored; a patch changes the fields it was given |
| `SourcesAreGoverned` | `LaunchesMayRun`, `LaunchFindsASource`, `DecisionsStand`, `OnlyPutsUnpin` |
| `ContentIsReviewed` | `HandedOffWasApproved`, `RevisionsNameTexts`, `UsedOnce` |
| `FollowUpIsKept` | `FollowUpsAgree`: no doubled leads but those a PATCH renamed, a reminder is at its lead's date, completed and unfit are final; `HistoryIsAChain`, `HistoryTells` of the watchlist |
| `TokensAreBounded` | `UsesAreCounted`, `RevocationStands`, `RevokedIsRefused` |
| `ScoresAreCurrent` | `OneCurrentScore`; `ScoresAreOfTheWeights`: a current score is of the weights in force, or they were edited after its request had read them; `SuggestionsAreBounded` |
| `BrowserIsSupervised` | `SessionsAreSupervised`: the browser is released, a confirmed action is performed once, one confirmation is pending, actions are budgeted, ended is ended; `CapturesAreWhole`, `RowsHaveFiles` |
| `BrowserIsPermitted` | `ProfilesAreConsented`: material has consent, deleted is final; `EngineIsApproved`: a launch was approved by both, a withdrawn purpose stays off |
| `HealthIsFair` | `DisabledForFaults`, `FlagAgreesWithStatus` |
| `ExportsAreAccepted` | `EnabledSinksWereAccepted`: an enabled sink has its acceptance, unless a PUT that had read none cleared it; `StatusIsTheLastExport` |
| `DeletedOnce` | a row's deletion is counted once, unless two had read it |
| `DeliveriesAreSound` | `WaitingIsScheduled`, `OutcomeWasSent`, `SucceededIsFinal`, `DeletedStaysDeleted` |
| `AlertsAreAccounted` | `OneOpenPerWindow`, `SuppressedWasReported`, `ResolvedIsFinal` |
| `PreferencesDecide` | `ChannelsAreIndependent`: a channel that was set changes by a request that names it, by an update that was overtaken, or goes back to its default by an overtaken seeding; `MutedIsSilent` |
| `ModeIsObeyed` | `CutoverSilences`, `EventsTellMode`, `EnablingIsAccepted` |

Why these bounds are enough to be worth running:

* Two workers are what a redelivery and a second runner need; two sources what a
  partial success needs; three failures let a crash, the redelivered run's crash
  and a lost cancel meet in one job.
* Two jobs of one schedule are what the overlap rule is about.  `NoOverlap`,
  and the refinement are stated without the death of a worker process because a
  redelivered message runs a finished job again
  (`application/discovery/service.py:61` refuses only cancelled jobs): the row goes
  from a terminal status back to running, and the schedule may then have two
  active jobs.  That is how the code behaves, see section 8.
* Two deliveries of one subscription let a deletion, a retry and a pass disagree
  about one row while another is untouched; subscriptions only meet in the pass.
* Three events let one be superseded while another recovers and a third fires.
* Three jobs: one creates an event, two others both add the same observation to
  it; with two, an observation could not be doubled.  Two findings with one title
  and two URLs let a job meet its own staged event and an edit of the title hide
  an event from the next job.
* Two requests are what it takes to overtake; a third could only be overtaken
  twice, and a request that has been overtaken is already excused.
* Three logins and a threshold of three let every guess pass the check before
  the first is recorded.  Three events and a limit of two make the limit cut one
  off.  A token of at most two moments in a clock of four can be minted, used up
  and expire.  Three hours and windows of one and two hold an hour that only the
  longer window sees.  Two rules, of which one is the system's, three alerts and two
  windows let an alert be suppressed in the second.
* Two keys let a lead be renamed to another's company or away from it.  Two
  campaigns and two regions (one of them none) let a filter keep an event by the
  one and refuse it by the other.  Three score rows let one be superseded, and be
  calculated while the weights are edited.  Two types of notification, of which one
  may be mailed, let one be seeded first and the other after it.

`CHECK_DEADLOCK FALSE` of the discovery runs is for jobs that were used up: the
model has one or two, a job that ended, or was given up, leaves nothing to do once
the failures are used up too and no source has a row.

Elsewhere `CHECK_DEADLOCK FALSE` is given where ids run out, which the model's
bounds cause and not the program.  Symmetry (workers, requests, keys, deliveries, ids)
is used in runs without liveness only.  These are bounds of the models; every
other constant is a parameter of the program: `MaxFaults`, `FaultKinds`,
`MaxPosts`, `Editable`, `MaxTexts`, `MaxSets`, `MaxApprovals`, `MaxGenerations`,
`MaxPlans`, `MaxFeedback`, `MaxScores`, `MaxPurposes`, `MaxLog`, `MaxNotes`,
`MaxAlerts`, `MaxComputed`, `MaxSnapshots`, `LastHour`, `LastDay`, `LastMoment`,
`LastWindow`, `LastInstant`, and the sets of ids.  `Within` of the three composing
modules bounds further what its comments say: `CalendarBound` (regions where no
watchlist is), `FewRenamings` (a PATCH gives a company, or a stage and a date),
`FewScores` (scores and suggestions meet one at a time), `FewUses`, `AlertsBound`,
`RuntimeBound`, `ExportBound` (two PUTs meet on the scrape's configuration) and
`NotificationsBound` (two updates meet on one type and before anything is mailed, two
deliveries do not meet, and requests meet while the inbox is empty).
The proofs have none of these bounds.

## 5. Fairness

Only `FairSpec` of Discovery is fair, and it assumes what runs by itself:

* `WF(SendJob)`: a REST handler that has committed its row goes on to send, the
  next statement of the same coroutine; `SF(CancelCommit)`: a handler that has
  read goes on to write.  It is strong because the scheduler's transaction may
  hold the write lock again and again; the lock is held for milliseconds in every
  60 seconds, and SQLite retries for seconds.
* `WF(SchedulerStep)`: the scheduler's loop never stops by itself.
* `SF(WorkerStep(w))`: a worker thread that can go on does, strong for the same
  lock.

No fairness is assumed of users, of failures or of the clock (`CreateJob`,
`CancelRead`, `PatchSchedule`, `PolicyChange`, `DeleteSource`, `BecomeDue`), and
none of the REST handlers' start.

What `RestJobsEnd` excuses is what the code gives up, and nothing else does it: a
job whose actor raised (`max_retries=0`), one whose REST handler died between its
commit and its send, and one all of whose sources were deleted (section 8).  A
worker's death, a send that fails or seems to, a rolled back pass and a cancel at
any moment are not excused.

## 6. Proofs

Each holds for every value of the constants under the assumptions named in the
component's module (placeholders differ from ids, bounds are naturals, row sets
are finite where rows are counted).  Every one follows from an inductive
invariant that TLC was asked to check before it was proved.

Most have one shape.  **Shape** says what values the columns have, as far as a step
needs it.  **What a request relies on**: until it is overtaken (`stale`), what it
has read is what the row says, which is what makes its write right; every commit
either keeps that of the others or makes them stale, and a lemma per commit
(`Overtaken`, `Ended`, ...) says so once.  **History**: the rows agree with what
the history variables remember, unless a flag says that a stale request wrote.

* **DiscoveryProofs**: `TypeCorrect`, `OneRunnerPerJob`, `OutcomeIsExplained`,
  `FinalIsTerminal`, `LinksAreTrue`, and, if `Orderly`, `SchedulesDoNotOverlap`,
  `EventsAreProvenanced` and `LifecycleRefinement`.  `IInv` is
  `TypeOK /\ Delivery /\ Record /\ Linked /\ Findings`.  "One runner" alone is not
  inductive: a step could send a message for a job that already runs, so
  `Delivery` adds that what is being sent is fresh and that an unused id has no
  message.  `Record` adds for each worker that the sources behind it have an
  outcome, or were deleted, and the outcome it holds fits its row; only then is the
  end of a job explained by its sources, and the fall-through of the aggregate one
  that needs every source to be gone.  `Linked` says that what the scheduler has created and
  not committed is invisible, and points back to its schedule.  `Findings` says
  whose sources a run's findings are from.
  `Orderly` excludes two kinds of failure by name: a worker's death, after which a
  finished job is run again, and a send that raises although the message went
  out, after which a job marked failed is run.  Both break the three statements
  (section 8), everything else that fails may fail.  `Ordered` adds to the
  invariant that a message in the queue is for a job that has not begun
  (`MessagesAreFresh`) and that an active job of a schedule is its last one
  (`LastIsActive`).  The refinement maps the rows one by one: each step is an
  appearance, one move of one row, or a stutter (`AppearMaps`, `MoveMaps`,
  `StutterMaps`).
* **WebhooksProofs**: `DeliveriesSound`, with its parts `WaitingAreScheduled`,
  `OutcomesWereSent`, `SucceededStays`, `DeletedStays`, and `TypeCorrect`.  The
  addition is `Stale`: what a retry or a pass has read and not yet acted on has
  not succeeded since.
* **AutoDisableProofs**: `TypeCorrect`, `OneActiveEvent`, `MarkStaysCurrent`,
  and for `TickSpec` `RecoveryIsConfirmed`.  The additions are `CallersReady` (a
  request that will write knows an event) and `Confirmed` (an event on its way
  back has a recoverer).
* **EventsProofs**: `TypeCorrect`, `PersistIsAtomic`, `DeduplicationHolds`,
  `OverridesKeepBaseline`.  `Staging` says whose the staged rows are and what they
  look like, `Untouched` that an unedited field shows what the source said, so
  that a finding alike would have matched (`UntouchedMatches`); `TwinEvents` and
  `TwinObservations` carry the claim over rows that are still staged, where the
  excuse is that two jobs hold them and the first commit will note the overlap;
  `Readings` says that what a request has read still holds of fields nobody raced
  for.
* **AccessProofs**: `GuessesAreBounded` counts: the failures the limiter knows and
  the logins past its check never exceed what the threshold and the logins allow
  (`Counts`), and recording a failure moves one from the second to the first.
  `MembersStayGoverned`: `Holds` says for each kind of request what it has read of
  owners, invitations and sessions, `Closed` that somebody without a membership
  has no session.
* **ReviewProofs**: `ContentStaysReviewed` (the approval a hand-off relies on names the text
  of the draft), `TokensStayBounded` (a link's handler counts from what it read, until it is
  overtaken), `ScoresStayCurrent` (`OneRow`: no event has two current scores before two
  rescorings meet; a request that has read the weights holds the ones in force or is among
  the `edited`, so that its score is `dated`; a suggestion's weights are within a bound of
  the ones it was made for).  Three theorems are of the composed specification, each from
  those of its components.  `FollowUpStaysKept`: leads and reminders (`FollowUpsStayAgreed`:
  `InStep` relates every pending reminder to its lead, `FoundOut` says what a request has
  found of stages, and that only a renamed lead may have the key it found free) and watches
  (`HistoryStaysTold`: the story ends in the row).  `BrowserStaysSupervised`: sessions
  (`SessionsStaySupervised`: `LifeIInv` relates the row's state to the page the runtime's
  thread holds and says that one holder drives it; `BookIInv` counts actions against the
  budget and ties each performed action to its confirmation) and captures
  (`CapturesStayWhole`: files are there before rows are). `BrowserStaysPermitted`: profiles
  (`ProfilesStayConsented`) and the engine's policy (`EngineStaysApproved`).  The invariant
  of a composition is the component's own, under the condition that it is the part that
  runs, and else that its columns are as at the start (`FollowUpIInv`, `SupervisedIInv`,
  `PermitIInv`). `ReviewTypesHold` is the types of the whole composition: `ReviewTInv` is,
  for the part that runs, that component's invariant with what its types need besides.  What
  is not a field's own type is that reminders have been updated one after another
  (`UpdatedInTurn`: `earlier` is a strict total order of the rows there are), that score
  rows are numbered as they are inserted and no two alike (`RowsAreNumbered`, a count of
  inserts that a pass over all events keeps by its number of writes), that a token expires
  within its bound of the moment it was made, and what a session's request has seen of the
  row it is to write (`SeesStop`).
* **OperationsProofs**: `DeletionsAreCounted`, `ExportsStayAccepted`,
  `PreferencesStand`, `ModeStaysObeyed`, `AlertsStayAccounted` and
  `HealthStaysFair`.  A tick that decided to fire had an empty window, unless it was
  overtaken, and a rule it has decided is not among those left to it (`TickHolds`).
  `ExportsStayAccepted` has to say what each kind of request relies on when others
  write between its reads: that a row a PUT has read as accepted is there and has its
  acceptance or was cleared (which stays so until the next acceptance), and that what
  it will write, laid over any row with that property, has it too (`PutHolds`,
  `LoadHolds`, `RecordHolds`).  `PreferencesStand` rests on two facts: until it is
  overtaken, a request that seeds has found no preferences and there are none, and a row
  that was found stays, since nothing deletes one (`StillThere`).
  Connector health is arithmetic of windows: lemmas about any log of running totals
  say that a fault counted in a window is counted in a longer one (`WiderWindow`)
  and stays counted as the hours advance (`StillCounted`); snapshots and readings
  are recordings of such logs, and the disabling of a source names one.
  `OperationsTypesHold` is the types of the whole composition, webhooks included, from
  `OperationsIInv`.  Most are in the invariants already; what is added is that no rule of
  the system is gone (`RulesShape`), that only what may be mailed is decided to be
  (`MailsAreMailable`), and a count: the deletions a row has had and those under way are
  together no more than the requests there can be, since each found the row there
  (`DeletionsAreBounded`).
* **CampaignProofs**: `PreferencesStayKept`, `SourcesStayGoverned`, `FeedsStayRight`
  and `AssistanceStaysReviewed`.  A calendar is a rearrangement of the positions a
  filter kept: injectivity of the rearrangement and a count give that it has every
  event once.  `AssistanceStaysReviewed` is composed like the three above, of
  `VariantsStayReviewed` and `PlansStayFollowed`.  An approved set is as its last
  approval left it (`SnapshotOf`), which is what a job's snapshot is taken from
  (`ResolvedIsApproved`), and no approval's version exceeds its set's, so that the
  next one has a version of its own (`ApprovalsAreNamed`).  That the last approval of a
  set and the last word of a person exist is part of the invariants (`SnapshotOf`,
  `HasLastWord`): a greatest element of a finite set would need induction.
  `CampaignTypesHold` is the types of the whole composition: `CampaignIInv` is, for the
  part that runs, that component's invariant with what its types need besides (what a
  request carries is typed, what it adds is registered), so the module extends those of
  AccessProofs and AutoDisableProofs.

## 7. What is model-checked only

* `RestJobsEnd` and `DueSchedulesServed` are liveness under fairness: the prover
  has no rule for them, nor for ENABLED, for induction over data or for RECURSIVE
  operators (none is used).

Every invariant and every action property that a passing run checks is stated by a theorem.

Two webhook subscriptions at once are beyond TLC in reasonable time; the proofs
cover them, as they cover any number of requests where the runs have two.

## 8. What the models found

Violated runs, each against a sentence of the repository quoted in
`PROJECT.json`:

* A scheduled job is sent before its row is committed; a fast worker drops the
  message and the job stays queued, and so blocks its schedule
  (`application/discovery/schedule_dispatch.py:215`, `:231`).
* The webhook pass always fails after its first POST and rolls back, so that
  delivery is posted for ever (`application/webhooks/service.py:863`).
* An auto-disabled source is run after a PATCH sets `enabled`: the check meant to
  refuse it has no caller (`domain/sources/policy.py:39`).
* A patch and a clear of one field that overlap leave a reviewer's value without
  an override, or record it as the source's
  (`application/event_overrides/service.py:292`).

Statements of the repository that a module defines and its code does not keep,
without a run of their own:

* `DeletionsHappen` (DataDeletion): deleting a user always fails, because
  `_disable_user` sets an e-mail to NULL that the table requires
  (`infrastructure/db/models.py:663`; `docs/product/backup-and-restore-operations.md:193`).
* `OrganizationDefaultApplies` (Locales): a user's locale and zone are never NULL
  (`infrastructure/db/models.py:682`), so an organization's default never applies, nor
  can a user return to it (`docs/product/internationalization-and-timezone.md:59`).
* `WatchlistIsServed` (CalendarExport): a watchlist that mixes events with and
  without a date has no calendar: the sort compares aware with naive times and raises
  (`application/calendar_export/service.py:898`; `docs/product/event-calendar-export.md:33`).
* `LiveEntryWasGated` (Runtime): the gate before live mode is relaxed where the
  process is configured `test_like` (`docs/ops/pilot-live-cutover-runbook.md:46`).
* `SingleFaultIsForgiven` (ConnectorHealth): one fault is in several snapshots, and
  each counts as a breach (`docs/product/connector-auto-disable-and-recovery.md:258`).
* `ClearTickResolves` (Alerts): an outage that lasted into a second window has
  two open alerts, and the tick that finds the signal clear raises on them instead of
  resolving (`application/observability/evaluator.py:219`, whose comment promises the
  opposite).

Also seen while modelling, by component:

* *Discovery.*  After a redelivery a finished job runs again and may overlap with the
  schedule's next one; a cancel committed after the last source has no effect, and one
  committed before an exception of the actor is lost with the run; after an ambiguous
  send, a job marked failed may still be run by a worker; a schedule falls back to any
  runnable source when the pinned ones are not, where starting a job answers 409; a job
  all of whose sources were deleted under it is committed as running with its
  `completed_at` set, stays so, and blocks its schedule
  (`application/discovery/service.py:89`).
* *Events.*  Denied and rejected edits write their history and audit rows in a
  transaction that is never committed (`interfaces/rest/event_overrides.py:210`); the
  helpers that protect overridden fields from ingest (`application/events/ingest.py:40`)
  have no caller, and need none, since a merge writes no column.
* *Webhooks.*  A retry that read a delivery before its subscription was deleted revives
  the cancelled row; a dead letter of a deleted subscription can be retried;
  `emit_event` is called by tests only.
* *Auto-disable.*  A rejected recovery makes an older event active again; two
  evaluations fire within one cooldown; a recovery overwrites `superseded`; with the
  worker tick, finalizing an older event clears the mark of a newer one (`ActiveIsMarked`
  does not hold of `TickSpec`); `finalize_recovery` has no caller.
* *Sources.*  `evaluate_source_for_discovery` and `evaluate_all_sources` have no caller;
  `quota_used_today` is never incremented; a time window whose start is after its end is
  never open; two overlapping provisionings create a source twice; an overlapping PUT of
  a campaign's sources is lost; opening an event pins an unpinned campaign to that
  evidence's browser sources; an empty PUT shows the whole catalog; repeated ids in a
  PUT fail on the key; a PATCH that loaded a source as enabled before an auto-disable
  commits writes nothing and answers that it is enabled; un-approving keeps who approved
  and when; `GET /events/{id}/browser-launch-sources` provisions and never commits.
* *Members.*  A change of role checks the target's present role only
  (`docs/product/member-management-and-access-governance.md:44`); sessions keep their
  role after it; the unique key on user and organization is in a migration only.
* *Content.*  An edit does not reset `usage_status`; audits of denied approvals and
  rejections are never committed (`interfaces/rest/content.py`).
* *Leads, watchlist.*  A PATCH of a lead without a follow-up date clears it and completes
  the reminder, and one with a company makes a lead the double of another, which creating it
  would have refused (`application/leads/service.py:258`); the list of a user's watches
  returns an event's id as the campaign's; CSV import has no caller.
* *Calendars.*  Audits of refused tokens are rolled back
  (`docs/product/event-calendar-export.md:84`); no event is ever ended or cancelled; the
  campaign and region filters are applied after the limit of 200 rows, the industry filter
  not at all; empty calendars are not audited; a start override with an offset loses its
  zone in SQLite; a too long expiry is clipped where the document says it is rejected.
* *Scoring.*  Two overlapping rescorings leave two current scores, and
  `score_all_for_campaign_sync` then raises (`application/scoring/sync_score.py:84`);
  scores stay as they were when the weights are edited, and a rescoring that an edit
  overtakes leaves the score of the old weights current.
* *Query expansion, plans.*  An edit overtaken by an approval stays approved; an approval
  without variants overtaken by an edit approves it unseen; two approvals leave two
  approved sets; an answer is accepted twice; two refreshes leave two current plans; tasks
  of a superseded plan can be patched; an unknown task status answers 200 and changes
  nothing; two overlapping patches go from done to skipped.
* *Browser.*  A stop during navigation leaves the browser open and the row running or
  failed (`infrastructure/browser/playwright_runtime.py:236`;
  `docs/product/browser-session-console-and-isolation.md:49`); after a restart of the API a
  running session can only become stopping; the runtime is scheduled before its row
  commits; the stream never commits what it syncs; confirming does not check the action
  budget; a confirmed action whose commit fails stays pending and may be performed
  again.  A launch by event ignores the profile it has checked; storing a login that
  overlaps with a deletion or a revocation leaves the material; audits of denied launches
  are rolled back.  `cloakbrowser_policies.source_id` is not unique, and a request that
  was overtaken keeps approvals for a new purpose.  An artifact's expiry is rolled back
  when a download finds it.
* *Alerts, notifications.*  `run_alert_evaluator` is never enqueued; a disabled rule's open
  alert is never resolved; acknowledging again emits the event again.  A scan creates
  doubles and delivers no reminders; delivery seeds one type only, after which the rest are
  never seeded; a request that found no preferences seeds its defaults over a choice the
  user has committed since (`application/notifications/notification_service.py:212`,
  `:306`); a PATCH of one channel of a type without a row turns e-mail off although its
  default may be on; a dismissed entry can become read; e-mail is sent before the commit.
* *Runtime.*  Audits of denied cutovers and toggles are rolled back; the mode is set
  before the commit and lost on restart while the toggles stay; the toggles of other
  organizations survive a pause; a rehearsal is never enqueued; a restore copies the
  file onto itself; pruning deletes snapshots of every organization;
  `redact_observation` does not check the organization; two overlapping deletions both
  succeed.
* *Health, metrics, performance.*  `ConnectorHealthErrorRow` is never pruned; no code emits
  the `discovery.run.*` audit actions the computer counts; the breach count of a rule on a
  metric ignores rows of other kinds; a connector without runs trips `failure_rate_breach`;
  `MIN_RUNS_FOR_STATUS` is 1, contrary to its comment.  An empty acceptance enables a
  metrics sink; columns of two PUTs may meet in one row, and a PUT that had read no
  acceptance clears the one under a sink that another has enabled since
  (`infrastructure/db/repositories/metrics_export.py:275`); a PUT without a token wipes the
  scrape token's hash; a test export succeeds while disabled; `GET /metrics` reads whichever
  organization's row comes first; the periodic export is never scheduled.  A breach of the
  session budget stops no session.

## 9. What is not modelled

* Parsing, HTTP, HTML and browser automation of the connectors and of pages: pure I/O,
  of which the models keep the outcomes.
* Calendar arithmetic of schedules and of backoff: `due` or not.
* Merge notes and field confidence in an event's JSON metadata: free text that no
  decision reads.
* Performance monitoring, reporting and the dashboard, import and export of CSV, the
  campaigns' own rows: projections and rows that are appended and read.
* PostgreSQL's row locks: the models take SQLite's one writer, which the repository's
  own configuration uses; handlers overtake each other in the same places.
* Authorization: roles are checked before the first read and change nothing, except
  where they are the subject (Membership).
* Frontend, scripts and tests.

`PROJECT.json` gives the reason for every component that is not or partly modelled.

## 10. Plan

What is left to state and to prove is an abstract review lifecycle that ContentReview
implements, as Discovery implements JobLifecycle.

New questions go into the runs of the group they belong to; runs stay on instances of a
few minutes.
