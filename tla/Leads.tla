--------------------------------- MODULE Leads ---------------------------------
(***************************************************************************)
(* Leads, their stages and outcomes, and the follow-up reminders that are  *)
(* kept in step with a lead's follow-up date (LeadService, ReminderService *)
(* and their REST handlers).                                               *)
(*                                                                         *)
(* The first write of a handler takes the database's lock and everything   *)
(* it reads afterwards is as it commits: a handler that changes a lead     *)
(* looks for the lead's reminder under the lock, one that is about a       *)
(* reminder has read it before.                                            *)
(***************************************************************************)
EXTENDS Requests, Naturals

CONSTANTS
    LeadIds,       \* ids of leads
    ReminderIds,   \* ids of reminders
    Keys,          \* what find_duplicate compares, a company among it: equal
                   \* keys, equal leads
    LastDay,       \* bound of the model: the days are 1 .. LastDay
    LeadStages,    \* stages that occur, among LeadStage
    NoLead, NoKey

ASSUME LeadsAssumption ==
    /\ LastDay \in Nat \ {0}
    /\ NoLead \notin LeadIds
    /\ NoKey \notin Keys
    /\ {"newly_discovered", "not_fit"} \subseteq LeadStages

VARIABLES
    \* leads
    key,           \* what identifies the lead, NoKey where there is no row
    stage,
    followUp,      \* follow_up_date, 0 for none
    outcomes,      \* types of the outcomes recorded in lead_activities
    \* follow_up_reminders
    about,         \* lead_id, NoLead where there is no row
    status,        \* state
    due,           \* due_date
    earlier,       \* pairs of ids: the first has the earlier updated_at
    \* environment and history
    today,
    renamed,       \* leads a PATCH has given a company
    overtook       \* a stale request has written

leadVars == <<key, stage, followUp, outcomes>>
reminderVars == <<about, status, due, earlier>>
leadsVars == <<leadVars, reminderVars, today, renamed, overtook, requestVars>>

Days == 1 .. LastDay
OutcomeTypes == {"contact", "response", "meeting", "opportunity"}
ReminderStates == {"scheduled", "due", "overdue", "completed"}

-----------------------------------------------------------------------------
(* Policy. *)

\* Ids a new lead could have: a request to create one is about these.
FreeIds == {l \in LeadIds : key[l] = NoKey}

\* find_duplicate
Duplicate(k) == \E l \in LeadIds : key[l] = k

\* may_transition_stage
MayTransition(from, to) == from = to \/ from # "not_fit"

\* may_record_outcome
MayRecordOutcome(l, o) ==
    /\ stage[l] # "not_fit"
    /\ o = "opportunity" /\ stage[l] \in {"newly_discovered", "watched"} =>
           outcomes[l] \cap {"contact", "response", "meeting"} # {}
    /\ o = "meeting" /\ stage[l] = "newly_discovered" =>
           outcomes[l] \cap {"contact", "response"} # {}

\* OUTCOME_STAGE_HINT
StageHint == [contact |-> "connected", response |-> "responded",
              meeting |-> "meeting_scheduled", opportunity |-> "opportunity"]

\* classify_reminder_state
Classify(d) ==
    IF d < today THEN "overdue" ELSE IF d = today THEN "due" ELSE "scheduled"

\* get_active_for_lead: the open reminder that was updated last.
OpenReminders(l) == {r \in ReminderIds : about[r] = l /\ status[r] # "completed"}

IsActive(r, l) ==
    /\ r \in OpenReminders(l)
    /\ \A x \in OpenReminders(l) \ {r} : <<x, r>> \in earlier

-----------------------------------------------------------------------------
LeadsInit ==
    /\ key = [l \in LeadIds |-> NoKey]
    /\ stage = [l \in LeadIds |-> "newly_discovered"]
    /\ followUp = [l \in LeadIds |-> 0]
    /\ outcomes = [l \in LeadIds |-> {}]
    /\ about = [r \in ReminderIds |-> NoLead]
    /\ status = [r \in ReminderIds |-> "completed"]
    /\ due = [r \in ReminderIds |-> 0]
    /\ earlier = {}
    /\ today = 1
    /\ renamed = {}
    /\ overtook = FALSE
    /\ NoRequests

\* A request about lead l commits: those about the same lead are stale.
CommitLead(h, l) ==
    /\ overtook' = (overtook \/ stale[h])
    /\ req' = [req EXCEPT ![h] = Idle]
    /\ stale' = [x \in Handlers |-> /\ x # h
                                    /\ req[x] # Idle
                                    /\ stale[x] \/ l \in req[x].leads]

-----------------------------------------------------------------------------
(* Reminders of a lead, under the lock. *)

ReminderRows == {r \in ReminderIds : about[r] # NoLead}

\* updated_at becomes now.
Touch(r) ==
    earlier' = {p \in earlier : r \notin {p[1], p[2]}} \cup ((ReminderRows \ {r}) \X {r})

\* upsert_for_lead of an open reminder ...
RefreshReminder(r, d) ==
    /\ due' = [due EXCEPT ![r] = d]
    /\ status' = [status EXCEPT ![r] = Classify(d)]
    /\ Touch(r)
    /\ UNCHANGED about

\* ... or of a new one.
CreateReminder(r, l, d) ==
    /\ about[r] = NoLead
    /\ about' = [about EXCEPT ![r] = l]
    /\ due' = [due EXCEPT ![r] = d]
    /\ status' = [status EXCEPT ![r] = Classify(d)]
    /\ Touch(r)

\* save_state
SaveReminder(r, st, d) ==
    /\ status' = [status EXCEPT ![r] = st]
    /\ due' = [due EXCEPT ![r] = d]
    /\ Touch(r)
    /\ UNCHANGED about

\* Seeded fault: the reminder of a lead whose date is cleared stays open.
SyncFromLead_KeepsOpen(l, d) ==
    \/ d = 0 /\ UNCHANGED reminderVars
    \/ d # 0 /\ \E r \in ReminderIds : IsActive(r, l) /\ RefreshReminder(r, d)
    \/ /\ d # 0
       /\ OpenReminders(l) = {}
       /\ \E r \in ReminderIds : CreateReminder(r, l, d)

\* Seeded fault: a reminder is created without a look for an open one.
SyncFromLead_Creates(l, d) ==
    \/ d = 0 /\ OpenReminders(l) = {} /\ UNCHANGED reminderVars
    \/ d = 0 /\ \E r \in ReminderIds : IsActive(r, l) /\ SaveReminder(r, "completed", due[r])
    \/ d # 0 /\ \E r \in ReminderIds : CreateReminder(r, l, d)

\* sync_from_lead with the lead's new follow-up date.
SyncFromLead(l, d) ==
    \/ d = 0 /\ OpenReminders(l) = {} /\ UNCHANGED reminderVars
    \/ d = 0 /\ \E r \in ReminderIds : IsActive(r, l) /\ SaveReminder(r, "completed", due[r])
    \/ d # 0 /\ \E r \in ReminderIds : IsActive(r, l) /\ RefreshReminder(r, d)
    \/ /\ d # 0
       /\ OpenReminders(l) = {}
       /\ \E r \in ReminderIds : CreateReminder(r, l, d)

-----------------------------------------------------------------------------
(* Leads. *)

\* Seeded fault: nobody looks for duplicates.
CreateLeadRead_NoLook(h, k, d) ==
    /\ Begin(h, [op |-> "create", leads |-> FreeIds, key |-> k, date |-> d])
    /\ UNCHANGED <<leadVars, reminderVars, today, renamed, overtook>>

\* create_lead up to its check.
CreateLeadRead(h, k, d) ==
    /\ ~Duplicate(k)
    /\ Begin(h, [op |-> "create", leads |-> FreeIds, key |-> k, date |-> d])
    /\ UNCHANGED <<leadVars, reminderVars, today, renamed, overtook>>

CreateLeadWrite(h, l) ==
    /\ Busy(h, "create")
    /\ key[l] = NoKey
    /\ key' = [key EXCEPT ![l] = req[h].key]
    /\ followUp' = [followUp EXCEPT ![l] = req[h].date]
    /\ SyncFromLead(l, req[h].date)
    /\ CommitLead(h, l)
    /\ UNCHANGED <<stage, outcomes, today, renamed>>

\* POST /leads
CreateLead(h) ==
    \/ \E k \in Keys, d \in Days \cup {0} : CreateLeadRead(h, k, d)
    \/ \E l \in LeadIds : CreateLeadWrite(h, l)

\* update_lead up to its check; a PATCH without a date clears the date, one with
\* a company gives the lead the key k, and nobody looks for duplicates.
UpdateLeadRead(h, l, d, s, k) ==
    /\ key[l] # NoKey
    /\ MayTransition(stage[l], s)
    /\ Begin(h, [op |-> "patch", leads |-> {l}, on |-> l, date |-> d, key |-> k,
                 stage |-> IF s = stage[l] THEN "kept" ELSE s])
    /\ UNCHANGED <<leadVars, reminderVars, today, renamed, overtook>>

\* Only a stage that is given is written.
SetStage(l, s) == stage' = IF s = "kept" THEN stage ELSE [stage EXCEPT ![l] = s]

\* Only a company that is given is written.
SetKey(l, k) ==
    /\ key' = IF k = NoKey THEN key ELSE [key EXCEPT ![l] = k]
    /\ renamed' = IF k = NoKey THEN renamed ELSE renamed \cup {l}

UpdateLeadWrite(h) ==
    LET l == req[h].on
    IN  /\ Busy(h, "patch")
        /\ SetKey(l, req[h].key)
        /\ followUp' = [followUp EXCEPT ![l] = req[h].date]
        /\ SetStage(l, req[h].stage)
        /\ SyncFromLead(l, req[h].date)
        /\ CommitLead(h, l)
        /\ UNCHANGED <<outcomes, today>>

\* PATCH /leads/{id}
PatchLead(h) ==
    \/ \E l \in LeadIds, d \in Days \cup {0}, s \in LeadStages, k \in Keys \cup {NoKey} :
          UpdateLeadRead(h, l, d, s, k)
    \/ UpdateLeadWrite(h)

\* Seeded fault: outcomes move a lead that does not fit.
RecordOutcomeRead_Unguarded(h, l, o) ==
    /\ key[l] # NoKey
    /\ Begin(h, [op |-> "outcome", leads |-> {l}, on |-> l, outcome |-> o,
                 stage |-> StageHint[o]])
    /\ UNCHANGED <<leadVars, reminderVars, today, renamed, overtook>>

\* record_outcome up to its checks.
RecordOutcomeRead(h, l, o) ==
    /\ key[l] # NoKey
    /\ MayRecordOutcome(l, o)
    /\ Begin(h, [op |-> "outcome", leads |-> {l}, on |-> l, outcome |-> o,
                 stage |-> IF StageHint[o] = stage[l] THEN "kept" ELSE StageHint[o]])
    /\ UNCHANGED <<leadVars, reminderVars, today, renamed, overtook>>

RecordOutcomeWrite(h) ==
    LET l == req[h].on
    IN  /\ Busy(h, "outcome")
        /\ outcomes' = [outcomes EXCEPT ![l] = @ \cup {req[h].outcome}]
        /\ SetStage(l, req[h].stage)
        /\ CommitLead(h, l)
        /\ UNCHANGED <<key, followUp, reminderVars, today, renamed>>

\* POST /leads/{id}/outcomes; an outcome whose hint is not a stage of the
\* instance is left out.
RecordOutcome(h) ==
    \/ \E l \in LeadIds, o \in OutcomeTypes :
          StageHint[o] \in LeadStages /\ RecordOutcomeRead(h, l, o)
    \/ RecordOutcomeWrite(h)

-----------------------------------------------------------------------------
(* Reminders. *)

\* Seeded fault: a completed reminder may be rescheduled.
ReminderRead_Completed(h, op, r, d) ==
    /\ about[r] # NoLead
    /\ Begin(h, [op |-> op, leads |-> {about[r]}, on |-> r, date |-> d])
    /\ UNCHANGED <<leadVars, reminderVars, today, renamed, overtook>>

\* complete and reschedule up to their checks.
ReminderRead(h, op, r, d) ==
    /\ about[r] # NoLead
    /\ status[r] # "completed"
    /\ Begin(h, [op |-> op, leads |-> {about[r]}, on |-> r, date |-> d])
    /\ UNCHANGED <<leadVars, reminderVars, today, renamed, overtook>>

\* complete leaves the lead's date alone.
CompleteWrite(h) ==
    LET r == req[h].on
    IN  /\ Busy(h, "complete")
        /\ SaveReminder(r, "completed", due[r])
        /\ CommitLead(h, about[r])
        /\ UNCHANGED <<leadVars, today, renamed>>

\* POST /reminders/{id}/complete
CompleteReminder(h) ==
    \/ \E r \in ReminderIds : ReminderRead(h, "complete", r, 0)
    \/ CompleteWrite(h)

\* Seeded fault: the lead keeps its date.
RescheduleWrite_LeadKept(h) ==
    LET r == req[h].on
    IN  /\ Busy(h, "reschedule")
        /\ SaveReminder(r, Classify(req[h].date), req[h].date)
        /\ CommitLead(h, about[r])
        /\ UNCHANGED <<leadVars, today, renamed>>

\* reschedule sets the reminder, and then the lead's date.
RescheduleWrite(h) ==
    LET r == req[h].on
    IN  /\ Busy(h, "reschedule")
        /\ SaveReminder(r, Classify(req[h].date), req[h].date)
        /\ followUp' = [followUp EXCEPT ![about[r]] = req[h].date]
        /\ CommitLead(h, about[r])
        /\ UNCHANGED <<key, stage, outcomes, today, renamed>>

\* POST /reminders/{id}/reschedule
RescheduleReminder(h) ==
    \/ \E r \in ReminderIds, d \in Days : ReminderRead(h, "reschedule", r, d)
    \/ RescheduleWrite(h)

\* GET /reminders/queue and /reminders/alerts read the open reminders ...
QueueRead(h, r) ==
    /\ about[r] # NoLead
    /\ status[r] \notin {"completed", Classify(due[r])}
    /\ Begin(h, [op |-> "queue", leads |-> {about[r]}, on |-> r, state |-> Classify(due[r])])
    /\ UNCHANGED <<leadVars, reminderVars, today, renamed, overtook>>

\* ... and write the states of the day; one reminder stands for them.
QueueWrite(h) ==
    LET r == req[h].on
    IN  /\ Busy(h, "queue")
        /\ SaveReminder(r, req[h].state, due[r])
        /\ CommitLead(h, about[r])
        /\ UNCHANGED <<leadVars, today, renamed>>

ReminderQueue(h) == (\E r \in ReminderIds : QueueRead(h, r)) \/ QueueWrite(h)

DayPasses ==
    /\ today < LastDay
    /\ today' = today + 1
    /\ UNCHANGED <<leadVars, reminderVars, renamed, overtook, requestVars>>

-----------------------------------------------------------------------------
LeadsNext ==
    \/ DayPasses
    \/ \E h \in Handlers :
          \/ CreateLead(h)
          \/ PatchLead(h)
          \/ RecordOutcome(h)
          \/ CompleteReminder(h)
          \/ RescheduleReminder(h)
          \/ ReminderQueue(h)
          \/ Lost(h) /\ UNCHANGED <<leadVars, reminderVars, today, renamed, overtook>>

LeadsSpec == LeadsInit /\ [][LeadsNext]_leadsVars

-----------------------------------------------------------------------------
(* Properties. *)

\* The values each variable takes; the reminders have been updated one after another.
LeadsTypeOK ==
    /\ key \in [LeadIds -> Keys \cup {NoKey}]
    /\ stage \in [LeadIds -> LeadStages]
    /\ followUp \in [LeadIds -> Days \cup {0}]
    /\ outcomes \in [LeadIds -> SUBSET OutcomeTypes]
    /\ about \in [ReminderIds -> LeadIds \cup {NoLead}]
    /\ status \in [ReminderIds -> ReminderStates]
    /\ due \in [ReminderIds -> Days \cup {0}]
    /\ earlier \subseteq ReminderRows \X ReminderRows
    /\ \A p, r \in ReminderRows : <<p, r>> \in earlier <=> p # r /\ <<r, p>> \notin earlier
    /\ \A p, q, r \in ReminderRows :
          <<p, q>> \in earlier /\ <<q, r>> \in earlier => <<p, r>> \in earlier
    /\ today \in Days
    /\ renamed \subseteq LeadIds
    /\ overtook \in BOOLEAN
    /\ stale \in [Handlers -> BOOLEAN]

\* Of two leads that are duplicates a PATCH has written the company of one, or a
\* lead was created after another had been committed unseen: create_lead looks
\* before it takes the lock, whatever was renamed before, and update_lead does not look.
NoDuplicates ==
    \/ overtook
    \/ \A l, m \in LeadIds :
          key[l] = key[m] => l = m \/ key[l] = NoKey \/ l \in renamed \/ m \in renamed

\* A lead has at most one open reminder, and its date is the lead's follow-up
\* date, unless a request was about a reminder that had changed since: PATCH,
\* reschedule, complete and the queue's refresh keep two tables in step.
ReminderIsTheLeads ==
    \/ overtook
    \/ \A r \in ReminderIds :
          about[r] # NoLead /\ status[r] # "completed" =>
              /\ OpenReminders(about[r]) = {r}
              /\ due[r] = followUp[about[r]]

\* A completed reminder stays completed, unless a request was about a reminder
\* that had changed since: only listing the queue could reopen it.
CompletedStays ==
    [][\A r \in ReminderIds :
          about[r] # NoLead /\ status[r] = "completed" =>
              overtook' \/ status'[r] = "completed"]_leadsVars

\* A lead that does not fit stays so, unless a request was about a stage that had
\* changed since: neither a PATCH nor the hint of an outcome takes it back.
NotFitIsFinal ==
    [][\A l \in LeadIds :
          stage[l] = "not_fit" => overtook' \/ stage'[l] = "not_fit"]_leadsVars

\* Leads and reminders agree, and what ended has ended (LeadService, ReminderService).
FollowUpsAgree ==
    [](NoDuplicates /\ ReminderIsTheLeads) /\ CompletedStays /\ NotFitIsFinal

=============================================================================
