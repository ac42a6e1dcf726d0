------------------------------ MODULE AutoDisable ------------------------------
(***************************************************************************)
(* Auto-disable and recovery of one connector source: rules watch triggers *)
(* of health snapshots and alerts, an evaluation that finds one breached   *)
(* disables the source and records an event, and an admin may ask for the  *)
(* event's recovery (AutoDisableService and its REST handlers).  Sources   *)
(* do not interact.                                                        *)
(*                                                                         *)
(* A handler reads its rows before its first write and only then takes     *)
(* SQLite's lock, so it is two steps: the last read it decides on, and the *)
(* rest of its transaction.  An evaluation or request that ends without a  *)
(* write changes nothing and is no step.                                   *)
(***************************************************************************)
EXTENDS Naturals

CONSTANTS
    Rules,       \* ids of the rules that may be created for the source
    Triggers,    \* AutoDisableTrigger
    Events,      \* ids of the events that may be recorded
    Callers,    \* requests the API can work on at a time
    NoTrigger,   \* the trigger of a row that does not exist
    NoEvent      \* a null event reference

ASSUME ConstantsAssumption ==
    /\ NoTrigger \notin Triggers
    /\ NoEvent \notin Events

VARIABLES
    \* connector_auto_disable_rules
    rule,        \* enabled, disabled or deleted; absent before it is created
    watches,     \* its trigger
    \* the signals the evaluator counts
    breached,    \* triggers with enough consecutive breaches in the window
    \* connector_auto_disable_events
    status,      \* AutoDisableEventStatus; unused before it is recorded
    trigger,     \* the trigger that fired
    fresh,       \* created_at lies within cooldown_seconds
    recoverer,   \* recovery_actor_id is set
    \* the source's row
    enabled,     \* enabled
    markedBy,    \* auto_disabled_by_event_id
    \* handlers between their read and their write
    doing,       \* what the handler does, or idle
    because,     \* the trigger an evaluation is about to record
    about,       \* the event a recovery is about
    saw          \* what it has read: enabled, or that the source is healthy

ruleVars == <<rule, watches>>
eventVars == <<status, trigger, fresh, recoverer>>
sourceVars == <<enabled, markedBy>>
handlerVars == <<doing, because, about, saw>>

vars == <<ruleVars, breached, eventVars, sourceVars, handlerVars>>

-----------------------------------------------------------------------------
EventStatus == {"active", "recovering", "resolved", "superseded"}

\* list_enabled_for_source.
EnabledForSource == {r \in Rules : rule[r] = "enabled"}

\* recent_for_source: the events the cooldown looks at, whatever their status.
RecentForSource == {e \in Events : status[e] # "unused"}

\* list_active_for_source.
ActiveForSource == {e \in Events : status[e] = "active"}

\* in_cooldown: an event of that trigger is not yet cooldown_seconds old.
InCooldown(t) == \E e \in RecentForSource : trigger[e] = t /\ fresh[e]

\* evaluate_rule: a rule fires for a breached trigger outside the cooldown.
Fires(r) ==
    /\ r \in EnabledForSource
    /\ watches[r] \in breached
    /\ ~InCooldown(watches[r])

\* What the discovery orchestrator asks of the source: evaluate_source_policy
\* looks at enabled, and nothing of the events.
RunAllowed == enabled

Init ==
    /\ rule = [r \in Rules |-> "absent"]
    /\ watches = [r \in Rules |-> NoTrigger]
    /\ breached = {}
    /\ status = [e \in Events |-> "unused"]
    /\ trigger = [e \in Events |-> NoTrigger]
    /\ fresh = [e \in Events |-> FALSE]
    /\ recoverer = [e \in Events |-> FALSE]
    /\ enabled = TRUE
    /\ markedBy = NoEvent
    /\ doing = [h \in Callers |-> "idle"]
    /\ because = [h \in Callers |-> NoTrigger]
    /\ about = [h \in Callers |-> NoEvent]
    /\ saw = [h \in Callers |-> FALSE]

StartCall(h, what, t, e, seen) ==
    /\ doing[h] = "idle"
    /\ doing' = [doing EXCEPT ![h] = what]
    /\ because' = [because EXCEPT ![h] = t]
    /\ about' = [about EXCEPT ![h] = e]
    /\ saw' = [saw EXCEPT ![h] = seen]

EndCall(h, what) ==
    /\ doing[h] = what
    /\ doing' = [doing EXCEPT ![h] = "idle"]
    /\ because' = [because EXCEPT ![h] = NoTrigger]
    /\ about' = [about EXCEPT ![h] = NoEvent]
    /\ saw' = [saw EXCEPT ![h] = FALSE]

-----------------------------------------------------------------------------
(* Rules, signals and the source registry. *)

\* The repository's add, of a rule.
AddRule(r, t, on) ==
    /\ rule' = [rule EXCEPT ![r] = IF on THEN "enabled" ELSE "disabled"]
    /\ watches' = [watches EXCEPT ![r] = t]

CreateRule(r, t, on) ==
    /\ rule[r] = "absent"
    /\ AddRule(r, t, on)
    /\ UNCHANGED <<breached, eventVars, sourceVars, handlerVars>>

\* The repository's get: a deleted rule is not found.
Found(r) == rule[r] \in {"enabled", "disabled"}

\* The repository's update.  A rule's trigger is never changed.
SetEnabled(r, on) == rule' = [rule EXCEPT ![r] = IF on THEN "enabled" ELSE "disabled"]

UpdateRule(r, on) ==
    /\ Found(r)
    /\ SetEnabled(r, on)
    /\ UNCHANGED <<watches, breached, eventVars, sourceVars, handlerVars>>

\* The repository's soft_delete.
SoftDelete(r) == rule' = [rule EXCEPT ![r] = "deleted"]

DeleteRule(r) ==
    /\ Found(r)
    /\ SoftDelete(r)
    /\ UNCHANGED <<watches, breached, eventVars, sourceVars, handlerVars>>

\* Snapshots and alerts come and leave the window.
SignalsChange(t) ==
    /\ breached' = IF t \in breached THEN breached \ {t} ELSE breached \cup {t}
    /\ UNCHANGED <<ruleVars, eventVars, sourceVars, handlerVars>>

\* PATCH /admin/connectors/{id} writes enabled and looks at no event.
PatchSource(on) ==
    /\ enabled' = on
    /\ UNCHANGED <<ruleVars, breached, eventVars, markedBy, handlerVars>>

CooldownPasses(e) ==
    /\ fresh[e]
    /\ fresh' = [fresh EXCEPT ![e] = FALSE]
    /\ UNCHANGED <<ruleVars, breached, status, trigger, recoverer, sourceVars, handlerVars>>

-----------------------------------------------------------------------------
(* Evaluation. *)

\* evaluate_source up to its first write: the source's row is loaded, a rule
\* has fired.
EvaluateRead(h, r) ==
    /\ Fires(r)
    /\ StartCall(h, "evaluate", watches[r], NoEvent, enabled)
    /\ UNCHANGED <<ruleVars, breached, eventVars, sourceVars>>

\* Seeded fault: the source's earlier events stay active.
Superseded_Nothing(e) == {}

\* _supersede_prior_active_events, for the new event e.
Superseded(e) == ActiveForSource \ {e}

\* The repository's add, of an event, and what it supersedes.
AddEvent(h, e) ==
    /\ status[e] = "unused"
    /\ status' = [p \in Events |-> IF p = e THEN "active"
                                   ELSE IF p \in Superseded(e) THEN "superseded"
                                   ELSE status[p]]
    /\ trigger' = [trigger EXCEPT ![e] = because[h]]
    /\ fresh' = [fresh EXCEPT ![e] = TRUE]

\* Seeded fault: the mark gets the trigger instead of the event.
MarkSource_Trigger(h, e) ==
    /\ markedBy' = because[h]
    /\ enabled' = (enabled /\ ~saw[h])

\* Seeded fault: a source found disabled is not marked again.
MarkSource_Enabled(h, e) ==
    /\ markedBy' = IF saw[h] THEN e ELSE markedBy
    /\ enabled' = (enabled /\ ~saw[h])

\* _mark_source_auto_disabled: clearing enabled is written only if the loaded
\* row had it set.
MarkSource(h, e) ==
    /\ markedBy' = e
    /\ enabled' = (enabled /\ ~saw[h])

\* The rest of evaluate_source: the event, the source's row, the superseded
\* events.
EvaluateWrite(h, e) ==
    /\ AddEvent(h, e)
    /\ MarkSource(h, e)
    /\ EndCall(h, "evaluate")
    /\ UNCHANGED <<ruleVars, breached, recoverer>>

-----------------------------------------------------------------------------
(* Recovery. *)

\* The repository's transition_status, whatever the event has become.
TransitionStatus(e, st) == status' = [status EXCEPT ![e] = st]

\* recover_source: only an active event can be recovered.
RecoverRead(h, e) ==
    /\ e \in ActiveForSource
    /\ StartCall(h, "recover", NoTrigger, e, FALSE)
    /\ UNCHANGED <<ruleVars, breached, eventVars, sourceVars>>

\* The admin's id is written with the status.
RecoverWrite(h) ==
    /\ EndCall(h, "recover")
    /\ TransitionStatus(about[h], "recovering")
    /\ recoverer' = [recoverer EXCEPT ![about[h]] = TRUE]
    /\ UNCHANGED <<ruleVars, breached, trigger, fresh, sourceVars>>

\* Seeded fault: an active event of a healthy source is resolved by itself.
FinalizeRead_Active(h, e, healthy) ==
    /\ status[e] \in {"active", "recovering"}
    /\ StartCall(h, "finalize", NoTrigger, e, healthy)
    /\ UNCHANGED <<ruleVars, breached, eventVars, sourceVars>>

\* finalize_recovery, which nothing in this repository calls (TickNext): the
\* caller says whether the source is healthy.
FinalizeRead(h, e, healthy) ==
    /\ status[e] = "recovering"
    /\ StartCall(h, "finalize", NoTrigger, e, healthy)
    /\ UNCHANGED <<ruleVars, breached, eventVars, sourceVars>>

\* _clear_source_auto_disabled.
ClearSource ==
    /\ enabled' = TRUE
    /\ markedBy' = NoEvent

\* A healthy source is enabled and its mark cleared, an unhealthy one has its
\* event active again.
FinalizeWrite(h) ==
    /\ EndCall(h, "finalize")
    /\ \/ /\ saw[h]
          /\ TransitionStatus(about[h], "resolved")
          /\ ClearSource
       \/ /\ ~saw[h]
          /\ TransitionStatus(about[h], "active")
          /\ UNCHANGED sourceVars
    /\ UNCHANGED <<ruleVars, breached, trigger, fresh, recoverer>>

-----------------------------------------------------------------------------
CreateStep == \E r \in Rules, t \in Triggers, on \in BOOLEAN : CreateRule(r, t, on)
UpdateStep == \E r \in Rules, on \in BOOLEAN : UpdateRule(r, on)
DeleteStep == \E r \in Rules : DeleteRule(r)

AdminStep == CreateStep \/ UpdateStep \/ DeleteStep \/ \E on \in BOOLEAN : PatchSource(on)

Environment ==
    \/ \E t \in Triggers : SignalsChange(t)
    \/ \E e \in Events : CooldownPasses(e)

EvaluateStep(h) ==
    \/ \E r \in Rules : EvaluateRead(h, r)
    \/ \E e \in Events : EvaluateWrite(h, e)

RecoverStep(h) ==
    \/ \E e \in Events : RecoverRead(h, e)
    \/ RecoverWrite(h)

HandlerStep(h) == EvaluateStep(h) \/ RecoverStep(h)

\* What the program does: evaluations and recoveries are admins' requests.
Next ==
    \/ AdminStep
    \/ Environment
    \/ \E h \in Callers : HandlerStep(h)

Spec == Init /\ [][Next]_vars

FinalizeStep(h) ==
    \/ \E e \in Events, healthy \in BOOLEAN : FinalizeRead(h, e, healthy)
    \/ FinalizeWrite(h)

\* With the worker tick that finalize_recovery is written for.
TickNext == Next \/ \E h \in Callers : FinalizeStep(h)

TickSpec == Init /\ [][TickNext]_vars

-----------------------------------------------------------------------------
(* Properties. *)

\* The values each variable takes.
TypeOK ==
    /\ rule \in [Rules -> {"absent", "enabled", "disabled", "deleted"}]
    /\ watches \in [Rules -> Triggers \cup {NoTrigger}]
    /\ breached \in SUBSET Triggers
    /\ status \in [Events -> EventStatus \cup {"unused"}]
    /\ trigger \in [Events -> Triggers \cup {NoTrigger}]
    /\ fresh \in [Events -> BOOLEAN]
    /\ recoverer \in [Events -> BOOLEAN]
    /\ enabled \in BOOLEAN
    /\ markedBy \in Events \cup {NoEvent}
    /\ doing \in [Callers -> {"idle", "evaluate", "recover", "finalize"}]
    /\ because \in [Callers -> Triggers \cup {NoTrigger}]
    /\ about \in [Callers -> Events \cup {NoEvent}]
    /\ saw \in [Callers -> BOOLEAN]

\* The active event is the one the source's row names, so there is one at most,
\* however evaluations and recoveries overtake each other.
ActiveIsMarked == \A e \in Events : status[e] = "active" => markedBy = e

\* The source's row never names an event that a newer one has superseded.
MarkIsCurrent == markedBy # NoEvent => status[markedBy] \in {"active", "recovering"}

\* Recovery is human-confirmed: an event that was resolved has a recoverer.
ResolvedIsConfirmed == \A e \in Events : status[e] = "resolved" => recoverer[e]

\* A source with an active event is not run, even when enabled is set again.
AutoDisabledIsNotRun == (\E e \in Events : status[e] = "active") => ~RunAllowed

=============================================================================
