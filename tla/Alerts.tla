-------------------------------- MODULE Alerts --------------------------------
(***************************************************************************)
(* Alert rules, the evaluator's tick and the alert events it fires,        *)
(* suppresses and resolves (AlertEvaluator, AlertService).  A tick is one  *)
(* transaction over every rule that was enabled when it began: it reads    *)
(* until the first rule it has something to write for, then holds the      *)
(* write lock; one rule that raises rolls back the whole of it.            *)
(***************************************************************************)
EXTENDS Requests, Integers, Sequences, FiniteSets

CONSTANTS
    RuleCount,     \* alert rules, in their sort order
    SystemRules,   \* those the migration seeds
    LastWindow,    \* bound: cooldown windows
    MaxAlerts      \* bound: alert events

ASSUME AlertsAssumption ==
    /\ RuleCount \in Nat
    /\ SystemRules \subseteq 1 .. RuleCount
    /\ LastWindow \in Nat

AlertRules == 1 .. RuleCount

VARIABLES
    rule,          \* per rule: absent, enabled or disabled
    cooldown,      \* the cooldown window of now
    alerts,        \* alert_events that fired: their rule, window and status
    suppressed,    \* the rules and windows of the suppressed ones
    overlapped     \* history: a tick committed what another had decided on

alertVars == <<rule, cooldown, alerts, suppressed, overlapped, requestVars>>

AlertsInit ==
    /\ rule = [r \in AlertRules |-> IF r \in SystemRules THEN "enabled" ELSE "absent"]
    /\ cooldown = 0
    /\ alerts = <<>>
    /\ suppressed = {}
    /\ overlapped = FALSE
    /\ NoRequests

OpenStatuses == {"firing", "acknowledged"}

-----------------------------------------------------------------------------
(* The repository. *)

AlertKey(a) == <<a.rule, a.window>>

\* Seeded fault: an acknowledged event does not count.
OpenForDedup_Firing(key) ==
    {e \in DOMAIN alerts : AlertKey(alerts[e]) = key /\ alerts[e].status = "firing"}

\* get_open_for_dedup: raises when there are several.
OpenForDedup(key) ==
    {e \in DOMAIN alerts : AlertKey(alerts[e]) = key /\ alerts[e].status \in OpenStatuses}

\* get_open_for_rule: likewise, over all windows.
OpenForRule(r) ==
    {e \in DOMAIN alerts : alerts[e].rule = r /\ alerts[e].status \in OpenStatuses}

\* Seeded fault: UPDATE without a condition on the status.
Acknowledge_Always(as, e) == [as EXCEPT ![e].status = "acknowledged"]

\* UPDATE ... WHERE status = firing
Acknowledge(as, e) == [as EXCEPT ![e].status = IF @ = "firing" THEN "acknowledged" ELSE @]

-----------------------------------------------------------------------------
(* The evaluator. *)

\* The provider's sample is beyond the rule's threshold, or not: any value, each
\* time it is read.
Samples == BOOLEAN

SeveralOf(S) == \E x, y \in S : x # y

\* _evaluate_rule: what it writes for a rule, given the events it sees.
EvaluateRule(r, fires) ==
    LET here == OpenForDedup(<<r, cooldown>>)
        any == OpenForRule(r)
    IN  IF SeveralOf(here) THEN "raise"
        ELSE IF fires THEN IF here = {} THEN "fire" ELSE "suppress"
        ELSE IF any = {} THEN "nothing" ELSE IF SeveralOf(any) THEN "raise" ELSE "resolve"

Decision(r, fires) ==
    [what |-> EvaluateRule(r, fires), rule |-> r, window |-> cooldown, cleared |-> ~fires,
     event |-> IF EvaluateRule(r, fires) = "resolve"
               THEN CHOOSE e \in OpenForRule(r) : TRUE ELSE 0]

Undecided == [what |-> "undecided"]

Of(made, what) == {d \in made : d.what = what}

\* The firing events of some decisions, in the order the rules are evaluated in.
AddFiring(fired) ==
    {[i \in DOMAIN order |->
         [rule |-> order[i].rule, window |-> order[i].window, status |-> "firing"]] :
     order \in {o \in [1 .. Cardinality(fired) -> fired] :
                   \A i, j \in DOMAIN o : i < j => o[i].rule < o[j].rule}}

\* Seeded fault: the suppressed event names the rule's next window.
RecordSuppressed_Next(ds) == {<<d.rule, d.window + 1>> : d \in ds}

\* _record_suppressed: a row that says the rule fired again in the window.
RecordSuppressed(ds) == {<<d.rule, d.window>> : d \in ds}

\* UPDATE ... WHERE status IN (firing, acknowledged)
Resolve(ds) ==
    [e \in DOMAIN alerts |->
        IF alerts[e].status \in OpenStatuses /\ \E d \in ds : d.event = e
        THEN [alerts[e] EXCEPT !.status = "resolved"] ELSE alerts[e]]

\* evaluate_organization lists the enabled rules once.
TickBegin(h) ==
    /\ \E r \in AlertRules : rule[r] = "enabled"
    /\ Begin(h, [op |-> "tick", found |-> Undecided,
                 left |-> {r \in AlertRules : rule[r] = "enabled"}])
    /\ UNCHANGED <<rule, cooldown, alerts, suppressed, overlapped>>

\* The next rule: on to the one after if there is nothing to write for it.
TickEvaluate(h) ==
    /\ Busy(h, "tick") /\ req[h].found = Undecided
    /\ \E r \in req[h].left, fires \in Samples :
        LET d == Decision(r, fires)
        IN  /\ \A x \in req[h].left : r <= x
            /\ req' = [req EXCEPT ![h] =
                   [op |-> "tick", left |-> req[h].left \ {r},
                    found |-> IF d.what = "nothing" THEN Undecided ELSE d]]
    /\ stale' = [stale EXCEPT ![h] = FALSE]
    /\ UNCHANGED <<rule, cooldown, alerts, suppressed, overlapped>>

\* What it has decided is written; the rules left are evaluated under the lock,
\* each by its own events; the commit.
TickWrite(h) ==
    /\ Busy(h, "tick") /\ req[h].found # Undecided
    /\ \E fires \in [req[h].left -> Samples] :
        LET made == {req[h].found} \cup {Decision(r, fires[r]) : r \in req[h].left}
        IN  /\ Of(made, "raise") = {}
            /\ \E fired \in AddFiring(Of(made, "fire")) :
                   alerts' = Resolve(Of(made, "resolve")) \o fired
            /\ suppressed' = suppressed \cup RecordSuppressed(Of(made, "suppress"))
    /\ Len(alerts') <= MaxAlerts
    /\ overlapped' = (overlapped \/ stale[h])
    /\ EndAndOvertake(h)
    /\ UNCHANGED <<rule, cooldown>>

\* Nothing is left to do, a rule raises, or the worker dies.
TickOver(h) ==
    /\ Busy(h, "tick")
    /\ Lost(h)
    /\ UNCHANGED <<rule, cooldown, alerts, suppressed, overlapped>>

Tick(h) == TickBegin(h) \/ TickEvaluate(h) \/ TickWrite(h) \/ TickOver(h)

-----------------------------------------------------------------------------
(* The management API; each request writes with one statement. *)

CreateRule(r, enabled) ==
    /\ rule[r] = "absent"
    /\ rule' = [rule EXCEPT ![r] = IF enabled THEN "enabled" ELSE "disabled"]
    /\ UNCHANGED <<cooldown, alerts, suppressed, overlapped, requestVars>>

UpdateRule(r, enabled) ==
    /\ rule[r] # "absent"
    /\ rule' = [rule EXCEPT ![r] = IF enabled THEN "enabled" ELSE "disabled"]
    /\ UNCHANGED <<cooldown, alerts, suppressed, overlapped, requestVars>>

\* Deleting disables; what is open stays open.
DeleteRule(r) ==
    /\ rule[r] # "absent"
    /\ r \notin SystemRules
    /\ rule' = [rule EXCEPT ![r] = "disabled"]
    /\ UNCHANGED <<cooldown, alerts, suppressed, overlapped, requestVars>>

AcknowledgeEvent(e) ==
    /\ alerts' = Acknowledge(alerts, e)
    /\ UNCHANGED <<rule, cooldown, suppressed, overlapped, requestVars>>

-----------------------------------------------------------------------------
\* dedup_bucket: time enters the next cooldown window.
DedupBucket ==
    /\ cooldown < LastWindow
    /\ cooldown' = cooldown + 1
    /\ UNCHANGED <<rule, alerts, suppressed, overlapped, requestVars>>

\* run_alert_evaluator
EvaluatorTask == \E h \in Handlers : Tick(h)

RuleRequest ==
    \/ \E r \in AlertRules, enabled \in BOOLEAN : CreateRule(r, enabled) \/ UpdateRule(r, enabled)
    \/ \E r \in AlertRules : DeleteRule(r)

AlertsNext ==
    \/ EvaluatorTask
    \/ RuleRequest
    \/ \E e \in DOMAIN alerts : AcknowledgeEvent(e)
    \/ DedupBucket

AlertsSpec == AlertsInit /\ [][AlertsNext]_alertVars

-----------------------------------------------------------------------------
(* Properties. *)

\* The values each variable takes; a system rule is never gone.
AlertsTypeOK ==
    /\ rule \in [AlertRules -> {"absent", "enabled", "disabled"}]
    /\ \A r \in SystemRules : rule[r] # "absent"
    /\ cooldown \in 0 .. LastWindow
    /\ \A e \in DOMAIN alerts : /\ AlertKey(alerts[e]) \in AlertRules \X (0 .. LastWindow)
                                /\ alerts[e].status \in OpenStatuses \cup {"resolved"}
    /\ suppressed \subseteq AlertRules \X (0 .. LastWindow)

\* A rule has one open event in a cooldown window, acknowledged or not, however
\* often its signal turns, as long as no two ticks overlap.
OneOpenPerWindow ==
    ~overlapped =>
        \A e, f \in DOMAIN alerts :
            /\ {alerts[e].status, alerts[f].status} \subseteq OpenStatuses
            /\ AlertKey(alerts[e]) = AlertKey(alerts[f])
            => e = f

\* A firing was suppressed only where one was reported in its window.
SuppressedWasReported ==
    \A k \in suppressed : \E e \in DOMAIN alerts : AlertKey(alerts[e]) = k

\* What has been resolved stays so, whoever acknowledges it at the same time.
ResolvedIsFinal ==
    [][\A e \in DOMAIN alerts :
            alerts[e].status = "resolved" => alerts'[e].status = "resolved"]_alertVars

\* Claimed by the evaluator: a tick that finds the signal clear resolves what is
\* open, however long the outage was.
ClearTickResolves ==
    \A h \in Handlers :
        Busy(h, "tick") /\ req[h].found # Undecided =>
            ~(req[h].found.cleared /\ req[h].found.what = "raise")

\* Every firing is in an open alert or counted under one, and what was resolved rests
\* (AlertEvaluator, AlertService).
AlertsAreAccounted == [](OneOpenPerWindow /\ SuppressedWasReported) /\ ResolvedIsFinal

=============================================================================
