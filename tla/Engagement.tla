------------------------------ MODULE Engagement ------------------------------
(***************************************************************************)
(* What is suggested about one event: hypotheses about its audience, made  *)
(* when the event is looked at and again on request, the engagement plan   *)
(* made from them, its tasks, and people's feedback (AudienceService,      *)
(* EngagementService, AiFeedbackService and their repositories).           *)
(*                                                                         *)
(* The hypotheses made at a time are one generation, and a plan has one    *)
(* task.                                                                   *)
(***************************************************************************)
EXTENDS Requests, Naturals, Sequences, FiniteSets

CONSTANTS
    Actors,          \* keys of the people who give feedback
    MaxGenerations,  \* bound of the model: generations of hypotheses
    MaxPlans,        \* bound of the model: plans
    MaxFeedback      \* bound of the model: feedback entries

VARIABLES
    generations,     \* generations of audience_hypotheses, oldest first
    plans,           \* engagement_plans with their task's status, oldest first
    scored,          \* the event has a current score
    feedback,        \* ai_feedback_events, oldest first
    crossed          \* history: a request has written after what it had read changed

engagementRows == <<generations, plans, scored, feedback>>
engagementVars == <<engagementRows, crossed, requestVars>>

TaskStatuses == {"TODO", "IN_PROGRESS", "DONE", "SKIPPED"}
FeedbackStates == {"correct", "incorrect"}

EngagementInit ==
    /\ generations = <<>>
    /\ plans = <<>>
    /\ scored = FALSE
    /\ feedback = <<>>
    /\ crossed = FALSE
    /\ NoRequests

\* Rows whose superseded_at is not set.
CurrentOf(rows) == {i \in DOMAIN rows : ~rows[i].superseded}

Crossed(c) == crossed' = (crossed \/ c)

-----------------------------------------------------------------------------
\* The event is looked at: there are no hypotheses, or of an older strategy.
Outdated == \A i \in CurrentOf(generations) : generations[i].outdated

\* Seeded fault: the current generation stays current.
Replaced_Kept(rows, seen, new) == rows \o new

\* The rows that were seen current are superseded and the new ones are inserted.
Replaced(rows, seen, new) ==
    [i \in DOMAIN rows |-> IF i \in seen THEN [rows[i] EXCEPT !.superseded = TRUE]
                                         ELSE rows[i]] \o new

NewGeneration == [superseded |-> FALSE, outdated |-> FALSE]

\* replace_for_event
ReplaceForEvent(seen, new) ==
    /\ Len(generations) + Len(new) <= MaxGenerations
    /\ generations' = Replaced(generations, seen, new)
    /\ Crossed(CurrentOf(generations) # seen)

\* get_or_generate: of an event looked at (GET), or to be analysed again.
AudienceRead(h, refresh) ==
    /\ refresh \/ Outdated
    /\ Begin(h, [op |-> "audience", seen |-> CurrentOf(generations), refresh |-> refresh])
    /\ UNCHANGED <<engagementRows, crossed>>

\* The event's text supports hypotheses, or a refresh finds that it does not any more.
AudienceWrite(h) ==
    /\ Busy(h, "audience")
    /\ \/ ReplaceForEvent(req[h].seen, <<NewGeneration>>)
       \/ req[h].refresh /\ ReplaceForEvent(req[h].seen, <<>>)
    /\ End(h)
    /\ UNCHANGED <<plans, scored, feedback>>

GetOrGenerate(h) == AudienceWrite(h) \/ \E refresh \in BOOLEAN : AudienceRead(h, refresh)

\* A release raises AUDIENCE_STRATEGY_VERSION.
NewStrategy ==
    /\ generations' = [i \in DOMAIN generations |-> [generations[i] EXCEPT !.outdated = TRUE]]
    /\ generations' # generations
    /\ UNCHANGED <<plans, scored, feedback, crossed, requestVars>>

-----------------------------------------------------------------------------
\* The event gets its first score.
Score ==
    /\ ~scored
    /\ scored' = TRUE
    /\ UNCHANGED <<generations, plans, feedback, crossed, requestVars>>

\* create_or_refresh_plan of a scored event.
PlanRead(h) ==
    /\ scored
    /\ Begin(h, [op |-> "plan", seen |-> CurrentOf(generations), outdated |-> Outdated,
                 plans |-> CurrentOf(plans)])
    /\ UNCHANGED <<engagementRows, crossed>>

\* replace_plan: the new plan's task is to do.
ReplacePlan(seen) ==
    /\ Len(plans) < MaxPlans
    /\ plans' = Replaced(plans, seen, <<[superseded |-> FALSE, task |-> "TODO"]>>)

\* Hypotheses that are missing or outdated are generated first; the plans to replace
\* are then read in the same transaction as they are replaced.
PlanWrite(h) ==
    /\ Busy(h, "plan")
    /\ \/ /\ req[h].outdated
          /\ ReplaceForEvent(req[h].seen, <<NewGeneration>>)
          /\ ReplacePlan(CurrentOf(plans))
       \/ /\ ReplacePlan(req[h].plans)
          /\ Crossed(CurrentOf(plans) # req[h].plans)
          /\ UNCHANGED generations
    /\ End(h)
    /\ UNCHANGED <<scored, feedback>>

CreateOrRefreshPlan(h) == PlanRead(h) \/ PlanWrite(h)

\* can_transition
CanTransition(from, to) ==
    \/ from = to
    \/ from \in {"TODO", "IN_PROGRESS"}
    \/ to \in {"TODO", "IN_PROGRESS"}

\* Seeded fault: a task may be put in any status.
TaskRead_Any(h, i, to) ==
    /\ Begin(h, [op |-> "task", plan |-> i, from |-> plans[i].task, to |-> to])
    /\ UNCHANGED <<engagementRows, crossed>>

\* update_task: of any plan, a superseded one too.
TaskRead(h, i, to) ==
    /\ CanTransition(plans[i].task, to)
    /\ Begin(h, [op |-> "task", plan |-> i, from |-> plans[i].task, to |-> to])
    /\ UNCHANGED <<engagementRows, crossed>>

TaskWrite(h) ==
    /\ Busy(h, "task")
    /\ plans' = [plans EXCEPT ![req[h].plan].task = req[h].to]
    /\ Crossed(plans[req[h].plan].task # req[h].from)
    /\ End(h)
    /\ UNCHANGED <<generations, scored, feedback>>

UpdateTask(h) ==
    TaskWrite(h) \/ \E i \in DOMAIN plans, to \in TaskStatuses : TaskRead(h, i, to)

-----------------------------------------------------------------------------
\* Seeded fault: the last entry about the target, whoever's it is.
ViewerProjection_Anyones(a, i) ==
    LET own == {k \in DOMAIN feedback : feedback[k].target = i}
    IN IF own = {} THEN "none"
       ELSE feedback[CHOOSE k \in own : \A m \in own : m <= k].state

\* get_viewer_projection: actor a's last word on generation i.
ViewerProjection(a, i) ==
    LET own == {k \in DOMAIN feedback : feedback[k].actor = a /\ feedback[k].target = i}
    IN IF own = {} THEN "none"
       ELSE feedback[CHOOSE k \in own : \A m \in own : m <= k].state

\* record_audience_hypothesis_feedback: only on hypotheses that are current.
FeedbackRead(h, a, i) ==
    /\ i \in CurrentOf(generations)
    /\ Begin(h, [op |-> "feedback", actor |-> a, target |-> i,
                 prior |-> ViewerProjection(a, i)])
    /\ UNCHANGED <<engagementRows, crossed>>

\* append
FeedbackWrite(h) ==
    /\ Busy(h, "feedback")
    /\ Len(feedback) < MaxFeedback
    /\ \E s \in FeedbackStates :
          feedback' = Append(feedback, [actor |-> req[h].actor, target |-> req[h].target,
                                        state |-> s, prior |-> req[h].prior])
    /\ Crossed(ViewerProjection(req[h].actor, req[h].target) # req[h].prior)
    /\ End(h)
    /\ UNCHANGED <<generations, plans, scored>>

RecordFeedback(h) ==
    FeedbackWrite(h) \/ \E a \in Actors, i \in DOMAIN generations : FeedbackRead(h, a, i)

EngagementNext ==
    \/ NewStrategy
    \/ Score
    \/ \E h \in Handlers :
          \/ GetOrGenerate(h)
          \/ CreateOrRefreshPlan(h)
          \/ UpdateTask(h)
          \/ RecordFeedback(h)
          \/ Lost(h) /\ UNCHANGED <<engagementRows, crossed>>

EngagementSpec == EngagementInit /\ [][EngagementNext]_engagementVars

-----------------------------------------------------------------------------
\* The values each column takes; a plan is only there for an event that is scored.
EngagementTypeOK ==
    /\ \A i \in DOMAIN generations : generations[i] \in [superseded : BOOLEAN, outdated : BOOLEAN]
    /\ \A i \in DOMAIN plans : plans[i] \in [superseded : BOOLEAN, task : TaskStatuses]
    /\ plans # <<>> => scored
    /\ \A k \in DOMAIN feedback :
          /\ feedback[k].target \in DOMAIN generations
          /\ feedback[k].state \in FeedbackStates

\* An event has at most one current plan and one current generation of hypotheses,
\* unless it was asked for two at once.
OneIsCurrent ==
    \/ crossed
    \/ /\ Cardinality(CurrentOf(generations)) <= 1
       /\ Cardinality(CurrentOf(plans)) <= 1

\* Each entry of the feedback history names the state the same person had given the
\* same hypotheses before, so that the changes of mind can be followed.
FeedbackChains ==
    crossed \/
    \A k \in DOMAIN feedback :
        LET earlier == {m \in 1 .. k - 1 : /\ feedback[m].actor = feedback[k].actor
                                           /\ feedback[m].target = feedback[k].target}
        IN feedback[k].prior =
               IF earlier = {} THEN "none"
               ELSE feedback[CHOOSE m \in earlier : \A n \in earlier : n <= m].state

\* A task that is done is not made a skipped one or the reverse, unless two people
\* change it at once.
TasksMoveLegally ==
    [][\A i \in DOMAIN plans : crossed' \/ CanTransition(plans[i].task, plans'[i].task)]_engagementVars

\* One plan is followed at a time, and what people say and do about it adds up.
PlansAreFollowed == [](OneIsCurrent /\ FeedbackChains) /\ TasksMoveLegally

=============================================================================
