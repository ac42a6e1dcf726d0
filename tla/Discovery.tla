------------------------------ MODULE Discovery ------------------------------
(***************************************************************************)
(* Discovery jobs of LiveLead: the REST handlers that create and cancel    *)
(* them, the scheduler process that dispatches them from discovery         *)
(* schedules, the Redis queue, and the Dramatiq workers that run them and  *)
(* persist the events they find.                                           *)
(*                                                                         *)
(* Each column of a table that matters is a function from row ids; a       *)
(* transaction of the REST handlers or of a worker is one step.  The       *)
(* scheduler's transaction is open over several steps, because it sends    *)
(* queue messages before it commits: what it has written and not yet       *)
(* committed is in `outcome' and `created', its new rows are uncommitted,  *)
(* and SQLite's write lock keeps every other writer waiting (DbFree).      *)
(***************************************************************************)
EXTENDS Naturals, FiniteSets

CONSTANTS
    Jobs,        \* the job ids that may be minted (uuid4 in the code)
    Sources,     \* the registered sources of the organization
    Schedules,   \* the discovery schedules that may be created
    Workers,     \* worker threads of the Dramatiq processes
    NoJob,       \* a null job reference
    NoSource,    \* a null source reference
    NoSchedule,  \* a null schedule reference
    FaultKinds,  \* the kinds of failure the environment may produce
    MaxFaults    \* bound: how many failures one behaviour contains

Faults == {"crash", "exception", "queue_down", "ambiguous_send", "rollback", "api_crash",
           "source_deleted"}

ASSUME ConstantsAssumption ==
    /\ NoJob \notin Jobs
    /\ NoSource \notin Sources
    /\ NoSchedule \notin Schedules
    /\ FaultKinds \subseteq Faults
    /\ MaxFaults \in Nat

VARIABLES
    \* discovery_jobs, by job id
    status,      \* status, or one of NoRow while there is no row to read
    cancel,      \* cancel_requested
    scope,       \* source_ids of criteria_snapshot_json
    progress,    \* the sources' statuses in progress_json
    error,       \* error_summary
    origin,      \* discovery_schedule_id
    events,      \* the sources whose findings from this job were persisted
    \* Redis and the workers
    queue,       \* by job id: how many messages for the job wait
    pc,          \* by worker: where in run_discovery_job it is
    wjob,        \* by worker: its job
    todo,        \* by worker: the sources its loop has not reached
    cur,         \* by worker: the source it is at
    fetch,       \* by worker: the source passed the policy check
    found,       \* by worker: source_findings
    final,       \* by worker: the outcome it has computed
    \* handlers of the API that are between two steps
    sending,     \* jobs committed and not yet sent
    cancelling,  \* jobs a cancel handler has read as not terminal
    \* discovery_schedules, by schedule id
    state,       \* enabled_state, or "absent"
    due,         \* next_run_at <= now
    sources,     \* source_ids_json
    last,        \* last_dispatched_job_id
    \* the scheduler's pass
    pass,        \* the due schedules it has yet to look at
    seen,        \* by schedule: the sources its row had when the pass began
    outcome,     \* by schedule: what its transaction has written
    created,     \* by schedule: the job row its transaction has written
    \* the environment
    policy,      \* by source: what evaluate_source_policy says, or "gone" without a row
    faults,      \* how many failures have happened
    lost         \* history: jobs whose actor raised or whose handler died

rowVars == <<status, cancel, scope, progress, error, origin>>
workerVars == <<pc, wjob, todo, cur, fetch, found, final>>
apiVars == <<sending, cancelling>>
scheduleVars == <<state, due, sources, last>>
passVars == <<pass, seen, outcome, created>>
faultVars == <<faults, lost>>

vars == <<rowVars, events, queue, workerVars, apiVars, scheduleVars, passVars,
          policy, faultVars>>

-----------------------------------------------------------------------------
(* The data of the rows. *)

Terminal == {"succeeded", "failed", "partial", "cancelled", "needs_user_action"}

Active == {"queued", "running"}

JobStatus == Active \cup Terminal

\* An id nobody minted, one whose row the scheduler has not committed, and
\* one whose row was rolled back: no other session can read a row for these.
NoRow == {"unused", "uncommitted", "rolled_back"}

HasRow(j) == status[j] \notin NoRow

RunStatus == {"pending", "running", "succeeded", "failed", "skipped", "needs_user_action"}

\* Seeded fault: one success hides the failures.
Aggregate_HidesFailures(got, cancelled) ==
    IF cancelled THEN "cancelled"
    ELSE IF "needs_user_action" \in got THEN "needs_user_action"
    ELSE IF "succeeded" \in got THEN "succeeded" ELSE "failed"

\* Seeded fault: a skipped source makes the job skipped.
Aggregate_PassesSkipOn(got, cancelled) ==
    IF "skipped" \in got THEN "skipped"
    ELSE IF cancelled THEN "cancelled"
    ELSE IF "needs_user_action" \in got THEN "needs_user_action"
    ELSE IF {"succeeded", "failed"} \subseteq got THEN "partial"
    ELSE IF "succeeded" \in got THEN "succeeded"
    ELSE IF "failed" \in got THEN "failed" ELSE "running"

\* aggregate_job_status; got is the set of the sources' statuses.
Aggregate(got, cancelled) ==
    IF cancelled THEN "cancelled"
    ELSE IF "needs_user_action" \in got THEN "needs_user_action"
    ELSE IF {"succeeded", "failed"} \subseteq got THEN "partial"
    ELSE IF "succeeded" \in got THEN "succeeded"
    ELSE IF "failed" \in got THEN "failed"
    ELSE "running"

\* The statuses of the job's own sources.
Got(j) == {progress[j][s] : s \in scope[j]}

DispatchOutcome == {"none", "skipped_overlap", "blocked_policy",
                    "blocked_query_expansion", "job_created", "queue_failed"}

\* The scheduler's transaction has written something.
InTransaction == \E s \in Schedules : outcome[s] # "none"

\* No open transaction holds SQLite's write lock.
DbFree == ~InTransaction

FaultOf(kind, losing) ==
    /\ kind \in FaultKinds
    /\ faults < MaxFaults
    /\ faults' = faults + 1
    /\ lost' = lost \cup losing

Fault(kind) == FaultOf(kind, {})

Runnable(s) == policy[s] = "allowed"

Init ==
    /\ status = [j \in Jobs |-> "unused"]
    /\ cancel = [j \in Jobs |-> FALSE]
    /\ scope = [j \in Jobs |-> {}]
    /\ progress = [j \in Jobs |-> [s \in Sources |-> "pending"]]
    /\ error = [j \in Jobs |-> "none"]
    /\ origin = [j \in Jobs |-> NoSchedule]
    /\ events = [j \in Jobs |-> {}]
    /\ queue = [j \in Jobs |-> 0]
    /\ pc = [w \in Workers |-> "idle"]
    /\ wjob = [w \in Workers |-> NoJob]
    /\ todo = [w \in Workers |-> {}]
    /\ cur = [w \in Workers |-> NoSource]
    /\ fetch = [w \in Workers |-> FALSE]
    /\ found = [w \in Workers |-> {}]
    /\ final = [w \in Workers |-> "queued"]
    /\ sending = {}
    /\ cancelling = {}
    /\ state = [s \in Schedules |-> "absent"]
    /\ due = [s \in Schedules |-> FALSE]
    /\ sources = [s \in Schedules |-> {}]
    /\ last = [s \in Schedules |-> NoJob]
    /\ pass = {}
    /\ seen = [s \in Schedules |-> {}]
    /\ outcome = [s \in Schedules |-> "none"]
    /\ created = [s \in Schedules |-> NoJob]
    /\ policy = [s \in Sources |-> "allowed"]
    /\ faults = 0
    /\ lost = {}

-----------------------------------------------------------------------------
(* The REST handlers. *)

\* A row for a fresh id: every source pending, no cancel request, no error.
InsertJob(j, srcs, sched, st) ==
    /\ status[j] = "unused"
    /\ status' = [status EXCEPT ![j] = st]
    /\ scope' = [scope EXCEPT ![j] = srcs]
    /\ origin' = [origin EXCEPT ![j] = sched]
    /\ UNCHANGED <<cancel, progress, error>>

\* POST /campaigns/{id}/discovery-jobs up to its first commit: every selected
\* source must be runnable, the row is committed as queued.
CreateJob(j, srcs) ==
    /\ DbFree
    /\ srcs # {}
    /\ \A s \in srcs : Runnable(s)
    /\ InsertJob(j, srcs, NoSchedule, "queued")
    /\ sending' = sending \cup {j}
    /\ UNCHANGED <<events, queue, workerVars, cancelling, scheduleVars, passVars, policy, faultVars>>

\* The same handler after the commit: the message is sent.
SendJob(j) ==
    /\ j \in sending
    /\ queue' = [queue EXCEPT ![j] = @ + 1]
    /\ sending' = sending \ {j}
    /\ UNCHANGED <<rowVars, events, workerVars, cancelling, scheduleVars, passVars, policy, faultVars>>

\* Seeded fault: the handler tries again after a send that raised.
SendJobFails_Retries(j) ==
    /\ j \in sending
    /\ Fault("ambiguous_send")
    /\ queue' = [queue EXCEPT ![j] = @ + 1]
    /\ UNCHANGED <<rowVars, sending, events, workerVars, cancelling, scheduleVars, passVars, policy>>

\* The send raises: the handler marks the job failed and answers 503.  A
\* connection lost after Redis took the message raises too.
SendJobFails(j) ==
    /\ DbFree
    /\ j \in sending
    /\ \/ /\ Fault("queue_down")
          /\ UNCHANGED queue
       \/ /\ Fault("ambiguous_send")
          /\ queue' = [queue EXCEPT ![j] = @ + 1]
    /\ status' = [status EXCEPT ![j] = "failed"]
    /\ error' = [error EXCEPT ![j] = "queue_failed"]
    /\ sending' = sending \ {j}
    /\ UNCHANGED <<cancel, scope, progress, origin, events, workerVars, cancelling,
                   scheduleVars, passVars, policy>>

\* The API process stops between the commit and the send.
ApiCrash(j) ==
    /\ j \in sending
    /\ FaultOf("api_crash", {j})
    /\ sending' = sending \ {j}
    /\ UNCHANGED <<rowVars, events, queue, workerVars, cancelling, scheduleVars, passVars, policy>>

\* POST /discovery-jobs/{id}/cancel reads the row and answers 409 for a
\* terminal job; otherwise it goes on with the row it has read.
CancelRead(j) ==
    /\ status[j] \in Active
    /\ j \notin cancelling
    /\ ~cancel[j]
    /\ cancelling' = cancelling \cup {j}
    /\ UNCHANGED <<rowVars, events, queue, workerVars, sending, scheduleVars, passVars, policy, faultVars>>

\* Seeded fault: the handler ends the job itself.
CancelCommit_EndsJob(j) ==
    /\ DbFree
    /\ j \in cancelling
    /\ cancel' = [cancel EXCEPT ![j] = TRUE]
    /\ status' = [status EXCEPT ![j] = "cancelled"]
    /\ cancelling' = cancelling \ {j}
    /\ UNCHANGED <<scope, progress, error, origin, events, queue, workerVars, sending,
                   scheduleVars, passVars, policy, faultVars>>

\* The same handler commits cancel_requested, whatever the row has become.
CancelCommit(j) ==
    /\ DbFree
    /\ j \in cancelling
    /\ cancel' = [cancel EXCEPT ![j] = TRUE]
    /\ cancelling' = cancelling \ {j}
    /\ UNCHANGED <<status, scope, progress, error, origin, events, queue, workerVars, sending,
                   scheduleVars, passVars, policy, faultVars>>

\* POST /campaigns/{id}/discovery-schedules: next_run_at lies in the future.
CreateSchedule(s, srcs) ==
    /\ DbFree
    /\ state[s] = "absent"
    /\ srcs # {}
    /\ \A src \in srcs : Runnable(src)
    /\ state' = [state EXCEPT ![s] = "enabled"]
    /\ sources' = [sources EXCEPT ![s] = srcs]
    /\ UNCHANGED <<due, last, rowVars, events, queue, workerVars, apiVars, passVars, policy, faultVars>>

\* PATCH /discovery-schedules/{id}: any of a new recurrence, new sources (which
\* must be runnable) and a new state.  A new recurrence, and enabling, compute
\* next_run_at anew; pausing and disabling, which no code tells apart, do not.
PatchSchedule(s, st, srcs, moved) ==
    /\ DbFree
    /\ state[s] # "absent"
    /\ srcs # sources[s] => srcs # {} /\ \A src \in srcs : Runnable(src)
    /\ st = "enabled" /\ state[s] # "enabled" => moved
    /\ state' = [state EXCEPT ![s] = st]
    /\ sources' = [sources EXCEPT ![s] = srcs]
    /\ due' = [due EXCEPT ![s] = @ /\ ~moved]
    /\ UNCHANGED <<last, rowVars, events, queue, workerVars, apiVars, passVars, policy, faultVars>>

\* A source is edited, runs over its quota, or its time window opens or closes.
PolicyChange(src) ==
    /\ policy[src] # "gone"
    /\ policy' = [policy EXCEPT ![src] = IF Runnable(src) THEN "denied" ELSE "allowed"]
    /\ UNCHANGED <<rowVars, events, queue, workerVars, apiVars, scheduleVars, passVars, faultVars>>

\* A source's row is deleted under whoever names it: scripts/clean-e2e.py does.
DeleteSource(src) ==
    /\ policy[src] # "gone"
    /\ Fault("source_deleted")
    /\ policy' = [policy EXCEPT ![src] = "gone"]
    /\ UNCHANGED <<rowVars, events, queue, workerVars, apiVars, scheduleVars, passVars>>

\* The clock passes next_run_at.
BecomeDue(s) ==
    /\ state[s] # "absent"
    /\ ~due[s]
    /\ due' = [due EXCEPT ![s] = TRUE]
    /\ UNCHANGED <<state, sources, last, rowVars, events, queue, workerVars, apiVars, passVars,
                   policy, faultVars>>

-----------------------------------------------------------------------------
(* The scheduler: dispatch_due_schedules, one pass over the due schedules    *)
(* inside one transaction.                                                   *)

\* The select of the enabled schedules whose next_run_at has passed; the pass
\* goes on with the rows as they are now.
SchedulerScan ==
    /\ pass = {}
    /\ DbFree
    /\ pass' = {s \in Schedules : state[s] = "enabled" /\ due[s]}
    /\ pass' # {}
    /\ seen' = [s \in Schedules |-> IF s \in pass' THEN sources[s] ELSE {}]
    /\ UNCHANGED <<outcome, created, rowVars, events, queue, workerVars, apiVars, scheduleVars,
                   policy, faultVars>>

\* Seeded fault: a queued job does not count as active.
OverlapSkip_OnlyRunning(s) == last[s] # NoJob /\ status[last[s]] = "running"

\* _active_job_status and should_skip_overlap: the job the schedule last
\* dispatched has a row and is not terminal.
OverlapSkip(s) == last[s] # NoJob /\ status[last[s]] \in Active

PolicyOk(s) == \A src \in seen[s] : Runnable(src)

\* The outcome of a schedule whose turn it is, as the transaction writes it.
Decide(s, out, j) ==
    /\ s \in pass
    /\ pass' = pass \ {s}
    /\ outcome' = [outcome EXCEPT ![s] = out]
    /\ created' = [created EXCEPT ![s] = j]
    /\ UNCHANGED seen

SchedulerSkip(s) ==
    /\ OverlapSkip(s)
    /\ Decide(s, "skipped_overlap", NoJob)
    /\ UNCHANGED <<rowVars, events, queue, workerVars, apiVars, scheduleVars, policy, faultVars>>

\* A source is not runnable, or the campaign's query expansion awaits review.
SchedulerBlock(s) ==
    /\ ~OverlapSkip(s)
    /\ \/ ~PolicyOk(s) /\ Decide(s, "blocked_policy", NoJob)
       \/ PolicyOk(s) /\ Decide(s, "blocked_query_expansion", NoJob)
    /\ UNCHANGED <<rowVars, events, queue, workerVars, apiVars, scheduleVars, policy, faultVars>>

\* A job row is flushed, not committed, and its message is sent.  When the
\* send raises the row is changed to failed.
SchedulerCreate(s, j) ==
    /\ ~OverlapSkip(s)
    /\ PolicyOk(s)
    /\ InsertJob(j, seen[s], s, "uncommitted")
    /\ \/ /\ Decide(s, "job_created", j)
          /\ queue' = [queue EXCEPT ![j] = @ + 1]
          /\ UNCHANGED faultVars
       \/ /\ Decide(s, "queue_failed", j)
          /\ Fault("queue_down")
          /\ UNCHANGED queue
       \/ /\ Decide(s, "queue_failed", j)
          /\ Fault("ambiguous_send")
          /\ queue' = [queue EXCEPT ![j] = @ + 1]
    /\ UNCHANGED <<events, workerVars, apiVars, scheduleVars, policy>>

\* Seeded fault: the skip leaves the loop before next_run_at is set.
StillDue_AfterSkip(out) == out = "skipped_overlap"

\* Whatever the outcome, next_run_at is moved past the time of the pass.
StillDue(out) == FALSE

EndPass ==
    /\ pass' = {}
    /\ seen' = [s \in Schedules |-> {}]
    /\ outcome' = [s \in Schedules |-> "none"]
    /\ created' = [s \in Schedules |-> NoJob]

SendFailed(j) == \E s \in Schedules : created[s] = j /\ outcome[s] = "queue_failed"

\* The commit that ends the pass: the new rows become visible, every schedule
\* of the pass has its next_run_at and, if it made one, its job.  The outcome
\* it records in last_dispatch_outcome and in the history is read by no code.
SchedulerCommit ==
    /\ InTransaction
    /\ pass = {}
    /\ status' = [j \in Jobs |-> IF status[j] # "uncommitted" THEN status[j]
                                ELSE IF SendFailed(j) THEN "failed" ELSE "queued"]
    /\ error' = [j \in Jobs |-> IF status[j] = "uncommitted" /\ SendFailed(j)
                               THEN "queue_failed" ELSE error[j]]
    /\ due' = [s \in Schedules |-> IF outcome[s] = "none" THEN due[s] ELSE StillDue(outcome[s])]
    /\ last' = [s \in Schedules |-> IF created[s] = NoJob THEN last[s] ELSE created[s]]
    /\ EndPass
    /\ UNCHANGED <<cancel, scope, progress, origin, events, queue, workerVars, apiVars, state,
                   sources, policy, faultVars>>

\* Seeded fault: the schedule's link was committed on its own.
SchedulerRollback_KeepsLink ==
    /\ pass # {} \/ InTransaction
    /\ Fault("rollback")
    /\ status' = [j \in Jobs |-> IF status[j] = "uncommitted" THEN "rolled_back" ELSE status[j]]
    /\ last' = [s \in Schedules |-> IF created[s] = NoJob THEN last[s] ELSE created[s]]
    /\ EndPass
    /\ UNCHANGED <<cancel, scope, progress, error, origin, events, queue, workerVars, apiVars,
                   state, due, sources, policy>>

\* An exception later in the pass, a failed commit, or the scheduler's death:
\* the rows vanish, the messages already sent do not.
SchedulerRollback ==
    /\ pass # {} \/ InTransaction
    /\ Fault("rollback")
    /\ status' = [j \in Jobs |-> IF status[j] = "uncommitted" THEN "rolled_back" ELSE status[j]]
    /\ EndPass
    /\ UNCHANGED <<cancel, scope, progress, error, origin, events, queue, workerVars, apiVars,
                   scheduleVars, policy>>

-----------------------------------------------------------------------------
(* The worker: run_discovery_job.  A message is acknowledged when the actor  *)
(* returns or raises (max_retries=0); the message of a process that dies is  *)
(* delivered again.                                                          *)

\* A delivered message leaves the queue; acknowledging it later only ends the
\* possibility of a redelivery.
Take(j) == queue[j] > 0 /\ queue' = [queue EXCEPT ![j] = @ - 1]

\* The worker returns to its consumer loop.
Release(w) ==
    /\ pc' = [pc EXCEPT ![w] = "idle"]
    /\ wjob' = [wjob EXCEPT ![w] = NoJob]
    /\ todo' = [todo EXCEPT ![w] = {}]
    /\ cur' = [cur EXCEPT ![w] = NoSource]
    /\ fetch' = [fetch EXCEPT ![w] = FALSE]
    /\ found' = [found EXCEPT ![w] = {}]
    /\ final' = [final EXCEPT ![w] = "queued"]

\* The row is missing: the message is dropped with a warning.
ReceiveMissing(w, j) ==
    /\ pc[w] = "idle"
    /\ Take(j)
    /\ ~HasRow(j)
    /\ UNCHANGED <<rowVars, events, workerVars, apiVars, scheduleVars, passVars, policy, faultVars>>

\* cancel_requested was set before the worker came to the job.
ReceiveCancelled(w, j) ==
    /\ DbFree
    /\ pc[w] = "idle"
    /\ Take(j)
    /\ HasRow(j)
    /\ cancel[j]
    /\ status' = [status EXCEPT ![j] = "cancelled"]
    /\ pc' = [pc EXCEPT ![w] = "ack"]
    /\ wjob' = [wjob EXCEPT ![w] = j]
    /\ UNCHANGED <<cancel, scope, progress, error, origin, events, todo, cur, fetch, found, final,
                   apiVars, scheduleVars, passVars, policy, faultVars>>

\* Any other row, whatever its status, is set to running.
ReceiveStart(w, j) ==
    /\ DbFree
    /\ pc[w] = "idle"
    /\ Take(j)
    /\ HasRow(j)
    /\ ~cancel[j]
    /\ status' = [status EXCEPT ![j] = "running"]
    /\ pc' = [pc EXCEPT ![w] = "loop"]
    /\ wjob' = [wjob EXCEPT ![w] = j]
    /\ todo' = [todo EXCEPT ![w] = scope[j]]
    /\ UNCHANGED <<cancel, scope, progress, error, origin, events, cur, fetch, found, final,
                   apiVars, scheduleVars, passVars, policy, faultVars>>

\* A source whose row is gone is passed over, with whatever its progress says.
SourceSkip(w, s) ==
    /\ pc[w] = "loop"
    /\ s \in todo[w]
    /\ ~cancel[wjob[w]]
    /\ policy[s] = "gone"
    /\ todo' = [todo EXCEPT ![w] = @ \ {s}]
    /\ UNCHANGED <<rowVars, events, queue, pc, wjob, cur, fetch, found, final,
                   apiVars, scheduleVars, passVars, policy, faultVars>>

\* The next source of the loop, unless cancel_requested is set: its progress
\* is committed as running, then its policy is evaluated once more.
SourceStart(w, s) ==
    /\ DbFree
    /\ pc[w] = "loop"
    /\ s \in todo[w]
    /\ ~cancel[wjob[w]]
    /\ policy[s] # "gone"
    /\ progress' = [progress EXCEPT ![wjob[w]][s] = "running"]
    /\ pc' = [pc EXCEPT ![w] = "source"]
    /\ cur' = [cur EXCEPT ![w] = s]
    /\ todo' = [todo EXCEPT ![w] = @ \ {s}]
    /\ fetch' = [fetch EXCEPT ![w] = Runnable(s)]
    /\ UNCHANGED <<status, cancel, scope, error, origin, events, queue, wjob, found, final,
                   apiVars, scheduleVars, passVars, policy, faultVars>>

\* Seeded fault: a connector skips a source nobody cancelled.
ReportAllowed_SkipsFreely(w, result, hasFindings) ==
    /\ result \in {"succeeded", "failed", "needs_user_action", "skipped"}
    /\ hasFindings => result = "succeeded"

\* What the source's run may report: failed without a fetch when the policy
\* denied it; skipped only when cancel_check saw a cancel request.
ReportAllowed(w, result, hasFindings) ==
    /\ result \in {"succeeded", "failed", "needs_user_action", "skipped"}
    /\ result = "skipped" => cancel[wjob[w]]
    /\ hasFindings => result = "succeeded"
    /\ ~fetch[w] => result = "failed"

\* The source's outcome is committed to the job's progress.
SourceReport(w, result, hasFindings) ==
    /\ DbFree
    /\ pc[w] = "source"
    /\ ReportAllowed(w, result, hasFindings)
    /\ progress' = [progress EXCEPT ![wjob[w]][cur[w]] = result]
    /\ pc' = [pc EXCEPT ![w] = "loop"]
    /\ cur' = [cur EXCEPT ![w] = NoSource]
    /\ fetch' = [fetch EXCEPT ![w] = FALSE]
    /\ found' = [found EXCEPT ![w] = @ \cup {s \in {cur[w]} : hasFindings}]
    /\ UNCHANGED <<status, cancel, scope, error, origin, events, queue, wjob, todo, final,
                   apiVars, scheduleVars, passVars, policy, faultVars>>

\* Seeded fault: the loop waits for its last source although it is cancelled.
LoopEnds_IgnoresCancel(w) == todo[w] = {}

\* The loop over the sources ends with the last one or at a cancel request.
LoopEnds(w) == todo[w] = {} \/ cancel[wjob[w]]

\* After the loop the row is read once more, and the outcome computed from it.
FinalRead(w) ==
    /\ pc[w] = "loop"
    /\ LoopEnds(w)
    /\ pc' = [pc EXCEPT ![w] = "final"]
    /\ todo' = [todo EXCEPT ![w] = {}]
    /\ final' = [final EXCEPT ![w] = Aggregate(Got(wjob[w]), cancel[wjob[w]])]
    /\ UNCHANGED <<rowVars, events, queue, wjob, cur, fetch, found, apiVars, scheduleVars,
                   passVars, policy, faultVars>>

\* Seeded fault: the findings of a cancelled run are persisted too.
AfterFinal_Always(fin) == "persist"

\* A cancelled run persists nothing.
AfterFinal(fin) == IF fin = "cancelled" THEN "ack" ELSE "persist"

\* The outcome is committed.
FinalCommit(w) ==
    /\ DbFree
    /\ pc[w] = "final"
    /\ status' = [status EXCEPT ![wjob[w]] = final[w]]
    /\ error' = [error EXCEPT ![wjob[w]] = IF final[w] = "failed" THEN "all_sources_failed" ELSE @]
    /\ pc' = [pc EXCEPT ![w] = AfterFinal(final[w])]
    /\ final' = [final EXCEPT ![w] = "queued"]
    /\ UNCHANGED <<cancel, scope, progress, origin, events, queue, wjob, todo, cur, fetch, found,
                   apiVars, scheduleVars, passVars, policy, faultVars>>

\* persist_events_from_discovery_job: one transaction of its own, and the
\* deduplication of ingest_finding makes a second delivery add nothing.
PersistEvents(w) ==
    /\ DbFree
    /\ pc[w] = "persist"
    /\ events' = [events EXCEPT ![wjob[w]] = @ \cup found[w]]
    /\ pc' = [pc EXCEPT ![w] = "ack"]
    /\ found' = [found EXCEPT ![w] = {}]
    /\ UNCHANGED <<rowVars, queue, wjob, todo, cur, fetch, final, apiVars, scheduleVars,
                   passVars, policy, faultVars>>

Acknowledge(w) ==
    /\ pc[w] = "ack"
    /\ Release(w)
    /\ UNCHANGED <<rowVars, events, queue, apiVars, scheduleVars, passVars, policy, faultVars>>

\* The actor raises (a locked database, the time limit, an error nobody
\* caught): the message goes to the dead letters and nothing else happens.
WorkerException(w) ==
    /\ pc[w] \in {"loop", "source", "final", "persist"}
    /\ FaultOf("exception", {wjob[w]})
    /\ Release(w)
    /\ UNCHANGED <<rowVars, events, queue, apiVars, scheduleVars, passVars, policy>>

\* The worker process dies: its unacknowledged message is queued again.
WorkerCrash(w) ==
    /\ pc[w] # "idle"
    /\ Fault("crash")
    /\ queue' = [queue EXCEPT ![wjob[w]] = @ + 1]
    /\ Release(w)
    /\ UNCHANGED <<rowVars, events, apiVars, scheduleVars, passVars, policy>>

-----------------------------------------------------------------------------
Rest ==
    \/ \E j \in Jobs, srcs \in SUBSET Sources : CreateJob(j, srcs)
    \/ \E j \in Jobs : \/ SendJob(j)
                       \/ SendJobFails(j)
                       \/ ApiCrash(j)
                       \/ CancelRead(j)
                       \/ CancelCommit(j)
    \/ \E s \in Schedules, srcs \in SUBSET Sources : CreateSchedule(s, srcs)
    \/ \E s \in Schedules, st \in {"enabled", "paused"}, srcs \in SUBSET Sources, moved \in BOOLEAN :
          PatchSchedule(s, st, srcs, moved)

Environment ==
    \/ \E src \in Sources : PolicyChange(src) \/ DeleteSource(src)
    \/ \E s \in Schedules : BecomeDue(s)

SchedulerStep ==
    \/ SchedulerScan
    \/ \E s \in Schedules : \/ SchedulerSkip(s)
                            \/ SchedulerBlock(s)
                            \/ \E j \in Jobs : SchedulerCreate(s, j)
    \/ SchedulerCommit

WorkerStep(w) ==
    \/ \E j \in Jobs : \/ ReceiveMissing(w, j)
                       \/ ReceiveCancelled(w, j)
                       \/ ReceiveStart(w, j)
    \/ \E s \in Sources : SourceSkip(w, s) \/ SourceStart(w, s)
    \/ \E result \in RunStatus, hasFindings \in BOOLEAN : SourceReport(w, result, hasFindings)
    \/ FinalRead(w)
    \/ FinalCommit(w)
    \/ PersistEvents(w)
    \/ Acknowledge(w)

Next ==
    \/ Rest
    \/ Environment
    \/ SchedulerStep
    \/ SchedulerRollback
    \/ \E w \in Workers : \/ WorkerStep(w)
                          \/ WorkerException(w)
                          \/ WorkerCrash(w)

Spec == Init /\ [][Next]_vars

\* A handler that has started finishes, the scheduler loop keeps running its
\* pass, and every worker thread keeps working.  The scheduler's transaction
\* delays a worker's write but lasts a fraction of its 60 s period, so a write
\* that is possible again and again happens: strong fairness.
Fairness ==
    /\ \A j \in Jobs : WF_vars(SendJob(j)) /\ SF_vars(CancelCommit(j))
    /\ WF_vars(SchedulerStep)
    /\ \A w \in Workers : SF_vars(WorkerStep(w))

FairSpec == Spec /\ Fairness

-----------------------------------------------------------------------------
(* Properties. *)

\* The values each variable takes.
TypeOK ==
    /\ status \in [Jobs -> JobStatus \cup NoRow]
    /\ cancel \in [Jobs -> BOOLEAN]
    /\ scope \in [Jobs -> SUBSET Sources]
    /\ progress \in [Jobs -> [Sources -> RunStatus]]
    /\ error \in [Jobs -> {"none", "queue_failed", "all_sources_failed"}]
    /\ origin \in [Jobs -> Schedules \cup {NoSchedule}]
    /\ events \in [Jobs -> SUBSET Sources]
    /\ queue \in [Jobs -> Nat]
    /\ pc \in [Workers -> {"idle", "loop", "source", "final", "persist", "ack"}]
    /\ wjob \in [Workers -> Jobs \cup {NoJob}]
    /\ todo \in [Workers -> SUBSET Sources]
    /\ cur \in [Workers -> Sources \cup {NoSource}]
    /\ fetch \in [Workers -> BOOLEAN]
    /\ found \in [Workers -> SUBSET Sources]
    /\ final \in [Workers -> JobStatus]
    /\ sending \in SUBSET Jobs
    /\ cancelling \in SUBSET Jobs
    /\ state \in [Schedules -> {"absent", "enabled", "paused"}]
    /\ due \in [Schedules -> BOOLEAN]
    /\ sources \in [Schedules -> SUBSET Sources]
    /\ last \in [Schedules -> Jobs \cup {NoJob}]
    /\ pass \in SUBSET Schedules
    /\ seen \in [Schedules -> SUBSET Sources]
    /\ outcome \in [Schedules -> DispatchOutcome]
    /\ created \in [Schedules -> Jobs \cup {NoJob}]
    /\ policy \in [Sources -> {"allowed", "denied", "gone"}]
    /\ faults \in 0..MaxFaults
    /\ lost \in SUBSET Jobs

\* The workers that are running job j.
Runners(j) == {w \in Workers : pc[w] # "idle" /\ wjob[w] = j}

\* However sends fail and processes die, a job has at most one message or one
\* worker, so two workers never write the progress of one job: run_discovery_job
\* itself has no lock or status check that would stop a second one.
SingleRunner ==
    \A j \in Jobs : /\ queue[j] \in {0, 1}
                    /\ queue[j] = 1 => Runners(j) = {}
                    /\ \A v, w \in Runners(j) : v = w

\* The ends the outcomes of a job's sources speak for.
Supported(end, got) ==
    \/ end = "needs_user_action" /\ "needs_user_action" \in got
    \/ end = "partial" /\ "succeeded" \in got /\ "failed" \in got
    \/ end = "succeeded" /\ "succeeded" \in got /\ "failed" \notin got
    \/ end = "failed" /\ "failed" \in got /\ "succeeded" \notin got

\* What the row of job j must show to have come to that end.
Explained(j, end) ==
    IF end = "cancelled"
    THEN cancel[j]
    ELSE /\ Supported(end, Got(j))
         /\ \A s \in scope[j] : progress[j][s] \in {"pending", "running"} => policy[s] = "gone"

\* A finished job can be explained from its own row: it is cancelled only on
\* request, and any other end is one the outcomes of its sources support, with
\* none of them left open but those whose row was deleted, through crashes,
\* repeated runs and late cancel requests; rows whose send raised carry the
\* queue's error instead.
OutcomeExplained ==
    \A j \in Jobs :
        status[j] \in Terminal /\ error[j] # "queue_failed" => Explained(j, status[j])

\* aggregate_job_status falls through to "running" when no source succeeded or
\* failed.  run_discovery_job commits that as the outcome of a run, and leaves the
\* job active with nobody to end it, only when it was not cancelled and the rows of
\* all its sources are deleted: a source left by a crashed run, one that another
\* source's failure precedes or one that is skipped on a cancel request does not do it.
FinalStatusIsTerminal ==
    \A w \in Workers : pc[w] = "final" =>
        \/ final[w] \in Terminal
        \/ final[w] = "running" /\ \A s \in scope[wjob[w]] : policy[s] = "gone"

\* The job a schedule points to exists and is the schedule's own: the link, the
\* job row and the dispatch outcome are committed or rolled back together.
ScheduleLink ==
    \A s \in Schedules : last[s] # NoJob => HasRow(last[s]) /\ origin[last[s]] = s

\* skip-while-running: a schedule has at most one job that is queued or running.
NoOverlap ==
    \A i, j \in Jobs :
        /\ status[i] \in Active
        /\ status[j] \in Active
        /\ origin[i] = origin[j]
        /\ origin[i] # NoSchedule
        => i = j

\* Events come from finished, not cancelled jobs, and from sources of theirs
\* that the job's progress shows as succeeded.
EventsHaveProvenance ==
    \A j \in Jobs : events[j] # {} =>
        /\ status[j] \in {"succeeded", "partial", "needs_user_action"}
        /\ \A s \in events[j] : s \in scope[j] /\ progress[j][s] = "succeeded"

\* The rows of the jobs go through the lifecycle of the domain layer; in particular a
\* job that has ended keeps its status.
Lifecycle == INSTANCE JobLifecycle WITH
    NoStatus <- "none",
    status <- [j \in Jobs |-> IF HasRow(j) THEN status[j] ELSE "none"],
    cancel <- cancel

ImplementsLifecycle == Lifecycle!Spec

\* A job created by the REST handler ends, whenever a cancel request arrives and
\* whatever fails, except for what the code gives up: its actor raised, its handler
\* died before the send, or no source of it has a row any more.
RestJobsEnd ==
    \A j \in Jobs : (status[j] = "queued" /\ origin[j] = NoSchedule)
                        ~> \/ status[j] \in Terminal
                           \/ j \in lost
                           \/ \A s \in scope[j] : policy[s] = "gone"

\* A job the scheduler committed ends.
ScheduledJobsEnd ==
    \A j \in Jobs : (status[j] = "queued" /\ origin[j] # NoSchedule)
                        ~> status[j] \in Terminal

\* A schedule that is due is dealt with in some pass, and its next_run_at moved,
\* unless somebody pauses or disables it first.
DueSchedulesServed ==
    \A s \in Schedules : (state[s] = "enabled" /\ due[s])
                            ~> (~due[s] \/ state[s] # "enabled")

=============================================================================
