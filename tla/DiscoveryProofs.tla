--------------------------- MODULE DiscoveryProofs ---------------------------
(***************************************************************************)
(* Proofs about Discovery for every number of jobs, sources, schedules and *)
(* workers and every combination of failures.  Each conjunct of IInv is an *)
(* invariant; the ones that are not results are what makes the results     *)
(* inductive.                                                              *)
(***************************************************************************)
EXTENDS Discovery, TLAPS

\* A job that is about to be sent has been neither sent nor started.
SendingIsFresh ==
    \A j \in sending : status[j] = "queued" /\ queue[j] = 0 /\ Runners(j) = {}

\* Nothing refers to an id that was not minted.
UnusedIsFresh ==
    \A j \in Jobs : status[j] = "unused" => queue[j] = 0 /\ Runners(j) = {}

\* Every job has sources, and a source is skipped only in a cancelled job.
RowsOk ==
    \A j \in Jobs :
        /\ status[j] # "unused" => scope[j] # {}
        /\ \A s \in Sources : progress[j][s] = "skipped" => cancel[j]

\* A schedule has sources, also the one whose turn it is in a pass.
SchedulesOk ==
    \A s \in Schedules :
        /\ state[s] # "absent" => sources[s] # {}
        /\ s \in pass => seen[s] # {}

\* A worker that is not idle has a job with a row.
WorkerHasJob(w) ==
    /\ pc[w] # "idle" => wjob[w] \in Jobs /\ HasRow(wjob[w])
    /\ pc[w] = "source" => cur[w] \in Sources

\* The row of a job inside a run says running.
RunIsVisible(w) ==
    pc[w] \in {"loop", "source", "final"} => status[wjob[w]] = "running"

\* The sources a run has behind it have an outcome, or no row.
BehindIsClosed(w) ==
    pc[w] \in {"loop", "source"} =>
        \A s \in scope[wjob[w]] :
            \/ s \in todo[w]
            \/ pc[w] = "source" /\ s = cur[w]
            \/ progress[wjob[w]][s] \notin {"pending", "running"}
            \/ policy[s] = "gone"

\* No source of job j has a row any more, and the job's runs have passed over each.
PassedOver(j) ==
    \A s \in scope[j] : policy[s] = "gone" /\ progress[j][s] \in {"pending", "running"}

\* The outcome a worker is about to commit is such an end, or none at all.
FinalOk(w) ==
    pc[w] = "final" =>
        \/ final[w] \in Terminal /\ Explained(wjob[w], final[w])
        \/ final[w] = "running" /\ PassedOver(wjob[w])

RunOk(w) == RunIsVisible(w) /\ BehindIsClosed(w) /\ FinalOk(w)

\* OutcomeExplained for one job.
JobExplained(j) ==
    status[j] \in Terminal /\ error[j] # "queue_failed" => Explained(j, status[j])

Shape == \A w \in Workers : WorkerHasJob(w)

\* What keeps a second worker from a job.
Delivery == Shape /\ SingleRunner /\ SendingIsFresh /\ UnusedIsFresh

\* What the rows and the runs say about each other.
Record ==
    /\ RowsOk
    /\ SchedulesOk
    /\ \A w \in Workers : RunOk(w)
    /\ \A j \in Jobs : JobExplained(j)

(* Links between schedules, jobs and the scheduler's transaction.            *)

\* What the transaction has created is uncommitted, the schedule's own, and of a
\* schedule that is decided; a schedule whose turn is still to come is not.
CreatedOk ==
    /\ \A s \in Schedules : created[s] # NoJob =>
          /\ status[created[s]] = "uncommitted"
          /\ origin[created[s]] = s
          /\ outcome[s] # "none"
    /\ \A s \in pass : outcome[s] = "none"

\* Every uncommitted row is of the transaction that is open.
UncommittedIsCreated ==
    \A j \in Jobs : status[j] = "uncommitted" => origin[j] \in Schedules /\ created[origin[j]] = j

\* A cancel handler has read a row.
CancellingHasRow == \A j \in cancelling : HasRow(j)

Linked == ScheduleLink /\ CreatedOk /\ UncommittedIsCreated /\ CancellingHasRow

(* Findings on their way to the events.                                      *)

\* A run is at, or has before it, sources of its job.
RunScope(w) ==
    pc[w] \in {"loop", "source"} =>
        /\ todo[w] \subseteq scope[wjob[w]]
        /\ pc[w] = "source" => cur[w] \in scope[wjob[w]] \ todo[w]

\* Findings are of sources of the job that succeeded and are behind the run.
FoundOk(w) ==
    /\ pc[w] = "idle" => found[w] = {}
    /\ \A s \in found[w] :
          /\ s \in scope[wjob[w]] \ todo[w]
          /\ progress[wjob[w]][s] = "succeeded"
          /\ pc[w] = "source" => s # cur[w]

\* Findings are persisted when the job has ended, not as cancelled.
PersistOk(w) ==
    pc[w] = "persist" /\ found[w] # {} =>
        /\ status[wjob[w]] \in Terminal \ {"cancelled"}
        /\ Explained(wjob[w], status[wjob[w]])

FindingsOk(w) == RunScope(w) /\ FoundOk(w) /\ PersistOk(w)

Findings == \A w \in Workers : FindingsOk(w)

IInv == TypeOK /\ Delivery /\ Record /\ Linked /\ Findings

(* What holds as long as no message of a started job is delivered.           *)

\* Nothing sends a message of a job that may have ended: no worker process dies with
\* the message it works on, and no send raises although Redis took the message.
Orderly == FaultKinds \cap {"crash", "ambiguous_send"} = {}

\* A message is of a job that has not started.
MessagesAreFresh ==
    /\ \A j \in Jobs : queue[j] # 0 => status[j] \in {"queued", "uncommitted", "rolled_back"}
    /\ \A s \in Schedules :
          created[s] # NoJob /\ outcome[s] = "queue_failed" => queue[created[s]] = 0

\* The active job of a schedule is the one it points to, so a pass that finds that one
\* ended may create another.
LastIsActive ==
    /\ \A j \in Jobs : status[j] \in Active /\ origin[j] # NoSchedule => last[origin[j]] = j
    /\ \A s \in Schedules : created[s] # NoJob => last[s] = NoJob \/ status[last[s]] \notin Active

Ordered == MessagesAreFresh /\ LastIsActive /\ EventsHaveProvenance

-----------------------------------------------------------------------------
(* Types. *)

\* A run's summed-up outcome is a status of a job.
LEMMA AggregateType ==
    ASSUME NEW got, NEW cancelled
    PROVE  Aggregate(got, cancelled) \in JobStatus
BY DEF Aggregate, JobStatus, Active, Terminal

\* The initial state has the types.
LEMMA InitType == Init => TypeOK
<1> SUFFICES ASSUME Init PROVE TypeOK
    OBVIOUS
<1> QED
    BY ConstantsAssumption
    DEF Init, TypeOK, JobStatus, Active, Terminal, NoRow, RunStatus, DispatchOutcome

\* A request keeps the types;
LEMMA RestType ==
    ASSUME TypeOK, Rest \/ Environment
    PROVE  TypeOK'
<1> USE ConstantsAssumption
    DEF TypeOK, JobStatus, Active, Terminal, NoRow,
        rowVars, workerVars, apiVars, scheduleVars, passVars, faultVars
<1>1. ASSUME NEW j \in Jobs, NEW srcs \in SUBSET Sources, CreateJob(j, srcs) PROVE TypeOK'
    BY <1>1 DEF CreateJob, InsertJob
<1>2. ASSUME NEW j \in Jobs, SendJob(j) PROVE TypeOK'
    BY <1>2 DEF SendJob
<1>3. ASSUME NEW j \in Jobs, SendJobFails(j) PROVE TypeOK'
    BY <1>3 DEF SendJobFails, Fault, FaultOf
<1>4. ASSUME NEW j \in Jobs, ApiCrash(j) PROVE TypeOK'
    BY <1>4 DEF ApiCrash, Fault, FaultOf
<1>5. ASSUME NEW j \in Jobs, CancelRead(j) PROVE TypeOK'
    BY <1>5 DEF CancelRead
<1>6. ASSUME NEW j \in Jobs, CancelCommit(j) PROVE TypeOK'
    BY <1>6 DEF CancelCommit
<1>7. ASSUME NEW s \in Schedules, NEW srcs \in SUBSET Sources, CreateSchedule(s, srcs) PROVE TypeOK'
    BY <1>7 DEF CreateSchedule
<1>8. ASSUME NEW s \in Schedules, NEW st \in {"enabled", "paused"}, NEW srcs \in SUBSET Sources,
             NEW moved \in BOOLEAN, PatchSchedule(s, st, srcs, moved)
      PROVE  TypeOK'
    BY <1>8 DEF PatchSchedule
<1>9. ASSUME NEW src \in Sources, PolicyChange(src) \/ DeleteSource(src) PROVE TypeOK'
    <2>1. CASE PolicyChange(src)
        BY <2>1 DEF PolicyChange
    <2>2. CASE DeleteSource(src)
        BY <2>2 DEF DeleteSource, Fault, FaultOf
    <2> QED
        BY <1>9, <2>1, <2>2
<1>10. ASSUME NEW s \in Schedules, BecomeDue(s) PROVE TypeOK'
    BY <1>10 DEF BecomeDue
<1> HIDE DEF TypeOK
<1> QED
    BY <1>1, <1>2, <1>3, <1>4, <1>5, <1>6, <1>7, <1>8, <1>9, <1>10 DEF Rest, Environment

\* so does the scheduler;
LEMMA SchedulerType ==
    ASSUME TypeOK, SchedulerStep \/ SchedulerRollback
    PROVE  TypeOK'
<1> USE ConstantsAssumption
    DEF TypeOK, JobStatus, Active, Terminal, NoRow, DispatchOutcome,
        rowVars, workerVars, apiVars, scheduleVars, passVars, faultVars
<1>1. CASE SchedulerScan
    BY <1>1 DEF SchedulerScan
<1>2. ASSUME NEW s \in Schedules, SchedulerSkip(s) PROVE TypeOK'
    BY <1>2 DEF SchedulerSkip, Decide
<1>3. ASSUME NEW s \in Schedules, SchedulerBlock(s) PROVE TypeOK'
    <2>1. PICK out \in {"blocked_policy", "blocked_query_expansion"} : Decide(s, out, NoJob)
        BY <1>3 DEF SchedulerBlock
    <2> QED
        BY <1>3, <2>1 DEF SchedulerBlock, Decide
<1>4. ASSUME NEW s \in Schedules, NEW j \in Jobs, SchedulerCreate(s, j) PROVE TypeOK'
    <2>1. /\ scope' \in [Jobs -> SUBSET Sources]
          /\ status' \in [Jobs -> JobStatus \cup NoRow]
          /\ origin' \in [Jobs -> Schedules \cup {NoSchedule}]
          /\ UNCHANGED <<cancel, progress, error>>
        BY <1>4 DEF SchedulerCreate, InsertJob
    <2>2. /\ pass' \in SUBSET Schedules
          /\ outcome' \in [Schedules -> DispatchOutcome]
          /\ created' \in [Schedules -> Jobs \cup {NoJob}]
          /\ UNCHANGED seen
        <3>1. PICK out \in {"job_created", "queue_failed"} : Decide(s, out, j)
            BY <1>4 DEF SchedulerCreate
        <3> QED
            BY <3>1 DEF Decide
    <2>3. queue' \in [Jobs -> Nat] /\ faults' \in 0..MaxFaults /\ lost' \in SUBSET Jobs
        <3>1. /\ UNCHANGED queue \/ queue' = [queue EXCEPT ![j] = @ + 1]
              /\ UNCHANGED faults \/ (faults < MaxFaults /\ faults' = faults + 1)
              /\ lost' = lost
            BY <1>4 DEF SchedulerCreate, Fault, FaultOf
        <3>2. queue' \in [Jobs -> Nat]
            <4>1. CASE queue' = queue
                BY <4>1
            <4>2. CASE queue' = [queue EXCEPT ![j] = @ + 1]
                BY <4>2
            <4> QED
                BY <3>1, <4>1, <4>2
        <3>3. faults' \in 0..MaxFaults
            BY <3>1
        <3> QED
            BY <3>1, <3>2, <3>3
    <2> QED
        BY <1>4, <2>1, <2>2, <2>3 DEF SchedulerCreate
<1>5. CASE SchedulerCommit
    BY <1>5 DEF SchedulerCommit, EndPass, StillDue
<1>6. CASE SchedulerRollback
    BY <1>6 DEF SchedulerRollback, EndPass, Fault, FaultOf
<1> HIDE DEF TypeOK
<1> QED
    BY <1>1, <1>2, <1>3, <1>4, <1>5, <1>6 DEF SchedulerStep

\* so does a worker.
LEMMA WorkerTypeLemma ==
    ASSUME TypeOK, NEW w \in Workers, WorkerHasJob(w),
           WorkerStep(w) \/ WorkerException(w) \/ WorkerCrash(w)
    PROVE  TypeOK'
<1> USE ConstantsAssumption
    DEF TypeOK, JobStatus, Active, Terminal, NoRow, RunStatus,
        rowVars, workerVars, apiVars, scheduleVars, passVars, faultVars
<1>1. ASSUME NEW j \in Jobs, ReceiveMissing(w, j) PROVE TypeOK'
    BY <1>1 DEF ReceiveMissing, Take
<1>2. ASSUME NEW j \in Jobs, ReceiveCancelled(w, j) PROVE TypeOK'
    BY <1>2 DEF ReceiveCancelled, Take
<1>3. ASSUME NEW j \in Jobs, ReceiveStart(w, j) PROVE TypeOK'
    BY <1>3 DEF ReceiveStart, Take
<1>4. ASSUME NEW s \in Sources, SourceStart(w, s) PROVE TypeOK'
    <2>1. wjob[w] \in Jobs
        BY <1>4 DEF SourceStart, WorkerHasJob
    <2>2. progress' \in [Jobs -> [Sources -> RunStatus]]
        BY <1>4, <2>1 DEF SourceStart
    <2>3. fetch' \in [Workers -> BOOLEAN]
        BY <1>4 DEF SourceStart, Runnable
    <2> QED
        BY <1>4, <2>2, <2>3 DEF SourceStart
<1>12. ASSUME NEW s \in Sources, SourceSkip(w, s) PROVE TypeOK'
    BY <1>12 DEF SourceSkip
<1>5. ASSUME NEW result \in RunStatus, NEW hasFindings \in BOOLEAN, SourceReport(w, result, hasFindings)
      PROVE  TypeOK'
    BY <1>5 DEF SourceReport, WorkerHasJob
<1>6. CASE FinalRead(w)
    <2>1. Aggregate(Got(wjob[w]), cancel[wjob[w]]) \in JobStatus
        BY AggregateType
    <2> QED
        BY <1>6, <2>1 DEF FinalRead
<1>7. CASE FinalCommit(w)
    BY <1>7 DEF FinalCommit, AfterFinal
<1>8. CASE PersistEvents(w)
    BY <1>8 DEF PersistEvents, WorkerHasJob
<1>9. CASE Acknowledge(w)
    BY <1>9 DEF Acknowledge, Release
<1>10. CASE WorkerException(w)
    BY <1>10 DEF WorkerException, Release, Fault, FaultOf, WorkerHasJob
<1>11. CASE WorkerCrash(w)
    BY <1>11 DEF WorkerCrash, Release, Fault, FaultOf, WorkerHasJob
<1> HIDE DEF TypeOK, RunStatus
<1> QED
    BY <1>1, <1>2, <1>3, <1>4, <1>5, <1>6, <1>7, <1>8, <1>9, <1>10, <1>11, <1>12 DEF WorkerStep

-----------------------------------------------------------------------------
(* Messages and workers.                                                     *)

\* A request keeps what links messages, workers and jobs;
LEMMA RestDelivery ==
    ASSUME TypeOK, Delivery, Rest \/ Environment
    PROVE  Delivery'
<1> USE ConstantsAssumption
    DEF TypeOK, Delivery, Shape, WorkerHasJob, SingleRunner, SendingIsFresh, UnusedIsFresh,
        Runners, HasRow, NoRow, rowVars, workerVars, apiVars, scheduleVars, passVars, faultVars
<1>1. ASSUME NEW j \in Jobs, NEW srcs \in SUBSET Sources, CreateJob(j, srcs) PROVE Delivery'
    BY <1>1 DEF CreateJob, InsertJob
<1>2. ASSUME NEW j \in Jobs, SendJob(j) PROVE Delivery'
    BY <1>2 DEF SendJob
<1>3. ASSUME NEW j \in Jobs, SendJobFails(j) PROVE Delivery'
    BY <1>3 DEF SendJobFails, Fault, FaultOf
<1>4. ASSUME NEW j \in Jobs, ApiCrash(j) PROVE Delivery'
    BY <1>4 DEF ApiCrash, Fault, FaultOf
<1>5. ASSUME NEW j \in Jobs, CancelRead(j) PROVE Delivery'
    BY <1>5 DEF CancelRead
<1>6. ASSUME NEW j \in Jobs, CancelCommit(j) PROVE Delivery'
    BY <1>6 DEF CancelCommit
<1>7. ASSUME NEW s \in Schedules, NEW srcs \in SUBSET Sources, CreateSchedule(s, srcs)
      PROVE  Delivery'
    BY <1>7 DEF CreateSchedule
<1>8. ASSUME NEW s \in Schedules, NEW st \in {"enabled", "paused"}, NEW srcs \in SUBSET Sources,
             NEW moved \in BOOLEAN, PatchSchedule(s, st, srcs, moved)
      PROVE  Delivery'
    BY <1>8 DEF PatchSchedule
<1>9. ASSUME NEW src \in Sources, PolicyChange(src) \/ DeleteSource(src) PROVE Delivery'
    BY <1>9 DEF PolicyChange, DeleteSource
<1>10. ASSUME NEW s \in Schedules, BecomeDue(s) PROVE Delivery'
    BY <1>10 DEF BecomeDue
<1> HIDE DEF Delivery
<1> QED
    BY <1>1, <1>2, <1>3, <1>4, <1>5, <1>6, <1>7, <1>8, <1>9, <1>10 DEF Rest, Environment

\* so does the scheduler;
LEMMA SchedulerDelivery ==
    ASSUME TypeOK, Delivery, SchedulerStep \/ SchedulerRollback
    PROVE  Delivery'
<1> USE ConstantsAssumption
    DEF TypeOK, Delivery, Shape, WorkerHasJob, SingleRunner, SendingIsFresh, UnusedIsFresh,
        Runners, HasRow, NoRow, rowVars, workerVars, apiVars, scheduleVars, passVars, faultVars
<1>1. CASE SchedulerScan
    BY <1>1 DEF SchedulerScan
<1>2. ASSUME NEW s \in Schedules, SchedulerSkip(s) PROVE Delivery'
    BY <1>2 DEF SchedulerSkip
<1>3. ASSUME NEW s \in Schedules, SchedulerBlock(s) PROVE Delivery'
    BY <1>3 DEF SchedulerBlock
<1>4. ASSUME NEW s \in Schedules, NEW j \in Jobs, SchedulerCreate(s, j) PROVE Delivery'
    BY <1>4 DEF SchedulerCreate, InsertJob
<1>5. CASE SchedulerCommit
    BY <1>5 DEF SchedulerCommit
<1>6. CASE SchedulerRollback
    BY <1>6 DEF SchedulerRollback
<1> HIDE DEF Delivery
<1> QED
    BY <1>1, <1>2, <1>3, <1>4, <1>5, <1>6 DEF SchedulerStep

\* so does a worker.
LEMMA WorkerDelivery ==
    ASSUME TypeOK, Delivery, NEW w \in Workers,
           WorkerStep(w) \/ WorkerException(w) \/ WorkerCrash(w)
    PROVE  Delivery'
<1> USE ConstantsAssumption
    DEF TypeOK, Delivery, Shape, WorkerHasJob, SingleRunner, SendingIsFresh, UnusedIsFresh,
        Runners, HasRow, NoRow, rowVars, workerVars, apiVars, scheduleVars, passVars, faultVars
<1>1. ASSUME NEW j \in Jobs, ReceiveMissing(w, j) PROVE Delivery'
    BY <1>1 DEF ReceiveMissing, Take
<1>2. ASSUME NEW j \in Jobs, ReceiveCancelled(w, j) PROVE Delivery'
    BY <1>2 DEF ReceiveCancelled, Take
<1>3. ASSUME NEW j \in Jobs, ReceiveStart(w, j) PROVE Delivery'
    BY <1>3 DEF ReceiveStart, Take
<1>4. ASSUME NEW s \in Sources, SourceStart(w, s) PROVE Delivery'
    BY <1>4 DEF SourceStart
<1>12. ASSUME NEW s \in Sources, SourceSkip(w, s) PROVE Delivery'
    BY <1>12 DEF SourceSkip
<1>5. ASSUME NEW result \in RunStatus, NEW hasFindings \in BOOLEAN, SourceReport(w, result, hasFindings)
      PROVE  Delivery'
    BY <1>5 DEF SourceReport
<1>6. CASE FinalRead(w)
    BY <1>6 DEF FinalRead
<1>7. CASE FinalCommit(w)
    <2>1. final[w] \in JobStatus
        OBVIOUS
    <2>3. /\ status' = [status EXCEPT ![wjob[w]] = final[w]]
          /\ pc' = [pc EXCEPT ![w] = AfterFinal(final[w])]
          /\ UNCHANGED <<wjob, cur, queue, sending>>
          /\ pc[w] = "final"
        BY <1>7 DEF FinalCommit
    <2>4. AfterFinal(final[w]) \in {"ack", "persist"}
        BY DEF AfterFinal
    <2>5. Shape' /\ UnusedIsFresh'
        BY <2>1, <2>3, <2>4 DEF JobStatus, Active, Terminal
    <2>6. SingleRunner'
        BY <2>3, <2>4
    <2>7. SendingIsFresh'
        BY <2>3, <2>4
    <2> QED
        BY <2>5, <2>6, <2>7
<1>8. CASE PersistEvents(w)
    BY <1>8 DEF PersistEvents
<1>9. CASE Acknowledge(w)
    BY <1>9 DEF Acknowledge, Release
<1>10. CASE WorkerException(w)
    BY <1>10 DEF WorkerException, Release
<1>11. CASE WorkerCrash(w)
    BY <1>11 DEF WorkerCrash, Release
<1> HIDE DEF Delivery
<1> QED
    BY <1>1, <1>2, <1>3, <1>4, <1>5, <1>6, <1>7, <1>8, <1>9, <1>10, <1>11, <1>12 DEF WorkerStep

-----------------------------------------------------------------------------
(* Rows and runs. *)

\* A deleted row does not come back.
GoneStays == \A s \in Sources : policy[s] = "gone" => policy'[s] = "gone"

\* What explains an end does not go away while the job's sources keep their
\* statuses: neither a cancel request nor a deletion is ever taken back.
LEMMA ExplainedStable ==
    ASSUME TypeOK, NEW j \in Jobs, NEW end, GoneStays,
           scope'[j] = scope[j], progress'[j] = progress[j], cancel[j] => cancel'[j],
           Explained(j, end)
    PROVE  Explained(j, end)'
<1>1. Got(j)' = Got(j)
    BY DEF Got
<1>2. scope[j] \subseteq Sources
    BY DEF TypeOK
<1> QED
    BY <1>1, <1>2 DEF Explained, Supported, GoneStays

\* The outcome of a loop that was cancelled or has closed every source that has a row.
LEMMA AggregateExplained ==
    ASSUME TypeOK, RowsOk, NEW j \in Jobs, HasRow(j),
           \/ cancel[j]
           \/ \A s \in scope[j] : progress[j][s] \in {"pending", "running"} => policy[s] = "gone"
    PROVE  \/ /\ Aggregate(Got(j), cancel[j]) \in Terminal
              /\ Explained(j, Aggregate(Got(j), cancel[j]))
           \/ Aggregate(Got(j), cancel[j]) = "running" /\ PassedOver(j)
<1>1. CASE cancel[j]
    BY <1>1 DEF Aggregate, Terminal, Explained
<1>2. CASE ~cancel[j]
    <2> DEFINE got == Got(j)
    <2>1. got \subseteq RunStatus \ {"skipped"}
        BY <1>2 DEF Got, TypeOK, RowsOk, RunStatus
    <2>2. CASE got \subseteq {"pending", "running"}
        <3>1. Aggregate(got, FALSE) = "running"
            BY <2>2 DEF Aggregate
        <3>2. PassedOver(j)
            BY <1>2, <2>2 DEF Got, PassedOver
        <3> QED
            BY <1>2, <3>1, <3>2 DEF TypeOK
    <2>3. CASE ~(got \subseteq {"pending", "running"})
        <3> HIDE DEF got
        <3>1. /\ Aggregate(got, FALSE) \in Terminal \ {"cancelled"}
              /\ Supported(Aggregate(got, FALSE), got)
            BY <2>1, <2>3 DEF Aggregate, Terminal, Supported, RunStatus
        <3> QED
            BY <1>2, <3>1 DEF got, Explained, TypeOK
    <2> QED
        BY <2>2, <2>3
<1> QED
    BY <1>1, <1>2

\* No request, however it ends, brings a deleted row back.
LEMMA RestGone ==
    ASSUME TypeOK, Rest \/ Environment
    PROVE  GoneStays
<1>1. policy' = policy \/ \E src \in Sources : PolicyChange(src) \/ DeleteSource(src)
    BY DEF Rest, Environment, CreateJob, SendJob, SendJobFails, ApiCrash, CancelRead, CancelCommit,
           CreateSchedule, PatchSchedule, BecomeDue
<1>2. CASE policy' = policy
    BY <1>2 DEF GoneStays
<1>3. ASSUME NEW src \in Sources, PolicyChange(src) \/ DeleteSource(src) PROVE GoneStays
    BY <1>3 DEF PolicyChange, DeleteSource, GoneStays, TypeOK
<1> QED
    BY <1>1, <1>2, <1>3

\* A step outside the workers leaves their runs as they are, changes no
\* progress, takes no job out of running and ends one only as queue_failed.
LEMMA OutsideStep ==
    ASSUME TypeOK, Delivery, Record, GoneStays,
           UNCHANGED <<pc, wjob, todo, cur, final, progress>>,
           \A i \in Jobs :
               /\ status[i] # "unused" => scope'[i] = scope[i]
               /\ cancel[i] => cancel'[i]
               /\ status[i] = "running" => status'[i] = "running"
               /\ status'[i] = status[i] \/ status'[i] \notin Terminal \/ error'[i] = "queue_failed"
               /\ error[i] = "queue_failed" => error'[i] = "queue_failed"
    PROVE  (\A w \in Workers : RunOk(w)') /\ (\A i \in Jobs : JobExplained(i)')
<1>1. ASSUME NEW i \in Jobs, NEW end, status[i] # "unused", Explained(i, end)
      PROVE  Explained(i, end)'
    BY <1>1, ExplainedStable DEF GoneStays
<1>2. ASSUME NEW w \in Workers PROVE RunOk(w)'
    <2>1. pc[w] # "idle" => wjob[w] \in Jobs /\ status[wjob[w]] # "unused"
        BY DEF Delivery, Shape, WorkerHasJob, HasRow, NoRow
    <2>2. RunIsVisible(w)' /\ BehindIsClosed(w)'
        BY <2>1 DEF Record, RunOk, RunIsVisible, BehindIsClosed, GoneStays, TypeOK
    <2>3. pc[w] # "idle" /\ PassedOver(wjob[w]) => PassedOver(wjob[w])'
        BY <2>1 DEF PassedOver, GoneStays, TypeOK
    <2>4. FinalOk(w)'
        BY <1>1, <2>1, <2>3 DEF Record, RunOk, FinalOk
    <2> QED
        BY <2>2, <2>4 DEF RunOk
<1>3. ASSUME NEW i \in Jobs PROVE JobExplained(i)'
    <2>1. status[i] \in Terminal => status[i] # "unused"
        BY DEF Terminal
    <2> QED
        BY <1>1, <2>1 DEF Record, JobExplained
<1> QED
    BY <1>2, <1>3

\* A step of worker w on job j is no concern of other workers and other jobs.
LEMMA InsideStep ==
    ASSUME TypeOK, Delivery, Record, NEW w \in Workers, NEW j \in Jobs, UNCHANGED policy,
           \A v \in Workers \ {w} : pc[v] = "idle" \/ wjob[v] # j,
           UNCHANGED <<cancel, scope>>,
           \A i \in Jobs \ {j} :
               status'[i] = status[i] /\ progress'[i] = progress[i] /\ error'[i] = error[i],
           \A v \in Workers \ {w} :
               /\ pc'[v] = pc[v] /\ wjob'[v] = wjob[v] /\ todo'[v] = todo[v]
               /\ cur'[v] = cur[v] /\ final'[v] = final[v]
    PROVE  /\ \A v \in Workers \ {w} : RunOk(v)'
           /\ \A i \in Jobs \ {j} : JobExplained(i)'
<1>1. ASSUME NEW i \in Jobs \ {j}, NEW end, Explained(i, end)
      PROVE  Explained(i, end)'
    BY <1>1, ExplainedStable DEF GoneStays
<1>2. ASSUME NEW v \in Workers \ {w} PROVE RunOk(v)'
    <2>1. pc[v] # "idle" => wjob[v] \in Jobs \ {j}
        BY DEF Delivery, Shape, WorkerHasJob
    <2>2. RunIsVisible(v)' /\ BehindIsClosed(v)'
        BY <2>1 DEF Record, RunOk, RunIsVisible, BehindIsClosed
    <2>3. FinalOk(v)'
        BY <1>1, <2>1 DEF Record, RunOk, FinalOk, PassedOver
    <2> QED
        BY <2>2, <2>3 DEF RunOk
<1>3. ASSUME NEW i \in Jobs \ {j} PROVE JobExplained(i)'
    BY <1>1, <1>3 DEF Record, JobExplained
<1> QED
    BY <1>2, <1>3

\* A request keeps a job's record in line with what has happened to it;
LEMMA RestRecord ==
    ASSUME TypeOK, Delivery, Record, Rest \/ Environment
    PROVE  Record'
<1> USE DEF rowVars, workerVars, apiVars, scheduleVars, passVars, faultVars
<1>0. GoneStays
    BY RestGone
<1>1. ASSUME NEW j \in Jobs, NEW srcs \in SUBSET Sources, CreateJob(j, srcs) PROVE Record'
    <2>1. RowsOk' /\ SchedulesOk'
        BY <1>1 DEF CreateJob, InsertJob, Record, RowsOk, SchedulesOk, TypeOK
    <2>2. (\A w \in Workers : RunOk(w)') /\ (\A i \in Jobs : JobExplained(i)')
        BY <1>1, <1>0, OutsideStep DEF CreateJob, InsertJob, TypeOK, Terminal
    <2> QED
        BY <2>1, <2>2 DEF Record
<1>2. ASSUME NEW j \in Jobs, SendJobFails(j) PROVE Record'
    <2>1. RowsOk' /\ SchedulesOk'
        BY <1>2 DEF SendJobFails, Record, RowsOk, SchedulesOk, TypeOK, Delivery, SendingIsFresh
    <2>2. (\A w \in Workers : RunOk(w)') /\ (\A i \in Jobs : JobExplained(i)')
        BY <1>2, <1>0, OutsideStep DEF SendJobFails, Delivery, SendingIsFresh, TypeOK, Terminal
    <2> QED
        BY <2>1, <2>2 DEF Record
<1>3. ASSUME NEW j \in Jobs, CancelCommit(j) PROVE Record'
    <2>1. RowsOk' /\ SchedulesOk'
        BY <1>3 DEF CancelCommit, Record, RowsOk, SchedulesOk, TypeOK
    <2>2. (\A w \in Workers : RunOk(w)') /\ (\A i \in Jobs : JobExplained(i)')
        BY <1>3, <1>0, OutsideStep DEF CancelCommit, TypeOK
    <2> QED
        BY <2>1, <2>2 DEF Record
<1>4. ASSUME NEW s \in Schedules, NEW srcs \in SUBSET Sources, CreateSchedule(s, srcs)
      PROVE  Record'
    <2>1. RowsOk' /\ SchedulesOk'
        BY <1>4 DEF CreateSchedule, Record, RowsOk, SchedulesOk, TypeOK
    <2>2. (\A w \in Workers : RunOk(w)') /\ (\A i \in Jobs : JobExplained(i)')
        BY <1>4, <1>0, OutsideStep DEF CreateSchedule
    <2> QED
        BY <2>1, <2>2 DEF Record
<1>5. ASSUME NEW s \in Schedules, NEW st \in {"enabled", "paused"}, NEW srcs \in SUBSET Sources,
             NEW moved \in BOOLEAN, PatchSchedule(s, st, srcs, moved)
      PROVE  Record'
    <2>1. RowsOk' /\ SchedulesOk'
        BY <1>5 DEF PatchSchedule, Record, RowsOk, SchedulesOk, TypeOK
    <2>2. (\A w \in Workers : RunOk(w)') /\ (\A i \in Jobs : JobExplained(i)')
        BY <1>5, <1>0, OutsideStep DEF PatchSchedule
    <2> QED
        BY <2>1, <2>2 DEF Record
<1>6. ASSUME UNCHANGED <<rowVars, workerVars, state, sources, pass, seen>> PROVE Record'
    <2>1. RowsOk' /\ SchedulesOk'
        BY <1>6 DEF Record, RowsOk, SchedulesOk
    <2>2. (\A w \in Workers : RunOk(w)') /\ (\A i \in Jobs : JobExplained(i)')
        BY <1>6, <1>0, OutsideStep
    <2> QED
        BY <2>1, <2>2 DEF Record
<1>7. \/ \E j \in Jobs, srcs \in SUBSET Sources : CreateJob(j, srcs)
      \/ \E j \in Jobs : SendJobFails(j) \/ CancelCommit(j)
      \/ \E s \in Schedules, srcs \in SUBSET Sources : CreateSchedule(s, srcs)
      \/ \E s \in Schedules, st \in {"enabled", "paused"}, srcs \in SUBSET Sources, moved \in BOOLEAN :
            PatchSchedule(s, st, srcs, moved)
      \/ UNCHANGED <<rowVars, workerVars, state, sources, pass, seen>>
    BY DEF Rest, Environment, SendJob, ApiCrash, CancelRead, PolicyChange, DeleteSource, BecomeDue
<1> QED
    BY <1>1, <1>2, <1>3, <1>4, <1>5, <1>6, <1>7

\* so does the scheduler;
LEMMA SchedulerRecord ==
    ASSUME TypeOK, Delivery, Record, SchedulerStep \/ SchedulerRollback
    PROVE  Record'
<1> USE DEF rowVars, workerVars, apiVars, scheduleVars, passVars, faultVars
<1>0. GoneStays
    BY DEF SchedulerStep, SchedulerScan, SchedulerSkip, SchedulerBlock, SchedulerCreate,
           SchedulerCommit, SchedulerRollback, GoneStays
<1>1. ASSUME UNCHANGED <<rowVars, workerVars, state, sources>>, SchedulesOk' PROVE Record'
    <2>1. RowsOk'
        BY <1>1 DEF Record, RowsOk
    <2>2. (\A w \in Workers : RunOk(w)') /\ (\A i \in Jobs : JobExplained(i)')
        BY <1>1, <1>0, OutsideStep
    <2> QED
        BY <1>1, <2>1, <2>2 DEF Record
<1>2. CASE SchedulerScan
    BY <1>1, <1>2 DEF SchedulerScan, Record, SchedulesOk
<1>3. ASSUME NEW s \in Schedules, SchedulerSkip(s) PROVE Record'
    BY <1>1, <1>3 DEF SchedulerSkip, Decide, Record, SchedulesOk
<1>4. ASSUME NEW s \in Schedules, SchedulerBlock(s) PROVE Record'
    BY <1>1, <1>4 DEF SchedulerBlock, Decide, Record, SchedulesOk
<1>5. ASSUME NEW s \in Schedules, NEW j \in Jobs, SchedulerCreate(s, j) PROVE Record'
    <2>1. s \in pass /\ pass' = pass \ {s}
        BY <1>5 DEF SchedulerCreate, Decide
    <2>2. /\ status[j] = "unused"
          /\ status' = [status EXCEPT ![j] = "uncommitted"]
          /\ scope' = [scope EXCEPT ![j] = seen[s]]
          /\ UNCHANGED <<cancel, progress, error, pc, wjob, todo, cur, final, state, sources, seen>>
        BY <1>5 DEF SchedulerCreate, InsertJob, Decide
    <2>3. RowsOk' /\ SchedulesOk'
        BY <2>1, <2>2 DEF Record, RowsOk, SchedulesOk, TypeOK
    <2>4. (\A w \in Workers : RunOk(w)') /\ (\A i \in Jobs : JobExplained(i)')
        BY <2>2, <1>0, OutsideStep DEF TypeOK, Terminal
    <2> QED
        BY <2>3, <2>4 DEF Record
<1>6. CASE SchedulerCommit
    <2>1. RowsOk' /\ SchedulesOk'
        BY <1>6 DEF SchedulerCommit, EndPass, Record, RowsOk, SchedulesOk, TypeOK
    <2>2. (\A w \in Workers : RunOk(w)') /\ (\A i \in Jobs : JobExplained(i)')
        BY <1>6, <1>0, OutsideStep DEF SchedulerCommit, TypeOK, Terminal
    <2> QED
        BY <2>1, <2>2 DEF Record
<1>7. CASE SchedulerRollback
    <2>1. RowsOk' /\ SchedulesOk'
        BY <1>7 DEF SchedulerRollback, EndPass, Record, RowsOk, SchedulesOk, TypeOK
    <2>2. (\A w \in Workers : RunOk(w)') /\ (\A i \in Jobs : JobExplained(i)')
        BY <1>7, <1>0, OutsideStep DEF SchedulerRollback, TypeOK, Terminal
    <2> QED
        BY <2>1, <2>2 DEF Record
<1> QED
    BY <1>2, <1>3, <1>4, <1>5, <1>6, <1>7 DEF SchedulerStep

\* The job of a worker that is not idle has no other worker and, in a run,
\* its row says running.
LEMMA OwnJob ==
    ASSUME TypeOK, Delivery, Record, NEW w \in Workers, pc[w] # "idle"
    PROVE  \E j \in Jobs :
               /\ wjob[w] = j
               /\ HasRow(j)
               /\ \A v \in Workers \ {w} : pc[v] = "idle" \/ wjob[v] # j
               /\ pc[w] \in {"loop", "source", "final"} => status[j] = "running"
BY DEF Delivery, Shape, WorkerHasJob, SingleRunner, Runners, Record, RunOk, RunIsVisible

\* A job whose message is delivered has no worker.
LEMMA TakenJob ==
    ASSUME TypeOK, Delivery, NEW j \in Jobs, Take(j)
    PROVE  \A v \in Workers : pc[v] = "idle" \/ wjob[v] # j
<1>1. queue[j] = 1
    BY DEF Take, TypeOK, Delivery, SingleRunner
<1>2. Runners(j) = {}
    BY <1>1 DEF Delivery, SingleRunner
<1> QED
    BY <1>2 DEF Runners

\* so does a worker.
LEMMA WorkerRecord ==
    ASSUME TypeOK, Delivery, Record, NEW w \in Workers,
           WorkerStep(w) \/ WorkerException(w) \/ WorkerCrash(w)
    PROVE  Record'
<1> USE DEF rowVars, workerVars, apiVars, scheduleVars, passVars, faultVars
\* What is left to show of a step of w on job j.
<1>1. ASSUME NEW j \in Jobs,
             \A v \in Workers \ {w} : pc[v] = "idle" \/ wjob[v] # j,
             UNCHANGED <<cancel, scope, state, sources, pass, seen, policy>>,
             \A i \in Jobs \ {j} :
                 status'[i] = status[i] /\ progress'[i] = progress[i] /\ error'[i] = error[i],
             \A v \in Workers \ {w} :
                 /\ pc'[v] = pc[v] /\ wjob'[v] = wjob[v] /\ todo'[v] = todo[v]
                 /\ cur'[v] = cur[v] /\ final'[v] = final[v],
             status[j] # "unused",
             \A s \in Sources : progress'[j][s] = "skipped" => progress[j][s] = "skipped" \/ cancel[j],
             RunOk(w)', JobExplained(j)'
      PROVE  Record'
    <2>1. (\A v \in Workers \ {w} : RunOk(v)') /\ (\A i \in Jobs \ {j} : JobExplained(i)')
        BY <1>1, InsideStep
    <2>2. RowsOk' /\ SchedulesOk'
        BY <1>1 DEF Record, RowsOk, SchedulesOk
    <2> QED
        BY <1>1, <2>1, <2>2 DEF Record
<1>2. ASSUME NEW j \in Jobs, ReceiveMissing(w, j) PROVE Record'
    <2>1. RowsOk' /\ SchedulesOk'
        BY <1>2 DEF ReceiveMissing, Record, RowsOk, SchedulesOk
    <2>2. (\A v \in Workers : RunOk(v)') /\ (\A i \in Jobs : JobExplained(i)')
        BY <1>2, OutsideStep DEF ReceiveMissing, GoneStays
    <2> QED
        BY <2>1, <2>2 DEF Record
<1>3. ASSUME NEW j \in Jobs, ReceiveCancelled(w, j) PROVE Record'
    <2>1. \A v \in Workers \ {w} : pc[v] = "idle" \/ wjob[v] # j
        BY <1>3, TakenJob DEF ReceiveCancelled
    <2>2. RunOk(w)'
        BY <1>3 DEF ReceiveCancelled, TypeOK, RunOk, RunIsVisible, BehindIsClosed, FinalOk
    <2>3. JobExplained(j)'
        BY <1>3 DEF ReceiveCancelled, TypeOK, JobExplained, Explained
    <2> QED
        BY <1>1, <1>3, <2>1, <2>2, <2>3 DEF ReceiveCancelled, HasRow, NoRow, TypeOK
<1>4. ASSUME NEW j \in Jobs, ReceiveStart(w, j) PROVE Record'
    <2>1. \A v \in Workers \ {w} : pc[v] = "idle" \/ wjob[v] # j
        BY <1>4, TakenJob DEF ReceiveStart
    <2>2. RunOk(w)'
        BY <1>4 DEF ReceiveStart, TypeOK, RunOk, RunIsVisible, BehindIsClosed, FinalOk
    <2>3. JobExplained(j)'
        BY <1>4 DEF ReceiveStart, TypeOK, JobExplained, Terminal
    <2> QED
        BY <1>1, <1>4, <2>1, <2>2, <2>3 DEF ReceiveStart, HasRow, NoRow, TypeOK
<1>5. ASSUME NEW s \in Sources, SourceStart(w, s) PROVE Record'
    <2>1. pc[w] = "loop"
        BY <1>5 DEF SourceStart
    <2>2. PICK j \in Jobs :
              /\ wjob[w] = j /\ HasRow(j) /\ status[j] = "running"
              /\ \A v \in Workers \ {w} : pc[v] = "idle" \/ wjob[v] # j
        BY <2>1, OwnJob
    <2>3. RunOk(w)'
        BY <1>5, <2>2
        DEF SourceStart, TypeOK, Record, RunOk, RunIsVisible, BehindIsClosed, FinalOk
    <2>4. JobExplained(j)'
        BY <1>5, <2>2 DEF SourceStart, JobExplained, Terminal
    <2> QED
        BY <1>1, <1>5, <2>2, <2>3, <2>4 DEF SourceStart, TypeOK
<1>10. ASSUME NEW s \in Sources, SourceSkip(w, s) PROVE Record'
    <2>1. pc[w] = "loop" /\ policy[s] = "gone"
        BY <1>10 DEF SourceSkip
    <2>2. PICK j \in Jobs :
              /\ wjob[w] = j /\ HasRow(j) /\ status[j] = "running"
              /\ \A v \in Workers \ {w} : pc[v] = "idle" \/ wjob[v] # j
        BY <2>1, OwnJob
    <2>3. RunOk(w)'
        BY <1>10, <2>1, <2>2
        DEF SourceSkip, TypeOK, Record, RunOk, RunIsVisible, BehindIsClosed, FinalOk
    <2>4. JobExplained(j)'
        BY <1>10, <2>2 DEF SourceSkip, JobExplained, Terminal
    <2> QED
        BY <1>1, <1>10, <2>2, <2>3, <2>4 DEF SourceSkip, TypeOK, HasRow, NoRow
<1>6. ASSUME NEW result \in RunStatus, NEW hasFindings \in BOOLEAN, SourceReport(w, result, hasFindings)
      PROVE  Record'
    <2>1. pc[w] = "source"
        BY <1>6 DEF SourceReport
    <2>2. PICK j \in Jobs :
              /\ wjob[w] = j /\ HasRow(j) /\ status[j] = "running"
              /\ \A v \in Workers \ {w} : pc[v] = "idle" \/ wjob[v] # j
        BY <2>1, OwnJob
    <2>3. result \notin {"pending", "running"} /\ (result = "skipped" => cancel[j])
        BY <1>6, <2>2 DEF SourceReport, ReportAllowed
    <2>4. RunOk(w)'
        BY <1>6, <2>2, <2>3
        DEF SourceReport, TypeOK, Record, RunOk, RunIsVisible, BehindIsClosed, FinalOk
    <2>5. JobExplained(j)'
        BY <1>6, <2>2 DEF SourceReport, JobExplained, Terminal
    <2> QED
        BY <1>1, <1>6, <2>2, <2>3, <2>4, <2>5 DEF SourceReport, TypeOK
<1>7. CASE FinalRead(w)
    <2>1. pc[w] = "loop"
        BY <1>7 DEF FinalRead
    <2>2. PICK j \in Jobs :
              /\ wjob[w] = j /\ HasRow(j) /\ status[j] = "running"
              /\ \A v \in Workers \ {w} : pc[v] = "idle" \/ wjob[v] # j
        BY <2>1, OwnJob
    <2>3. \/ cancel[j]
          \/ \A s \in scope[j] : progress[j][s] \in {"pending", "running"} => policy[s] = "gone"
        BY <1>7, <2>1, <2>2 DEF FinalRead, LoopEnds, Record, RunOk, BehindIsClosed
    <2> DEFINE end == Aggregate(Got(j), cancel[j])
    <2>4. \/ end \in Terminal /\ Explained(j, end)
          \/ end = "running" /\ PassedOver(j)
        BY <2>2, <2>3, AggregateExplained DEF Record
    <2>5. final'[w] = end /\ pc'[w] = "final" /\ wjob'[w] = j
        BY <1>7, <2>2 DEF FinalRead, TypeOK
    <2> HIDE DEF end
    <2>6. UNCHANGED <<scope, progress, cancel, policy>> /\ status'[j] = "running"
        BY <1>7, <2>2 DEF FinalRead
    <2>7. RunOk(w)'
        <3>1. Explained(j, end) => Explained(j, final[w])'
            BY <2>5, <2>6 DEF Explained, Supported, Got
        <3>2. PassedOver(j) => PassedOver(j)'
            BY <2>6 DEF PassedOver
        <3>3. FinalOk(w)'
            BY <2>4, <2>5, <3>1, <3>2 DEF FinalOk
        <3> QED
            BY <2>5, <2>6, <3>3 DEF RunOk, RunIsVisible, BehindIsClosed
    <2>8. JobExplained(j)'
        BY <1>7, <2>2 DEF FinalRead, JobExplained, Terminal
    <2> QED
        BY <1>1, <1>7, <2>2, <2>7, <2>8 DEF FinalRead, TypeOK
<1>8. CASE FinalCommit(w)
    <2>1. pc[w] = "final"
        BY <1>8 DEF FinalCommit
    <2>2. PICK j \in Jobs :
              /\ wjob[w] = j /\ HasRow(j) /\ status[j] = "running"
              /\ \A v \in Workers \ {w} : pc[v] = "idle" \/ wjob[v] # j
        BY <2>1, OwnJob
    <2>3. Explained(j, final[w]) \/ final[w] \notin Terminal
        BY <2>1, <2>2 DEF Record, RunOk, FinalOk, Terminal
    <2>4. UNCHANGED <<cancel, scope, progress, policy>> /\ status'[j] = final[w]
        BY <1>8, <2>2 DEF FinalCommit, TypeOK
    <2>5. \A end : Explained(j, end) => Explained(j, end)'
        BY <2>4, ExplainedStable DEF GoneStays
    <2>6. pc'[w] \in {"persist", "ack"}
        BY <1>8 DEF FinalCommit, AfterFinal, TypeOK
    <2>7. RunOk(w)'
        BY <2>6 DEF RunOk, RunIsVisible, BehindIsClosed, FinalOk
    <2>8. JobExplained(j)'
        BY <2>3, <2>4, <2>5 DEF JobExplained
    <2> QED
        BY <1>1, <1>8, <2>2, <2>7, <2>8 DEF FinalCommit, TypeOK
<1>9. ASSUME PersistEvents(w) \/ Acknowledge(w) \/ WorkerException(w) \/ WorkerCrash(w) PROVE Record'
    <2>1. pc[w] # "idle" /\ pc'[w] \in {"idle", "ack"}
        BY <1>9 DEF PersistEvents, Acknowledge, WorkerException, WorkerCrash, Release, TypeOK
    <2>2. PICK j \in Jobs :
              /\ wjob[w] = j /\ status[j] # "unused"
              /\ \A v \in Workers \ {w} : pc[v] = "idle" \/ wjob[v] # j
        BY <2>1, OwnJob DEF HasRow, NoRow
    <2>3. UNCHANGED <<rowVars, scheduleVars, passVars, policy>>
        BY <1>9 DEF PersistEvents, Acknowledge, WorkerException, WorkerCrash
    <2>4. RunOk(w)'
        BY <2>1 DEF RunOk, RunIsVisible, BehindIsClosed, FinalOk
    <2>5. JobExplained(j)'
        <3>1. \A end : Explained(j, end) => Explained(j, end)'
            BY <2>3, ExplainedStable DEF GoneStays
        <3> QED
            BY <2>3, <3>1 DEF Record, JobExplained
    <2>6. \A v \in Workers \ {w} :
             /\ pc'[v] = pc[v] /\ wjob'[v] = wjob[v] /\ todo'[v] = todo[v]
             /\ cur'[v] = cur[v] /\ final'[v] = final[v]
        BY <1>9 DEF PersistEvents, Acknowledge, WorkerException, WorkerCrash, Release, TypeOK
    <2> QED
        BY <1>1, <2>2, <2>3, <2>4, <2>5, <2>6
<1> QED
    BY <1>2, <1>3, <1>4, <1>5, <1>6, <1>7, <1>8, <1>9, <1>10 DEF WorkerStep

-----------------------------------------------------------------------------
(* Links.                                                                    *)

\* A request keeps the schedule's link to its last run;
LEMMA RestLinked ==
    ASSUME TypeOK, Delivery, Linked, Rest \/ Environment
    PROVE  Linked'
<1> USE ConstantsAssumption
    DEF TypeOK, Delivery, SendingIsFresh, Linked, ScheduleLink, CreatedOk, UncommittedIsCreated,
        CancellingHasRow, HasRow, NoRow, Active,
        rowVars, workerVars, apiVars, scheduleVars, passVars, faultVars
<1>1. ASSUME NEW j \in Jobs, NEW srcs \in SUBSET Sources, CreateJob(j, srcs) PROVE Linked'
    BY <1>1 DEF CreateJob, InsertJob
<1>2. ASSUME NEW j \in Jobs, SendJob(j) \/ SendJobFails(j) \/ ApiCrash(j) PROVE Linked'
    BY <1>2 DEF SendJob, SendJobFails, ApiCrash
<1>3. ASSUME NEW j \in Jobs, CancelRead(j) \/ CancelCommit(j) PROVE Linked'
    BY <1>3 DEF CancelRead, CancelCommit
<1>4. ASSUME NEW s \in Schedules, NEW srcs \in SUBSET Sources, CreateSchedule(s, srcs) PROVE Linked'
    BY <1>4 DEF CreateSchedule
<1>5. ASSUME NEW s \in Schedules, NEW st \in {"enabled", "paused"}, NEW srcs \in SUBSET Sources,
             NEW moved \in BOOLEAN, PatchSchedule(s, st, srcs, moved)
      PROVE  Linked'
    BY <1>5 DEF PatchSchedule
<1>6. ASSUME Environment PROVE Linked'
    BY <1>6 DEF Environment, PolicyChange, DeleteSource, BecomeDue
<1> HIDE DEF Linked
<1> QED
    BY <1>1, <1>2, <1>3, <1>4, <1>5, <1>6 DEF Rest

\* so does the scheduler;
LEMMA SchedulerLinked ==
    ASSUME TypeOK, Linked, SchedulerStep \/ SchedulerRollback
    PROVE  Linked'
<1> USE ConstantsAssumption
    DEF TypeOK, Linked, ScheduleLink, CreatedOk, UncommittedIsCreated, CancellingHasRow, HasRow, NoRow,
        rowVars, workerVars, apiVars, scheduleVars, passVars, faultVars
<1>1. CASE SchedulerScan
    BY <1>1 DEF SchedulerScan, DbFree, InTransaction
<1>2. ASSUME NEW s \in Schedules, SchedulerSkip(s) \/ SchedulerBlock(s) PROVE Linked'
    <2>1. PICK out \in DispatchOutcome \ {"none"} : Decide(s, out, NoJob)
        BY <1>2 DEF SchedulerSkip, SchedulerBlock, DispatchOutcome
    <2>2. UNCHANGED <<rowVars, apiVars, scheduleVars>>
        BY <1>2 DEF SchedulerSkip, SchedulerBlock
    <2> QED
        BY <2>1, <2>2 DEF Decide
<1>3. ASSUME NEW s \in Schedules, NEW j \in Jobs, SchedulerCreate(s, j) PROVE Linked'
    <2>1. PICK out \in {"job_created", "queue_failed"} : Decide(s, out, j)
        BY <1>3 DEF SchedulerCreate
    <2>2. InsertJob(j, seen[s], s, "uncommitted") /\ UNCHANGED <<apiVars, scheduleVars>>
        BY <1>3 DEF SchedulerCreate
    <2>3. /\ status[j] = "unused"
          /\ \A i \in Jobs : status'[i] = IF i = j THEN "uncommitted" ELSE status[i]
          /\ \A i \in Jobs : origin'[i] = IF i = j THEN s ELSE origin[i]
        BY <2>2 DEF InsertJob
    <2>4. /\ s \in pass /\ pass' = pass \ {s}
          /\ \A t \in Schedules : outcome'[t] = IF t = s THEN out ELSE outcome[t]
          /\ \A t \in Schedules : created'[t] = IF t = s THEN j ELSE created[t]
        BY <2>1 DEF Decide
    <2>5. ScheduleLink' /\ CancellingHasRow'
        BY <2>2, <2>3
    <2>6. CreatedOk'
        <3>1. ASSUME NEW t \in Schedules, created'[t] # NoJob
              PROVE  status'[created'[t]] = "uncommitted" /\ origin'[created'[t]] = t /\ outcome'[t] # "none"
            <4>1. CASE t = s
                BY <2>3, <2>4, <4>1
            <4>2. CASE t # s
                <5>1. created'[t] = created[t] /\ outcome'[t] = outcome[t] /\ created[t] \in Jobs
                    BY <2>4, <3>1, <4>2
                <5> QED
                    BY <2>3, <3>1, <5>1
            <4> QED
                BY <4>1, <4>2
        <3>2. \A t \in pass' : outcome'[t] = "none"
            BY <2>4
        <3> QED
            BY <3>1, <3>2
    <2>7. UncommittedIsCreated'
        <3>1. created[s] = NoJob
            BY <2>4
        <3>2. ASSUME NEW i \in Jobs, status'[i] = "uncommitted"
              PROVE  origin'[i] \in Schedules /\ created'[origin'[i]] = i
            <4>1. CASE i = j
                BY <2>3, <2>4, <4>1
            <4>2. CASE i # j
                <5>1. origin'[i] = origin[i] /\ origin[i] \in Schedules /\ created[origin[i]] = i
                    BY <2>3, <3>2, <4>2
                <5>2. origin[i] # s
                    BY <3>1, <5>1, ConstantsAssumption
                <5> QED
                    BY <2>4, <5>1, <5>2
            <4> QED
                BY <4>1, <4>2
        <3> QED
            BY <3>2
    <2> QED
        BY <2>5, <2>6, <2>7
<1>4. CASE SchedulerCommit
    <2>1. /\ \A i \in Jobs : status'[i] = IF status[i] # "uncommitted" THEN status[i]
                                         ELSE IF SendFailed(i) THEN "failed" ELSE "queued"
          /\ \A s \in Schedules : last'[s] = IF created[s] = NoJob THEN last[s] ELSE created[s]
          /\ pass' = {} /\ \A s \in Schedules : created'[s] = NoJob
          /\ origin' = origin /\ cancelling' = cancelling
        BY <1>4 DEF SchedulerCommit, EndPass
    <2>2. \A i \in Jobs : status[i] \notin {"unused", "rolled_back"} => status'[i] \notin NoRow
        BY <2>1
    <2>3. \A s \in Schedules : created[s] # NoJob =>
              created[s] \in Jobs /\ status[created[s]] = "uncommitted" /\ origin[created[s]] = s
        OBVIOUS
    <2>4. \A s \in Schedules : last[s] # NoJob =>
              last[s] \in Jobs /\ status[last[s]] \notin NoRow /\ origin[last[s]] = s
        OBVIOUS
    <2> HIDE DEF TypeOK
    <2>5. ScheduleLink'
        <3>1. ASSUME NEW s \in Schedules, last'[s] # NoJob
              PROVE  status'[last'[s]] \notin NoRow /\ origin'[last'[s]] = s
            <4>1. PICK j \in Jobs : /\ last'[s] = j /\ origin[j] = s
                                    /\ status[j] \notin {"unused", "rolled_back"}
                BY <2>1, <2>3, <2>4, <3>1
            <4> QED
                BY <2>1, <2>2, <4>1
        <3> QED
            BY <3>1
    <2>6. CreatedOk' /\ UncommittedIsCreated'
        BY <2>1
    <2>7. CancellingHasRow'
        BY <2>1, <2>2 DEF TypeOK
    <2> QED
        BY <2>5, <2>6, <2>7
<1>5. CASE SchedulerRollback
    BY <1>5 DEF SchedulerRollback, EndPass
<1> HIDE DEF Linked
<1> QED
    BY <1>1, <1>2, <1>3, <1>4, <1>5 DEF SchedulerStep

\* so does a worker.
LEMMA WorkerLinked ==
    ASSUME TypeOK, Delivery, Linked, NEW w \in Workers,
           WorkerStep(w) \/ WorkerException(w) \/ WorkerCrash(w)
    PROVE  Linked'
\* A worker only writes a row that is there, and its row stays there.
<1>1. /\ \A i \in Jobs : status'[i] = status[i] \/ (HasRow(i) /\ status'[i] \in JobStatus)
      /\ UNCHANGED <<origin, apiVars, scheduleVars, passVars>>
    <2> USE DEF TypeOK, Delivery, Shape, WorkerHasJob, HasRow, NoRow, JobStatus, Active, Terminal,
                rowVars, apiVars, scheduleVars, passVars
    <2>1. ASSUME NEW j \in Jobs, ReceiveMissing(w, j) \/ ReceiveCancelled(w, j) \/ ReceiveStart(w, j)
          PROVE  <1>1!1 /\ <1>1!2
        BY <2>1 DEF ReceiveMissing, ReceiveCancelled, ReceiveStart
    <2>2. CASE FinalCommit(w)
        BY <2>2 DEF FinalCommit
    <2>3. ASSUME WorkerException(w) \/ WorkerCrash(w) \/ FinalRead(w) \/ PersistEvents(w) \/ Acknowledge(w)
          PROVE  <1>1!1 /\ <1>1!2
        BY <2>3 DEF WorkerException, WorkerCrash, FinalRead, PersistEvents, Acknowledge
    <2>4. ASSUME NEW s \in Sources, SourceSkip(w, s) \/ SourceStart(w, s) PROVE <1>1!1 /\ <1>1!2
        BY <2>4 DEF SourceSkip, SourceStart
    <2>5. ASSUME NEW result \in RunStatus, NEW hasFindings \in BOOLEAN, SourceReport(w, result, hasFindings)
          PROVE  <1>1!1 /\ <1>1!2
        BY <2>5 DEF SourceReport
    <2> QED
        BY <2>1, <2>2, <2>3, <2>4, <2>5 DEF WorkerStep
<1>2. \A i \in Jobs : HasRow(i) => HasRow(i)'
    BY <1>1 DEF HasRow, NoRow, JobStatus, Active, Terminal
<1>3. \A i \in Jobs : status'[i] = "uncommitted" <=> status[i] = "uncommitted"
    BY <1>1 DEF HasRow, NoRow, JobStatus, Active, Terminal
<1>4. ScheduleLink'
    BY <1>1, <1>2 DEF Linked, ScheduleLink, TypeOK, scheduleVars
<1>5. CreatedOk'
    BY <1>1, <1>3 DEF Linked, CreatedOk, TypeOK, passVars
<1>6. UncommittedIsCreated'
    BY <1>1, <1>3 DEF Linked, UncommittedIsCreated, passVars
<1>7. CancellingHasRow'
    BY <1>1, <1>2 DEF Linked, CancellingHasRow, TypeOK, apiVars
<1> QED
    BY <1>4, <1>5, <1>6, <1>7 DEF Linked

-----------------------------------------------------------------------------
(* Findings.                                                                 *)

\* A step outside the workers changes no progress and no job that has ended.
LEMMA OutsideFindings ==
    ASSUME TypeOK, Delivery, Findings, GoneStays,
           UNCHANGED <<pc, wjob, todo, cur, found, progress>>,
           \A i \in Jobs :
               /\ status[i] # "unused" => scope'[i] = scope[i]
               /\ cancel[i] => cancel'[i]
               /\ status[i] \in Terminal => status'[i] = status[i]
    PROVE  Findings'
<1> SUFFICES ASSUME NEW w \in Workers PROVE FindingsOk(w)'
    BY DEF Findings
<1>1. CASE pc[w] = "idle"
    BY <1>1 DEF Findings, FindingsOk, RunScope, FoundOk, PersistOk, TypeOK
<1>2. CASE pc[w] # "idle"
    <2>1. PICK j \in Jobs : wjob[w] = j /\ status[j] # "unused"
        BY <1>2 DEF Delivery, Shape, WorkerHasJob, HasRow, NoRow
    <2>2. RunScope(w)' /\ FoundOk(w)'
        BY <1>2, <2>1 DEF Findings, FindingsOk, RunScope, FoundOk
    <2>3. ASSUME pc[w] = "persist", found[w] # {}
          PROVE  status'[j] \in Terminal \ {"cancelled"} /\ Explained(j, status[j])'
        BY <2>1, <2>3, ExplainedStable DEF Findings, FindingsOk, PersistOk
    <2>4. PersistOk(w)'
        BY <2>1, <2>3 DEF Findings, FindingsOk, PersistOk
    <2> QED
        BY <2>2, <2>4 DEF FindingsOk
<1> QED
    BY <1>1, <1>2

\* A request keeps what a running worker has found in line with its job's status;
LEMMA RestFindings ==
    ASSUME TypeOK, Delivery, Findings, Rest \/ Environment
    PROVE  Findings'
<1> USE DEF rowVars, workerVars, apiVars, scheduleVars, passVars, faultVars
<1>0. GoneStays
    BY RestGone
<1>1. ASSUME NEW j \in Jobs, NEW srcs \in SUBSET Sources, CreateJob(j, srcs) PROVE Findings'
    BY <1>1, <1>0, OutsideFindings DEF CreateJob, InsertJob, TypeOK, Terminal
<1>2. ASSUME NEW j \in Jobs, SendJobFails(j) PROVE Findings'
    BY <1>2, <1>0, OutsideFindings DEF SendJobFails, Delivery, SendingIsFresh, TypeOK, Terminal
<1>3. ASSUME NEW j \in Jobs, CancelCommit(j) PROVE Findings'
    BY <1>3, <1>0, OutsideFindings DEF CancelCommit, TypeOK
<1>4. ASSUME UNCHANGED <<rowVars, workerVars>> PROVE Findings'
    BY <1>4, <1>0, OutsideFindings
<1>5. \/ \E j \in Jobs, srcs \in SUBSET Sources : CreateJob(j, srcs)
      \/ \E j \in Jobs : SendJobFails(j) \/ CancelCommit(j)
      \/ UNCHANGED <<rowVars, workerVars>>
    <2>1. CASE Rest
        <3>1. ASSUME NEW j \in Jobs, SendJob(j) \/ ApiCrash(j) \/ CancelRead(j)
              PROVE  UNCHANGED <<rowVars, workerVars>>
            BY <3>1 DEF SendJob, ApiCrash, CancelRead
        <3>2. ASSUME NEW s \in Schedules, NEW srcs \in SUBSET Sources,
                     \/ CreateSchedule(s, srcs)
                     \/ \E st \in {"enabled", "paused"}, moved \in BOOLEAN :
                           PatchSchedule(s, st, srcs, moved)
              PROVE  UNCHANGED <<rowVars, workerVars>>
            BY <3>2 DEF CreateSchedule, PatchSchedule
        <3> QED
            BY <2>1, <3>1, <3>2 DEF Rest
    <2>2. CASE Environment
        BY <2>2 DEF Environment, PolicyChange, DeleteSource, BecomeDue
    <2> QED
        BY <2>1, <2>2
<1> QED
    BY <1>1, <1>2, <1>3, <1>4, <1>5

\* so does the scheduler;
LEMMA SchedulerFindings ==
    ASSUME TypeOK, Delivery, Findings, SchedulerStep \/ SchedulerRollback
    PROVE  Findings'
<1> USE DEF rowVars, workerVars, apiVars, scheduleVars, passVars, faultVars
<1>0. GoneStays
    BY DEF SchedulerStep, SchedulerScan, SchedulerSkip, SchedulerBlock, SchedulerCreate,
           SchedulerCommit, SchedulerRollback, GoneStays
<1>1. ASSUME NEW s \in Schedules, NEW j \in Jobs, SchedulerCreate(s, j) PROVE Findings'
    BY <1>1, <1>0, OutsideFindings DEF SchedulerCreate, InsertJob, TypeOK, Terminal
<1>2. CASE SchedulerCommit
    BY <1>2, <1>0, OutsideFindings DEF SchedulerCommit, TypeOK, Terminal
<1>3. CASE SchedulerRollback
    BY <1>3, <1>0, OutsideFindings DEF SchedulerRollback, TypeOK, Terminal
<1>4. ASSUME UNCHANGED <<rowVars, workerVars>> PROVE Findings'
    BY <1>4, <1>0, OutsideFindings
<1> QED
    BY <1>1, <1>2, <1>3, <1>4 DEF SchedulerStep, SchedulerScan, SchedulerSkip, SchedulerBlock

\* A step of worker w on job j is no concern of the findings of other workers.
LEMMA InsideFindings ==
    ASSUME TypeOK, Delivery, Findings, NEW w \in Workers, NEW j \in Jobs,
           \A v \in Workers \ {w} : pc[v] = "idle" \/ wjob[v] # j,
           UNCHANGED <<cancel, scope, policy>>,
           \A i \in Jobs \ {j} : status'[i] = status[i] /\ progress'[i] = progress[i],
           \A v \in Workers \ {w} :
               /\ pc'[v] = pc[v] /\ wjob'[v] = wjob[v] /\ todo'[v] = todo[v]
               /\ cur'[v] = cur[v] /\ found'[v] = found[v],
           FindingsOk(w)'
    PROVE  Findings'
<1> SUFFICES ASSUME NEW v \in Workers \ {w} PROVE FindingsOk(v)'
    BY DEF Findings
<1>1. CASE pc[v] = "idle"
    BY <1>1 DEF Findings, FindingsOk, RunScope, FoundOk, PersistOk, TypeOK
<1>2. CASE pc[v] # "idle"
    <2>1. PICK i \in Jobs \ {j} : wjob[v] = i
        BY <1>2 DEF Delivery, Shape, WorkerHasJob
    <2>2. RunScope(v)' /\ FoundOk(v)'
        BY <1>2, <2>1 DEF Findings, FindingsOk, RunScope, FoundOk
    <2>3. ASSUME pc[v] = "persist", found[v] # {}
          PROVE  status'[i] \in Terminal \ {"cancelled"} /\ Explained(i, status[i])'
        BY <2>1, <2>3, ExplainedStable DEF GoneStays, Findings, FindingsOk, PersistOk
    <2>4. PersistOk(v)'
        BY <2>1, <2>3 DEF Findings, FindingsOk, PersistOk
    <2> QED
        BY <2>2, <2>4 DEF FindingsOk
<1> QED
    BY <1>1, <1>2

\* so does a worker.
LEMMA WorkerFindings ==
    ASSUME TypeOK, Delivery, Record, Findings, NEW w \in Workers,
           WorkerStep(w) \/ WorkerException(w) \/ WorkerCrash(w)
    PROVE  Findings'
<1> USE DEF rowVars, workerVars, apiVars, scheduleVars, passVars, faultVars
<1>1. ASSUME NEW j \in Jobs, ReceiveMissing(w, j) PROVE Findings'
    BY <1>1, OutsideFindings DEF ReceiveMissing, GoneStays
<1>2. ASSUME NEW j \in Jobs, ReceiveCancelled(w, j) PROVE Findings'
    <2>1. \A v \in Workers \ {w} : pc[v] = "idle" \/ wjob[v] # j
        BY <1>2, TakenJob DEF ReceiveCancelled
    <2>2. FindingsOk(w)'
        BY <1>2 DEF ReceiveCancelled, TypeOK, Findings, FindingsOk, RunScope, FoundOk, PersistOk
    <2> QED
        BY <1>2, <2>1, <2>2, InsideFindings DEF ReceiveCancelled, TypeOK
<1>3. ASSUME NEW j \in Jobs, ReceiveStart(w, j) PROVE Findings'
    <2>1. \A v \in Workers \ {w} : pc[v] = "idle" \/ wjob[v] # j
        BY <1>3, TakenJob DEF ReceiveStart
    <2>2. FindingsOk(w)'
        BY <1>3 DEF ReceiveStart, TypeOK, Findings, FindingsOk, RunScope, FoundOk, PersistOk
    <2> QED
        BY <1>3, <2>1, <2>2, InsideFindings DEF ReceiveStart, TypeOK
<1>4. ASSUME NEW s \in Sources, SourceStart(w, s) PROVE Findings'
    <2>1. pc[w] = "loop"
        BY <1>4 DEF SourceStart
    <2>2. PICK j \in Jobs :
              /\ wjob[w] = j /\ HasRow(j) /\ status[j] = "running"
              /\ \A v \in Workers \ {w} : pc[v] = "idle" \/ wjob[v] # j
        BY <2>1, OwnJob
    <2>3. FindingsOk(w)'
        BY <1>4, <2>2
        DEF SourceStart, TypeOK, Findings, FindingsOk, RunScope, FoundOk, PersistOk
    <2> QED
        BY <1>4, <2>2, <2>3, InsideFindings DEF SourceStart, TypeOK
<1>9. ASSUME NEW s \in Sources, SourceSkip(w, s) PROVE Findings'
    <2>1. pc[w] = "loop"
        BY <1>9 DEF SourceSkip
    <2>2. PICK j \in Jobs :
              /\ wjob[w] = j /\ HasRow(j) /\ status[j] = "running"
              /\ \A v \in Workers \ {w} : pc[v] = "idle" \/ wjob[v] # j
        BY <2>1, OwnJob
    <2>3. FindingsOk(w)'
        BY <1>9, <2>2
        DEF SourceSkip, TypeOK, Findings, FindingsOk, RunScope, FoundOk, PersistOk
    <2> QED
        BY <1>9, <2>2, <2>3, InsideFindings DEF SourceSkip, TypeOK
<1>5. ASSUME NEW result \in RunStatus, NEW hasFindings \in BOOLEAN, SourceReport(w, result, hasFindings)
      PROVE  Findings'
    <2>1. pc[w] = "source" /\ (hasFindings => result = "succeeded")
        BY <1>5 DEF SourceReport, ReportAllowed
    <2>2. PICK j \in Jobs :
              /\ wjob[w] = j /\ HasRow(j) /\ status[j] = "running"
              /\ \A v \in Workers \ {w} : pc[v] = "idle" \/ wjob[v] # j
        BY <2>1, OwnJob
    <2>3. FindingsOk(w)'
        BY <1>5, <2>1, <2>2
        DEF SourceReport, TypeOK, Findings, FindingsOk, RunScope, FoundOk, PersistOk
    <2> QED
        BY <1>5, <2>2, <2>3, InsideFindings DEF SourceReport, TypeOK
<1>6. CASE FinalRead(w)
    <2>1. pc[w] = "loop"
        BY <1>6 DEF FinalRead
    <2>2. PICK j \in Jobs :
              /\ wjob[w] = j /\ HasRow(j) /\ status[j] = "running"
              /\ \A v \in Workers \ {w} : pc[v] = "idle" \/ wjob[v] # j
        BY <2>1, OwnJob
    <2>3. FindingsOk(w)'
        BY <1>6, <2>2 DEF FinalRead, TypeOK, Findings, FindingsOk, RunScope, FoundOk, PersistOk
    <2> QED
        BY <1>6, <2>2, <2>3, InsideFindings DEF FinalRead, TypeOK
<1>7. CASE FinalCommit(w)
    <2>1. pc[w] = "final"
        BY <1>7 DEF FinalCommit
    <2>2. PICK j \in Jobs :
              /\ wjob[w] = j /\ HasRow(j) /\ status[j] = "running"
              /\ \A v \in Workers \ {w} : pc[v] = "idle" \/ wjob[v] # j
        BY <2>1, OwnJob
    <2>3. \/ final[w] \in Terminal /\ Explained(j, final[w])
          \/ found[w] = {}
        <3>1. CASE PassedOver(j)
            BY <2>2, <3>1 DEF PassedOver, Findings, FindingsOk, FoundOk
        <3> QED
            BY <2>1, <2>2, <3>1 DEF Record, RunOk, FinalOk
    <2>4. /\ UNCHANGED <<cancel, scope, progress, policy, wjob, todo, cur, found>>
          /\ status'[j] = final[w] /\ pc'[w] = AfterFinal(final[w])
        BY <1>7, <2>2 DEF FinalCommit, TypeOK
    <2>5. \A end : Explained(j, end) => Explained(j, end)'
        BY <2>4, ExplainedStable DEF GoneStays
    <2>6. pc'[w] = "persist" => status'[j] # "cancelled"
        BY <2>4 DEF AfterFinal
    <2>7. PersistOk(w)'
        BY <2>2, <2>3, <2>4, <2>5, <2>6 DEF PersistOk
    <2>8. RunScope(w)' /\ FoundOk(w)'
        BY <2>1, <2>4 DEF AfterFinal, Findings, FindingsOk, RunScope, FoundOk
    <2> QED
        BY <1>7, <2>2, <2>7, <2>8, InsideFindings DEF FindingsOk, FinalCommit, TypeOK
<1>8. ASSUME PersistEvents(w) \/ Acknowledge(w) \/ WorkerException(w) \/ WorkerCrash(w) PROVE Findings'
    <2>1. /\ pc[w] # "idle" /\ pc'[w] \in {"idle", "ack"} /\ found'[w] = {}
        BY <1>8 DEF PersistEvents, Acknowledge, WorkerException, WorkerCrash, Release, TypeOK
    <2>2. PICK j \in Jobs :
              /\ wjob[w] = j
              /\ \A v \in Workers \ {w} : pc[v] = "idle" \/ wjob[v] # j
        BY <2>1, OwnJob
    <2>3. UNCHANGED <<rowVars, policy>>
        BY <1>8 DEF PersistEvents, Acknowledge, WorkerException, WorkerCrash
    <2>4. FindingsOk(w)'
        BY <2>1 DEF FindingsOk, RunScope, FoundOk, PersistOk
    <2>5. \A v \in Workers \ {w} :
             /\ pc'[v] = pc[v] /\ wjob'[v] = wjob[v] /\ todo'[v] = todo[v]
             /\ cur'[v] = cur[v] /\ found'[v] = found[v]
        BY <1>8 DEF PersistEvents, Acknowledge, WorkerException, WorkerCrash, Release, TypeOK
    <2> QED
        BY <2>2, <2>3, <2>4, <2>5, InsideFindings
<1> QED
    BY <1>1, <1>2, <1>3, <1>4, <1>5, <1>6, <1>7, <1>8, <1>9 DEF WorkerStep

-----------------------------------------------------------------------------
(* Messages of ended jobs, the active job of a schedule, provenance.         *)

\* Events stay explained by a step that persists none and touches only jobs that
\* have not succeeded, even in part.
LEMMA ProvenanceStable ==
    ASSUME EventsHaveProvenance, events' = events,
           \A i \in Jobs :
               status[i] \in {"succeeded", "partial", "needs_user_action"} =>
                   status'[i] = status[i] /\ progress'[i] = progress[i] /\ scope'[i] = scope[i]
    PROVE  EventsHaveProvenance'
BY DEF EventsHaveProvenance

\* Where no message of a started job is sent, a request keeps messages fresh;
LEMMA RestOrdered ==
    ASSUME Orderly, TypeOK, Delivery, Linked, Ordered, Rest \/ Environment
    PROVE  Ordered'
<1> USE ConstantsAssumption DEF rowVars, workerVars, apiVars, scheduleVars, passVars, faultVars
<1>1. ASSUME NEW j \in Jobs, NEW srcs \in SUBSET Sources, CreateJob(j, srcs) PROVE Ordered'
    <2>1. /\ status[j] = "unused" /\ queue[j] = 0
          /\ \A i \in Jobs : status'[i] = IF i = j THEN "queued" ELSE status[i]
          /\ \A i \in Jobs : origin'[i] = IF i = j THEN NoSchedule ELSE origin[i]
          /\ \A i \in Jobs \ {j} : scope'[i] = scope[i]
          /\ UNCHANGED <<cancel, progress, events, queue, scheduleVars, passVars>>
        BY <1>1 DEF CreateJob, InsertJob, TypeOK, Delivery, UnusedIsFresh
    <2>2. MessagesAreFresh'
        BY <2>1 DEF Ordered, MessagesAreFresh
    <2>3. \A s \in Schedules : last[s] # j \/ last[s] = NoJob
        BY <2>1 DEF Linked, ScheduleLink, HasRow, NoRow
    <2>4. LastIsActive'
        BY <2>1, <2>3 DEF Ordered, LastIsActive, TypeOK
    <2>5. EventsHaveProvenance'
        BY <2>1, ProvenanceStable DEF Ordered
    <2> QED
        BY <2>2, <2>4, <2>5 DEF Ordered
<1>2. ASSUME NEW j \in Jobs, SendJob(j) PROVE Ordered'
    <2>1. /\ status[j] = "queued"
          /\ \A i \in Jobs \ {j} : queue'[i] = queue[i]
          /\ UNCHANGED <<rowVars, events, scheduleVars, passVars>>
        BY <1>2 DEF SendJob, TypeOK, Delivery, SendingIsFresh
    <2>2. MessagesAreFresh'
        <3>1. \A s \in Schedules : created[s] # NoJob => created[s] \in Jobs \ {j}
            BY <2>1 DEF Linked, CreatedOk, TypeOK
        <3> QED
            BY <2>1, <3>1 DEF Ordered, MessagesAreFresh
    <2>3. LastIsActive'
        BY <2>1 DEF Ordered, LastIsActive
    <2>4. EventsHaveProvenance'
        BY <2>1, ProvenanceStable DEF Ordered
    <2> QED
        BY <2>2, <2>3, <2>4 DEF Ordered
<1>3. ASSUME NEW j \in Jobs, SendJobFails(j) PROVE Ordered'
    <2>1. UNCHANGED queue
        BY <1>3 DEF SendJobFails, Fault, FaultOf, Orderly
    <2>2. /\ status[j] = "queued" /\ queue[j] = 0
          /\ \A i \in Jobs : status'[i] = IF i = j THEN "failed" ELSE status[i]
          /\ UNCHANGED <<cancel, scope, progress, origin, events, scheduleVars, passVars>>
        BY <1>3 DEF SendJobFails, TypeOK, Delivery, SendingIsFresh
    <2>3. MessagesAreFresh'
        BY <2>1, <2>2 DEF Ordered, MessagesAreFresh
    <2>4. LastIsActive'
        BY <2>2 DEF Ordered, LastIsActive, TypeOK, Active
    <2>5. EventsHaveProvenance'
        BY <2>2, ProvenanceStable DEF Ordered
    <2> QED
        BY <2>3, <2>4, <2>5 DEF Ordered
<1>4. ASSUME UNCHANGED <<status, scope, progress, origin, events, queue, last, outcome, created>>
      PROVE  Ordered'
    <2>1. MessagesAreFresh'
        BY <1>4 DEF Ordered, MessagesAreFresh
    <2>2. LastIsActive'
        BY <1>4 DEF Ordered, LastIsActive
    <2>3. EventsHaveProvenance'
        BY <1>4 DEF Ordered, EventsHaveProvenance
    <2> QED
        BY <2>1, <2>2, <2>3 DEF Ordered
<1>5. \/ \E j \in Jobs, srcs \in SUBSET Sources : CreateJob(j, srcs)
      \/ \E j \in Jobs : SendJob(j) \/ SendJobFails(j)
      \/ UNCHANGED <<status, scope, progress, origin, events, queue, last, outcome, created>>
    <2>1. CASE Rest
        <3>1. ASSUME NEW j \in Jobs, ApiCrash(j) \/ CancelRead(j) \/ CancelCommit(j)
              PROVE  UNCHANGED <<status, scope, progress, origin, events, queue, last, outcome, created>>
            BY <3>1 DEF ApiCrash, CancelRead, CancelCommit
        <3>2. ASSUME NEW s \in Schedules, NEW srcs \in SUBSET Sources,
                     \/ CreateSchedule(s, srcs)
                     \/ \E st \in {"enabled", "paused"}, moved \in BOOLEAN :
                           PatchSchedule(s, st, srcs, moved)
              PROVE  UNCHANGED <<status, scope, progress, origin, events, queue, last, outcome, created>>
            BY <3>2 DEF CreateSchedule, PatchSchedule
        <3> QED
            BY <2>1, <3>1, <3>2 DEF Rest
    <2>2. CASE Environment
        BY <2>2 DEF Environment, PolicyChange, DeleteSource, BecomeDue
    <2> QED
        BY <2>1, <2>2
<1> QED
    BY <1>1, <1>2, <1>3, <1>4, <1>5

\* so does the scheduler;
LEMMA SchedulerOrdered ==
    ASSUME Orderly, TypeOK, Delivery, Linked, Ordered, SchedulerStep \/ SchedulerRollback
    PROVE  Ordered'
<1> USE ConstantsAssumption DEF rowVars, workerVars, apiVars, scheduleVars, passVars, faultVars
<1>1. ASSUME UNCHANGED <<rowVars, events, queue, last>>,
             \A s \in Schedules : \/ created'[s] = NoJob
                                  \/ created'[s] = created[s] /\ outcome'[s] = outcome[s]
      PROVE  Ordered'
    <2>1. MessagesAreFresh'
        BY <1>1 DEF Ordered, MessagesAreFresh
    <2>2. LastIsActive'
        BY <1>1 DEF Ordered, LastIsActive
    <2>3. EventsHaveProvenance'
        BY <1>1 DEF Ordered, EventsHaveProvenance
    <2> QED
        BY <2>1, <2>2, <2>3 DEF Ordered
<1>2. CASE SchedulerScan
    BY <1>1, <1>2 DEF SchedulerScan
<1>3. ASSUME NEW s \in Schedules, SchedulerSkip(s) \/ SchedulerBlock(s) PROVE Ordered'
    <2>1. PICK out \in DispatchOutcome : Decide(s, out, NoJob)
        BY <1>3 DEF SchedulerSkip, SchedulerBlock, DispatchOutcome
    <2>2. UNCHANGED <<rowVars, events, queue, last>>
        BY <1>3 DEF SchedulerSkip, SchedulerBlock
    <2> QED
        BY <1>1, <2>1, <2>2 DEF Decide, TypeOK
<1>4. ASSUME NEW s \in Schedules, NEW j \in Jobs, SchedulerCreate(s, j) PROVE Ordered'
    <2>1. /\ status[j] = "unused" /\ queue[j] = 0
          /\ \A i \in Jobs : status'[i] = IF i = j THEN "uncommitted" ELSE status[i]
          /\ \A i \in Jobs : origin'[i] = IF i = j THEN s ELSE origin[i]
          /\ \A i \in Jobs \ {j} : scope'[i] = scope[i]
          /\ UNCHANGED <<cancel, progress, events, last>>
        BY <1>4 DEF SchedulerCreate, InsertJob, TypeOK, Delivery, UnusedIsFresh
    <2>2. \/ Decide(s, "job_created", j) /\ queue' = [queue EXCEPT ![j] = @ + 1]
          \/ Decide(s, "queue_failed", j) /\ UNCHANGED queue
        BY <1>4 DEF SchedulerCreate, Fault, FaultOf, Orderly
    <2>3. /\ \A t \in Schedules : created'[t] = IF t = s THEN j ELSE created[t]
          /\ \A t \in Schedules \ {s} : outcome'[t] = outcome[t]
          /\ \A i \in Jobs \ {j} : queue'[i] = queue[i]
          /\ outcome'[s] = "queue_failed" => queue'[j] = 0
        BY <2>1, <2>2 DEF Decide, TypeOK
    <2>4. \A t \in Schedules : /\ created[t] # NoJob => created[t] \in Jobs \ {j}
                               /\ last[t] # NoJob => last[t] \in Jobs \ {j}
        BY <2>1 DEF Linked, CreatedOk, ScheduleLink, HasRow, NoRow, TypeOK
    <2>5. MessagesAreFresh'
        BY <2>1, <2>3, <2>4 DEF Ordered, MessagesAreFresh
    <2>6. last[s] = NoJob \/ status[last[s]] \notin Active
        BY <1>4 DEF SchedulerCreate, OverlapSkip
    <2>7. LastIsActive'
        <3>1. ASSUME NEW i \in Jobs, status'[i] \in Active, origin'[i] # NoSchedule
              PROVE  last'[origin'[i]] = i
            BY <2>1, <3>1 DEF Ordered, LastIsActive, Active
        <3>2. ASSUME NEW t \in Schedules, created'[t] # NoJob
              PROVE  last'[t] = NoJob \/ status'[last'[t]] \notin Active
            <4>1. last[t] = NoJob \/ status[last[t]] \notin Active
                BY <2>3, <2>6, <3>2 DEF Ordered, LastIsActive
            <4> QED
                BY <2>1, <2>4, <4>1
        <3> QED
            BY <3>1, <3>2 DEF LastIsActive
    <2>8. EventsHaveProvenance'
        BY <2>1, ProvenanceStable DEF Ordered
    <2> QED
        BY <2>5, <2>7, <2>8 DEF Ordered
<1>5. CASE SchedulerCommit
    <2>1. /\ \A i \in Jobs : status'[i] = IF status[i] # "uncommitted" THEN status[i]
                                         ELSE IF SendFailed(i) THEN "failed" ELSE "queued"
          /\ \A s \in Schedules : last'[s] = IF created[s] = NoJob THEN last[s] ELSE created[s]
          /\ \A s \in Schedules : created'[s] = NoJob
          /\ UNCHANGED <<scope, progress, origin, events, queue>>
        BY <1>5 DEF SchedulerCommit, EndPass
    <2>2. \A i \in Jobs : SendFailed(i) => queue[i] = 0
        BY DEF SendFailed, Ordered, MessagesAreFresh
    <2>3. MessagesAreFresh'
        BY <2>1, <2>2 DEF Ordered, MessagesAreFresh
    <2>4. LastIsActive'
        <3>1. ASSUME NEW i \in Jobs, status'[i] \in Active, origin'[i] # NoSchedule
              PROVE  last'[origin'[i]] = i
            <4>1. PICK s \in Schedules : origin'[i] = s /\ origin[i] = s
                BY <2>1, <3>1 DEF TypeOK
            <4>2. CASE status[i] = "uncommitted"
                <5>1. created[s] = i
                    BY <4>1, <4>2 DEF Linked, UncommittedIsCreated
                <5> QED
                    BY <2>1, <4>1, <5>1
            <4>3. CASE status[i] # "uncommitted"
                <5>1. status[i] \in Active
                    BY <2>1, <3>1, <4>3
                <5>2. last[s] = i
                    BY <4>1, <5>1 DEF Ordered, LastIsActive
                <5>3. created[s] = NoJob
                    BY <5>1, <5>2 DEF Ordered, LastIsActive
                <5> QED
                    BY <2>1, <4>1, <5>2, <5>3
            <4> QED
                BY <4>2, <4>3
        <3> QED
            BY <2>1, <3>1 DEF LastIsActive
    <2>5. EventsHaveProvenance'
        BY <2>1, ProvenanceStable DEF Ordered
    <2> QED
        BY <2>3, <2>4, <2>5 DEF Ordered
<1>6. CASE SchedulerRollback
    <2>1. /\ \A i \in Jobs : status'[i] = IF status[i] = "uncommitted" THEN "rolled_back" ELSE status[i]
          /\ \A s \in Schedules : created'[s] = NoJob
          /\ UNCHANGED <<scope, progress, origin, events, queue, last>>
        BY <1>6 DEF SchedulerRollback, EndPass
    <2>2. MessagesAreFresh'
        BY <2>1 DEF Ordered, MessagesAreFresh
    <2>3. LastIsActive'
        BY <2>1 DEF Ordered, LastIsActive, Active
    <2>4. EventsHaveProvenance'
        BY <2>1, ProvenanceStable DEF Ordered
    <2> QED
        BY <2>2, <2>3, <2>4 DEF Ordered
<1> QED
    BY <1>2, <1>3, <1>4, <1>5, <1>6 DEF SchedulerStep

\* No message of the job a worker has is waiting, and no transaction has created it.
LEMMA OwnIsAlone ==
    ASSUME TypeOK, Delivery, Linked, NEW w \in Workers, pc[w] # "idle"
    PROVE  queue[wjob[w]] = 0 /\ \A s \in Schedules : created[s] # NoJob => created[s] # wjob[w]
<1>1. wjob[w] \in Jobs /\ HasRow(wjob[w])
    BY DEF Delivery, Shape, WorkerHasJob
<1>2. w \in Runners(wjob[w])
    BY DEF Runners
<1>3. queue[wjob[w]] # 1
    BY <1>1, <1>2 DEF Delivery, SingleRunner
<1> QED
    BY <1>1, <1>3 DEF Delivery, SingleRunner, Linked, CreatedOk, HasRow, NoRow

\* so does a worker.
LEMMA WorkerOrdered ==
    ASSUME Orderly, TypeOK, Delivery, Record, Linked, Findings, Ordered, NEW w \in Workers,
           WorkerStep(w) \/ WorkerException(w) \/ WorkerCrash(w)
    PROVE  Ordered'
<1> USE DEF rowVars, workerVars, apiVars, scheduleVars, passVars, faultVars
\* What is left to show of a step of w on job j, of which no message is left.
<1>1. ASSUME NEW j \in Jobs, queue'[j] = 0,
             \A i \in Jobs \ {j} : status'[i] = status[i] /\ queue'[i] = queue[i],
             UNCHANGED <<scheduleVars, passVars, origin>>,
             status'[j] \in Active => status[j] \in Active,
             EventsHaveProvenance'
      PROVE  Ordered'
    <2>1. MessagesAreFresh'
        <3>1. \A i \in Jobs : queue'[i] # 0 => status'[i] \in {"queued", "uncommitted", "rolled_back"}
            BY <1>1 DEF Ordered, MessagesAreFresh
        <3>2. ASSUME NEW s \in Schedules, created[s] # NoJob, outcome[s] = "queue_failed"
              PROVE  queue'[created[s]] = 0
            <4>1. created[s] \in Jobs /\ queue[created[s]] = 0
                BY <3>2 DEF Ordered, MessagesAreFresh, TypeOK
            <4> QED
                BY <1>1, <4>1
        <3> QED
            BY <1>1, <3>1, <3>2 DEF MessagesAreFresh
    <2>2. LastIsActive'
        <3>1. \A i \in Jobs : status'[i] \in Active => status[i] \in Active
            BY <1>1
        <3>2. ASSUME NEW s \in Schedules, created[s] # NoJob, last[s] # NoJob
              PROVE  status'[last[s]] \notin Active
            <4>1. last[s] \in Jobs /\ status[last[s]] \notin Active
                BY <3>2 DEF Ordered, LastIsActive, TypeOK
            <4> QED
                BY <3>1, <4>1
        <3> QED
            BY <1>1, <3>1, <3>2 DEF Ordered, LastIsActive
    <2> QED
        BY <1>1, <2>1, <2>2 DEF Ordered
<1>2. ASSUME NEW j \in Jobs, ReceiveMissing(w, j) PROVE Ordered'
    <2>1. queue[j] = 1
        BY <1>2 DEF ReceiveMissing, Take, TypeOK, Delivery, SingleRunner
    <2> QED
        BY <1>1, <1>2, <2>1, ProvenanceStable DEF ReceiveMissing, Take, TypeOK, Ordered
<1>3. ASSUME NEW j \in Jobs, ReceiveCancelled(w, j) \/ ReceiveStart(w, j) PROVE Ordered'
    <2>1. Take(j) /\ HasRow(j)
        BY <1>3 DEF ReceiveCancelled, ReceiveStart
    <2>2. queue[j] = 1
        BY <2>1 DEF Take, TypeOK, Delivery, SingleRunner
    <2>3. status[j] = "queued"
        BY <2>1, <2>2 DEF Ordered, MessagesAreFresh, HasRow, NoRow
    <2>4. \A i \in Jobs : queue'[i] = IF i = j THEN 0 ELSE queue[i]
        BY <2>1, <2>2 DEF Take, TypeOK
    <2>5. /\ \A i \in Jobs \ {j} : status'[i] = status[i]
          /\ UNCHANGED <<scope, progress, events, scheduleVars, passVars, origin>>
        BY <1>3 DEF ReceiveCancelled, ReceiveStart, TypeOK
    <2>6. EventsHaveProvenance'
        BY <2>3, <2>5, ProvenanceStable DEF Ordered
    <2> QED
        BY <1>1, <2>3, <2>4, <2>5, <2>6 DEF Active
<1>4. ASSUME NEW s \in Sources, SourceStart(w, s) PROVE Ordered'
    <2>1. pc[w] = "loop"
        BY <1>4 DEF SourceStart
    <2>2. PICK j \in Jobs : wjob[w] = j /\ status[j] = "running"
        BY <2>1, OwnJob
    <2>3. queue[j] = 0
        BY <2>1, <2>2, OwnIsAlone
    <2>4. EventsHaveProvenance'
        BY <1>4, <2>2, ProvenanceStable DEF SourceStart, TypeOK, Ordered
    <2> QED
        BY <1>1, <1>4, <2>2, <2>3, <2>4 DEF SourceStart, TypeOK
<1>5. ASSUME NEW result \in RunStatus, NEW hasFindings \in BOOLEAN, SourceReport(w, result, hasFindings)
      PROVE  Ordered'
    <2>1. pc[w] = "source"
        BY <1>5 DEF SourceReport
    <2>2. PICK j \in Jobs : wjob[w] = j /\ status[j] = "running"
        BY <2>1, OwnJob
    <2>3. queue[j] = 0
        BY <2>1, <2>2, OwnIsAlone
    <2>4. EventsHaveProvenance'
        BY <1>5, <2>2, ProvenanceStable DEF SourceReport, TypeOK, Ordered
    <2> QED
        BY <1>1, <1>5, <2>2, <2>3, <2>4 DEF SourceReport, TypeOK
<1>6. ASSUME \/ FinalRead(w) \/ Acknowledge(w) \/ WorkerException(w)
             \/ \E s \in Sources : SourceSkip(w, s)
      PROVE  Ordered'
    <2>1. UNCHANGED <<rowVars, events, queue, scheduleVars, passVars>>
        BY <1>6 DEF FinalRead, Acknowledge, WorkerException, SourceSkip
    <2> QED
        BY <2>1 DEF Ordered, MessagesAreFresh, LastIsActive, EventsHaveProvenance
<1>7. CASE FinalCommit(w)
    <2>1. pc[w] = "final"
        BY <1>7 DEF FinalCommit
    <2>2. PICK j \in Jobs : wjob[w] = j /\ status[j] = "running"
        BY <2>1, OwnJob
    <2>3. queue[j] = 0
        BY <2>1, <2>2, OwnIsAlone
    <2>4. /\ \A i \in Jobs \ {j} : status'[i] = status[i]
          /\ UNCHANGED <<scope, progress, events, queue, scheduleVars, passVars, origin>>
        BY <1>7, <2>2 DEF FinalCommit, TypeOK
    <2>5. EventsHaveProvenance'
        BY <2>2, <2>4, ProvenanceStable DEF Ordered
    <2> QED
        BY <1>1, <2>2, <2>3, <2>4, <2>5 DEF Active
<1>8. CASE PersistEvents(w)
    <2>1. pc[w] = "persist"
        BY <1>8 DEF PersistEvents
    <2>2. PICK j \in Jobs : wjob[w] = j
        BY <2>1, OwnJob
    <2>3. queue[j] = 0
        BY <2>1, <2>2, OwnIsAlone
    <2>4. /\ \A i \in Jobs \ {j} : events'[i] = events[i]
          /\ events'[j] = events[j] \cup found[w]
          /\ UNCHANGED <<rowVars, queue, scheduleVars, passVars>>
        BY <1>8, <2>2 DEF PersistEvents, TypeOK
    <2>5. \A s \in found[w] : s \in scope[j] /\ progress[j][s] = "succeeded"
        BY <2>2 DEF Findings, FindingsOk, FoundOk
    <2>6. ASSUME found[w] # {} PROVE status[j] \in {"succeeded", "partial", "needs_user_action"}
        <3>1. "succeeded" \in Got(j)
            BY <2>5, <2>6 DEF Got
        <3>2. /\ status[j] \in Terminal \ {"cancelled"}
              /\ Explained(j, status[j])
            BY <2>1, <2>2, <2>6 DEF Findings, FindingsOk, PersistOk
        <3> QED
            BY <3>1, <3>2 DEF Explained, Supported, Terminal
    <2>7. EventsHaveProvenance'
        BY <2>4, <2>5, <2>6 DEF Ordered, EventsHaveProvenance
    <2> QED
        BY <1>1, <2>3, <2>4, <2>7
<1>9. ~WorkerCrash(w)
    BY DEF WorkerCrash, Fault, FaultOf, Orderly
<1> QED
    BY <1>2, <1>3, <1>4, <1>5, <1>6, <1>7, <1>8, <1>9 DEF WorkerStep

-----------------------------------------------------------------------------
(* The inductive invariant.                                                 *)

\* The initial state satisfies the invariant.
LEMMA InitIInv == Init => IInv
<1> SUFFICES ASSUME Init PROVE IInv
    OBVIOUS
<1>1. TypeOK
    BY InitType
<1>2. Delivery
    BY ConstantsAssumption
    DEF Init, Delivery, Shape, WorkerHasJob, SingleRunner, Runners, SendingIsFresh, UnusedIsFresh
<1>3. Record
    BY DEF Init, Record, RowsOk, SchedulesOk, RunOk, RunIsVisible, BehindIsClosed, FinalOk,
           JobExplained, Terminal
<1>4. Linked
    BY DEF Init, Linked, ScheduleLink, CreatedOk, UncommittedIsCreated, CancellingHasRow
<1>5. Findings
    BY DEF Init, Findings, FindingsOk, RunScope, FoundOk, PersistOk
<1> QED
    BY <1>1, <1>2, <1>3, <1>4, <1>5 DEF IInv

\* Every step keeps it, whatever fails.
LEMMA NextIInv == IInv /\ [Next]_vars => IInv'
<1> SUFFICES ASSUME IInv, [Next]_vars PROVE IInv'
    OBVIOUS
<1> USE DEF IInv
<1>1. CASE Rest \/ Environment
    BY <1>1, RestType, RestDelivery, RestRecord, RestLinked, RestFindings
<1>2. CASE SchedulerStep \/ SchedulerRollback
    BY <1>2, SchedulerType, SchedulerDelivery, SchedulerRecord, SchedulerLinked, SchedulerFindings
<1>3. ASSUME NEW w \in Workers, WorkerStep(w) \/ WorkerException(w) \/ WorkerCrash(w)
      PROVE  IInv'
    BY <1>3, WorkerTypeLemma, WorkerDelivery, WorkerRecord, WorkerLinked, WorkerFindings
    DEF Delivery, Shape
<1>4. CASE UNCHANGED vars
    <2> USE <1>4 DEF vars, rowVars, workerVars, apiVars, scheduleVars, passVars, faultVars
    <2>1. TypeOK'
        BY DEF TypeOK
    <2>2. Delivery'
        BY DEF Delivery, Shape, WorkerHasJob, HasRow, SingleRunner, Runners, SendingIsFresh,
               UnusedIsFresh
    <2>3. RowsOk' /\ SchedulesOk'
        BY DEF Record, RowsOk, SchedulesOk
    <2>4. (\A w \in Workers : RunOk(w)') /\ (\A j \in Jobs : JobExplained(j)')
        BY OutsideStep DEF GoneStays
    <2>5. Linked'
        BY DEF Linked, ScheduleLink, CreatedOk, UncommittedIsCreated, CancellingHasRow, HasRow
    <2>6. Findings'
        BY OutsideFindings DEF GoneStays
    <2> QED
        BY <2>1, <2>2, <2>3, <2>4, <2>5, <2>6 DEF Record
<1> QED
    BY <1>1, <1>2, <1>3, <1>4 DEF Next

\* The initial state is in order.
LEMMA InitOrdered == Init => Ordered
BY ConstantsAssumption
DEF Init, Ordered, MessagesAreFresh, LastIsActive, EventsHaveProvenance, Active

\* Every step keeps the order where no send is cut short.
LEMMA NextOrdered ==
    ASSUME Orderly
    PROVE  IInv /\ Ordered /\ [Next]_vars => Ordered'
<1> SUFFICES ASSUME IInv, Ordered, [Next]_vars PROVE Ordered'
    OBVIOUS
<1> USE DEF IInv
<1>1. CASE Rest \/ Environment
    BY <1>1, RestOrdered
<1>2. CASE SchedulerStep \/ SchedulerRollback
    BY <1>2, SchedulerOrdered
<1>3. ASSUME NEW w \in Workers, WorkerStep(w) \/ WorkerException(w) \/ WorkerCrash(w)
      PROVE  Ordered'
    BY <1>3, WorkerOrdered
<1>4. CASE UNCHANGED vars
    BY <1>4 DEF vars, rowVars, workerVars, apiVars, scheduleVars, passVars,
                Ordered, MessagesAreFresh, LastIsActive, EventsHaveProvenance
<1> QED
    BY <1>1, <1>2, <1>3, <1>4 DEF Next

-----------------------------------------------------------------------------
(* Refinement: how a step of the handlers, the scheduler and the workers looks *)
(* to somebody who watches the rows.                                           *)

\* What the refinement mapping makes of the status of job j.
Shown(j) == IF HasRow(j) THEN status[j] ELSE "none"

\* A job that is created appears in the abstract life.
LEMMA AppearMaps ==
    ASSUME NEW new \in SUBSET Jobs,
           \A i \in new : Shown(i) = "none" /\ Shown(i)' \in {"queued", "failed"},
           \A i \in Jobs \ new : Shown(i)' = Shown(i),
           UNCHANGED cancel
    PROVE  Lifecycle!Appear
<1> DEFINE first == [i \in new |-> Shown(i)']
           before == [i \in Jobs |-> Shown(i)]
<1>1. new \in SUBSET {i \in Jobs : before[i] = "none"}
    OBVIOUS
<1>2. first \in [new -> {"queued", "failed"}]
    OBVIOUS
<1>3. [i \in Jobs |-> Shown(i)]' = [i \in Jobs |-> IF i \in new THEN first[i] ELSE before[i]]
    OBVIOUS
<1> QED
    BY <1>1, <1>2, <1>3 DEF Lifecycle!Appear, Shown

\* A job whose status changes takes one abstract step.
LEMMA MoveMaps ==
    ASSUME NEW j \in Jobs, NEW from, NEW to, Shown(j) = from, Shown(j)' = to,
           \A i \in Jobs \ {j} : Shown(i)' = Shown(i),
           UNCHANGED cancel
    PROVE  Lifecycle!Move(j, from, to)
<1> DEFINE before == [i \in Jobs |-> Shown(i)]
<1>1. before[j] = from
    OBVIOUS
<1>2. [i \in Jobs |-> Shown(i)]' = [before EXCEPT ![j] = to]
    OBVIOUS
<1> QED
    BY <1>1, <1>2 DEF Lifecycle!Move, Shown

\* A step that changes no job's status is no abstract step.
LEMMA StutterMaps ==
    ASSUME UNCHANGED cancel, \A i \in Jobs : Shown(i)' = Shown(i)
    PROVE  UNCHANGED Lifecycle!lifecycle
<1>1. [i \in Jobs |-> Shown(i)]' = [i \in Jobs |-> Shown(i)]
    OBVIOUS
<1> QED
    BY <1>1 DEF Lifecycle!lifecycle, Shown

\* What the requests do, as the abstract life sees it;
LEMMA RestMaps ==
    ASSUME TypeOK, Delivery, Linked, Rest \/ Environment
    PROVE  [Lifecycle!Next]_(Lifecycle!lifecycle)
<1> USE DEF rowVars, workerVars, apiVars, scheduleVars, passVars, faultVars
<1>1. ASSUME NEW j \in Jobs, NEW srcs \in SUBSET Sources, CreateJob(j, srcs) PROVE Lifecycle!Appear
    <2>1. /\ status[j] = "unused" /\ UNCHANGED cancel
          /\ \A i \in Jobs : status'[i] = IF i = j THEN "queued" ELSE status[i]
        BY <1>1 DEF CreateJob, InsertJob, TypeOK
    <2>2. /\ \A i \in {j} : Shown(i) = "none" /\ Shown(i)' \in {"queued", "failed"}
          /\ \A i \in Jobs \ {j} : Shown(i)' = Shown(i)
        BY <2>1 DEF Shown, HasRow, NoRow
    <2> QED
        BY <2>1, <2>2, AppearMaps
<1>2. ASSUME NEW j \in Jobs, SendJobFails(j) PROVE Lifecycle!Move(j, "queued", "failed")
    <2>1. /\ status[j] = "queued" /\ UNCHANGED cancel
          /\ \A i \in Jobs : status'[i] = IF i = j THEN "failed" ELSE status[i]
        BY <1>2 DEF SendJobFails, TypeOK, Delivery, SendingIsFresh
    <2>2. /\ Shown(j) = "queued" /\ Shown(j)' = "failed"
          /\ \A i \in Jobs \ {j} : Shown(i)' = Shown(i)
        BY <2>1 DEF Shown, HasRow, NoRow
    <2> QED
        BY <2>1, <2>2, MoveMaps
<1>3. ASSUME NEW j \in Jobs, CancelCommit(j) PROVE Lifecycle!RequestCancel(j)
    <2>1. Shown(j) # "none"
        BY <1>3 DEF CancelCommit, Linked, CancellingHasRow, Shown, TypeOK, HasRow, NoRow, JobStatus,
                    Active, Terminal
    <2>2. [i \in Jobs |-> Shown(i)]' = [i \in Jobs |-> Shown(i)]
        BY <1>3 DEF CancelCommit, Shown, HasRow
    <2>3. cancel' = [cancel EXCEPT ![j] = TRUE]
        BY <1>3 DEF CancelCommit
    <2> QED
        BY <2>1, <2>2, <2>3 DEF Lifecycle!RequestCancel, Shown
<1>4. ASSUME UNCHANGED <<status, cancel>> PROVE UNCHANGED Lifecycle!lifecycle
    BY <1>4, StutterMaps DEF Shown, HasRow
<1>5. \/ \E j \in Jobs, srcs \in SUBSET Sources : CreateJob(j, srcs)
      \/ \E j \in Jobs : SendJobFails(j) \/ CancelCommit(j)
      \/ UNCHANGED <<status, cancel>>
    BY DEF Rest, Environment, SendJob, ApiCrash, CancelRead, CreateSchedule, PatchSchedule,
           PolicyChange, DeleteSource, BecomeDue
<1> QED
    BY <1>1, <1>2, <1>3, <1>4, <1>5 DEF Lifecycle!Next

\* what the scheduler does;
LEMMA SchedulerMaps ==
    ASSUME TypeOK, SchedulerStep \/ SchedulerRollback
    PROVE  [Lifecycle!Next]_(Lifecycle!lifecycle)
<1> USE DEF rowVars, workerVars, apiVars, scheduleVars, passVars, faultVars
<1>1. CASE SchedulerCommit
    <2> DEFINE new == {i \in Jobs : status[i] = "uncommitted"}
    <2>1. /\ \A i \in new : status'[i] \in {"failed", "queued"}
          /\ \A i \in Jobs \ new : status'[i] = status[i]
          /\ UNCHANGED cancel
        BY <1>1 DEF SchedulerCommit
    <2>2. /\ \A i \in new : Shown(i) = "none" /\ Shown(i)' \in {"queued", "failed"}
          /\ \A i \in Jobs \ new : Shown(i)' = Shown(i)
        BY <2>1 DEF Shown, HasRow, NoRow
    <2> QED
        BY <2>1, <2>2, AppearMaps DEF Lifecycle!Next
<1>2. ASSUME NEW s \in Schedules, NEW j \in Jobs, SchedulerCreate(s, j)
      PROVE  UNCHANGED Lifecycle!lifecycle
    <2>1. /\ status[j] = "unused" /\ UNCHANGED cancel
          /\ \A i \in Jobs : status'[i] = IF i = j THEN "uncommitted" ELSE status[i]
        BY <1>2 DEF SchedulerCreate, InsertJob, TypeOK
    <2> QED
        BY <2>1, StutterMaps DEF Shown, HasRow, NoRow
<1>3. CASE SchedulerRollback
    <2>1. /\ UNCHANGED cancel
          /\ \A i \in Jobs : status'[i] = IF status[i] = "uncommitted" THEN "rolled_back" ELSE status[i]
        BY <1>3 DEF SchedulerRollback
    <2>2. \A i \in Jobs : Shown(i)' = Shown(i)
        BY <2>1 DEF Shown, HasRow, NoRow
    <2> QED
        BY <2>1, <2>2, StutterMaps
<1>4. ASSUME UNCHANGED <<status, cancel>> PROVE UNCHANGED Lifecycle!lifecycle
    BY <1>4, StutterMaps DEF Shown, HasRow
<1> QED
    BY <1>1, <1>2, <1>3, <1>4 DEF SchedulerStep, SchedulerScan, SchedulerSkip, SchedulerBlock

\* and what a worker does.
LEMMA WorkerMaps ==
    ASSUME TypeOK, Delivery, Record, Ordered, NEW w \in Workers,
           WorkerStep(w) \/ WorkerException(w) \/ WorkerCrash(w)
    PROVE  [Lifecycle!Next]_(Lifecycle!lifecycle)
<1> USE DEF rowVars, workerVars, apiVars, scheduleVars, passVars, faultVars
\* A worker takes the message of a job nobody has started.
<1>1. ASSUME NEW j \in Jobs, Take(j), HasRow(j) PROVE status[j] = "queued"
    BY <1>1 DEF Take, TypeOK, Ordered, MessagesAreFresh, HasRow, NoRow
<1>2. ASSUME NEW j \in Jobs, ReceiveCancelled(w, j)
      PROVE  cancel[j] /\ Lifecycle!Move(j, "queued", "cancelled")
    <2>1. /\ status[j] = "queued" /\ cancel[j] /\ UNCHANGED cancel
          /\ \A i \in Jobs : status'[i] = IF i = j THEN "cancelled" ELSE status[i]
        BY <1>1, <1>2 DEF ReceiveCancelled, TypeOK
    <2>2. /\ Shown(j) = "queued" /\ Shown(j)' = "cancelled"
          /\ \A i \in Jobs \ {j} : Shown(i)' = Shown(i)
        BY <2>1 DEF Shown, HasRow, NoRow
    <2> QED
        BY <2>1, <2>2, MoveMaps
<1>3. ASSUME NEW j \in Jobs, ReceiveStart(w, j) PROVE Lifecycle!Move(j, "queued", "running")
    <2>1. /\ status[j] = "queued" /\ UNCHANGED cancel
          /\ \A i \in Jobs : status'[i] = IF i = j THEN "running" ELSE status[i]
        BY <1>1, <1>3 DEF ReceiveStart, TypeOK
    <2>2. /\ Shown(j) = "queued" /\ Shown(j)' = "running"
          /\ \A i \in Jobs \ {j} : Shown(i)' = Shown(i)
        BY <2>1 DEF Shown, HasRow, NoRow
    <2> QED
        BY <2>1, <2>2, MoveMaps
<1>4. CASE FinalCommit(w)
    <2>1. pc[w] = "final"
        BY <1>4 DEF FinalCommit
    <2>2. PICK j \in Jobs : wjob[w] = j /\ status[j] = "running"
        BY <2>1, OwnJob
    <2>3. /\ \A i \in Jobs : status'[i] = IF i = j THEN final[w] ELSE status[i]
          /\ UNCHANGED cancel
        BY <1>4, <2>2 DEF FinalCommit, TypeOK
    <2>4. CASE final[w] = "running"
        BY <2>2, <2>3, <2>4, StutterMaps DEF Shown, HasRow
    <2>5. CASE final[w] # "running"
        <3>1. PICK end \in Terminal : end = final[w] /\ (end = "cancelled" => cancel[j])
            BY <2>1, <2>2, <2>5 DEF Record, RunOk, FinalOk, Explained
        <3>2. /\ Shown(j) = "running" /\ Shown(j)' = end
              /\ \A i \in Jobs \ {j} : Shown(i)' = Shown(i)
            BY <2>2, <2>3, <3>1 DEF Shown, HasRow, NoRow, Terminal
        <3>3. Lifecycle!Move(j, "running", end)
            BY <2>3, <3>2, MoveMaps
        <3> QED
            BY <3>1, <3>3 DEF Lifecycle!Next, Lifecycle!TERMINAL, Terminal
    <2> QED
        BY <2>4, <2>5
<1>5. ASSUME UNCHANGED <<status, cancel>> PROVE UNCHANGED Lifecycle!lifecycle
    BY <1>5, StutterMaps DEF Shown, HasRow
<1>6. \/ \E j \in Jobs : ReceiveCancelled(w, j) \/ ReceiveStart(w, j)
      \/ FinalCommit(w)
      \/ UNCHANGED <<status, cancel>>
    BY DEF WorkerStep, WorkerException, WorkerCrash, ReceiveMissing, SourceSkip, SourceStart, SourceReport,
           FinalRead, PersistEvents, Acknowledge
<1> QED
    BY <1>2, <1>3, <1>4, <1>5, <1>6 DEF Lifecycle!Next

\* The initial states are the abstract one's.
LEMMA InitMaps == Init => Lifecycle!Init
BY DEF Init, Lifecycle!Init, HasRow, NoRow

\* Every step is an abstract step or none.
LEMMA NextMaps == IInv /\ Ordered /\ [Next]_vars => [Lifecycle!Next]_(Lifecycle!lifecycle)
<1> SUFFICES ASSUME IInv, Ordered, [Next]_vars PROVE [Lifecycle!Next]_(Lifecycle!lifecycle)
    OBVIOUS
<1> USE DEF IInv
<1>1. CASE Rest \/ Environment
    BY <1>1, RestMaps
<1>2. CASE SchedulerStep \/ SchedulerRollback
    BY <1>2, SchedulerMaps
<1>3. ASSUME NEW w \in Workers, WorkerStep(w) \/ WorkerException(w) \/ WorkerCrash(w)
      PROVE  [Lifecycle!Next]_(Lifecycle!lifecycle)
    BY <1>3, WorkerMaps
<1>4. CASE UNCHANGED vars
    BY <1>4, StutterMaps DEF vars, rowVars, Shown, HasRow
<1> QED
    BY <1>1, <1>2, <1>3, <1>4 DEF Next

-----------------------------------------------------------------------------
(* Results. *)

\* The inductive invariant holds in every behaviour of run_discovery_job, its
\* handlers and its scheduler.
THEOREM Invariance == Spec => []IInv
<1>1. Init => IInv
    BY InitIInv
<1>2. IInv /\ [Next]_vars => IInv'
    BY NextIInv
<1> QED
    BY <1>1, <1>2, PTL DEF Spec

\* Every column and every program counter keeps to its values; in particular
\* no message count becomes negative.
THEOREM TypeCorrect == Spec => []TypeOK
<1>1. IInv => TypeOK
    BY DEF IInv
<1> QED
    BY <1>1, Invariance, PTL

\* A job never has two workers, or a worker and a message, however many
\* sends fail or raise after the fact and however many workers die.
THEOREM OneRunnerPerJob == Spec => []SingleRunner
<1>1. IInv => SingleRunner
    BY DEF IInv, Delivery
<1> QED
    BY <1>1, Invariance, PTL

\* The status of every finished job is one its own row explains, although
\* progress and status are committed by different transactions of a run that
\* may be repeated, cancelled halfway or lose its sources' rows: the only sources
\* a finished job leaves open are such, and one source with an outcome remains.
THEOREM OutcomeIsExplained == Spec => []OutcomeExplained
<1>1. IInv => OutcomeExplained
    BY DEF IInv, Record, JobExplained, OutcomeExplained
<1> QED
    BY <1>1, Invariance, PTL

\* run_discovery_job is answered "running" by aggregate_job_status, and commits it as
\* its last word on the job, only when no source of the job has a row any more: else
\* its loop has closed a source or seen a cancel request.
THEOREM FinalIsTerminal == Spec => []FinalStatusIsTerminal
<1>1. IInv => FinalStatusIsTerminal
    BY DEF IInv, Record, RunOk, FinalOk, PassedOver, FinalStatusIsTerminal
<1> QED
    BY <1>1, Invariance, PTL

\* The job a schedule points to has a row and is the schedule's own, whatever fails
\* between the message of its job and the commit of the scheduler's pass.
THEOREM LinksAreTrue == Spec => []ScheduleLink
<1>1. IInv => ScheduleLink
    BY DEF IInv, Linked
<1> QED
    BY <1>1, Invariance, PTL

\* As long as no message of a started job is delivered, the messages that wait are of
\* jobs nobody has started, and a schedule's active job is the one it points to.
THEOREM OrderedInvariance == ASSUME Orderly PROVE Spec => []Ordered
<1>1. Init => Ordered
    BY InitOrdered
<1>2. IInv /\ Ordered /\ [Next]_vars => Ordered'
    BY NextOrdered
<1> QED
    BY <1>1, <1>2, Invariance, PTL DEF Spec

\* skip-while-running: passes that read an uncommitted link, failing sends, rollbacks
\* and workers' exceptions never give a schedule two active jobs.
THEOREM SchedulesDoNotOverlap == ASSUME Orderly PROVE Spec => []NoOverlap
<1>1. Ordered => NoOverlap
    BY DEF Ordered, LastIsActive, NoOverlap
<1> QED
    BY <1>1, OrderedInvariance, PTL

\* Persisted events are of jobs that ended well enough, and of their sources that
\* succeeded, although they are persisted after the status, in a transaction of its own.
THEOREM EventsAreProvenanced == ASSUME Orderly PROVE Spec => []EventsHaveProvenance
<1>1. Ordered => EventsHaveProvenance
    BY DEF Ordered
<1> QED
    BY <1>1, OrderedInvariance, PTL

\* The rows go through the lifecycle of the domain layer: every step of a handler, the
\* scheduler or a worker is one step of it, or none that a reader of the rows notices.
THEOREM LifecycleRefinement == ASSUME Orderly PROVE Spec => ImplementsLifecycle
<1>1. Init => Lifecycle!Init
    BY InitMaps
<1>2. IInv /\ Ordered /\ [Next]_vars => [Lifecycle!Next]_(Lifecycle!lifecycle)
    BY NextMaps
<1> QED
    BY <1>1, <1>2, Invariance, OrderedInvariance, PTL DEF Spec, ImplementsLifecycle, Lifecycle!Spec

=============================================================================
