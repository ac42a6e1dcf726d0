---------------------------- MODULE JobLifecycle ----------------------------
(***************************************************************************)
(* What a discovery job promises to whoever watches its row: it is queued, *)
(* perhaps runs, and ends exactly once.  The states and the rules on them  *)
(* are DiscoveryJobStatus, TERMINAL and can_cancel of the domain layer;    *)
(* nothing here knows of queues, workers, schedules or transactions.       *)
(***************************************************************************)
CONSTANTS Jobs, NoStatus

VARIABLES status, cancel

lifecycle == <<status, cancel>>

TERMINAL == {"succeeded", "failed", "partial", "cancelled", "needs_user_action"}

DiscoveryJobStatus == {"queued", "running"} \cup TERMINAL

Init ==
    /\ status = [j \in Jobs |-> NoStatus]
    /\ cancel = [j \in Jobs |-> FALSE]

Move(j, from, to) ==
    /\ status[j] = from
    /\ status' = [status EXCEPT ![j] = to]
    /\ UNCHANGED cancel

\* can_cancel holds of queued and running jobs; a request that was read as
\* acceptable may be recorded after the job has ended, and changes nothing.
RequestCancel(j) ==
    /\ status[j] # NoStatus
    /\ cancel' = [cancel EXCEPT ![j] = TRUE]
    /\ UNCHANGED status

\* The rows of one scheduler pass appear together.
Appear ==
    /\ \E new \in SUBSET {j \in Jobs : status[j] = NoStatus} :
          \E first \in [new -> {"queued", "failed"}] :
              status' = [j \in Jobs |-> IF j \in new THEN first[j] ELSE status[j]]
    /\ UNCHANGED cancel

Next ==
    \/ Appear
    \/ \E j \in Jobs :
          \/ Move(j, "queued", "failed")
          \/ Move(j, "queued", "running")
          \/ cancel[j] /\ Move(j, "queued", "cancelled")
          \/ \E end \in TERMINAL :
                /\ end = "cancelled" => cancel[j]
                /\ Move(j, "running", end)
          \/ RequestCancel(j)

Spec == Init /\ [][Next]_lifecycle

=============================================================================
