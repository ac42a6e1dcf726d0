------------------------------ MODULE MCOperations ------------------------------
(* What runs the platform and watches over it.  The components share nothing *)
(* but the form of a request, so an instance of each is checked on its own:  *)
(* part says which one runs.                                                 *)
EXTENDS Webhooks, ConnectorHealth, Alerts, Notifications, Runtime, MetricsExport,
        DataDeletion, TLC

\* What an hour of a connector may leave.
MCBatches == {[ok |-> 4, failed |-> 0, captcha |-> 0], [ok |-> 4, failed |-> 1, captcha |-> 0],
              [ok |-> 0, failed |-> 1, captcha |-> 0], [ok |-> 5, failed |-> 0, captcha |-> 1],
              [ok |-> 0, failed |-> 0, captcha |-> 1]}

VARIABLE part

Parts == {"webhooks", "health", "alerts", "notifications", "runtime", "retention", "export",
          "deletion"}

operationsVars ==
    <<part, vars, healthVars, alertVars, notificationVars, runtimeVars, exportVars,
      deletionVars>>

OperationsInit ==
    /\ part \in Parts
    /\ Init
    /\ HealthInit
    /\ AlertsInit
    /\ NotificationsInit
    /\ RuntimeInit
    /\ ExportInit
    /\ DeletionInit

-----------------------------------------------------------------------------
(* Bounds. *)

Working == {h \in Handlers : req[h] # Idle}

\* Two requests meet on one rule.
AlertsBound == Cardinality(Working) <= 1 \/ \A r \in AlertRules \ SystemRules : rule[r] = "absent"

\* One snapshot, which is verified only when it is fresh, and no trial restore.
RuntimeBound ==
    /\ Len(snapshots) <= 1
    /\ runs = {}
    /\ \A i \in DOMAIN snapshots :
           \/ snapshots[i].status = "recorded"
           \/ snapshots[i].status = "failed_restore" /\ snapshots[i].age = "fresh"

\* A PUT names the scrape or the collector; two of them meet on the scrape, before
\* anything was exported, and nothing is after they have mixed.
ExportBound ==
    LET puts == {h \in Handlers : req[h].op \in {"put", "put_loaded"}} IN
    /\ \A h \in puts : req[h].op = "put" => req[h].named \in {{"prometheus"}, {"otel"}}
    /\ Cardinality(puts) > 1 => \A h \in puts : ~req[h].policy.endpoint
    /\ mixed \/ Cardinality(puts) > 1 => exported = DefaultPolicy.status

\* Two updates meet on one type, before anything was mailed, two deliveries do not
\* meet, and nothing does once a notification is in the inbox.
NotificationsBound ==
    LET updates == {h \in Handlers : req[h].op \in {"update", "update_looked"}}
        delivering == {h \in Handlers : req[h].op \in {"deliver", "deliver_seeds"}}
    IN  /\ Cardinality(updates) > 1 =>
               /\ \A g, h \in updates : req[g].type = req[h].type
               /\ mailed = {}
        /\ Cardinality(delivering) <= 1
        /\ Cardinality(Working) > 1 => inbox = <<>>

Within ==
    /\ part = "alerts" => AlertsBound
    /\ part = "export" => ExportBound
    /\ part = "notifications" => NotificationsBound
    /\ part = "runtime" => RuntimeBound

-----------------------------------------------------------------------------
\* All components but p rest, and p stays within its bounds.
Alone(p) ==
    /\ UNCHANGED part
    /\ IF p = "webhooks" THEN UNCHANGED requestVars ELSE UNCHANGED vars
    /\ IF p = "health" THEN TRUE ELSE UNCHANGED <<hour, tally, snapshotRows, tripped>>
    /\ IF p = "alerts" THEN TRUE ELSE UNCHANGED <<rule, cooldown, alerts, suppressed, overlapped>>
    /\ IF p = "notifications" THEN TRUE ELSE UNCHANGED <<preference, inbox, mailed>>
    /\ IF p \in {"runtime", "retention"} THEN TRUE
       ELSE UNCHANGED <<cutoverIdle, ready, backupVars>>
    /\ IF p = "export" THEN TRUE ELSE UNCHANGED <<exportRow, exportHistory>>
    /\ IF p = "deletion" THEN TRUE
       ELSE UNCHANGED <<reachable, erased, deletions, rejected, doubly>>
    /\ Within'

OperationsNext ==
    \/ part = "webhooks" /\ Next /\ Alone("webhooks")
    \/ part = "health" /\ HealthNext /\ Alone("health")
    \/ part = "alerts" /\ AlertsNext /\ Alone("alerts")
    \/ part = "notifications" /\ NotificationsNext /\ Alone("notifications")
    \/ part = "runtime" /\ RuntimeNext /\ Alone("runtime")
    \/ part = "retention" /\ RetentionNext /\ Alone("retention")
    \/ part = "export" /\ ExportNext /\ Alone("export")
    \/ part = "deletion" /\ DeletionNext /\ Alone("deletion")

OperationsSpec == OperationsInit /\ [][OperationsNext]_operationsVars

\* After a race the properties claim nothing: such a state is not left.
BeforeRace == ~overlapped /\ ~crossing /\ ~unseen /\ ~doubly

\* Ids and requests are interchangeable; the deliveries and the organizations are of
\* different components and share their permutations.  Used without liveness.
Symmetry == Permutations(Deliveries) \cup Permutations(Keys) \cup Permutations(Handlers)

\* Every variable of the component that runs has its values.
OperationsTypeOK ==
    CASE part = "webhooks" -> TypeOK
      [] part = "health" -> HealthTypeOK
      [] part = "alerts" -> AlertsTypeOK
      [] part = "notifications" -> NotificationsTypeOK
      [] part \in {"runtime", "retention"} -> RuntimeTypeOK
      [] part = "export" -> ExportTypeOK
      [] part = "deletion" -> DeletionTypeOK

=============================================================================
