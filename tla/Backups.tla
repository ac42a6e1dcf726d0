-------------------------------- MODULE Backups --------------------------------
(***************************************************************************)
(* Backup snapshots, the runs that restore them and the retention policy   *)
(* that prunes them (BackupService, BackupRestoreService).  A snapshot is  *)
(* the row an operator records after the copy; its file is not modelled.   *)
(***************************************************************************)
EXTENDS Requests, Naturals, SequencesExt

CONSTANT MaxSnapshots       \* bound: snapshots at a time

ASSUME BackupsAssumption == MaxSnapshots \in Nat

VARIABLES
    snapshots,     \* backup_snapshots, oldest first: age and verification
    runs,          \* backup_restore_runs: the kinds and outcomes there are
    retention,     \* the organization's retention policy
    unseen         \* history: a policy was written that another had changed

backupVars == <<snapshots, runs, retention, unseen>>

\* No other request is between its first write and its commit.
RuntimeLockFree(h) == \A x \in Handlers \ {h} : req[x] # Idle => ~req[x].writes

Verifications == {"recorded", "verified_restore", "failed_restore"}

BackupsInit ==
    /\ snapshots = <<>>
    /\ runs = {}
    /\ retention = [prune |-> FALSE, accepted |-> FALSE]
    /\ unseen = FALSE

-----------------------------------------------------------------------------
(* Snapshots. *)

RecordSnapshot ==
    /\ Len(snapshots) < MaxSnapshots
    /\ snapshots' = Append(snapshots, [age |-> "fresh", status |-> "recorded"])
    /\ UNCHANGED <<runs, retention, unseen>>

\* Any verification may follow any.
UpdateVerification(i, status) ==
    /\ snapshots' = [snapshots EXCEPT ![i].status = status]
    /\ UNCHANGED <<runs, retention, unseen>>

\* Time passes: a snapshot is older than the gate accepts, and those before it.
SnapshotAges(i) ==
    /\ snapshots' = [k \in DOMAIN snapshots |->
                        IF k <= i THEN [snapshots[k] EXCEPT !.age = "old"] ELSE snapshots[k]]
    /\ UNCHANGED <<runs, retention, unseen>>

-----------------------------------------------------------------------------
(* Restore runs. *)

\* add, complete: the run is written when the copy has been made.
Completed(kind) == runs' = runs \cup {<<kind, "succeeded">>}

DryRunRestore ==
    /\ snapshots # <<>>
    /\ Completed("dry_run")
    /\ UNCHANGED <<snapshots, retention, unseen>>

\* Nothing is enqueued: the run stays pending.
ScheduleRehearsal ==
    /\ snapshots # <<>>
    /\ runs' = runs \cup {<<"rehearsal", "pending">>}
    /\ UNCHANGED <<snapshots, retention, unseen>>

-----------------------------------------------------------------------------
(* Retention. *)

\* Seeded fault: an acceptance given once is enough.
Acceptable_Once(saw, prune, accepts) == (prune /\ ~saw.prune) => (accepts \/ saw.accepted)

\* Pruning is not turned on without an acceptance in the request.
Acceptable(saw, prune, accepts) == (prune /\ ~saw.prune) => accepts

\* put_retention_policy: a field the request does not name keeps the value read.
PolicyRead(h, prunes, accepts) ==
    /\ \E prune \in IF prunes = {} THEN {retention.prune} ELSE prunes :
        /\ Acceptable(retention, prune, accepts)
        /\ Begin(h, [op |-> "policy", accepts |-> accepts, writes |-> FALSE,
                     new |-> [prune |-> prune, accepted |-> accepts \/ retention.accepted]])
    /\ UNCHANGED backupVars

\* upsert writes the whole row.
PolicyWrite(h) ==
    /\ Busy(h, "policy")
    /\ RuntimeLockFree(h)
    /\ retention' = req[h].new
    /\ unseen' = (unseen \/ (stale[h] /\ retention' # retention))
    /\ UNCHANGED <<snapshots, runs>>

\* Those created before the cutoff, and those of every organization.
PruneExpired(k) ==
    /\ retention.prune /\ retention.accepted
    /\ \A i \in 1 .. k : snapshots[i].age = "old"
    /\ snapshots' = SubSeq(snapshots, k + 1, Len(snapshots))
    /\ UNCHANGED <<runs, retention, unseen>>

-----------------------------------------------------------------------------
\* What needs no request of its own: each reads and writes in one transaction.
BackupsStep ==
    \/ RecordSnapshot
    \/ \E i \in DOMAIN snapshots :
        \/ \E status \in Verifications : UpdateVerification(i, status)
        \/ SnapshotAges(i)
        \/ PruneExpired(i)
    \/ DryRunRestore
    \/ ScheduleRehearsal

PolicyStep(h) ==
    \/ \E prunes \in {{}, {TRUE}, {FALSE}}, accepts \in BOOLEAN : PolicyRead(h, prunes, accepts)
    \/ PolicyWrite(h) /\ EndAndOvertake(h)

-----------------------------------------------------------------------------
(* Properties. *)

BackupsTypeOK ==
    /\ \A i \in DOMAIN snapshots : /\ snapshots[i].age \in {"fresh", "old"}
                                   /\ snapshots[i].status \in Verifications
    /\ Len(snapshots) <= MaxSnapshots
    /\ runs \subseteq {"dry_run", "rehearsal", "production"} \X {"pending", "succeeded"}
    /\ retention \in [prune : BOOLEAN, accepted : BOOLEAN]

\* Pruning is turned on by a request that accepts it, however often it was accepted
\* before; one that read a policy another has turned off since excepted.
EnablingIsAccepted ==
    [][(~retention.prune /\ retention'.prune) =>
            \E h \in Handlers : Busy(h, "policy") /\ (req[h].accepts \/ stale[h])]_backupVars

=============================================================================
