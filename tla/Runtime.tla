-------------------------------- MODULE Runtime --------------------------------
(***************************************************************************)
(* The environment's mode, the launch gate, the cutover between modes and  *)
(* the live integration toggles (CutoverService, LiveToggleService).  The  *)
(* mode is kept in memory, by the registry, and is one for all; toggles    *)
(* and cutover events are rows, and a toggle is an organization's.         *)
(***************************************************************************)
EXTENDS Backups

CONSTANTS
    Orgs,          \* organizations, with one integration each
    Configured,    \* the mode of the settings: a start's
    NoOrg          \* model value

VARIABLES
    mode,          \* RuntimeRegistry
    ready,         \* the gate's other checks: headers, key, heartbeat, queue
    toggles,       \* per organization: its toggle, on or off
    cutover,       \* the latest of cutover_events: none is read or changed again
    mover,         \* history: whose cutover the mode and the last event are
    crossing       \* history: a cutover or a toggle acted on what had changed

runtimeVars == <<mode, ready, toggles, cutover, mover, crossing, backupVars, requestVars>>
cutoverIdle == <<mode, toggles, cutover, mover, crossing>>

Modes == {"test_like", "pilot_live", "paused"}

\* The registry takes an unknown setting for test_like.
ASSUME RuntimeAssumption == Configured \in Modes

NoCutover == [new |-> "none", met |-> FALSE]

RuntimeInit ==
    /\ mode = Configured
    /\ ready = FALSE
    /\ toggles = [o \in Orgs |-> "off"]
    /\ cutover = NoCutover
    /\ mover = NoOrg
    /\ crossing = FALSE
    /\ BackupsInit
    /\ NoRequests

-----------------------------------------------------------------------------
(* The launch gate. *)

\* The latest snapshot is fresh, and its restore did not fail.
BackupOK ==
    /\ snapshots # <<>>
    /\ Last(snapshots).age = "fresh"
    /\ Last(snapshots).status # "failed_restore"

\* In test_like mode every blocking check is a warning.
GatePassed == mode = "test_like" \/ (ready /\ BackupOK)

\* The launch gate asks for one snapshot whose restore has not failed.
EnoughBackups == \E i \in DOMAIN snapshots : snapshots[i].status # "failed_restore"

-----------------------------------------------------------------------------
(* Cutover. *)

\* A change of the mode, of which requests under way have seen the one before.
Overtake(h) == stale' = [x \in Handlers |-> stale[x] \/ (x # h /\ req[x] # Idle)]

CutoverRequest(op, o, target) ==
    [op |-> op, org |-> o, target |-> target, writes |-> FALSE,
     met |-> op = "enter" /\ ready /\ BackupOK,
     found |-> IF op = "rollback" THEN toggles[o] ELSE "off"]

EnterRead(h, o) ==
    /\ GatePassed /\ EnoughBackups
    /\ Begin(h, CutoverRequest("enter", o, "pilot_live"))
    /\ UNCHANGED <<cutoverIdle, ready, backupVars>>

PauseRead(h, o) ==
    /\ Begin(h, CutoverRequest("pause", o, "paused"))
    /\ UNCHANGED <<cutoverIdle, ready, backupVars>>

RollbackRead(h, o, target) ==
    /\ target # "pilot_live"
    /\ Begin(h, CutoverRequest("rollback", o, target))
    /\ UNCHANGED <<cutoverIdle, ready, backupVars>>

\* The event's or the toggles' flush takes the lock; then the mode is set, before
\* the commit.
CutoverWrite(h) ==
    /\ \E op \in {"enter", "pause", "rollback"} : Busy(h, op)
    /\ ~req[h].writes
    /\ RuntimeLockFree(h)
    /\ mode' = req[h].target
    /\ mover' = NoOrg
    /\ crossing' = (crossing \/ stale[h])
    /\ req' = [req EXCEPT ![h].writes = TRUE]
    /\ Overtake(h)
    /\ UNCHANGED <<toggles, cutover, ready, backupVars>>

\* A rollback with no toggle to disable has set the mode when its event does not get
\* the lock.
RollbackLocked(h) ==
    /\ Busy(h, "rollback") /\ ~req[h].writes
    /\ req[h].found = "off"
    /\ ~RuntimeLockFree(h)
    /\ mode' = req[h].target
    /\ mover' = NoOrg
    /\ crossing' = (crossing \/ stale[h])
    /\ req' = [req EXCEPT ![h] = Idle]
    /\ stale' = [x \in Handlers |-> x # h /\ req[x] # Idle]
    /\ UNCHANGED <<toggles, cutover, ready, backupVars>>

\* Seeded fault: the event of a rollback always names test_like.
EventOf_Default(r) ==
    [new |-> IF r.op = "rollback" THEN "test_like" ELSE r.target, met |-> r.met]

\* CutoverEvent, and whether the gate's conditions were met.
EventOf(r) == [new |-> r.target, met |-> r.met]

\* Seeded fault: a rollback leaves the toggle.
DisableAll_OnPause(r) == IF r.op = "pause" THEN [toggles EXCEPT ![r.org] = "off"] ELSE toggles

\* disable_all_for_org, of the organization that asks: a rollback looks for enabled
\* ones before it has the lock.  Entering disables nothing.
DisableAll(r) ==
    IF r.op = "pause" \/ (r.op = "rollback" /\ r.found = "on")
    THEN [toggles EXCEPT ![r.org] = "off"] ELSE toggles

CutoverCommit(h) ==
    /\ \E op \in {"enter", "pause", "rollback"} : Busy(h, op)
    /\ req[h].writes
    /\ cutover' = EventOf(req[h])
    /\ toggles' = DisableAll(req[h])
    /\ mover' = IF stale[h] THEN NoOrg ELSE req[h].org
    /\ crossing' = (crossing \/ stale[h])
    /\ EndAndOvertake(h)
    /\ UNCHANGED <<mode, ready, backupVars>>

Cutover(h) ==
    \/ \E o \in Orgs :
        \/ EnterRead(h, o)
        \/ PauseRead(h, o)
        \/ \E target \in Modes : RollbackRead(h, o, target)
    \/ CutoverWrite(h)
    \/ RollbackLocked(h)
    \/ CutoverCommit(h)

-----------------------------------------------------------------------------
(* Live toggles. *)

\* Seeded fault: the gate is asked, the mode is not.
MayEnable_Gate(m) == GatePassed

\* The mode the service was made with, and the gate.
MayEnable(m) == m = "pilot_live" /\ GatePassed

EnableRead(h, o) ==
    /\ MayEnable(mode)
    /\ Begin(h, [op |-> "enable", org |-> o, writes |-> FALSE])
    /\ UNCHANGED <<cutoverIdle, ready, backupVars>>

EnableWrite(h) ==
    /\ Busy(h, "enable")
    /\ RuntimeLockFree(h)
    /\ toggles' = [toggles EXCEPT ![req[h].org] = "on"]
    /\ crossing' = (crossing \/ stale[h])
    /\ EndAndOvertake(h)
    /\ UNCHANGED <<mode, cutover, mover, ready, backupVars>>

Disable(h, o) ==
    /\ req[h] = Idle
    /\ RuntimeLockFree(h)
    /\ toggles' = [toggles EXCEPT ![o] = "off"]
    /\ EndAndOvertake(h)
    /\ UNCHANGED <<mode, cutover, mover, crossing, ready, backupVars>>

LiveToggle(h) ==
    \/ \E o \in Orgs : EnableRead(h, o) \/ Disable(h, o)
    \/ EnableWrite(h)

-----------------------------------------------------------------------------
(* Restore. *)

\* A real restore is refused unless the mode is paused.
RestoreBackup ==
    /\ mode = "paused"
    /\ snapshots # <<>>
    /\ Completed("production")
    /\ UNCHANGED <<snapshots, retention, unseen, cutoverIdle, ready, requestVars>>

-----------------------------------------------------------------------------
(* The environment. *)

\* Heartbeats, the queue, the settings: the gate's other checks.
ChecksChange ==
    /\ ready' = ~ready
    /\ UNCHANGED <<cutoverIdle, backupVars, requestVars>>

\* Rolled back; the mode it has set stays.
RuntimeLost(h) ==
    /\ Lost(h)
    /\ UNCHANGED <<cutoverIdle, ready, backupVars>>

\* The API process dies: the mode is the settings' again.
RegistryRestart ==
    /\ mode' = Configured
    /\ mover' = NoOrg
    /\ req' = [h \in Handlers |-> Idle]
    /\ stale' = [h \in Handlers |-> FALSE]
    /\ UNCHANGED <<toggles, cutover, crossing, ready, backupVars>>

RuntimeNext ==
    \/ \E h \in Handlers :
        \/ Cutover(h)
        \/ LiveToggle(h)
        \/ RuntimeLost(h)
    \/ BackupsStep /\ UNCHANGED <<cutoverIdle, ready, requestVars>>
    \/ RestoreBackup
    \/ ChecksChange
    \/ RegistryRestart

RuntimeSpec == RuntimeInit /\ [][RuntimeNext]_runtimeVars

\* The retention policy on its own: pruning, and requests that change it.
RetentionNext ==
    /\ UNCHANGED <<cutoverIdle, ready>>
    /\ \/ \E h \in Handlers : PolicyStep(h) \/ (Lost(h) /\ UNCHANGED backupVars)
       \/ BackupsStep /\ UNCHANGED requestVars

\* Both at once: an environment whose admins move the mode and change the policy.
EnvironmentSpec == RuntimeInit /\ [][RuntimeNext \/ RetentionNext]_runtimeVars

-----------------------------------------------------------------------------
(* Properties. *)

\* The values each variable takes.
RuntimeTypeOK ==
    /\ BackupsTypeOK
    /\ mode \in Modes
    /\ ready \in BOOLEAN
    /\ toggles \in [Orgs -> {"on", "off"}]
    /\ cutover \in [new : Modes, met : BOOLEAN] \cup {NoCutover}
    /\ mover \in Orgs \cup {NoOrg}

\* The organization whose cutover took the environment out of pilot_live has no live
\* toggle on until it is live again, unless requests crossed or a process died.
CutoverSilences ==
    (mover # NoOrg /\ mode # "pilot_live" /\ ~crossing) => toggles[mover] = "off"

\* The last cutover event says the mode the process is in, unless a cutover was
\* rolled back or a process died.
EventsTellMode ==
    mover # NoOrg => cutover.new = mode

\* Documented: entering pilot_live requires the launch gate's conditions.
LiveEntryWasGated ==
    cutover.new = "pilot_live" => cutover.met

\* Live integrations follow the mode, its record tells it, and data is pruned only
\* where that was accepted (CutoverService, LiveToggleService, BackupRestoreService).
ModeIsObeyed == [](CutoverSilences /\ EventsTellMode) /\ EnablingIsAccepted

=============================================================================
