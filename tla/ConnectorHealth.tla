---------------------------- MODULE ConnectorHealth ----------------------------
(***************************************************************************)
(* The health of one connector source: what its runs left in the audit log,*)
(* the snapshots an admin computes from it (ConnectorHealthService and its *)
(* computer), and what the auto-disable evaluator makes of the snapshots   *)
(* (count_consecutive_breaches).  What follows when a rule trips is the    *)
(* subject of AutoDisable.                                                 *)
(*                                                                         *)
(* Rates are compared as products of counts: the code rounds them to four  *)
(* digits, which decides nothing for fewer than thousands of runs.         *)
(***************************************************************************)
EXTENDS Requests, Integers, Sequences, FiniteSets

CONSTANTS
    Batches,       \* what an hour may leave: successes, failures and CAPTCHAs
    LastHour,      \* bound: the hours are 0 .. LastHour
    MaxWindow,     \* hours a snapshot may look back (_max_window_seconds)
    RuleWindow,    \* hours a rule looks back
    Needed,        \* consecutive_breaches of the rules
    MaxComputed    \* bound: snapshots

Kinds == {"ok", "failed", "captcha"}

ASSUME HealthAssumption ==
    /\ Batches \subseteq [Kinds -> Nat]
    /\ LastHour \in Nat
    /\ MaxWindow \in Nat \ {0}
    /\ RuleWindow \in Nat \ {0}
    /\ Needed \in Nat \ {0}

VARIABLES
    hour,          \* the clock
    tally,         \* audit_entries of the source: how many there are before each hour
    computed,      \* connector_health_snapshots, by computed_at
    errors,        \* connector_health_errors: the failures each counts
    tripped        \* history: the triggers that asked for a disable, and when

snapshotRows == <<computed, errors>>
healthVars == <<hour, tally, snapshotRows, tripped, requestVars>>

Hours == 0 .. LastHour

HealthInit ==
    /\ hour = 0
    /\ tally = [k \in 0 .. LastHour + 1 |-> [kind \in Kinds |-> 0]]
    /\ computed = <<>>
    /\ errors = <<>>
    /\ tripped = {}
    /\ NoRequests

-----------------------------------------------------------------------------
(* Computing a snapshot. *)

\* Seeded fault: a requested window is taken as it is.
BoundedWindow_Unclipped(requested) == IF requested = 0 THEN MaxWindow ELSE requested

\* _bounded_window_seconds: none (0) is the default, a longer one is clipped.
BoundedWindow(requested) ==
    IF requested = 0 \/ requested > MaxWindow THEN MaxWindow ELSE requested

\* The entries of a kind in the w hours that end with hour k.
WindowCount(k, w, kind) ==
    tally[k + 1][kind] - tally[IF w <= k THEN k + 1 - w ELSE 0][kind]

\* _collect_audit_rows: the source's entries of that kind in the window.
Collected(w, kind) == WindowCount(hour, w, kind)

\* derive_metrics
DeriveMetrics(w) ==
    [window |-> w,
     ok |-> Collected(w, "ok"),
     failed |-> Collected(w, "failed"),
     captcha |-> Collected(w, "captcha")]

TotalRuns(m) == m.ok + m.failed

\* MIN_RUNS_FOR_STATUS
MinRuns == 1

\* success_rate < p / 100, where no run is a rate of 0
SuccessBelow(m, p) == TotalRuns(m) = 0 \/ 100 * m.ok < p * TotalRuns(m)

\* captcha_rate > p / 100, where no run is a rate of 0
CaptchaAbove(m, p) == TotalRuns(m) # 0 /\ 100 * m.captcha > p * TotalRuns(m)

\* Seeded fault: a window without runs is classified as well.
ClassifyStatus_AnyRuns(m) ==
    IF SuccessBelow(m, 70) \/ CaptchaAbove(m, 20) THEN "unhealthy"
    ELSE IF SuccessBelow(m, 90) \/ CaptchaAbove(m, 5) THEN "degraded"
    ELSE "healthy"

\* _classify_status
ClassifyStatus(m) ==
    IF TotalRuns(m) < MinRuns THEN "unknown"
    ELSE IF SuccessBelow(m, 70) \/ CaptchaAbove(m, 20) THEN "unhealthy"
    ELSE IF SuccessBelow(m, 90) \/ CaptchaAbove(m, 5) THEN "degraded"
    ELSE "healthy"

\* ConnectorHealthSnapshotRepository.add
AddSnapshot(m) ==
    computed' = Append(computed, [at |-> hour, metrics |-> m, status |-> ClassifyStatus(m)])

\* ConnectorHealthErrorRepository.add: one row for all failures of the window.
AddError(m) ==
    errors' = IF m.failed = 0 THEN errors ELSE Append(errors, m.failed)

\* compute_snapshot up to its first write.
ComputeRead(h, requested) ==
    /\ Len(computed) < MaxComputed
    /\ Begin(h, [op |-> "compute", metrics |-> DeriveMetrics(BoundedWindow(requested))])
    /\ UNCHANGED <<hour, tally, snapshotRows, tripped>>

\* The snapshot and the error of one request are committed together.
ComputeWrite(h) ==
    /\ Busy(h, "compute")
    /\ AddSnapshot(req[h].metrics)
    /\ AddError(req[h].metrics)
    /\ EndAndOvertake(h)
    /\ UNCHANGED <<hour, tally, tripped>>

\* POST /admin/connectors/health/snapshots:compute
ComputeSnapshot(h) == (\E w \in 0 .. MaxWindow + 1 : ComputeRead(h, w)) \/ ComputeWrite(h)

-----------------------------------------------------------------------------
(* The summary of the admin's panel. *)

\* latest_for_org, for this source.
LatestSnapshot == computed[Len(computed)]

\* Seeded fault: the thresholds of unhealthy.
SummaryBreach_Unhealthy(s) == SuccessBelow(s.metrics, 70) \/ CaptchaAbove(s.metrics, 20)

\* build_summary: the flag shown beside the status.
SummaryBreach(s) == SuccessBelow(s.metrics, 90) \/ CaptchaAbove(s.metrics, 5)

-----------------------------------------------------------------------------
(* The auto-disable evaluator. *)

Triggers == {"health_unhealthy", "captcha_rate_breach", "failure_rate_breach"}

\* _load_health_snapshots: the positions of those in the rule's window.
LoadSnapshots == {i \in DOMAIN computed : computed[i].at + RuleWindow > hour}

\* What _count_health_unhealthy_breaches, _count_captcha_rate_breaches and
\* _count_failure_rate_breaches count, with the documented thresholds.
IsBreach(t, s) ==
    \/ t = "health_unhealthy" /\ s.status = "unhealthy"
    \/ t = "captcha_rate_breach" /\ CaptchaAbove(s.metrics, 20)
    \/ t = "failure_rate_breach" /\ SuccessBelow(s.metrics, 50)

\* count_consecutive_breaches: those since the last snapshot that is none.
CountBreaches(t) ==
    Cardinality({i \in LoadSnapshots :
                    \A j \in LoadSnapshots : j >= i => IsBreach(t, computed[j])})

\* evaluate_rule asks for a disable; a read, whatever is under way.
Trip(t) ==
    /\ CountBreaches(t) >= Needed
    /\ tripped' = tripped \cup {[trigger |-> t, at |-> hour]}
    /\ UNCHANGED <<hour, tally, snapshotRows, requestVars>>

-----------------------------------------------------------------------------
(* The runs of an hour leave their audit entries; the hours pass.  A request   *)
(* does not last for an hour.                                                  *)

RunsHappen(b) ==
    /\ tally[hour + 1] = tally[hour]
    /\ tally' = [k \in DOMAIN tally |->
                    IF k > hour THEN [kind \in Kinds |-> tally[k][kind] + b[kind]]
                    ELSE tally[k]]
    /\ UNCHANGED <<hour, snapshotRows, tripped, requestVars>>

HourPasses ==
    /\ hour < LastHour
    /\ \A h \in Handlers : req[h] = Idle
    /\ hour' = hour + 1
    /\ UNCHANGED <<tally, snapshotRows, tripped, requestVars>>

HealthNext ==
    \/ HourPasses
    \/ \E b \in Batches : RunsHappen(b)
    \/ \E t \in Triggers : Trip(t)
    \/ \E h \in Handlers :
          \/ ComputeSnapshot(h)
          \/ Lost(h) /\ UNCHANGED <<hour, tally, snapshotRows, tripped>>

HealthSpec == HealthInit /\ [][HealthNext]_healthVars

-----------------------------------------------------------------------------
(* Properties. *)

\* The values each variable takes; no snapshot looks back further than it may.
HealthTypeOK ==
    /\ hour \in Hours
    /\ tally \in [0 .. LastHour + 1 -> [Kinds -> Nat]]
    /\ \A i \in DOMAIN computed :
          /\ computed[i].at \in Hours
          /\ computed[i].metrics.window \in 1 .. MaxWindow
          /\ computed[i].status \in {"unknown", "healthy", "degraded", "unhealthy"}
    /\ tripped \subseteq [trigger : Triggers, at : Hours]

\* Entries of a kind that a trip at an hour can be about: those that were in the
\* window of a snapshot that was in the window of the rule.
FaultsBefore(k, kind) == WindowCount(k, RuleWindow + MaxWindow - 1, kind)

\* A source is not disabled for its health while no run failed and no CAPTCHA
\* was met, nor for faults that both windows have left behind: whatever
\* snapshots were computed, when, and by requests that overlapped.
DisabledForFaults ==
    \A x \in tripped :
        /\ x.trigger = "health_unhealthy" =>
              FaultsBefore(x.at, "failed") + FaultsBefore(x.at, "captcha") > 0
        /\ x.trigger = "captcha_rate_breach" => FaultsBefore(x.at, "captcha") > 0

\* The panel shows a status and a breach flag that are computed apart: a source
\* is flagged exactly if it is not healthy.
FlagAgreesWithStatus ==
    computed # <<>> => (SummaryBreach(LatestSnapshot) <=> LatestSnapshot.status # "healthy")

\* One failed run, or one CAPTCHA, does not make a rule trip that needs more
\* than one breach of the health status.
SingleFaultIsForgiven ==
    \A x \in tripped :
        x.trigger = "health_unhealthy" =>
            FaultsBefore(x.at, "failed") + FaultsBefore(x.at, "captcha") >= Needed

\* A connector is called, and treated as, unhealthy for what its runs did.
HealthIsFair == DisabledForFaults /\ FlagAgreesWithStatus

=============================================================================
