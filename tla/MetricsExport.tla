----------------------------- MODULE MetricsExport -----------------------------
(***************************************************************************)
(* Where an organization's metrics may leave: its export policy, which     *)
(* owners and admins replace sink by sink, and the test export that reports*)
(* on every sink (MetricsExportService, MetricsExporter and the transports,*)
(* behind rest/metrics_export.py).  Nothing in the program runs the        *)
(* periodic export, so a test is the only export.                          *)
(*                                                                         *)
(* A configuration is what decides whether its sink may be enabled: a      *)
(* scrape token, an endpoint, a DSN; ratios, headers and notes are left    *)
(* out.                                                                    *)
(***************************************************************************)
EXTENDS Requests

CONSTANTS
    ScrapeTokens,      \* tokens a request may bring
    NoScrapeToken,
    NoPolicy,          \* no row: the default policy
    InstalledSdks      \* those of "otel" and "sentry" this deployment has

VARIABLES
    exportPolicy,      \* the row of metrics_export_policies
    exported,          \* history: per sink, what its last recorded export said
    mixed,             \* history: a request wrote over, or left, what it had not seen
    cleared            \* history: the acceptance was cleared by a PUT that had read none

exportRow == <<exportPolicy>>
exportHistory == <<exported, mixed, cleared>>
exportVars == <<exportRow, exportHistory, requestVars>>

Sinks == {"prometheus", "otel", "sentry"}

ExportStatuses == {"disabled", "success", "sdk_not_installed"}

\* MetricsExportPolicy
Policies ==
    [enabled : [Sinks -> BOOLEAN], token : ScrapeTokens \cup {NoScrapeToken}, endpoint : BOOLEAN,
     status : [Sinks -> ExportStatuses], acceptedAt : BOOLEAN]

ASSUME NoPolicyAssumption == NoPolicy \notin Policies

\* MetricsExportPolicy as it is when there is no row.
DefaultPolicy ==
    [enabled |-> [s \in Sinks |-> FALSE],
     token |-> NoScrapeToken,
     endpoint |-> FALSE,
     status |-> [s \in Sinks |-> "disabled"],
     acceptedAt |-> FALSE]

ExportInit ==
    /\ exportPolicy = NoPolicy
    /\ exported = DefaultPolicy.status
    /\ mixed = FALSE
    /\ cleared = FALSE
    /\ NoRequests

\* get_or_default
PolicyOrDefault == IF exportPolicy = NoPolicy THEN DefaultPolicy ELSE exportPolicy

-----------------------------------------------------------------------------
(* PUT /admin/observability/export-policy                                      *)

\* What a PUT names: sinks, each with its flag, and who accepts.  Without a
\* scrape token _parse_prometheus leaves the hash empty, as _parse_sentry always
\* leaves the DSN.
PolicyChanges ==
    UNION {[named : {named}, enable : SUBSET named, accepts : BOOLEAN,
            token : {NoScrapeToken} \cup IF "prometheus" \in named THEN ScrapeTokens ELSE {},
            endpoint : IF "otel" \in named THEN BOOLEAN ELSE {FALSE}] : named \in SUBSET Sinks}

\* Seeded fault: the acceptance is what the request says.
Merged_Acceptance(old, c) ==
    [enabled |-> [s \in Sinks |-> IF s \in c.named THEN s \in c.enable ELSE old.enabled[s]],
     token |-> IF "prometheus" \in c.named THEN c.token ELSE old.token,
     endpoint |-> IF "otel" \in c.named THEN c.endpoint ELSE old.endpoint,
     status |-> old.status,
     acceptedAt |-> c.accepts]

\* Seeded fault: the new policy starts without statuses.
Merged_Statuses(old, c) ==
    [enabled |-> [s \in Sinks |-> IF s \in c.named THEN s \in c.enable ELSE old.enabled[s]],
     token |-> IF "prometheus" \in c.named THEN c.token ELSE old.token,
     endpoint |-> IF "otel" \in c.named THEN c.endpoint ELSE old.endpoint,
     status |-> DefaultPolicy.status,
     acceptedAt |-> c.accepts \/ old.acceptedAt]

\* The policy that is written: the sinks that are not named as they were read.
Merged(old, c) ==
    [enabled |-> [s \in Sinks |-> IF s \in c.named THEN s \in c.enable ELSE old.enabled[s]],
     token |-> IF "prometheus" \in c.named THEN c.token ELSE old.token,
     endpoint |-> IF "otel" \in c.named THEN c.endpoint ELSE old.endpoint,
     status |-> old.status,
     acceptedAt |-> c.accepts \/ old.acceptedAt]

\* Seeded fault: a token that was stored once counts for ever.
ValidPolicy_AnyToken(p, c) ==
    /\ p.enabled["prometheus"] => "prometheus" \in c.named \/ p.token # NoScrapeToken
    /\ p.enabled["otel"] => p.endpoint
    /\ ~p.enabled["sentry"]

\* validate_policy_payload: no DSN is ever stored, so no request enables Sentry.
ValidPolicy(p, c) ==
    /\ p.enabled["prometheus"] => p.token # NoScrapeToken
    /\ p.enabled["otel"] => p.endpoint
    /\ ~p.enabled["sentry"]

\* The acceptance gate: for sinks that the policy, as read, has disabled.
AcceptanceGiven(old, p, c) ==
    (\E s \in Sinks : p.enabled[s] /\ ~old.enabled[s]) => c.accepts \/ old.acceptedAt

\* put_export_policy and update_policy: the policy is read, changed and checked.
PutRead(h) ==
    /\ req[h] = Idle
    /\ \E c \in PolicyChanges :
        LET p == Merged(PolicyOrDefault, c) IN
        /\ ValidPolicy(p, c)
        /\ AcceptanceGiven(PolicyOrDefault, p, c)
        /\ Begin(h, [op |-> "put", policy |-> p, named |-> c.named, accepts |-> c.accepts,
                     accepted |-> PolicyOrDefault.acceptedAt])
        /\ UNCHANGED <<exportRow, exportHistory>>

\* Columns whose value in p is another one than in the row: a sink's configuration
\* is one column, as are its status and the acceptance.
DirtyConfigs(row, p) ==
    {s \in Sinks : \/ p.enabled[s] # row.enabled[s]
                  \/ (s = "prometheus" /\ p.token # row.token)
                  \/ (s = "otel" /\ p.endpoint # row.endpoint)}

\* What the session will write of p, over the row it has loaded.  A new acceptance
\* has a time of its own; of what is left out of a configuration here, a request
\* may change something (more) as well.
Dirty(row, p, accepts, more) ==
    IF row = NoPolicy THEN [configs |-> Sinks, statuses |-> Sinks, acceptance |-> TRUE]
    ELSE [configs |-> DirtyConfigs(row, p) \cup more,
          statuses |-> {s \in Sinks : p.status[s] # row.status[s]},
          acceptance |-> accepts \/ p.acceptedAt # row.acceptedAt]

\* upsert selects the row again, which may have changed by now, and assigns to it.
PutLoad(h) ==
    /\ Busy(h, "put")
    /\ \E more \in SUBSET req[h].named :
          req' = [req EXCEPT ![h] =
                    [op |-> "put_loaded", policy |-> req[h].policy, accepted |-> req[h].accepted,
                     inserts |-> exportPolicy = NoPolicy,
                     writes |-> Dirty(exportPolicy, req[h].policy, req[h].accepts, more)]]
    /\ UNCHANGED <<exportRow, exportHistory, stale>>

\* The row after columns w of it took their values in p.
Assigned(row, p, w) ==
    [enabled |-> [s \in Sinks |-> IF s \in w.configs THEN p.enabled[s] ELSE row.enabled[s]],
     token |-> IF "prometheus" \in w.configs THEN p.token ELSE row.token,
     endpoint |-> IF "otel" \in w.configs THEN p.endpoint ELSE row.endpoint,
     status |-> [s \in Sinks |-> IF s \in w.statuses THEN p.status[s] ELSE row.status[s]],
     acceptedAt |-> IF w.acceptance THEN p.acceptedAt ELSE row.acceptedAt]

\* The flush inserts a row, of which there is one at most, or updates those columns.
Upsert(p, inserts, w) ==
    /\ inserts => exportPolicy = NoPolicy
    /\ exportPolicy' = IF inserts THEN p ELSE Assigned(exportPolicy, p, w)

PutWrite(h) ==
    /\ Busy(h, "put_loaded")
    /\ Upsert(req[h].policy, req[h].inserts, req[h].writes)
    /\ mixed' = (mixed \/ stale[h])
    /\ cleared' = /\ ~exportPolicy'.acceptedAt
                  /\ cleared \/ (PolicyOrDefault.acceptedAt /\ ~req[h].accepted)
    /\ EndAndOvertake(h)
    /\ UNCHANGED exported

Put(h) == PutRead(h) \/ PutLoad(h) \/ PutWrite(h)

-----------------------------------------------------------------------------
(* POST /admin/observability/export-policy/test                                *)

\* PrometheusExposition.export does no I/O, nor a look at the policy.
PrometheusResult == "success"

\* OtelCollector.export
OtelResult(p) ==
    IF ~p.enabled["otel"] THEN "disabled"
    ELSE IF "otel" \in InstalledSdks THEN "success" ELSE "sdk_not_installed"

\* SentryIngest.export
SentryResult(p) ==
    IF ~p.enabled["sentry"] THEN "disabled"
    ELSE IF "sentry" \in InstalledSdks THEN "success" ELSE "sdk_not_installed"

\* The transports that DefaultTransportFactory builds for the policy.
ExportResults(p) ==
    [s \in Sinks |-> IF s = "prometheus" THEN PrometheusResult
                     ELSE IF s = "otel" THEN OtelResult(p) ELSE SentryResult(p)]

\* test_export reads the policy once, for all its sinks.
TestExportRead(h) ==
    /\ Begin(h, [op |-> "test", results |-> ExportResults(PolicyOrDefault)])
    /\ UNCHANGED <<exportRow, exportHistory>>

\* record_export of the first of them, whichever it is, selects the row: its status
\* is recorded if there is one, and written if it is another.
TestExportLoad(h) ==
    /\ Busy(h, "test")
    /\ \E s \in Sinks :
          LET r == req[h].results
              found == exportPolicy # NoPolicy
              differs == found /\ r[s] # exportPolicy.status[s]
          IN  req' = [req EXCEPT ![h] =
                        [op |-> "test_loaded", results |-> r,
                         records |-> {x \in Sinks : x # s \/ found},
                         writes |-> {x \in Sinks : x # s \/ differs}]]
    /\ UNCHANGED <<exportRow, exportHistory, stale>>

\* From its flush on, or that of its audit entry, the others select the row as it is.
RecordExports(r, records, writes) ==
    IF exportPolicy = NoPolicy THEN UNCHANGED <<exportRow, exportHistory>>
    ELSE /\ exportPolicy' = [exportPolicy EXCEPT !.status =
                                [s \in Sinks |-> IF s \in writes THEN r[s] ELSE @[s]]]
         /\ exported' = [s \in Sinks |-> IF s \in records THEN r[s] ELSE exported[s]]
         /\ mixed' = (mixed \/ \E s \in records \ writes : exportPolicy.status[s] # r[s])
         /\ UNCHANGED cleared

TestExportWrite(h) ==
    /\ Busy(h, "test_loaded")
    /\ RecordExports(req[h].results, req[h].records, req[h].writes)
    /\ EndAndOvertake(h)

TestExport(h) == TestExportRead(h) \/ TestExportLoad(h) \/ TestExportWrite(h)

-----------------------------------------------------------------------------
\* GET /metrics serves a request that brings token k: a read.
Serves(k) ==
    /\ exportPolicy # NoPolicy
    /\ exportPolicy.enabled["prometheus"]
    /\ k = exportPolicy.token

ExportNext ==
    \E h \in Handlers :
        \/ Put(h)
        \/ TestExport(h)
        \/ Lost(h) /\ UNCHANGED <<exportRow, exportHistory>>

ExportSpec == ExportInit /\ [][ExportNext]_exportVars

-----------------------------------------------------------------------------
(* Properties. *)

\* The values each variable takes; a request that brings no token is not served.
ExportTypeOK ==
    /\ exportPolicy \in Policies \cup {NoPolicy}
    /\ ~Serves(NoScrapeToken)
    /\ exported \in [Sinks -> ExportStatuses]
    /\ mixed \in BOOLEAN
    /\ cleared \in BOOLEAN

\* No sink is enabled in a policy without an acceptance, whatever requests with and
\* without one overlap, but after a PUT that had read the policy before it was
\* accepted has cleared the acceptance it did not know of.  No other way to lose it
\* is left: not by a PUT that had read it, nor by columns of two requests meeting.
EnabledSinksWereAccepted ==
    exportPolicy # NoPolicy =>
        \A s \in Sinks : exportPolicy.enabled[s] => exportPolicy.acceptedAt \/ cleared

\* The status shown for a sink is that of its last recorded export: replacing
\* the policy forgets none, unless a PUT wrote over a row it had not seen, or a test
\* left a status that was another one when it looked.
StatusIsTheLastExport ==
    exportPolicy # NoPolicy /\ ~mixed => exportPolicy.status = exported

\* What leaves the platform was accepted, unless the acceptance was cleared unseen, and
\* the panel shows how it went.
ExportsAreAccepted == EnabledSinksWereAccepted /\ StatusIsTheLastExport

=============================================================================
