-------------------------- MODULE OperationsProofs --------------------------
(***************************************************************************)
(* What deletion, metrics export, notifications, the runtime mode, alerts  *)
(* and connector health promise, for any number of overlapping requests,   *)
(* of rules, of windows and of rows.  Each part is about its component's   *)
(* own specification: a shape of its columns, what a request under way may *)
(* rely on until another one overtakes it, and the history the properties  *)
(* speak of.                                                               *)
(***************************************************************************)
EXTENDS MCOperations, WebhooksProofs, FiniteSetTheorems, SequenceTheorems, TLAPS

-----------------------------------------------------------------------------
(* Deletion. *)

\* The columns the argument looks at.
DeletionShape ==
    /\ erased \subseteq Deletables
    /\ deletions \in [Deletables -> Nat]
    /\ doubly \in BOOLEAN
    /\ req \in [Handlers -> {Idle} \cup [op : {"delete"}, row : Deletables]]
    /\ stale \in [Handlers -> BOOLEAN]

\* What a request has read to be there still is, until another one commits.
DeletionReadingsHold == \A h \in Handlers : Busy(h, "delete") /\ ~stale[h] => req[h].row \notin erased

DeletionIInv == DeletionShape /\ DeletionReadingsHold /\ DeletedOnce

\* At the start nothing is erased and nobody is deleting.
LEMMA DeletionInitially == DeletionInit => DeletionIInv
  <1> SUFFICES ASSUME DeletionInit PROVE DeletionIInv
    OBVIOUS
  <1>1. DeletionShape
    BY DEF DeletionInit, NoRequests, DeletionShape
  <1>2. DeletionReadingsHold
    BY DEF DeletionInit, DeletionReadingsHold
  <1>3. DeletedOnce
    BY DEF DeletionInit, DeletedOnce
  <1> QED BY <1>1, <1>2, <1>3 DEF DeletionIInv

\* The two ways a request ends leave no reading of its own.
LEMMA DeletionEnds ==
  ASSUME DeletionShape, DeletionReadingsHold, NEW h \in Handlers, End(h), UNCHANGED erased
  PROVE  /\ req' \in [Handlers -> {Idle} \cup [op : {"delete"}, row : Deletables]]
         /\ stale' \in [Handlers -> BOOLEAN]
         /\ DeletionReadingsHold'
  BY DEF End, DeletionShape, DeletionReadingsHold, Busy, Idle

\* Every step of the service, or of another request, keeps it.
LEMMA DeletionSteps == DeletionIInv /\ [DeletionNext]_deletionVars => DeletionIInv'
  <1> SUFFICES ASSUME DeletionIInv, [DeletionNext]_deletionVars PROVE DeletionIInv'
    OBVIOUS
  <1> USE DEF DeletionIInv
  <1>1. ASSUME NEW h \in Handlers, NEW x \in Deletables, DeleteRead(h, x) PROVE DeletionIInv'
    <2>1. DeletionShape'
      BY <1>1 DEF DeleteRead, Deletable, Begin, DeletionShape
    <2>2. DeletionReadingsHold'
      BY <1>1 DEF DeleteRead, Deletable, Begin, DeletionShape, DeletionReadingsHold, Busy
    <2>3. DeletedOnce'
      BY <1>1 DEF DeleteRead, DeletedOnce
    <2> QED BY <2>1, <2>2, <2>3
  <1>2. ASSUME NEW h \in Handlers, DeleteWrite(h) PROVE DeletionIInv'
    <2> DEFINE x == req[h].row
    <2>1. x \in Deletables
      BY <1>2 DEF DeleteWrite, Busy, Idle, DeletionShape
    <2>2. DeletionShape'
      <3>1. erased' \subseteq Deletables /\ doubly' \in BOOLEAN
        BY <1>2, <2>1 DEF DeleteWrite, DeletionShape
      <3>2. deletions' \in [Deletables -> Nat]
        BY <1>2, <2>1 DEF DeleteWrite, DeletionShape
      <3>3. /\ req' \in [Handlers -> {Idle} \cup [op : {"delete"}, row : Deletables]]
            /\ stale' \in [Handlers -> BOOLEAN]
        BY <1>2 DEF DeleteWrite, EndAndOvertake, DeletionShape
      <3> QED BY <3>1, <3>2, <3>3 DEF DeletionShape
    <2>3. DeletionReadingsHold'
      <3>1. \A g \in Handlers : ~Busy(g, "delete")' \/ stale'[g]
        <4> SUFFICES ASSUME NEW g \in Handlers, Busy(g, "delete")' PROVE stale'[g]
          OBVIOUS
        <4>1. req'[h] = Idle /\ (g # h => req'[g] = req[g])
          BY <1>2 DEF DeleteWrite, EndAndOvertake, DeletionShape
        <4>2. req'[g].op = "delete" /\ Idle.op = "idle"
          BY DEF Busy, Idle
        <4>3. g # h /\ req[g] # Idle
          BY <4>1, <4>2
        <4> QED BY <1>2, <4>3 DEF DeleteWrite, EndAndOvertake
      <3> QED BY <3>1 DEF DeletionReadingsHold
    <2>4. DeletedOnce'
      <3> SUFFICES ASSUME ~doubly' PROVE \A y \in Deletables :
                                         deletions'[y] = IF y \in erased' THEN 1 ELSE 0
        BY DEF DeletedOnce
      <3>1. ~doubly /\ x \notin erased
        BY <1>2 DEF DeleteWrite, DeletionReadingsHold, DeletionShape
      <3>2. deletions'[x] = 1 /\ x \in erased'
        BY <1>2, <2>1, <3>1 DEF DeleteWrite, DeletedOnce, DeletionShape
      <3>3. \A y \in Deletables \ {x} :
               deletions'[y] = deletions[y] /\ (y \in erased' <=> y \in erased)
        BY <1>2, <2>1 DEF DeleteWrite, DeletionShape
      <3> QED BY <3>1, <3>2, <3>3 DEF DeletedOnce
    <2> QED BY <2>2, <2>3, <2>4
  <1>3. ASSUME NEW h \in Handlers, DeleteRefused(h) PROVE DeletionIInv'
    BY <1>3, DeletionEnds DEF DeleteRefused, DeletionShape, DeletedOnce
  <1>4. ASSUME NEW h \in Handlers, Lost(h), UNCHANGED <<reachable, erased, deletions, rejected, doubly>>
        PROVE  DeletionIInv'
    BY <1>4, DeletionEnds DEF Lost, DeletionShape, DeletedOnce
  <1>5. CASE UNCHANGED deletionVars
    BY <1>5 DEF deletionVars, requestVars, DeletionShape, DeletionReadingsHold, DeletedOnce, Busy
  <1> QED BY <1>1, <1>2, <1>3, <1>4, <1>5 DEF DeletionNext

\* The inductive invariant holds in every reachable state.
THEOREM DeletionInvariance == DeletionSpec => []DeletionIInv
  BY DeletionInitially, DeletionSteps, PTL DEF DeletionSpec

\* Whatever requests overlap, one that was not overtaken by another deletion of its row
\* leaves one entry of it in the audit log (delete_data of DataDeletionService).
THEOREM DeletionsAreCounted == DeletionSpec => []DeletedOnce
  <1>1. DeletionIInv => DeletedOnce
    BY DEF DeletionIInv
  <1> QED BY DeletionInvariance, <1>1, PTL

-----------------------------------------------------------------------------
(* Metrics export. *)

\* The columns the argument looks at.
PutRequests ==
    [op : {"put"}, policy : Policies, named : SUBSET Sinks, accepts : BOOLEAN, accepted : BOOLEAN]

WrittenColumns == [configs : SUBSET Sinks, statuses : SUBSET Sinks, acceptance : BOOLEAN]

LoadedRequests ==
    [op : {"put_loaded"}, policy : Policies, accepted : BOOLEAN, inserts : BOOLEAN,
     writes : WrittenColumns]

TestRequests == [op : {"test"}, results : [Sinks -> ExportStatuses]]

RecordRequests ==
    [op : {"test_loaded"}, results : [Sinks -> ExportStatuses], records : SUBSET Sinks,
     writes : SUBSET Sinks]

ExportRequests == {Idle} \cup PutRequests \cup LoadedRequests \cup TestRequests \cup RecordRequests

ExportShape ==
    /\ exportPolicy \in Policies \cup {NoPolicy}
    /\ exported \in [Sinks -> ExportStatuses]
    /\ mixed \in BOOLEAN
    /\ cleared \in BOOLEAN
    /\ req \in [Handlers -> ExportRequests]
    /\ stale \in [Handlers -> BOOLEAN]

Enables(p) == \E s \in Sinks : p.enabled[s]
TokenHeld(p) == p.enabled["prometheus"] => p.token # NoScrapeToken

\* The row was accepted once, and what has become of that is on record: it stays so.
Known == exportPolicy # NoPolicy /\ (exportPolicy.acceptedAt \/ cleared)

\* A row that enables a sink was accepted, and has the token of a scrape it enables.
RowIsSound == exportPolicy # NoPolicy => TokenHeld(exportPolicy) /\ (Enables(exportPolicy) => Known)

\* A PUT brings a policy that was accepted by it or before, and the statuses of the row
\* as long as nobody has overtaken it; ...
PutHolds(h) ==
    Busy(h, "put") \/ Busy(h, "put_loaded") =>
        /\ TokenHeld(req[h].policy)
        /\ Enables(req[h].policy) => req[h].policy.acceptedAt \/ Known
        /\ req[h].accepted => req[h].policy.acceptedAt
        /\ ~stale[h] => req[h].policy.status = PolicyOrDefault.status

\* ... one that found a row leaves an acceptance unwritten only if the row had it; ...
LoadHolds(h) ==
    Busy(h, "put_loaded") /\ ~req[h].inserts =>
        /\ exportPolicy # NoPolicy
        /\ req[h].policy.acceptedAt /\ ~req[h].writes.acceptance => Known

\* ... a test writes no status it does not record.
RecordHolds(h) == Busy(h, "test_loaded") => req[h].writes \subseteq req[h].records

ExportRequestHolds(h) == PutHolds(h) /\ LoadHolds(h) /\ RecordHolds(h)
ExportRequestsHold == \A h \in Handlers : ExportRequestHolds(h)

\* The row's statuses, if nothing was mixed, are those of the last export.
RowTellsExports == ~mixed => PolicyOrDefault.status = exported

ExportIInv == ExportShape /\ RowIsSound /\ ExportRequestsHold /\ RowTellsExports

-----------------------------------------------------------------------------
\* The policy that stands for a missing row is a policy.
LEMMA DefaultIsPolicy ==
  /\ DefaultPolicy \in Policies
  /\ ~Enables(DefaultPolicy) /\ TokenHeld(DefaultPolicy)
  /\ DefaultPolicy.status \in [Sinks -> ExportStatuses]
  <1>1. "disabled" \in ExportStatuses
    BY DEF ExportStatuses
  <1>2. DefaultPolicy \in Policies
    BY <1>1 DEF DefaultPolicy, Policies
  <1>3. \A s \in Sinks : ~DefaultPolicy.enabled[s]
    BY DEF DefaultPolicy
  <1>4. "prometheus" \in Sinks
    BY DEF Sinks
  <1>5. DefaultPolicy.status \in [Sinks -> ExportStatuses]
    BY <1>2 DEF Policies
  <1> QED BY <1>2, <1>3, <1>4, <1>5 DEF Enables, TokenHeld

\* So is what a request reads, whether there is a row or not.
LEMMA PolicyIsPolicy == ExportShape => PolicyOrDefault \in Policies
  BY DefaultIsPolicy DEF ExportShape, PolicyOrDefault

\* What a request names and brings.
LEMMA ChangeFields ==
  ASSUME NEW c \in PolicyChanges
  PROVE  /\ c.accepts \in BOOLEAN /\ c.endpoint \in BOOLEAN /\ c.named \in SUBSET Sinks
         /\ c.token \in ScrapeTokens \cup {NoScrapeToken}
  <1>1. PICK named \in SUBSET Sinks :
           c \in [named : {named}, enable : SUBSET named, accepts : BOOLEAN,
                 token : {NoScrapeToken} \cup IF "prometheus" \in named THEN ScrapeTokens ELSE {},
                 endpoint : IF "otel" \in named THEN BOOLEAN ELSE {FALSE}]
    BY Zenon DEF PolicyChanges
  <1>2. c.accepts \in BOOLEAN /\ c.named = named
    BY <1>1
  <1>3. c.token \in {NoScrapeToken} \cup IF "prometheus" \in named THEN ScrapeTokens ELSE {}
    BY <1>1
  <1>4. c.endpoint \in IF "otel" \in named THEN BOOLEAN ELSE {FALSE}
    BY <1>1
  <1> QED BY <1>2, <1>3, <1>4

\* Replacing sinks of a policy with the gates passed: what is enabled then was accepted,
\* now or before, or was enabled already.
LEMMA MergedIsSound ==
  ASSUME NEW old \in Policies, NEW c \in PolicyChanges,
         ValidPolicy(Merged(old, c), c), AcceptanceGiven(old, Merged(old, c), c)
  PROVE  /\ Merged(old, c) \in Policies
         /\ TokenHeld(Merged(old, c))
         /\ Enables(Merged(old, c)) => Merged(old, c).acceptedAt \/ Enables(old)
         /\ old.acceptedAt => Merged(old, c).acceptedAt
         /\ Merged(old, c).status = old.status
  <1> DEFINE p == Merged(old, c)
  <1>1. /\ c.accepts \in BOOLEAN /\ c.endpoint \in BOOLEAN
        /\ c.token \in ScrapeTokens \cup {NoScrapeToken}
    BY ChangeFields
  <1>2. /\ old.enabled \in [Sinks -> BOOLEAN] /\ old.token \in ScrapeTokens \cup {NoScrapeToken}
        /\ old.endpoint \in BOOLEAN /\ old.status \in [Sinks -> ExportStatuses]
        /\ old.acceptedAt \in BOOLEAN
    BY DEF Policies
  <1>3. /\ p.enabled = [s \in Sinks |-> IF s \in c.named THEN s \in c.enable ELSE old.enabled[s]]
        /\ p.token = IF "prometheus" \in c.named THEN c.token ELSE old.token
        /\ p.endpoint = IF "otel" \in c.named THEN c.endpoint ELSE old.endpoint
        /\ p.status = old.status
        /\ p.acceptedAt = (c.accepts \/ old.acceptedAt)
    BY DEF Merged
  <1>4. p \in Policies
    <2>1. p.enabled \in [Sinks -> BOOLEAN]
      <3>1. \A s \in Sinks :
               (IF s \in c.named THEN s \in c.enable ELSE old.enabled[s]) \in BOOLEAN
        <4> SUFFICES ASSUME NEW s \in Sinks
                     PROVE  (IF s \in c.named THEN s \in c.enable ELSE old.enabled[s]) \in BOOLEAN
          OBVIOUS
        <4>1. CASE s \in c.named
          BY <4>1
        <4>2. CASE s \notin c.named
          BY <1>2, <4>2
        <4> QED BY <4>1, <4>2
      <3> HIDE DEF p
      <3> QED BY <1>3, <3>1, Zenon
    <2>2. p.token \in ScrapeTokens \cup {NoScrapeToken} /\ p.endpoint \in BOOLEAN
      BY <1>1, <1>2, <1>3
    <2>3. p.acceptedAt \in BOOLEAN
      BY <1>1, <1>2, <1>3
    <2> QED BY <1>2, <1>3, <2>1, <2>2, <2>3 DEF Merged, Policies
  <1>5. Enables(p) => p.acceptedAt \/ Enables(old)
    <2> SUFFICES ASSUME NEW s \in Sinks, p.enabled[s]
                 PROVE  c.accepts \/ old.acceptedAt \/ Enables(old)
      BY <1>3 DEF Enables
    <2>1. CASE old.enabled[s]
      BY <2>1 DEF Enables
    <2>2. CASE ~old.enabled[s]
      BY <2>2 DEF AcceptanceGiven
    <2> QED BY <2>1, <2>2
  <1>6. TokenHeld(p)
    BY DEF ValidPolicy, TokenHeld
  <1> QED BY <1>3, <1>4, <1>5, <1>6

\* What a test finds is a status of each sink.
LEMMA ResultsAreStatuses == \A p : ExportResults(p) \in [Sinks -> ExportStatuses]
  BY DEF ExportResults, PrometheusResult, OtelResult, SentryResult, Sinks, ExportStatuses

\* Assigning columns of one policy to another makes a policy: a sink and its token are one
\* column.
LEMMA AssignedIsPolicy ==
  ASSUME NEW row \in Policies, NEW p \in Policies, NEW w \in WrittenColumns
  PROVE  /\ Assigned(row, p, w) \in Policies
         /\ TokenHeld(row) /\ TokenHeld(p) => TokenHeld(Assigned(row, p, w))
         /\ Enables(Assigned(row, p, w)) => Enables(row) \/ Enables(p)
         /\ Assigned(row, p, w).acceptedAt = IF w.acceptance THEN p.acceptedAt ELSE row.acceptedAt
         /\ p.status = row.status => Assigned(row, p, w).status = row.status
  <1> DEFINE q == Assigned(row, p, w)
  <1>1. /\ row.enabled \in [Sinks -> BOOLEAN] /\ p.enabled \in [Sinks -> BOOLEAN]
        /\ row.endpoint \in BOOLEAN /\ p.endpoint \in BOOLEAN
        /\ row.acceptedAt \in BOOLEAN /\ p.acceptedAt \in BOOLEAN
    BY DEF Policies
  <1>2. /\ row.token \in ScrapeTokens \cup {NoScrapeToken}
        /\ p.token \in ScrapeTokens \cup {NoScrapeToken}
        /\ row.status \in [Sinks -> ExportStatuses] /\ p.status \in [Sinks -> ExportStatuses]
    BY DEF Policies
  <1>3. /\ q.enabled = [s \in Sinks |-> IF s \in w.configs THEN p.enabled[s] ELSE row.enabled[s]]
        /\ q.token = IF "prometheus" \in w.configs THEN p.token ELSE row.token
        /\ q.endpoint = IF "otel" \in w.configs THEN p.endpoint ELSE row.endpoint
        /\ q.status = [s \in Sinks |-> IF s \in w.statuses THEN p.status[s] ELSE row.status[s]]
        /\ q.acceptedAt = IF w.acceptance THEN p.acceptedAt ELSE row.acceptedAt
    BY DEF Assigned
  <1>4. q.enabled \in [Sinks -> BOOLEAN]
    <2>1. \A s \in Sinks : (IF s \in w.configs THEN p.enabled[s] ELSE row.enabled[s]) \in BOOLEAN
      <3> SUFFICES ASSUME NEW s \in Sinks
                   PROVE  (IF s \in w.configs THEN p.enabled[s] ELSE row.enabled[s]) \in BOOLEAN
        OBVIOUS
      <3>1. p.enabled[s] \in BOOLEAN /\ row.enabled[s] \in BOOLEAN
        BY <1>1
      <3> QED BY <3>1
    <2> HIDE DEF q
    <2> QED BY <1>3, <2>1, Zenon
  <1>5. q.token \in ScrapeTokens \cup {NoScrapeToken}
    BY <1>2, <1>3
  <1>6. q.endpoint \in BOOLEAN
    BY <1>1, <1>3
  <1>7. q.acceptedAt \in BOOLEAN
    BY <1>1, <1>3
  <1>8. q.status \in [Sinks -> ExportStatuses]
    BY <1>2, <1>3
  <1>9. q \in Policies
    BY <1>4, <1>5, <1>6, <1>7, <1>8 DEF Assigned, Policies
  <1>10. TokenHeld(row) /\ TokenHeld(p) => TokenHeld(q)
    <2>1. "prometheus" \in Sinks
      BY DEF Sinks
    <2> HIDE DEF q
    <2>2. CASE "prometheus" \in w.configs
      BY <1>3, <2>1, <2>2 DEF TokenHeld
    <2>3. CASE "prometheus" \notin w.configs
      BY <1>3, <2>1, <2>3 DEF TokenHeld
    <2> QED BY <2>2, <2>3
  <1>11. Enables(q) => Enables(row) \/ Enables(p)
    <2> HIDE DEF q
    <2> SUFFICES ASSUME NEW s \in Sinks, q.enabled[s] PROVE p.enabled[s] \/ row.enabled[s]
      BY DEF Enables
    <2>1. q.enabled[s] = IF s \in w.configs THEN p.enabled[s] ELSE row.enabled[s]
      BY <1>3
    <2> QED BY <2>1
  <1>12. p.status = row.status => q.status = row.status
    <2> HIDE DEF q
    <2> SUFFICES ASSUME p.status = row.status PROVE q.status = row.status
      OBVIOUS
    <2>1. q.status = [s \in Sinks |-> row.status[s]]
      BY <1>3
    <2> QED BY <1>2, <2>1
  <1> QED BY <1>3, <1>9, <1>10, <1>11, <1>12

-----------------------------------------------------------------------------
\* At the start there is no row, no export and no request.
LEMMA ExportInitially == ExportInit => ExportIInv
  <1> SUFFICES ASSUME ExportInit PROVE ExportIInv
    OBVIOUS
  <1>1. PolicyOrDefault = DefaultPolicy
    BY DEF ExportInit, PolicyOrDefault
  <1>2. ExportShape
    BY DefaultIsPolicy DEF ExportInit, NoRequests, ExportShape, ExportRequests
  <1>3. ExportRequestsHold
    BY DEF ExportInit, NoRequests, Busy, Idle, ExportRequestsHold, ExportRequestHolds,
           PutHolds, LoadHolds, RecordHolds
  <1>4. RowIsSound /\ RowTellsExports
    BY <1>1 DEF ExportInit, RowIsSound, RowTellsExports
  <1> QED BY <1>2, <1>3, <1>4 DEF ExportIInv

\* What holds of a request goes on to hold while it waits, unless it is overtaken.
LEMMA ExportWaits ==
  ASSUME NEW g \in Handlers, ExportRequestHolds(g), req'[g] = req[g],
         Known => Known', exportPolicy # NoPolicy => exportPolicy' # NoPolicy,
         ~stale'[g] => ~stale[g] /\ PolicyOrDefault' = PolicyOrDefault
  PROVE  ExportRequestHolds(g)'
  <1>1. PutHolds(g)'
    BY DEF ExportRequestHolds, PutHolds, Busy
  <1>2. LoadHolds(g)' /\ RecordHolds(g)'
    BY DEF ExportRequestHolds, LoadHolds, RecordHolds, Busy
  <1> QED BY <1>1, <1>2 DEF ExportRequestHolds

\* Nothing is asked of a handler at rest.
LEMMA ExportRests ==
  ASSUME NEW g \in Handlers, req'[g] = Idle
  PROVE  ExportRequestHolds(g)'
  BY DEF ExportRequestHolds, PutHolds, LoadHolds, RecordHolds, Busy, Idle

\* A request reads, and keeps what it has read: the others are as they were.
LEMMA ExportReads ==
  ASSUME ExportIInv, NEW h \in Handlers, NEW r \in ExportRequests,
         req' = [req EXCEPT ![h] = r], stale' = stale \/ stale' = [stale EXCEPT ![h] = FALSE],
         UNCHANGED <<exportRow, exportHistory>>, ExportRequestHolds(h)'
  PROVE  ExportIInv'
  <1>1. UNCHANGED <<exportPolicy, exported, mixed, cleared>>
    BY DEF exportRow, exportHistory
  <1>2. PolicyOrDefault' = PolicyOrDefault /\ (Known => Known')
    BY <1>1 DEF PolicyOrDefault, Known
  <1>3. ExportShape'
    BY <1>1 DEF ExportIInv, ExportShape
  <1>4. ASSUME NEW g \in Handlers \ {h} PROVE ExportRequestHolds(g)'
    <2>1. req'[g] = req[g] /\ stale'[g] = stale[g] /\ ExportRequestHolds(g)
      BY DEF ExportIInv, ExportShape, ExportRequestsHold
    <2> QED BY <1>1, <1>2, <2>1, ExportWaits
  <1>5. ExportRequestsHold'
    BY <1>4 DEF ExportRequestsHold
  <1>6. RowIsSound' /\ RowTellsExports'
    BY <1>1, <1>2 DEF ExportIInv, RowIsSound, RowTellsExports
  <1> QED BY <1>3, <1>5, <1>6 DEF ExportIInv

\* A request gives up.
LEMMA ExportEnds ==
  ASSUME ExportIInv, NEW h \in Handlers, End(h), UNCHANGED <<exportRow, exportHistory>>
  PROVE  ExportIInv'
  <1>1. /\ Idle \in ExportRequests /\ req' = [req EXCEPT ![h] = Idle]
        /\ stale' = [stale EXCEPT ![h] = FALSE]
    BY DEF End, ExportRequests
  <1>2. req'[h] = Idle
    BY <1>1 DEF ExportIInv, ExportShape
  <1> QED BY <1>1, <1>2, ExportRests, ExportReads

\* A request commits: each that is still under way has been overtaken.
LEMMA ExportCommits ==
  ASSUME ExportIInv, NEW h \in Handlers, EndAndOvertake(h),
         exportPolicy' \in Policies \cup {NoPolicy}, exported' \in [Sinks -> ExportStatuses],
         mixed' \in BOOLEAN, cleared' \in BOOLEAN,
         Known => Known', exportPolicy # NoPolicy => exportPolicy' # NoPolicy,
         RowIsSound', RowTellsExports'
  PROVE  ExportIInv'
  <1>1. /\ req' \in [Handlers -> ExportRequests] /\ stale' \in [Handlers -> BOOLEAN]
        /\ req'[h] = Idle
    BY DEF EndAndOvertake, ExportIInv, ExportShape, ExportRequests
  <1>2. ASSUME NEW g \in Handlers \ {h}, req[g] # Idle PROVE ExportRequestHolds(g)'
    <2>1. req'[g] = req[g] /\ stale'[g] /\ ExportRequestHolds(g)
      BY <1>2 DEF EndAndOvertake, ExportIInv, ExportShape, ExportRequestsHold
    <2> QED BY <2>1, ExportWaits
  <1>3. ASSUME NEW g \in Handlers \ {h}, req[g] = Idle PROVE ExportRequestHolds(g)'
    <2>1. req'[g] = Idle
      BY <1>3 DEF EndAndOvertake, ExportIInv, ExportShape
    <2> QED BY <2>1, ExportRests
  <1>4. ExportRequestHolds(h)'
    BY <1>1, ExportRests
  <1>5. ExportRequestsHold'
    BY <1>2, <1>3, <1>4 DEF ExportRequestsHold
  <1>6. ExportShape'
    BY <1>1 DEF ExportShape
  <1> QED BY <1>5, <1>6 DEF ExportIInv

\* The columns a PUT will write, and whether it will write the acceptance.
LEMMA DirtyColumns ==
  ASSUME NEW row \in Policies \cup {NoPolicy}, NEW p \in Policies, NEW accepts \in BOOLEAN,
         NEW more \in SUBSET Sinks
  PROVE  /\ Dirty(row, p, accepts, more) \in WrittenColumns
         /\ row # NoPolicy /\ ~Dirty(row, p, accepts, more).acceptance =>
               p.acceptedAt = row.acceptedAt
  <1>1. CASE row = NoPolicy
    BY <1>1 DEF Dirty, WrittenColumns
  <1>2. CASE row # NoPolicy
    <2> DEFINE statuses == {s \in Sinks : p.status[s] # row.status[s]}
               a == accepts \/ p.acceptedAt # row.acceptedAt
    <2>1. DirtyConfigs(row, p) \in SUBSET Sinks /\ statuses \in SUBSET Sinks /\ a \in BOOLEAN
      BY DEF DirtyConfigs
    <2>2. Dirty(row, p, accepts, more) =
             [configs |-> DirtyConfigs(row, p) \cup more, statuses |-> statuses, acceptance |-> a]
      BY <1>2 DEF Dirty
    <2>3. ~a => p.acceptedAt = row.acceptedAt
      OBVIOUS
    <2> HIDE DEF statuses, a
    <2> QED BY <1>2, <2>1, <2>2, <2>3 DEF WrittenColumns
  <1> QED BY <1>1, <1>2

\* The requests by what they do, with their fields.
LEMMA ExportFields ==
  ASSUME ExportShape, NEW h \in Handlers
  PROVE  /\ Busy(h, "put") => req[h] \in PutRequests
         /\ Busy(h, "put_loaded") => req[h] \in LoadedRequests
         /\ Busy(h, "test") => req[h] \in TestRequests
         /\ Busy(h, "test_loaded") => req[h] \in RecordRequests
  BY DEF ExportShape, ExportRequests, PutRequests, LoadedRequests, TestRequests, RecordRequests,
         Busy, Idle

\* A PUT reads the policy, changes it and passes the gates.
LEMMA PutReadSteps ==
  ASSUME ExportIInv, NEW h \in Handlers, PutRead(h)
  PROVE  ExportIInv'
  <1>0. ExportShape /\ RowIsSound /\ PolicyOrDefault \in Policies
    BY PolicyIsPolicy DEF ExportIInv
  <1>1. PICK c \in PolicyChanges :
           /\ ValidPolicy(Merged(PolicyOrDefault, c), c)
           /\ AcceptanceGiven(PolicyOrDefault, Merged(PolicyOrDefault, c), c)
           /\ Begin(h, [op |-> "put", policy |-> Merged(PolicyOrDefault, c), named |-> c.named,
                        accepts |-> c.accepts, accepted |-> PolicyOrDefault.acceptedAt])
           /\ UNCHANGED <<exportRow, exportHistory>>
    BY DEF PutRead
  <1> DEFINE p == Merged(PolicyOrDefault, c)
             a == PolicyOrDefault.acceptedAt
             r == [op |-> "put", policy |-> p, named |-> c.named, accepts |-> c.accepts,
                   accepted |-> a]
  <1>2. /\ p \in Policies /\ TokenHeld(p) /\ p.status = PolicyOrDefault.status
        /\ Enables(p) => p.acceptedAt \/ Enables(PolicyOrDefault)
        /\ a => p.acceptedAt
    BY <1>0, <1>1, MergedIsSound
  <1>3. Enables(PolicyOrDefault) => Known
    BY <1>0, DefaultIsPolicy DEF PolicyOrDefault, RowIsSound
  <1>4. a \in BOOLEAN
    BY <1>0 DEF Policies
  <1>5. Begin(h, r) /\ UNCHANGED <<exportRow, exportHistory>>
    BY <1>1
  <1> HIDE DEF p, a
  <1>6. r \in PutRequests
    BY <1>2, <1>4, ChangeFields DEF PutRequests
  <1>7. r.op = "put" /\ r.policy = p /\ r.accepted = a
    OBVIOUS
  <1> HIDE DEF r
  <1>8. req' = [req EXCEPT ![h] = r] /\ req'[h] = r /\ stale' = [stale EXCEPT ![h] = FALSE]
    BY <1>0, <1>5 DEF Begin, ExportShape
  <1>9. PolicyOrDefault' = PolicyOrDefault /\ Known' = Known
    BY <1>5 DEF PolicyOrDefault, Known, exportRow, exportHistory
  <1>10. PutHolds(h)'
    <2> SUFFICES /\ TokenHeld(p)
                 /\ Enables(p) => p.acceptedAt \/ Known
                 /\ a => p.acceptedAt
                 /\ p.status = PolicyOrDefault.status
      BY <1>7, <1>8, <1>9 DEF PutHolds
    <2> QED BY <1>2, <1>3
  <1>11. LoadHolds(h)' /\ RecordHolds(h)'
    BY <1>7, <1>8 DEF LoadHolds, RecordHolds, Busy
  <1>12. r \in ExportRequests /\ ExportRequestHolds(h)'
    BY <1>6, <1>10, <1>11 DEF ExportRequests, ExportRequestHolds
  <1> QED BY <1>5, <1>8, <1>12, ExportReads

\* It selects the row again and compares.
LEMMA PutLoadSteps ==
  ASSUME ExportIInv, NEW h \in Handlers, PutLoad(h)
  PROVE  ExportIInv'
  <1>0. ExportShape /\ ExportRequestHolds(h)
    BY DEF ExportIInv, ExportRequestsHold
  <1> DEFINE p == req[h].policy
  <1>1. PICK more \in SUBSET req[h].named :
           req' = [req EXCEPT ![h] =
                    [op |-> "put_loaded", policy |-> p, accepted |-> req[h].accepted,
                     inserts |-> exportPolicy = NoPolicy,
                     writes |-> Dirty(exportPolicy, p, req[h].accepts, more)]]
    BY DEF PutLoad
  <1>2. Busy(h, "put") /\ UNCHANGED <<exportRow, exportHistory, stale>>
    BY DEF PutLoad
  <1>3. req[h] \in PutRequests
    BY <1>0, <1>2, ExportFields
  <1>4. /\ p \in Policies /\ req[h].accepts \in BOOLEAN /\ req[h].accepted \in BOOLEAN
        /\ more \in SUBSET Sinks
    BY <1>3 DEF PutRequests
  <1> DEFINE w == Dirty(exportPolicy, p, req[h].accepts, more)
             i == exportPolicy = NoPolicy
             r == [op |-> "put_loaded", policy |-> p, accepted |-> req[h].accepted,
                   inserts |-> i, writes |-> w]
  <1>5. /\ w \in WrittenColumns
        /\ ~i /\ ~w.acceptance => p.acceptedAt = exportPolicy.acceptedAt
    BY <1>0, <1>4, DirtyColumns DEF ExportShape
  <1>6. i \in BOOLEAN
    OBVIOUS
  <1>7. req' = [req EXCEPT ![h] = r]
    BY <1>1
  <1>8. PutHolds(h)
    BY <1>0 DEF ExportRequestHolds
  <1>9. PolicyOrDefault' = PolicyOrDefault /\ Known' = Known /\ exportPolicy' = exportPolicy
    BY <1>2 DEF PolicyOrDefault, Known, exportRow, exportHistory
  <1>10. i = (exportPolicy = NoPolicy)
    OBVIOUS
  <1> HIDE DEF w, i
  <1>11. r \in LoadedRequests
    BY <1>4, <1>5, <1>6 DEF LoadedRequests
  <1>12. /\ r.op = "put_loaded" /\ r.policy = p /\ r.accepted = req[h].accepted
         /\ r.inserts = i /\ r.writes = w
    OBVIOUS
  <1> HIDE DEF r
  <1>13. req'[h] = r /\ stale' = stale
    BY <1>0, <1>2, <1>7 DEF ExportShape
  <1>14. PutHolds(h)'
    <2>1. /\ TokenHeld(p)
          /\ Enables(p) => p.acceptedAt \/ Known
          /\ req[h].accepted => p.acceptedAt
          /\ ~stale[h] => p.status = PolicyOrDefault.status
      BY <1>2, <1>8 DEF PutHolds
    <2> QED BY <1>9, <1>12, <1>13, <2>1 DEF PutHolds
  <1>15. LoadHolds(h)'
    <2>1. ~i => /\ exportPolicy # NoPolicy
                /\ p.acceptedAt /\ ~w.acceptance => Known
      BY <1>5, <1>10 DEF Known
    <2> QED BY <1>9, <1>12, <1>13, <2>1 DEF LoadHolds
  <1>16. RecordHolds(h)'
    BY <1>12, <1>13 DEF RecordHolds, Busy
  <1>17. r \in ExportRequests /\ ExportRequestHolds(h)'
    BY <1>11, <1>14, <1>15, <1>16 DEF ExportRequests, ExportRequestHolds
  <1> QED BY <1>2, <1>7, <1>13, <1>17, ExportReads

\* It writes a first row, or the columns that were others.
LEMMA PutWriteSteps ==
  ASSUME ExportIInv, NEW h \in Handlers, PutWrite(h)
  PROVE  ExportIInv'
  <1> DEFINE p == req[h].policy
             w == req[h].writes
  <1>0. ExportShape /\ RowIsSound /\ RowTellsExports /\ ExportRequestHolds(h)
    BY DEF ExportIInv, ExportRequestsHold
  <1>1. /\ Busy(h, "put_loaded") /\ EndAndOvertake(h) /\ exported' = exported
        /\ mixed' = (mixed \/ stale[h])
        /\ req[h].inserts => exportPolicy = NoPolicy
        /\ exportPolicy' = IF req[h].inserts THEN p ELSE Assigned(exportPolicy, p, w)
    BY DEF PutWrite, Upsert
  <1>2. cleared' = /\ ~exportPolicy'.acceptedAt
                   /\ cleared \/ (PolicyOrDefault.acceptedAt /\ ~req[h].accepted)
    BY DEF PutWrite
  <1>3. req[h] \in LoadedRequests
    BY <1>0, <1>1, ExportFields
  <1>4. /\ p \in Policies /\ req[h].accepted \in BOOLEAN /\ req[h].inserts \in BOOLEAN
        /\ w \in WrittenColumns /\ w.acceptance \in BOOLEAN
    BY <1>3 DEF LoadedRequests, WrittenColumns
  <1>5. /\ TokenHeld(p)
        /\ Enables(p) => p.acceptedAt \/ Known
        /\ req[h].accepted => p.acceptedAt
        /\ ~stale[h] => p.status = PolicyOrDefault.status
    BY <1>0, <1>1 DEF ExportRequestHolds, PutHolds
  <1>6. ~req[h].inserts => /\ exportPolicy # NoPolicy
                           /\ p.acceptedAt /\ ~w.acceptance => Known
    BY <1>0, <1>1 DEF ExportRequestHolds, LoadHolds
  <1>7. mixed' \in BOOLEAN /\ cleared' \in BOOLEAN
    <2>1. mixed' \in BOOLEAN
      BY <1>0, <1>1 DEF ExportShape
    <2>2. cleared' \in BOOLEAN
      BY <1>2
    <2> QED BY <2>1, <2>2
  <1> DEFINE q == exportPolicy'
  <1>8. CASE req[h].inserts
    <2>1. exportPolicy' = p /\ exportPolicy = NoPolicy /\ exportPolicy' # NoPolicy
      BY <1>1, <1>4, <1>8, NoPolicyAssumption
    <2>2. ~Known /\ PolicyOrDefault = DefaultPolicy /\ PolicyOrDefault' = p
      BY <2>1 DEF Known, PolicyOrDefault
    <2>3. RowIsSound'
      BY <1>5, <2>1, <2>2 DEF RowIsSound, Known
    <2>4. RowTellsExports'
      <3> SUFFICES ASSUME ~mixed' PROVE p.status = exported
        BY <1>1, <2>2 DEF RowTellsExports
      <3>1. ~mixed /\ ~stale[h]
        BY <1>0, <1>1 DEF ExportShape
      <3> QED BY <1>0, <1>5, <3>1 DEF RowTellsExports
    <2>5. exported' \in [Sinks -> ExportStatuses]
      BY <1>0, <1>1 DEF ExportShape
    <2> QED BY <1>1, <1>4, <1>7, <2>1, <2>2, <2>3, <2>4, <2>5, ExportCommits
  <1>9. CASE ~req[h].inserts
    <2>1. /\ exportPolicy # NoPolicy /\ exportPolicy \in Policies
          /\ exportPolicy' = Assigned(exportPolicy, p, w) /\ PolicyOrDefault = exportPolicy
      BY <1>0, <1>1, <1>6, <1>9 DEF ExportShape, PolicyOrDefault
    <2>2. /\ exportPolicy' \in Policies
          /\ TokenHeld(exportPolicy) /\ TokenHeld(p) => TokenHeld(q)
          /\ Enables(q) => Enables(exportPolicy) \/ Enables(p)
          /\ q.acceptedAt = IF w.acceptance THEN p.acceptedAt ELSE exportPolicy.acceptedAt
          /\ p.status = exportPolicy.status => q.status = exportPolicy.status
      BY <1>4, <2>1, AssignedIsPolicy
    <2>3. exportPolicy' # NoPolicy /\ PolicyOrDefault' = exportPolicy'
      BY <2>2, NoPolicyAssumption DEF PolicyOrDefault
    <2>4. exportPolicy.acceptedAt \in BOOLEAN /\ p.acceptedAt \in BOOLEAN
      BY <1>4, <2>1 DEF Policies
    <2>5. Known' = (q.acceptedAt \/ cleared')
      BY <2>3 DEF Known
    <2>6. Known = (exportPolicy.acceptedAt \/ cleared)
      BY <2>1 DEF Known
    <2>7. cleared' = (~q.acceptedAt /\ (cleared \/ (exportPolicy.acceptedAt /\ ~req[h].accepted)))
      BY <1>2, <2>1
    <2>8. Known => Known'
      <3> SUFFICES ASSUME Known, ~q.acceptedAt PROVE cleared'
        BY <2>5
      <3>1. CASE cleared
        BY <2>7, <3>1
      <3>2. CASE exportPolicy.acceptedAt
        <4>1. ~p.acceptedAt
          BY <2>2, <3>2
        <4> QED BY <1>5, <2>7, <3>2, <4>1
      <3> QED BY <2>6, <3>1, <3>2
    <2>9. Enables(q) => Known'
      <3> SUFFICES ASSUME Enables(q), ~Known PROVE q.acceptedAt
        BY <2>5, <2>8
      <3>1. Enables(p)
        BY <1>0, <2>1, <2>2 DEF RowIsSound
      <3>2. p.acceptedAt /\ w.acceptance
        BY <1>5, <1>6, <1>9, <3>1
      <3> QED BY <2>2, <3>2
    <2>10. RowIsSound'
      BY <1>0, <1>5, <2>1, <2>2, <2>9 DEF RowIsSound
    <2>11. RowTellsExports'
      <3> SUFFICES ASSUME ~mixed' PROVE q.status = exported
        BY <1>1, <2>3 DEF RowTellsExports
      <3>1. ~mixed /\ ~stale[h]
        BY <1>0, <1>1 DEF ExportShape
      <3> QED BY <1>0, <1>5, <2>1, <2>2, <3>1 DEF RowTellsExports
    <2>12. exported' \in [Sinks -> ExportStatuses]
      BY <1>0, <1>1 DEF ExportShape
    <2> HIDE DEF q
    <2> QED BY <1>1, <1>7, <2>2, <2>3, <2>8, <2>10, <2>11, <2>12, ExportCommits
  <1> QED BY <1>8, <1>9

\* A test reads the policy and asks each transport.
LEMMA TestReadSteps ==
  ASSUME ExportIInv, NEW h \in Handlers, TestExportRead(h)
  PROVE  ExportIInv'
  <1>0. ExportShape
    BY DEF ExportIInv
  <1> DEFINE x == ExportResults(PolicyOrDefault)
             r == [op |-> "test", results |-> x]
  <1>1. x \in [Sinks -> ExportStatuses]
    BY ResultsAreStatuses
  <1>2. Begin(h, r) /\ UNCHANGED <<exportRow, exportHistory>>
    BY DEF TestExportRead
  <1> HIDE DEF x
  <1>3. r \in ExportRequests /\ r.op = "test"
    BY <1>1 DEF ExportRequests, TestRequests
  <1> HIDE DEF r
  <1>4. req' = [req EXCEPT ![h] = r] /\ req'[h] = r /\ stale' = [stale EXCEPT ![h] = FALSE]
    BY <1>0, <1>2 DEF Begin, ExportShape
  <1>5. ExportRequestHolds(h)'
    BY <1>3, <1>4 DEF ExportRequestHolds, PutHolds, LoadHolds, RecordHolds, Busy
  <1> QED BY <1>2, <1>3, <1>4, <1>5, ExportReads

\* It selects the row, for the first sink it records.
LEMMA TestLoadSteps ==
  ASSUME ExportIInv, NEW h \in Handlers, TestExportLoad(h)
  PROVE  ExportIInv'
  <1>0. ExportShape
    BY DEF ExportIInv
  <1> DEFINE x == req[h].results
             found == exportPolicy # NoPolicy
  <1>1. PICK s \in Sinks :
           req' = [req EXCEPT ![h] =
                     [op |-> "test_loaded", results |-> x,
                      records |-> {y \in Sinks : y # s \/ found},
                      writes |-> {y \in Sinks : y # s \/ (found /\ x[s] # exportPolicy.status[s])}]]
    BY DEF TestExportLoad
  <1>2. Busy(h, "test") /\ UNCHANGED <<exportRow, exportHistory, stale>>
    BY DEF TestExportLoad
  <1>3. x \in [Sinks -> ExportStatuses]
    <2>1. req[h] \in TestRequests
      BY <1>0, <1>2, ExportFields
    <2> QED BY <2>1 DEF TestRequests
  <1> DEFINE recorded == {y \in Sinks : y # s \/ found}
             written == {y \in Sinks : y # s \/ (found /\ x[s] # exportPolicy.status[s])}
             r == [op |-> "test_loaded", results |-> x, records |-> recorded, writes |-> written]
  <1>4. written \subseteq recorded /\ recorded \subseteq Sinks
    <2> HIDE DEF found
    <2> QED BY Zenon
  <1>5. req' = [req EXCEPT ![h] = r]
    BY <1>1
  <1> HIDE DEF recorded, written
  <1>6. r \in ExportRequests /\ r.op = "test_loaded" /\ r.writes \subseteq r.records
    BY <1>3, <1>4 DEF ExportRequests, RecordRequests
  <1> HIDE DEF r
  <1>7. req'[h] = r
    BY <1>0, <1>5 DEF ExportShape
  <1>8. ExportRequestHolds(h)'
    BY <1>6, <1>7 DEF ExportRequestHolds, PutHolds, LoadHolds, RecordHolds, Busy
  <1> QED BY <1>2, <1>5, <1>6, <1>8, ExportReads

\* It records what it found, in the row if there is one.
LEMMA TestWriteSteps ==
  ASSUME ExportIInv, NEW h \in Handlers, TestExportWrite(h)
  PROVE  ExportIInv'
  <1> DEFINE r == req[h].results
             records == req[h].records
             writes == req[h].writes
  <1>0. ExportShape /\ RowIsSound /\ RowTellsExports /\ ExportRequestHolds(h)
    BY DEF ExportIInv, ExportRequestsHold
  <1>1. Busy(h, "test_loaded") /\ EndAndOvertake(h) /\ RecordExports(r, records, writes)
    BY DEF TestExportWrite
  <1>2. r \in [Sinks -> ExportStatuses] /\ records \subseteq Sinks /\ writes \subseteq records
    <2>1. req[h] \in RecordRequests
      BY <1>0, <1>1, ExportFields
    <2>2. writes \subseteq records
      BY <1>0, <1>1 DEF ExportRequestHolds, RecordHolds
    <2> QED BY <2>1, <2>2 DEF RecordRequests
  <1>3. CASE exportPolicy = NoPolicy
    <2>1. UNCHANGED <<exportPolicy, exported, mixed, cleared>>
      BY <1>1, <1>3 DEF RecordExports, exportRow, exportHistory
    <2>2. PolicyOrDefault' = PolicyOrDefault /\ Known' = Known
      BY <2>1 DEF PolicyOrDefault, Known
    <2>3. RowIsSound' /\ RowTellsExports'
      BY <1>0, <2>1, <2>2 DEF RowIsSound, RowTellsExports
    <2>4. /\ exportPolicy' \in Policies \cup {NoPolicy} /\ exported' \in [Sinks -> ExportStatuses]
          /\ mixed' \in BOOLEAN /\ cleared' \in BOOLEAN
      BY <1>0, <2>1 DEF ExportShape
    <2> QED BY <1>1, <1>3, <2>1, <2>2, <2>3, <2>4, ExportCommits
  <1>4. CASE exportPolicy # NoPolicy
    <2>1. exportPolicy \in Policies /\ PolicyOrDefault = exportPolicy
      BY <1>0, <1>4 DEF ExportShape, PolicyOrDefault
    <2> DEFINE st == [s \in Sinks |-> IF s \in writes THEN r[s] ELSE exportPolicy.status[s]]
               ex == [s \in Sinks |-> IF s \in records THEN r[s] ELSE exported[s]]
    <2>2. exportPolicy.status \in [Sinks -> ExportStatuses] /\ exported \in [Sinks -> ExportStatuses]
      BY <1>0, <2>1 DEF ExportShape, Policies
    <2>3. st \in [Sinks -> ExportStatuses] /\ ex \in [Sinks -> ExportStatuses]
      BY <1>2, <2>2
    <2>4. /\ exportPolicy' = [exportPolicy EXCEPT !.status = st]
          /\ exported' = ex
          /\ mixed' = (mixed \/ \E s \in records \ writes : exportPolicy.status[s] # r[s])
          /\ cleared' = cleared
      BY <1>1, <1>4 DEF RecordExports
    <2>5. ~mixed' => st = ex
      <3> SUFFICES ASSUME ~mixed' PROVE st = ex
        OBVIOUS
      <3>1. exportPolicy.status = exported
        BY <1>0, <2>1, <2>4 DEF RowTellsExports
      <3>2. \A s \in records \ writes : exportPolicy.status[s] = r[s]
        BY <2>4
      <3>3. \A s \in Sinks : (IF s \in writes THEN r[s] ELSE exportPolicy.status[s]) =
                             (IF s \in records THEN r[s] ELSE exported[s])
        BY <1>2, <3>1, <3>2
      <3> QED BY <3>3
    <2>6. mixed' \in BOOLEAN
      <3> HIDE DEF st, ex
      <3> QED BY <2>4
    <2> HIDE DEF st, ex
    <2>7. /\ exportPolicy' \in Policies /\ exportPolicy'.status = st
          /\ exportPolicy'.enabled = exportPolicy.enabled
          /\ exportPolicy'.token = exportPolicy.token
          /\ exportPolicy'.acceptedAt = exportPolicy.acceptedAt
      BY <2>1, <2>3, <2>4 DEF Policies
    <2>8. exportPolicy' # NoPolicy /\ PolicyOrDefault' = exportPolicy'
      BY <2>7, NoPolicyAssumption DEF PolicyOrDefault
    <2>9. Known' = Known
      BY <1>4, <2>4, <2>7, <2>8 DEF Known
    <2>10. RowIsSound'
      BY <1>0, <1>4, <2>7, <2>9 DEF RowIsSound, Enables, TokenHeld
    <2>11. RowTellsExports'
      BY <2>4, <2>5, <2>7, <2>8 DEF RowTellsExports
    <2>12. cleared' \in BOOLEAN
      BY <1>0, <2>4 DEF ExportShape
    <2>13. exported' \in [Sinks -> ExportStatuses]
      BY <2>3, <2>4
    <2> QED BY <1>1, <2>6, <2>7, <2>8, <2>9, <2>10, <2>11, <2>12, <2>13, ExportCommits
  <1> QED BY <1>3, <1>4

\* Every request of the policy service, and a scrape, keeps it.
LEMMA ExportSteps == ExportIInv /\ [ExportNext]_exportVars => ExportIInv'
  <1> SUFFICES ASSUME ExportIInv, [ExportNext]_exportVars PROVE ExportIInv'
    OBVIOUS
  <1>1. ASSUME NEW h \in Handlers, Put(h) PROVE ExportIInv'
    BY <1>1, PutReadSteps, PutLoadSteps, PutWriteSteps DEF Put
  <1>2. ASSUME NEW h \in Handlers, TestExport(h) PROVE ExportIInv'
    BY <1>2, TestReadSteps, TestLoadSteps, TestWriteSteps DEF TestExport
  <1>3. ASSUME NEW h \in Handlers, Lost(h), UNCHANGED <<exportRow, exportHistory>> PROVE ExportIInv'
    BY <1>3, ExportEnds DEF Lost
  <1>4. CASE UNCHANGED exportVars
    <2>1. UNCHANGED <<exportPolicy, exported, mixed, cleared, req, stale>>
      BY <1>4 DEF exportVars, exportRow, exportHistory, requestVars
    <2>2. PolicyOrDefault' = PolicyOrDefault /\ Known' = Known
      BY <2>1 DEF PolicyOrDefault, Known
    <2>3. ExportRequestsHold'
      <3> SUFFICES ASSUME NEW g \in Handlers PROVE ExportRequestHolds(g)'
        BY DEF ExportRequestsHold
      <3>1. ExportRequestHolds(g)
        BY DEF ExportIInv, ExportRequestsHold
      <3> QED BY <2>1, <2>2, <3>1, ExportWaits
    <2> QED BY <2>1, <2>2, <2>3 DEF ExportIInv, ExportShape, RowIsSound, RowTellsExports
  <1> QED BY <1>1, <1>2, <1>3, <1>4 DEF ExportNext

\* The inductive invariant holds in every reachable state.
THEOREM ExportInvariance == ExportSpec => []ExportIInv
  BY ExportInitially, ExportSteps, PTL DEF ExportSpec

\* Whatever requests with and without an acceptance overlap, and whichever of their columns
\* meet in the row, a sink is enabled only in a policy that was accepted, of which no PUT
\* has since cleared the acceptance without having read it; and a policy in which no PUT
\* wrote over an unseen one shows what the last export said (update_policy and test_export
\* of MetricsExportService, upsert and record_export of its repository).
THEOREM ExportsStayAccepted == ExportSpec => []ExportsAreAccepted
  <1>1. ExportIInv => EnabledSinksWereAccepted
    BY DEF ExportIInv, RowIsSound, Enables, Known, EnabledSinksWereAccepted
  <1>2. ExportIInv => StatusIsTheLastExport
    BY DEF ExportIInv, RowTellsExports, PolicyOrDefault, StatusIsTheLastExport
  <1> QED BY ExportInvariance, <1>1, <1>2, PTL DEF ExportsAreAccepted

-----------------------------------------------------------------------------
(* Notifications. *)

\* A user's preferences and the requests under way, as far as they are looked at.
Preferred == [Channels -> Settings] \cup {NoPreference}

SeedOps == {"seed", "seed_looked"}
UpdateOps == {"update", "update_looked"}
DeliveryOps == {"deliver", "deliver_seeds"}

SeedRequests == [op : SeedOps, found : Preferred, writes : {FALSE}]

UpdateRequests ==
    [op : UpdateOps, type : Types, named : SUBSET Channels, found : Preferred,
     new : [Channels -> Settings], writes : {FALSE}]

DeliveryRequests ==
    [op : DeliveryOps, type : Types, seeds : BOOLEAN, found : Preferred, writes : BOOLEAN,
     shown : BOOLEAN, mails : BOOLEAN]

NotificationRequests == {Idle} \cup SeedRequests \cup UpdateRequests \cup DeliveryRequests

NotificationShape ==
    /\ preference \in [Types -> Preferred]
    /\ req \in [Handlers -> NotificationRequests]
    /\ stale \in [Handlers -> BOOLEAN]

\* A row that was found is still there: rows are not deleted.
StillThere(t, found) == found # NoPreference => preference[t] # NoPreference

NoRows == \A t \in Types : preference[t] = NoPreference

\* A request that seeds and that nobody has overtaken has a user without rows; ...
SeedHolds(h) ==
    req[h].op \in SeedOps =>
        /\ StillThere(FirstType, req[h].found)
        /\ ~stale[h] => NoRows

\* ... an update nobody has overtaken rewrites the channels it does not name with what
\* the row has; ...
UpdateHolds(h) ==
    req[h].op \in UpdateOps =>
        /\ StillThere(req[h].type, req[h].found)
        /\ ~stale[h] /\ preference[req[h].type] # NoPreference =>
              \A c \in Channels \ req[h].named : req[h].new[c] = preference[req[h].type][c]

\* ... a delivery shows and mails only what the row lets through.
DeliveryHolds(h) ==
    req[h].op \in DeliveryOps =>
        /\ StillThere(req[h].type, req[h].found)
        /\ ~stale[h] /\ req[h].seeds => NoRows
        /\ ~stale[h] /\ req[h].mails => preference[req[h].type].email # "off"
        /\ ~stale[h] /\ req[h].shown => preference[req[h].type].in_app # "off"

NotificationHolds(h) == SeedHolds(h) /\ UpdateHolds(h) /\ DeliveryHolds(h)
RequestsHold == \A h \in Handlers : NotificationHolds(h)

NotificationIInv == NotificationShape /\ RequestsHold

-----------------------------------------------------------------------------
\* A null preference is none of the settings.
LEMMA NullIsNoSetting ==
  /\ \A c \in Channels : NoPreference[c] = "null"
  /\ \A p \in [Channels -> Settings] : p # NoPreference /\ \A c \in Channels : p[c] # "null"
  <1>1. \A c \in Channels : NoPreference[c] = "null"
    BY DEF NoPreference
  <1>2. ASSUME NEW p \in [Channels -> Settings], NEW c \in Channels PROVE p[c] # "null"
    BY DEF Settings
  <1>3. "email" \in Channels
    BY DEF Channels
  <1> QED BY <1>1, <1>2, <1>3

\* The default of every type is a preference.
LEMMA DefaultIsPreferred == \A t : Default(t) \in [Channels -> Settings]
  BY DEF Default, Channels, Settings

\* What an upsert leaves is a preference, and of each channel the new value or the row's.
LEMMA UpsertedIsPreferred ==
  ASSUME NEW row \in Preferred, NEW found \in Preferred, NEW new \in [Channels -> Settings],
         found # NoPreference => row # NoPreference
  PROVE  /\ Upserted(row, found, new) \in [Channels -> Settings]
         /\ row # NoPreference =>
               \A c \in Channels : Upserted(row, found, new)[c] \in {new[c], row[c]}
  <1>1. CASE found = NoPreference
    BY <1>1 DEF Upserted
  <1>2. CASE found # NoPreference
    <2>1. row \in [Channels -> Settings]
      BY <1>2 DEF Preferred
    <2>2. Upserted(row, found, new) =
             [c \in Channels |-> IF new[c] # found[c] THEN new[c] ELSE row[c]]
      BY <1>2 DEF Upserted
    <2>3. \A c \in Channels : (IF new[c] # found[c] THEN new[c] ELSE row[c]) \in Settings
      BY <2>1
    <2> QED BY <2>2, <2>3
  <1> QED BY <1>1, <1>2

\* What an update writes is a preference, and keeps the row where it names nothing.
LEMMA UpdatedKeeps ==
  ASSUME NEW saw \in Preferred, NEW change \in Changes
  PROVE  /\ Updated(saw, change) \in [Channels -> Settings]
         /\ DOMAIN change \in SUBSET Channels
         /\ saw # NoPreference =>
               \A c \in Channels \ DOMAIN change : Updated(saw, change)[c] = saw[c]
  <1>1. PICK cs \in SUBSET Channels : change \in [cs -> Settings]
    BY DEF Changes
  <1>2. DOMAIN change = cs /\ \A c \in cs : change[c] \in Settings
    BY <1>1
  <1>3. saw # NoPreference => saw \in [Channels -> Settings]
    BY DEF Preferred
  <1>4. Updated(saw, change) =
           [c \in Channels |-> IF c \in DOMAIN change THEN change[c]
                        ELSE IF saw # NoPreference THEN saw[c]
                        ELSE IF c = "in_app" THEN "on" ELSE "off"]
    BY DEF Updated
  <1>5. \A c \in Channels : (IF c \in DOMAIN change THEN change[c]
                        ELSE IF saw # NoPreference THEN saw[c]
                        ELSE IF c = "in_app" THEN "on" ELSE "off") \in Settings
    BY <1>2, <1>3 DEF Settings
  <1>6. Updated(saw, change) \in [Channels -> Settings]
    BY <1>4, <1>5
  <1> QED BY <1>2, <1>4, <1>6

\* What may be mailed or shown is not turned off.
LEMMA LetThrough ==
  ASSUME NEW p \in [Types -> Preferred], NEW t \in Types
  PROVE  /\ ShouldAttemptEmail(p, t) \in BOOLEAN /\ ShouldCreateInApp(p, t) \in BOOLEAN
         /\ ShouldAttemptEmail(p, t) => p[t].email # "off"
         /\ ShouldCreateInApp(p, t) => p[t].in_app # "off"
  <1>1. p[t] = NoPreference => p[t].email = "null" /\ p[t].in_app = "null"
    BY DEF NoPreference, Channels
  <1>2. p[t] # NoPreference => Effective(p, t) = p[t]
    BY DEF Effective
  <1> QED BY <1>1, <1>2 DEF ShouldAttemptEmail, ShouldCreateInApp

\* The requests by what they do, with their fields.
LEMMA NotificationFields ==
  ASSUME NotificationShape, NEW h \in Handlers
  PROVE  /\ req[h].op \in SeedOps => req[h] \in SeedRequests
         /\ req[h].op \in UpdateOps => req[h] \in UpdateRequests
         /\ req[h].op \in DeliveryOps => req[h] \in DeliveryRequests
         /\ req[h] = Idle => req[h].op \notin SeedOps \cup UpdateOps \cup DeliveryOps
  <1>1. req[h] \in {Idle} \cup SeedRequests \cup UpdateRequests \cup DeliveryRequests
    BY DEF NotificationShape, NotificationRequests
  <1>2. req[h] \in SeedRequests => req[h].op \in SeedOps
    BY DEF SeedRequests
  <1>3. req[h] \in UpdateRequests => req[h].op \in UpdateOps
    BY DEF UpdateRequests
  <1>4. req[h] \in DeliveryRequests => req[h].op \in DeliveryOps
    BY DEF DeliveryRequests
  <1>5. /\ SeedOps \cap UpdateOps = {} /\ SeedOps \cap DeliveryOps = {}
        /\ UpdateOps \cap DeliveryOps = {}
    BY DEF SeedOps, UpdateOps, DeliveryOps
  <1>6. Idle.op \notin SeedOps \cup UpdateOps \cup DeliveryOps
    BY DEF Idle, SeedOps, UpdateOps, DeliveryOps
  <1> QED BY <1>1, <1>2, <1>3, <1>4, <1>5, <1>6

-----------------------------------------------------------------------------
\* What holds of a request goes on to hold while it waits, unless it is overtaken.
LEMMA NotificationWaits ==
  ASSUME NEW g \in Handlers, NotificationHolds(g), NotificationShape, req'[g] = req[g],
         \A t \in Types : preference[t] # NoPreference => preference'[t] # NoPreference,
         ~stale'[g] => ~stale[g] /\ preference' = preference
  PROVE  NotificationHolds(g)'
  <1>1. SeedHolds(g)'
    BY FirstTypeAssumption DEF NotificationHolds, SeedHolds, StillThere, NoRows
  <1>2. UpdateHolds(g)'
    <2> SUFFICES ASSUME req[g].op \in UpdateOps PROVE UpdateHolds(g)'
      BY DEF UpdateHolds
    <2>1. req[g].type \in Types
      BY NotificationFields DEF UpdateRequests
    <2> QED BY <2>1 DEF NotificationHolds, UpdateHolds, StillThere
  <1>3. DeliveryHolds(g)'
    <2> SUFFICES ASSUME req[g].op \in DeliveryOps PROVE DeliveryHolds(g)'
      BY DEF DeliveryHolds
    <2>1. req[g].type \in Types
      BY NotificationFields DEF DeliveryRequests
    <2> QED BY <2>1 DEF NotificationHolds, DeliveryHolds, StillThere, NoRows
  <1> QED BY <1>1, <1>2, <1>3 DEF NotificationHolds

\* Nothing is asked of a handler at rest.
LEMMA NotificationRests ==
  ASSUME NEW g \in Handlers, req'[g] = Idle
  PROVE  NotificationHolds(g)'
  BY DEF NotificationHolds, SeedHolds, UpdateHolds, DeliveryHolds, SeedOps, UpdateOps,
         DeliveryOps, Idle

\* A request goes on without a commit: the others are as they were.
LEMMA NotificationReads ==
  ASSUME NotificationIInv, NEW h \in Handlers, NEW r \in NotificationRequests,
         req' = [req EXCEPT ![h] = r], stale' = stale \/ stale' = [stale EXCEPT ![h] = FALSE],
         UNCHANGED preference, NotificationHolds(h)'
  PROVE  NotificationIInv'
  <1>1. NotificationShape'
    BY DEF NotificationIInv, NotificationShape
  <1>2. ASSUME NEW g \in Handlers \ {h} PROVE NotificationHolds(g)'
    <2>1. req'[g] = req[g] /\ stale'[g] = stale[g] /\ NotificationHolds(g) /\ NotificationShape
      BY DEF NotificationIInv, NotificationShape, RequestsHold
    <2> QED BY <2>1, NotificationWaits
  <1> QED BY <1>1, <1>2 DEF NotificationIInv, RequestsHold

\* A request that gives up leaves the others as they were.
LEMMA NotificationEnds ==
  ASSUME NotificationIInv, NEW h \in Handlers, End(h), UNCHANGED preference
  PROVE  /\ NotificationIInv'
         /\ \A g \in Handlers \ {h} : req'[g] = req[g]
  <1>1. /\ Idle \in NotificationRequests /\ req' = [req EXCEPT ![h] = Idle]
        /\ stale' = [stale EXCEPT ![h] = FALSE]
    BY DEF End, NotificationRequests
  <1>2. req'[h] = Idle /\ \A g \in Handlers \ {h} : req'[g] = req[g]
    BY <1>1 DEF NotificationIInv, NotificationShape
  <1> QED BY <1>1, <1>2, NotificationRests, NotificationReads

\* A request commits: each that is still under way has been overtaken.
LEMMA NotificationCommits ==
  ASSUME NotificationIInv, NEW h \in Handlers, EndAndOvertake(h),
         preference' \in [Types -> Preferred],
         \A t \in Types : preference[t] # NoPreference => preference'[t] # NoPreference
  PROVE  /\ NotificationIInv'
         /\ req'[h] = Idle
         /\ \A g \in Handlers \ {h} : req'[g] = req[g]
  <1>1. /\ req' \in [Handlers -> NotificationRequests] /\ stale' \in [Handlers -> BOOLEAN]
        /\ req'[h] = Idle
        /\ \A g \in Handlers \ {h} : req'[g] = req[g]
    BY DEF EndAndOvertake, NotificationIInv, NotificationShape, NotificationRequests
  <1>2. ASSUME NEW g \in Handlers \ {h}, req[g] # Idle PROVE NotificationHolds(g)'
    <2>1. req'[g] = req[g] /\ stale'[g] /\ NotificationHolds(g) /\ NotificationShape
      BY <1>1, <1>2 DEF EndAndOvertake, NotificationIInv, RequestsHold
    <2> QED BY <2>1, NotificationWaits
  <1>3. ASSUME NEW g \in Handlers, req'[g] = Idle PROVE NotificationHolds(g)'
    BY <1>3, NotificationRests
  <1>4. RequestsHold'
    BY <1>1, <1>2, <1>3 DEF RequestsHold
  <1> QED BY <1>1, <1>4 DEF NotificationIInv, NotificationShape

\* At the start there are no rows, no requests and no history.
LEMMA NotificationInitially == NotificationsInit => NotificationIInv
  <1> SUFFICES ASSUME NotificationsInit PROVE NotificationIInv
    OBVIOUS
  <1>1. NotificationShape
    BY DEF NotificationsInit, NoRequests, NotificationShape, NotificationRequests, Preferred
  <1>2. \A h \in Handlers : NotificationHolds(h)
    BY DEF NotificationsInit, NoRequests, NotificationHolds, SeedHolds, UpdateHolds, DeliveryHolds,
           SeedOps, UpdateOps, DeliveryOps, Idle
  <1> QED BY <1>1, <1>2 DEF NotificationIInv, RequestsHold

-----------------------------------------------------------------------------
\* What the properties say of one step.
Independent ==
    \A t \in Types, c \in Channels :
            preference[t][c] \notin {"null", preference'[t][c]} =>
                \E h \in Handlers :
                    /\ req[h] # Idle /\ req'[h] = Idle
                    /\ \/ /\ Busy(h, "update_looked") /\ req[h].type = t
                          /\ c \in req[h].named \/ stale[h]
                       \/ /\ Seeding(h, t) /\ stale[h]
                          /\ preference'[t][c] = Default(t)[c]

Silent ==
    \A h \in Handlers : (Busy(h, "deliver") /\ ~stale[h] /\ req'[h] # req[h]) =>
            /\ mailed' # mailed => preference[req[h].type].email # "off"
            /\ inbox' # inbox => preference[req[h].type].in_app # "off"

NotificationKept == NotificationIInv' /\ Independent /\ Silent

\* Where the rows do not change, or none of a channel that was set, nobody is asked why.
LEMMA UnchangedRows ==
  (\A t \in Types : preference[t] # NoPreference => preference'[t] = preference[t]) => Independent
  <1> SUFFICES ASSUME \A t \in Types : preference[t] # NoPreference => preference'[t] = preference[t],
                      NEW t \in Types, NEW c \in Channels,
                      preference[t][c] \notin {"null", preference'[t][c]}
               PROVE  FALSE
    BY DEF Independent
  <1>1. preference[t] # NoPreference
    BY NullIsNoSetting
  <1> QED BY <1>1

\* Preferences are read or seeded.
LEMMA SeedReadSteps ==
  ASSUME NotificationIInv, NEW h \in Handlers, SeedRead(h)
  PROVE  NotificationKept
  <1> DEFINE r == [op |-> "seed", found |-> NoPreference, writes |-> FALSE]
  <1>0. NotificationShape
    BY DEF NotificationIInv
  <1>1. /\ ~Seeded(preference) /\ Begin(h, r) /\ UNCHANGED <<preference, inbox, mailed>>
    BY DEF SeedRead
  <1>2. r \in NotificationRequests
    BY DEF NotificationRequests, SeedRequests, SeedOps, Preferred
  <1>3. r.op = "seed" /\ r.found = NoPreference
    OBVIOUS
  <1> HIDE DEF r
  <1>4. req' = [req EXCEPT ![h] = r] /\ req'[h] = r /\ stale' = [stale EXCEPT ![h] = FALSE]
    BY <1>0, <1>1 DEF Begin, NotificationShape
  <1>5. NoRows'
    BY <1>1 DEF Seeded, NoRows
  <1>6. NotificationHolds(h)'
    BY <1>3, <1>4, <1>5 DEF NotificationHolds, SeedHolds, UpdateHolds, DeliveryHolds, StillThere,
                            SeedOps, UpdateOps, DeliveryOps
  <1>7. NotificationIInv'
    BY <1>1, <1>2, <1>4, <1>6, NotificationReads
  <1> QED BY <1>1, <1>7, UnchangedRows DEF NotificationKept, Silent

\* The row of the first type is looked for.
LEMMA SeedLookSteps ==
  ASSUME NotificationIInv, NEW h \in Handlers, SeedLook(h)
  PROVE  NotificationKept
  <1> DEFINE r == [req[h] EXCEPT !.op = "seed_looked", !.found = preference[FirstType]]
  <1>0. NotificationShape /\ NotificationHolds(h)
    BY DEF NotificationIInv, RequestsHold
  <1>1. /\ Busy(h, "seed") /\ req' = [req EXCEPT ![h] = r]
        /\ UNCHANGED <<preference, inbox, mailed, stale>>
    BY DEF SeedLook
  <1>2. req[h] \in SeedRequests /\ preference[FirstType] \in Preferred
    BY <1>0, <1>1, NotificationFields, FirstTypeAssumption DEF Busy, SeedOps, NotificationShape
  <1>3. r \in SeedRequests /\ r.op = "seed_looked" /\ r.found = preference[FirstType]
    BY <1>2 DEF SeedRequests, SeedOps
  <1>4. ~stale[h] => NoRows
    BY <1>0, <1>1 DEF NotificationHolds, SeedHolds, Busy, SeedOps
  <1> HIDE DEF r
  <1>5. req'[h] = r
    BY <1>0, <1>1 DEF NotificationShape
  <1>6. NotificationHolds(h)'
    BY <1>1, <1>3, <1>4, <1>5 DEF NotificationHolds, SeedHolds, UpdateHolds, DeliveryHolds,
          StillThere, NoRows, SeedOps, UpdateOps, DeliveryOps
  <1>7. r \in NotificationRequests
    BY <1>3 DEF NotificationRequests
  <1>8. NotificationIInv'
    BY <1>1, <1>6, <1>7, NotificationReads
  <1> QED BY <1>1, <1>8, UnchangedRows DEF NotificationKept, Silent

\* Every type has its default, or of the first what another request has written.
LEMMA SeedWriteSteps ==
  ASSUME NotificationIInv, NEW h \in Handlers, SeedWrite(h)
  PROVE  NotificationKept
  <1>0. NotificationShape /\ NotificationHolds(h)
    BY DEF NotificationIInv, RequestsHold
  <1> DEFINE first == Upserted(preference[FirstType], req[h].found, Default(FirstType))
  <1>1. /\ Busy(h, "seed_looked") /\ EndAndOvertake(h) /\ UNCHANGED <<inbox, mailed>>
        /\ preference' = [t \in Types |->
                         IF t = FirstType THEN Upserted(preference[t], req[h].found, Default(t))
                         ELSE Default(t)]
    BY DEF SeedWrite
  <1>2. /\ req[h] \in SeedRequests /\ StillThere(FirstType, req[h].found)
        /\ ~stale[h] => NoRows
    BY <1>0, <1>1, NotificationFields DEF Busy, SeedOps, NotificationHolds, SeedHolds
  <1>3. preference[FirstType] \in Preferred /\ req[h].found \in Preferred
    BY <1>0, <1>2, FirstTypeAssumption DEF NotificationShape, SeedRequests
  <1>4. /\ first \in [Channels -> Settings]
        /\ preference[FirstType] # NoPreference =>
              \A c \in Channels : first[c] \in {Default(FirstType)[c], preference[FirstType][c]}
    BY <1>2, <1>3, DefaultIsPreferred, UpsertedIsPreferred DEF StillThere
  <1>5. \A t \in Types : preference'[t] = IF t = FirstType THEN first ELSE Default(t)
    BY <1>1
  <1>6. DOMAIN preference' = Types /\ preference' = [t \in Types |-> preference'[t]]
    BY <1>1
  <1> HIDE DEF first
  <1>7. \A t \in Types : preference'[t] \in [Channels -> Settings]
    BY <1>4, <1>5, DefaultIsPreferred
  <1>8. preference' \in [Types -> Preferred] /\ \A t \in Types : preference'[t] # NoPreference
    BY <1>6, <1>7, NullIsNoSetting DEF Preferred
  <1>9. /\ NotificationIInv' /\ req'[h] = Idle /\ \A g \in Handlers \ {h} : req'[g] = req[g]
    BY <1>1, <1>8, NotificationCommits
  <1>10. req[h] # Idle
    BY <1>1 DEF Busy, Idle
  <1>11. Independent
    <2> SUFFICES ASSUME NEW t \in Types, NEW c \in Channels,
                        preference[t][c] \notin {"null", preference'[t][c]}
                 PROVE  stale[h] /\ preference'[t][c] = Default(t)[c]
      BY <1>1, <1>9, <1>10 DEF Independent, Seeding
    <2>1. preference[t] # NoPreference
      BY NullIsNoSetting
    <2>2. stale[h]
      BY <1>2, <2>1 DEF NoRows
    <2>3. CASE t = FirstType
      <3>1. preference'[t][c] \in {Default(t)[c], preference[t][c]}
        BY <1>4, <1>5, <2>1, <2>3
      <3> QED BY <2>2, <3>1
    <2>4. CASE t # FirstType
      BY <1>5, <2>2, <2>4
    <2> QED BY <2>3, <2>4
  <1> QED BY <1>1, <1>9, <1>11 DEF NotificationKept, Silent

\* An update reads the row.
LEMMA UpdateReadSteps ==
  ASSUME NotificationIInv, NEW h \in Handlers, NEW t \in Types, NEW change \in Changes,
         UpdateRead(h, t, change)
  PROVE  NotificationKept
  <1> DEFINE r == [op |-> "update", type |-> t, named |-> DOMAIN change, found |-> NoPreference,
                   new |-> Updated(preference[t], change), writes |-> FALSE]
  <1>0. NotificationShape
    BY DEF NotificationIInv
  <1>1. Begin(h, r) /\ UNCHANGED <<preference, inbox, mailed>>
    BY DEF UpdateRead
  <1>2. preference[t] \in Preferred /\ NoPreference \in Preferred
    BY <1>0 DEF NotificationShape, Preferred
  <1>3. r \in UpdateRequests
    BY <1>2, UpdatedKeeps DEF UpdateRequests, UpdateOps
  <1>4. /\ preference[t] # NoPreference => \A c \in Channels \ r.named : r.new[c] = preference[t][c]
        /\ r.op = "update" /\ r.type = t /\ r.found = NoPreference
    BY <1>2, UpdatedKeeps
  <1> HIDE DEF r
  <1>5. req' = [req EXCEPT ![h] = r] /\ req'[h] = r /\ stale' = [stale EXCEPT ![h] = FALSE]
    BY <1>0, <1>1 DEF Begin, NotificationShape
  <1>6. NotificationHolds(h)'
    BY <1>1, <1>4, <1>5 DEF NotificationHolds, SeedHolds, UpdateHolds, DeliveryHolds, StillThere,
                            SeedOps, UpdateOps, DeliveryOps
  <1>7. r \in NotificationRequests
    BY <1>3 DEF NotificationRequests
  <1>8. NotificationIInv'
    BY <1>1, <1>5, <1>6, <1>7, NotificationReads
  <1> QED BY <1>1, <1>8, UnchangedRows DEF NotificationKept, Silent

\* It looks for the row again.
LEMMA UpdateLookSteps ==
  ASSUME NotificationIInv, NEW h \in Handlers, UpdateLook(h)
  PROVE  NotificationKept
  <1> DEFINE r == [req[h] EXCEPT !.op = "update_looked", !.found = preference[req[h].type]]
  <1>0. NotificationShape /\ NotificationHolds(h)
    BY DEF NotificationIInv, RequestsHold
  <1>1. /\ Busy(h, "update") /\ req' = [req EXCEPT ![h] = r]
        /\ UNCHANGED <<preference, inbox, mailed, stale>>
    BY DEF UpdateLook
  <1>2. req[h] \in UpdateRequests
    BY <1>0, <1>1, NotificationFields DEF Busy, UpdateOps
  <1>3. preference[req[h].type] \in Preferred
    BY <1>0, <1>2 DEF NotificationShape, UpdateRequests
  <1>4. /\ r \in UpdateRequests /\ r.op = "update_looked" /\ r.found = preference[req[h].type]
        /\ r.type = req[h].type /\ r.named = req[h].named /\ r.new = req[h].new
    BY <1>2, <1>3 DEF UpdateRequests, UpdateOps
  <1>5. UpdateHolds(h)
    BY <1>0 DEF NotificationHolds
  <1> HIDE DEF r
  <1>6. req'[h] = r
    BY <1>0, <1>1 DEF NotificationShape
  <1>7. UpdateHolds(h)'
    BY <1>1, <1>4, <1>5, <1>6 DEF UpdateHolds, StillThere, Busy, UpdateOps
  <1>8. NotificationHolds(h)'
    BY <1>4, <1>6, <1>7 DEF NotificationHolds, SeedHolds, DeliveryHolds, SeedOps, DeliveryOps
  <1>9. r \in NotificationRequests
    BY <1>4 DEF NotificationRequests
  <1>10. NotificationIInv'
    BY <1>1, <1>8, <1>9, NotificationReads
  <1> QED BY <1>1, <1>10, UnchangedRows DEF NotificationKept, Silent

\* It writes the columns that were others.
LEMMA UpdateWriteSteps ==
  ASSUME NotificationIInv, NEW h \in Handlers, UpdateWrite(h)
  PROVE  NotificationKept
  <1> DEFINE t == req[h].type
             row == Upserted(preference[t], req[h].found, req[h].new)
  <1>0. NotificationShape /\ NotificationHolds(h)
    BY DEF NotificationIInv, RequestsHold
  <1>1. /\ Busy(h, "update_looked") /\ EndAndOvertake(h) /\ UNCHANGED <<inbox, mailed>>
        /\ preference' = [preference EXCEPT ![t] = row]
    BY DEF UpdateWrite
  <1>2. req[h] \in UpdateRequests
    BY <1>0, <1>1, NotificationFields DEF Busy, UpdateOps
  <1>3. /\ t \in Types /\ req[h].new \in [Channels -> Settings] /\ req[h].found \in Preferred
        /\ preference[t] \in Preferred
    BY <1>0, <1>2 DEF UpdateRequests, NotificationShape
  <1>4. /\ StillThere(t, req[h].found)
        /\ ~stale[h] /\ preference[t] # NoPreference =>
              \A c \in Channels \ req[h].named : req[h].new[c] = preference[t][c]
    BY <1>0, <1>1 DEF NotificationHolds, UpdateHolds, Busy, UpdateOps
  <1>5. /\ row \in [Channels -> Settings]
        /\ preference[t] # NoPreference =>
              \A c \in Channels : row[c] \in {req[h].new[c], preference[t][c]}
    BY <1>3, <1>4, UpsertedIsPreferred DEF StillThere
  <1> HIDE DEF row
  <1>6. preference'[t] = row /\ \A u \in Types \ {t} : preference'[u] = preference[u]
    BY <1>0, <1>1, <1>3 DEF NotificationShape
  <1>7. row # NoPreference /\ row \in Preferred
    BY <1>5, NullIsNoSetting DEF Preferred
  <1>8. preference' \in [Types -> Preferred]
    BY <1>0, <1>1, <1>7 DEF NotificationShape
  <1>9. \A u \in Types : preference[u] # NoPreference => preference'[u] # NoPreference
    BY <1>6, <1>7
  <1>10. /\ NotificationIInv' /\ req'[h] = Idle /\ \A g \in Handlers \ {h} : req'[g] = req[g]
    BY <1>1, <1>8, <1>9, NotificationCommits
  <1>11. req[h] # Idle
    BY <1>1 DEF Busy, Idle
  <1>12. Independent
    <2> SUFFICES ASSUME NEW u \in Types, NEW c \in Channels,
                        preference[u][c] \notin {"null", preference'[u][c]}
                 PROVE  t = u /\ (c \in req[h].named \/ stale[h])
      BY <1>1, <1>10, <1>11 DEF Independent
    <2>1. preference[u] # NoPreference
      BY NullIsNoSetting
    <2>2. t = u
      BY <1>6
    <2>3. preference'[u][c] \in {req[h].new[c], preference[u][c]}
      BY <1>5, <1>6, <2>1, <2>2
    <2>4. c \notin req[h].named /\ ~stale[h] => req[h].new[c] = preference[u][c]
      BY <1>4, <2>1, <2>2
    <2> QED BY <2>2, <2>3, <2>4
  <1> QED BY <1>1, <1>10, <1>12 DEF NotificationKept, Silent

\* A delivery reads the rows.
LEMMA DeliverReadSteps ==
  ASSUME NotificationIInv, NEW h \in Handlers, NEW t \in Types, DeliverRead(h, t)
  PROVE  NotificationKept
  <1> DEFINE s == Seeded(preference)
             op == IF s THEN "deliver" ELSE "deliver_seeds"
             shown == ShouldCreateInApp(preference, t)
             mails == ShouldAttemptEmail(preference, t)
             r == [op |-> op, type |-> t, seeds |-> ~s, found |-> NoPreference, writes |-> FALSE,
                   shown |-> shown, mails |-> mails]
  <1>0. NotificationShape /\ preference \in [Types -> Preferred]
    BY DEF NotificationIInv, NotificationShape
  <1>1. Begin(h, r) /\ UNCHANGED <<preference, inbox, mailed>>
    BY DEF DeliverRead
  <1>2. /\ mails \in BOOLEAN /\ shown \in BOOLEAN
        /\ mails => preference[t].email # "off"
        /\ shown => preference[t].in_app # "off"
    BY <1>0, LetThrough
  <1>3. s \in BOOLEAN /\ op \in DeliveryOps /\ (~s => NoRows)
    BY DEF Seeded, NoRows, DeliveryOps
  <1> HIDE DEF s, op, shown, mails
  <1>4. r \in DeliveryRequests
    <2>1. NoPreference \in Preferred /\ (~s) \in BOOLEAN
      BY DEF Preferred
    <2> QED BY <1>2, <1>3, <2>1 DEF DeliveryRequests
  <1>5. /\ r.op = op /\ r.type = t /\ r.found = NoPreference /\ r.mails = mails
        /\ r.shown = shown /\ r.seeds = ~s
    OBVIOUS
  <1> HIDE DEF r
  <1>6. req' = [req EXCEPT ![h] = r] /\ req'[h] = r /\ stale' = [stale EXCEPT ![h] = FALSE]
    BY <1>0, <1>1 DEF Begin, NotificationShape
  <1>7. DeliveryHolds(h)'
    <2>1. StillThere(t, NoPreference)' /\ NoRows' = NoRows
      BY <1>1 DEF StillThere, NoRows
    <2> QED BY <1>1, <1>2, <1>3, <1>5, <1>6, <2>1 DEF DeliveryHolds
  <1>8. NotificationHolds(h)'
    BY <1>3, <1>5, <1>6, <1>7 DEF NotificationHolds, SeedHolds, UpdateHolds, SeedOps, UpdateOps,
                                  DeliveryOps
  <1>9. r \in NotificationRequests
    BY <1>4 DEF NotificationRequests
  <1>10. NotificationIInv'
    BY <1>1, <1>6, <1>8, <1>9, NotificationReads
  <1> QED
    <2>1. ~Busy(h, "deliver") \/ req[h] # Idle
      BY DEF Busy, Idle
    <2> QED BY <1>1, <1>10, <2>1, UnchangedRows DEF NotificationKept, Silent

\* One that seeds looks for the row of its type.
LEMMA DeliverLookSteps ==
  ASSUME NotificationIInv, NEW h \in Handlers, DeliverLook(h)
  PROVE  NotificationKept
  <1> DEFINE r == [req[h] EXCEPT !.op = "deliver", !.found = preference[req[h].type]]
  <1>0. NotificationShape /\ NotificationHolds(h)
    BY DEF NotificationIInv, RequestsHold
  <1>1. /\ Busy(h, "deliver_seeds") /\ req' = [req EXCEPT ![h] = r]
        /\ UNCHANGED <<preference, inbox, mailed, stale>>
    BY DEF DeliverLook
  <1>2. req[h] \in DeliveryRequests
    BY <1>0, <1>1, NotificationFields DEF Busy, DeliveryOps
  <1>3. preference[req[h].type] \in Preferred
    BY <1>0, <1>2 DEF NotificationShape, DeliveryRequests
  <1>4. /\ r \in DeliveryRequests /\ r.op = "deliver" /\ r.found = preference[req[h].type]
        /\ r.type = req[h].type /\ r.seeds = req[h].seeds /\ r.mails = req[h].mails
        /\ r.shown = req[h].shown
    BY <1>2, <1>3 DEF DeliveryRequests, DeliveryOps
  <1>5. DeliveryHolds(h)
    BY <1>0 DEF NotificationHolds
  <1> HIDE DEF r
  <1>6. req'[h] = r
    BY <1>0, <1>1 DEF NotificationShape
  <1>7. DeliveryHolds(h)'
    BY <1>1, <1>4, <1>5, <1>6 DEF DeliveryHolds, StillThere, NoRows, Busy, DeliveryOps
  <1>8. NotificationHolds(h)'
    BY <1>4, <1>6, <1>7 DEF NotificationHolds, SeedHolds, UpdateHolds, SeedOps, UpdateOps
  <1>9. r \in NotificationRequests
    BY <1>4 DEF NotificationRequests
  <1>10. NotificationIInv'
    BY <1>1, <1>8, <1>9, NotificationReads
  <1> QED BY <1>1, <1>10, UnchangedRows DEF NotificationKept, Silent, Busy

\* It writes and mails what the rows let through, those after seeding if it seeds.
LEMMA DeliverWriteSteps ==
  ASSUME NotificationIInv, NEW h \in Handlers, DeliverWrite(h)
  PROVE  NotificationKept
  <1> DEFINE t == req[h].type
             p == SeedCandidate(req[h])
             shown == IF req[h].seeds THEN ShouldCreateInApp(p, t) ELSE req[h].shown
             mails == IF req[h].seeds THEN ShouldAttemptEmail(p, t) ELSE req[h].mails
             r == [req[h] EXCEPT !.writes = TRUE, !.shown = shown]
  <1>0. NotificationShape /\ NotificationHolds(h)
    BY DEF NotificationIInv, RequestsHold
  <1>1. /\ Busy(h, "deliver") /\ UNCHANGED <<preference, inbox, stale>>
        /\ req' = [req EXCEPT ![h] = r]
        /\ ~mails => mailed' = mailed
    BY DEF DeliverWrite
  <1>2. req[h] \in DeliveryRequests
    BY <1>0, <1>1, NotificationFields DEF Busy, DeliveryOps
  <1>3. /\ t \in Types /\ req[h].seeds \in BOOLEAN /\ req[h].shown \in BOOLEAN
        /\ req[h].found \in Preferred
    BY <1>2 DEF DeliveryRequests
  <1>4. DeliveryHolds(h)
    BY <1>0 DEF NotificationHolds
  <1>5. /\ StillThere(t, req[h].found)
        /\ ~stale[h] /\ req[h].seeds => NoRows
        /\ ~stale[h] /\ req[h].mails => preference[t].email # "off"
        /\ ~stale[h] /\ req[h].shown => preference[t].in_app # "off"
    BY <1>1, <1>4 DEF DeliveryHolds, Busy, DeliveryOps
  <1>6. shown \in BOOLEAN
    BY <1>3 DEF ShouldCreateInApp
  <1>7. ~stale[h] /\ req[h].seeds => preference[t].email = "null" /\ preference[t].in_app = "null"
    BY <1>3, <1>5, NullIsNoSetting DEF NoRows, NoPreference, Channels
  <1>8. ~stale[h] /\ mails => preference[t].email # "off"
    <2>1. CASE req[h].seeds
      BY <1>7, <2>1
    <2>2. CASE ~req[h].seeds
      BY <1>5, <2>2
    <2> QED BY <2>1, <2>2
  <1>9. ~stale[h] /\ shown => preference[t].in_app # "off"
    <2>1. CASE req[h].seeds
      BY <1>7, <2>1
    <2>2. CASE ~req[h].seeds
      BY <1>5, <2>2
    <2> QED BY <2>1, <2>2
  <1> HIDE DEF shown, mails
  <1>10. /\ r \in DeliveryRequests /\ r.op = "deliver" /\ r.type = t /\ r.found = req[h].found
         /\ r.seeds = req[h].seeds /\ r.mails = req[h].mails /\ r.shown = shown
    BY <1>1, <1>2, <1>6 DEF DeliveryRequests, Busy
  <1> HIDE DEF r
  <1>11. req'[h] = r /\ \A g \in Handlers \ {h} : req'[g] = req[g]
    BY <1>0, <1>1 DEF NotificationShape
  <1>12. DeliveryHolds(h)'
    <2>1. StillThere(t, req[h].found)' = StillThere(t, req[h].found) /\ NoRows' = NoRows
      BY <1>1, <1>10, <1>11 DEF StillThere, NoRows
    <2> QED BY <1>1, <1>5, <1>9, <1>10, <1>11, <2>1 DEF DeliveryHolds, StillThere
  <1>13. NotificationHolds(h)'
    BY <1>10, <1>11, <1>12 DEF NotificationHolds, SeedHolds, UpdateHolds, SeedOps, UpdateOps
  <1>14. r \in NotificationRequests
    BY <1>10 DEF NotificationRequests
  <1>15. NotificationIInv'
    BY <1>1, <1>13, <1>14, NotificationReads
  <1>16. Silent
    BY <1>1, <1>8, <1>11 DEF Silent
  <1> QED BY <1>1, <1>15, <1>16, UnchangedRows DEF NotificationKept

\* It commits.
LEMMA DeliverCommitSteps ==
  ASSUME NotificationIInv, NEW h \in Handlers, DeliverCommit(h)
  PROVE  NotificationKept
  <1> DEFINE t == req[h].type
             row == Upserted(preference[t], req[h].found, Default(t))
  <1>0. NotificationShape /\ NotificationHolds(h)
    BY DEF NotificationIInv, RequestsHold
  <1>1. /\ Busy(h, "deliver") /\ EndAndOvertake(h) /\ UNCHANGED mailed
        /\ ~req[h].shown => inbox' = inbox
        /\ preference' = IF req[h].seeds THEN [preference EXCEPT ![t] = row] ELSE preference
    BY DEF DeliverCommit, SeedCandidate
  <1>2. req[h] \in DeliveryRequests
    BY <1>0, <1>1, NotificationFields DEF Busy, DeliveryOps
  <1>3. /\ t \in Types /\ req[h].found \in Preferred /\ preference[t] \in Preferred
    BY <1>0, <1>2 DEF DeliveryRequests, NotificationShape
  <1>4. DeliveryHolds(h)
    BY <1>0 DEF NotificationHolds
  <1>5. /\ StillThere(t, req[h].found)
        /\ ~stale[h] /\ req[h].seeds => NoRows
        /\ ~stale[h] /\ req[h].shown => preference[t].in_app # "off"
    BY <1>1, <1>4 DEF DeliveryHolds, Busy, DeliveryOps
  <1>6. /\ row \in [Channels -> Settings]
        /\ preference[t] # NoPreference =>
              \A c \in Channels : row[c] \in {Default(t)[c], preference[t][c]}
    BY <1>3, <1>5, DefaultIsPreferred, UpsertedIsPreferred DEF StillThere
  <1> HIDE DEF row
  <1>7. row # NoPreference /\ row \in Preferred
    BY <1>6, NullIsNoSetting DEF Preferred
  <1>8. preference' \in [Types -> Preferred]
    BY <1>0, <1>1, <1>7 DEF NotificationShape
  <1>9. \A u \in Types : preference'[u] = IF req[h].seeds /\ u = t THEN row ELSE preference[u]
    BY <1>0, <1>1, <1>3 DEF NotificationShape
  <1>10. \A u \in Types : preference[u] # NoPreference => preference'[u] # NoPreference
    BY <1>7, <1>9
  <1>11. /\ NotificationIInv' /\ req'[h] = Idle /\ \A g \in Handlers \ {h} : req'[g] = req[g]
    BY <1>1, <1>8, <1>10, NotificationCommits
  <1>12. req[h] # Idle
    BY <1>1 DEF Busy, Idle
  <1>13. Independent
    <2> SUFFICES ASSUME NEW u \in Types, NEW c \in Channels,
                        preference[u][c] \notin {"null", preference'[u][c]}
                 PROVE  t = u /\ req[h].seeds /\ stale[h] /\ preference'[u][c] = Default(u)[c]
      BY <1>1, <1>11, <1>12 DEF Independent, Seeding
    <2>1. preference[u] # NoPreference
      BY NullIsNoSetting
    <2>2. t = u /\ req[h].seeds
      BY <1>9
    <2>3. preference'[u][c] \in {Default(u)[c], preference[u][c]}
      BY <1>6, <1>9, <2>1, <2>2
    <2>4. stale[h]
      BY <1>5, <2>1, <2>2 DEF NoRows
    <2> QED BY <2>2, <2>3, <2>4
  <1>14. Silent
    BY <1>1, <1>5, <1>11 DEF Silent
  <1> QED BY <1>11, <1>13, <1>14 DEF NotificationKept

\* Every step keeps the invariant and does what the two action properties allow.
LEMMA NotificationSteps ==
  NotificationIInv /\ [NotificationsNext]_notificationVars => NotificationKept
  <1> SUFFICES ASSUME NotificationIInv, [NotificationsNext]_notificationVars
               PROVE  NotificationKept
    OBVIOUS
  <1>1. ASSUME NEW h \in Handlers, GetPreferences(h) PROVE NotificationKept
    BY <1>1, SeedReadSteps, SeedLookSteps, SeedWriteSteps DEF GetPreferences
  <1>2. ASSUME NEW h \in Handlers, UpdatePreferences(h) PROVE NotificationKept
    BY <1>2, UpdateReadSteps, UpdateLookSteps, UpdateWriteSteps DEF UpdatePreferences
  <1>3. ASSUME NEW h \in Handlers, Delivery(h) PROVE NotificationKept
    BY <1>3, DeliverReadSteps, DeliverLookSteps, DeliverWriteSteps, DeliverCommitSteps DEF Delivery
  <1>4. ASSUME UNCHANGED <<preference, req, stale>> PROVE NotificationIInv' /\ Independent /\ Silent
    <2>1. NotificationShape'
      BY <1>4 DEF NotificationIInv, NotificationShape
    <2>2. RequestsHold'
      <3> SUFFICES ASSUME NEW g \in Handlers PROVE NotificationHolds(g)'
        BY DEF RequestsHold
      <3>1. NotificationHolds(g) /\ NotificationShape
        BY DEF NotificationIInv, RequestsHold
      <3> QED BY <1>4, <3>1, NotificationWaits
    <2> QED BY <1>4, <2>1, <2>2, UnchangedRows DEF NotificationIInv, Silent
  <1>5. ASSUME NEW h \in Handlers, NEW i, NEW new, Mark(h, i, new) PROVE NotificationKept
    BY <1>4, <1>5 DEF Mark, requestVars, NotificationKept
  <1>6. ASSUME NEW h \in Handlers, NotificationLost(h) PROVE NotificationKept
    <2>1. End(h) /\ UNCHANGED <<preference, inbox, mailed>>
      BY <1>6 DEF NotificationLost, Lost
    <2> QED BY <2>1, NotificationEnds, UnchangedRows DEF NotificationKept, Silent
  <1>7. CASE UNCHANGED notificationVars
    BY <1>4, <1>7 DEF notificationVars, requestVars, NotificationKept
  <1> QED BY <1>1, <1>2, <1>3, <1>5, <1>6, <1>7 DEF NotificationsNext

\* Whatever updates, seedings and deliveries overlap, a channel that was set changes only by
\* a request that names it, by one that was overtaken, or back to its default by a request
\* that had found the user without preferences and was overtaken; and what is turned off is
\* neither mailed nor shown, by a delivery that was not overtaken (update_preference,
\* get_or_seed_preferences and deliver_candidate of NotificationService).
THEOREM PreferencesStand == NotificationsSpec => PreferencesDecide
  <1>1. NotificationIInv /\ [NotificationsNext]_notificationVars =>
           /\ NotificationIInv'
           /\ [Independent]_notificationVars
           /\ [Silent]_notificationVars
    BY NotificationSteps DEF NotificationKept
  <1>2. NotificationsSpec => [][Independent]_notificationVars /\ [][Silent]_notificationVars
    BY NotificationInitially, <1>1, PTL DEF NotificationsSpec
  <1> QED BY <1>2 DEF PreferencesDecide, ChannelsAreIndependent, MutedIsSilent, Independent, Silent

-----------------------------------------------------------------------------
(* The runtime mode. *)

CutoverOps == {"enter", "pause", "rollback"}

CutoverRequests ==
    [op : CutoverOps, org : Orgs, target : Modes, writes : BOOLEAN, met : BOOLEAN,
     found : {"on", "off"}]

EnableRequests == [op : {"enable"}, org : Orgs, writes : {FALSE}]

RetentionPolicies == [prune : BOOLEAN, accepted : BOOLEAN]

PolicyRequests ==
    [op : {"policy"}, accepts : BOOLEAN, writes : {FALSE}, new : RetentionPolicies]

RuntimeRequests == {Idle} \cup CutoverRequests \cup EnableRequests \cup PolicyRequests

\* The columns the argument looks at.
RuntimeShape ==
    /\ toggles \in [Orgs -> {"on", "off"}]
    /\ crossing \in BOOLEAN
    /\ retention \in RetentionPolicies
    /\ req \in [Handlers -> RuntimeRequests]
    /\ stale \in [Handlers -> BOOLEAN]

\* What a request has read, or set, still is so until another one changes it.
EnterIsLive(h) == Busy(h, "enter") => req[h].target = "pilot_live"
WriterSetMode(h) ==
    (\E op \in CutoverOps : Busy(h, op)) /\ req[h].writes /\ ~stale[h] => mode = req[h].target
RollbackHolds(h) == Busy(h, "rollback") /\ ~stale[h] => req[h].found = toggles[req[h].org]
EnableHolds(h) == Busy(h, "enable") /\ ~stale[h] => mode = "pilot_live"
PolicyHolds(h) ==
    Busy(h, "policy") /\ ~stale[h] /\ req[h].new.prune /\ ~req[h].accepts => retention.prune

RequestHolds(h) ==
    EnterIsLive(h) /\ WriterSetMode(h) /\ RollbackHolds(h) /\ EnableHolds(h) /\ PolicyHolds(h)

ModeIInv ==
    /\ RuntimeShape
    /\ \A h \in Handlers : RequestHolds(h)
    /\ CutoverSilences
    /\ EventsTellMode

ModeIdle == <<mode, toggles, cutover, mover, crossing, retention>>

\* What the policy's property says of one step.
EnabledByAcceptance ==
    (~retention.prune /\ retention'.prune) =>
        \E h \in Handlers : Busy(h, "policy") /\ (req[h].accepts \/ stale[h])

-----------------------------------------------------------------------------
\* The fields of the requests, by what is asked for.
LEMMA RuntimeFields ==
  ASSUME RuntimeShape, NEW h \in Handlers
  PROVE  /\ (\E op \in CutoverOps : Busy(h, op)) => req[h] \in CutoverRequests
         /\ Busy(h, "enable") => req[h] \in EnableRequests
         /\ Busy(h, "policy") => req[h] \in PolicyRequests
  <1>1. req[h] \in RuntimeRequests
    BY DEF RuntimeShape
  <1>2. req[h] = Idle => req[h].op = "idle"
    BY DEF Idle
  <1>3. req[h] \in CutoverRequests => req[h].op \in CutoverOps
    BY DEF CutoverRequests
  <1>4. req[h] \in EnableRequests => req[h].op = "enable"
    BY DEF EnableRequests
  <1>5. req[h] \in PolicyRequests => req[h].op = "policy"
    BY DEF PolicyRequests
  <1> QED BY <1>1, <1>2, <1>3, <1>4, <1>5 DEF RuntimeRequests, Busy, CutoverOps

\* Who is idle relies on nothing.
LEMMA IdleHolds == \A h \in Handlers : req[h] = Idle => RequestHolds(h)
  BY DEF Idle, RequestHolds, EnterIsLive, WriterSetMode, RollbackHolds, EnableHolds,
         PolicyHolds, Busy, CutoverOps

\* A request that has been overtaken holds nothing but its target.
LEMMA StaleHolds == \A h \in Handlers : stale[h] /\ EnterIsLive(h) => RequestHolds(h)
  BY DEF RequestHolds, WriterSetMode, RollbackHolds, EnableHolds, PolicyHolds

\* A request no step has touched holds what it held, when it is stale or nothing it
\* has read has changed.
LEMMA UntouchedHolds ==
  ASSUME NEW h \in Handlers, RequestHolds(h), req'[h] = req[h],
         stale'[h] \/ (stale'[h] = stale[h] /\ UNCHANGED <<mode, toggles, retention>>)
  PROVE  RequestHolds(h)'
  BY DEF RequestHolds, EnterIsLive, WriterSetMode, RollbackHolds, EnableHolds, PolicyHolds,
         Busy, CutoverOps

\* A request begins: it holds what it has just read, the others what they held.
LEMMA RuntimeBegins ==
  ASSUME ModeIInv, NEW h \in Handlers, NEW r \in RuntimeRequests, Begin(h, r),
         UNCHANGED ModeIdle, RequestHolds(h)'
  PROVE  ModeIInv'
  <1>1. RuntimeShape'
    BY DEF ModeIInv, RuntimeShape, Begin, ModeIdle
  <1>2. ASSUME NEW g \in Handlers \ {h} PROVE RequestHolds(g)'
    <2>1. req'[g] = req[g] /\ stale'[g] = stale[g]
      BY DEF ModeIInv, RuntimeShape, Begin
    <2> QED BY <2>1, UntouchedHolds DEF ModeIInv, ModeIdle
  <1>3. CutoverSilences' /\ EventsTellMode'
    BY DEF ModeIInv, CutoverSilences, EventsTellMode, ModeIdle
  <1> QED BY <1>1, <1>2, <1>3 DEF ModeIInv

\* A request that ends leaves what the others have read as it was.
LEMMA RuntimeEnds ==
  ASSUME ModeIInv, NEW h \in Handlers, End(h), UNCHANGED ModeIdle
  PROVE  ModeIInv'
  <1>1. RuntimeShape'
    BY DEF ModeIInv, RuntimeShape, RuntimeRequests, End, ModeIdle
  <1>2. req'[h] = Idle
    BY DEF ModeIInv, RuntimeShape, End
  <1>3. RequestHolds(h)'
    BY <1>2 DEF Idle, RequestHolds, EnterIsLive, WriterSetMode, RollbackHolds, EnableHolds,
                PolicyHolds, Busy, CutoverOps
  <1>4. ASSUME NEW g \in Handlers \ {h} PROVE RequestHolds(g)'
    <2>1. req'[g] = req[g] /\ stale'[g] = stale[g]
      BY DEF ModeIInv, RuntimeShape, End
    <2> QED BY <2>1, UntouchedHolds DEF ModeIInv, ModeIdle
  <1>5. CutoverSilences' /\ EventsTellMode'
    BY DEF ModeIInv, CutoverSilences, EventsTellMode, ModeIdle
  <1> QED BY <1>1, <1>3, <1>4, <1>5 DEF ModeIInv

\* Whatever a request commits, the others are overtaken.
LEMMA RuntimeOvertaken ==
  ASSUME RuntimeShape, \A g \in Handlers : RequestHolds(g), NEW h \in Handlers,
         req' = [req EXCEPT ![h] = Idle],
         stale' = [x \in Handlers |-> x # h /\ req[x] # Idle]
  PROVE  /\ req' \in [Handlers -> RuntimeRequests] /\ stale' \in [Handlers -> BOOLEAN]
         /\ \A g \in Handlers : RequestHolds(g)'
  <1>1. req' \in [Handlers -> RuntimeRequests] /\ stale' \in [Handlers -> BOOLEAN]
    BY DEF RuntimeShape, RuntimeRequests
  <1>2. req'[h] = Idle /\ \A g \in Handlers \ {h} : req'[g] = req[g]
    BY DEF RuntimeShape
  <1>3. ASSUME NEW g \in Handlers PROVE RequestHolds(g)'
    <2>1. CASE req'[g] = Idle
      BY <2>1 DEF Idle, RequestHolds, EnterIsLive, WriterSetMode, RollbackHolds, EnableHolds,
                  PolicyHolds, Busy, CutoverOps
    <2>2. CASE req'[g] # Idle
      <3>1. g # h /\ req'[g] = req[g]
        BY <1>2, <2>2
      <3>2. stale'[g]
        BY <2>2, <3>1
      <3> QED BY <3>1, <3>2, UntouchedHolds
    <2> QED BY <2>1, <2>2
  <1> QED BY <1>1, <1>3

-----------------------------------------------------------------------------
\* At the start no cutover has happened and no request is under way.
LEMMA ModeInitially == RuntimeInit => ModeIInv
  <1> SUFFICES ASSUME RuntimeInit PROVE ModeIInv
    OBVIOUS
  <1>1. RuntimeShape
    BY DEF RuntimeInit, BackupsInit, NoRequests, RuntimeShape, RuntimeRequests, RetentionPolicies
  <1>2. \A h \in Handlers : req[h] = Idle
    BY DEF RuntimeInit, NoRequests
  <1> QED BY <1>1, <1>2, IdleHolds DEF ModeIInv, RuntimeInit, CutoverSilences, EventsTellMode

\* The steps of a cutover.
LEMMA CutoverSteps ==
  ASSUME ModeIInv, NEW h \in Handlers, Cutover(h)
  PROVE  ModeIInv' /\ UNCHANGED retention
  <1>0. RuntimeShape /\ RequestHolds(h) /\ \A g \in Handlers : RequestHolds(g)
    BY DEF ModeIInv
  <1>1. ASSUME NEW op \in CutoverOps, NEW o \in Orgs, NEW to \in Modes,
               op = "enter" => to = "pilot_live",
               Begin(h, CutoverRequest(op, o, to)),
               UNCHANGED <<cutoverIdle, ready, backupVars>>
        PROVE  ModeIInv' /\ UNCHANGED retention
    <2> DEFINE r == CutoverRequest(op, o, to)
    <2>1. r \in CutoverRequests
      <3>1. (op = "enter" /\ ready /\ BackupOK) \in BOOLEAN
        OBVIOUS
      <3>2. (IF op = "rollback" THEN toggles[o] ELSE "off") \in {"on", "off"}
        BY <1>0 DEF RuntimeShape
      <3> QED BY <3>1, <3>2 DEF CutoverRequest, CutoverRequests
    <2>2. r.op = op /\ r.org = o /\ r.target = to /\ r.writes = FALSE
          /\ (op = "rollback" => r.found = toggles[o])
      BY DEF CutoverRequest
    <2> HIDE DEF r
    <2>3. Begin(h, r) /\ UNCHANGED ModeIdle
      BY <1>1 DEF r, cutoverIdle, backupVars, ModeIdle
    <2>4. req'[h] = r
      BY <1>0, <2>3 DEF Begin, RuntimeShape
    <2>5. RequestHolds(h)'
      BY <1>1, <2>2, <2>3, <2>4 DEF RequestHolds, EnterIsLive, WriterSetMode, RollbackHolds,
           EnableHolds, PolicyHolds, Busy, CutoverOps, ModeIdle
    <2> QED BY <2>1, <2>3, <2>5, RuntimeBegins DEF RuntimeRequests, ModeIdle
  <1>2. ASSUME NEW o \in Orgs, EnterRead(h, o) PROVE ModeIInv' /\ UNCHANGED retention
    BY <1>1, <1>2 DEF EnterRead, CutoverOps, Modes
  <1>3. ASSUME NEW o \in Orgs, PauseRead(h, o) PROVE ModeIInv' /\ UNCHANGED retention
    BY <1>1, <1>3 DEF PauseRead, CutoverOps, Modes
  <1>4. ASSUME NEW o \in Orgs, NEW to \in Modes, RollbackRead(h, o, to)
        PROVE  ModeIInv' /\ UNCHANGED retention
    BY <1>1, <1>4 DEF RollbackRead, CutoverOps
  <1>5. ASSUME CutoverWrite(h) PROVE ModeIInv' /\ UNCHANGED retention
    <2>1. /\ \E op \in CutoverOps : Busy(h, op)
          /\ RuntimeLockFree(h)
          /\ mode' = req[h].target /\ mover' = NoOrg
          /\ crossing' = (crossing \/ stale[h])
          /\ req' = [req EXCEPT ![h].writes = TRUE]
          /\ stale' = [x \in Handlers |-> stale[x] \/ (x # h /\ req[x] # Idle)]
          /\ UNCHANGED <<toggles, cutover, retention>>
      BY <1>5 DEF CutoverWrite, Overtake, backupVars, CutoverOps
    <2>2. req[h] \in CutoverRequests
      BY <1>0, <2>1, RuntimeFields
    <2>3. /\ req'[h] \in CutoverRequests /\ req'[h].op = req[h].op
          /\ req'[h].target = req[h].target /\ req'[h].org = req[h].org
          /\ req'[h].found = req[h].found
      BY <1>0, <2>1, <2>2 DEF RuntimeShape, CutoverRequests
    <2>4. \A g \in Handlers \ {h} : req'[g] = req[g]
      BY <1>0, <2>1 DEF RuntimeShape
    <2>5. RuntimeShape'
      BY <1>0, <2>1, <2>2, <2>3 DEF RuntimeShape, RuntimeRequests
    <2>6. stale'[h] = stale[h]
      BY <1>0, <2>1 DEF RuntimeShape
    <2>7. req[h].op \in CutoverOps
      BY <2>2 DEF CutoverRequests
    <2>8. RequestHolds(h)'
      <3>1. EnterIsLive(h)'
        BY <1>0, <2>3 DEF RequestHolds, EnterIsLive, Busy
      <3>2. WriterSetMode(h)'
        BY <2>1, <2>3 DEF WriterSetMode
      <3>3. RollbackHolds(h)'
        BY <1>0, <2>1, <2>3, <2>6 DEF RequestHolds, RollbackHolds, Busy
      <3>4. EnableHolds(h)' /\ PolicyHolds(h)'
        BY <2>3, <2>7 DEF EnableHolds, PolicyHolds, Busy, CutoverOps
      <3> QED BY <3>1, <3>2, <3>3, <3>4 DEF RequestHolds
    <2>9. ASSUME NEW g \in Handlers \ {h} PROVE RequestHolds(g)'
      <3>1. CASE req[g] = Idle
        BY <2>4, <3>1 DEF Idle, RequestHolds, EnterIsLive, WriterSetMode, RollbackHolds,
             EnableHolds, PolicyHolds, Busy, CutoverOps
      <3>2. CASE req[g] # Idle
        <4>1. stale'[g]
          BY <2>1, <3>2
        <4> QED BY <1>0, <2>4, <4>1, UntouchedHolds
      <3> QED BY <3>1, <3>2
    <2>10. CutoverSilences' /\ EventsTellMode'
      BY <2>1 DEF CutoverSilences, EventsTellMode
    <2> QED BY <2>1, <2>5, <2>8, <2>9, <2>10 DEF ModeIInv
  <1>6. ASSUME RollbackLocked(h) PROVE ModeIInv' /\ UNCHANGED retention
    <2>1. /\ mover' = NoOrg /\ crossing' = (crossing \/ stale[h])
          /\ req' = [req EXCEPT ![h] = Idle]
          /\ stale' = [x \in Handlers |-> x # h /\ req[x] # Idle]
          /\ UNCHANGED <<toggles, cutover, retention>>
      BY <1>6 DEF RollbackLocked, backupVars
    <2>2. /\ req' \in [Handlers -> RuntimeRequests] /\ stale' \in [Handlers -> BOOLEAN]
          /\ \A g \in Handlers : RequestHolds(g)'
      BY <1>0, <2>1, RuntimeOvertaken
    <2>3. RuntimeShape'
      BY <1>0, <2>1, <2>2 DEF RuntimeShape
    <2>4. CutoverSilences' /\ EventsTellMode'
      BY <2>1 DEF CutoverSilences, EventsTellMode
    <2> QED BY <2>1, <2>2, <2>3, <2>4 DEF ModeIInv
  <1>7. ASSUME CutoverCommit(h) PROVE ModeIInv' /\ UNCHANGED retention
    <2>1. /\ \E op \in CutoverOps : Busy(h, op)
          /\ req[h].writes
          /\ cutover' = EventOf(req[h])
          /\ toggles' = DisableAll(req[h])
          /\ mover' = IF stale[h] THEN NoOrg ELSE req[h].org
          /\ crossing' = (crossing \/ stale[h])
          /\ EndAndOvertake(h)
          /\ UNCHANGED <<mode, retention>>
      BY <1>7 DEF CutoverCommit, backupVars, CutoverOps
    <2>2. req[h] \in CutoverRequests
      BY <1>0, <2>1, RuntimeFields
    <2>3. /\ req' \in [Handlers -> RuntimeRequests] /\ stale' \in [Handlers -> BOOLEAN]
          /\ \A g \in Handlers : RequestHolds(g)'
      BY <1>0, <2>1, RuntimeOvertaken DEF EndAndOvertake
    <2>4. req[h].org \in Orgs /\ req[h].found \in {"on", "off"} /\ req[h].op \in CutoverOps
      BY <2>2 DEF CutoverRequests
    <2>5. toggles' \in [Orgs -> {"on", "off"}]
      BY <1>0, <2>1, <2>4 DEF DisableAll, RuntimeShape
    <2>6. RuntimeShape'
      BY <1>0, <2>1, <2>3, <2>5 DEF RuntimeShape
    <2>7. ~stale[h] => mode = req[h].target
      BY <1>0, <2>1 DEF RequestHolds, WriterSetMode
    <2>8. EventsTellMode'
      BY <2>1, <2>7 DEF EventsTellMode, EventOf
    <2>9. CutoverSilences'
      <3> SUFFICES ASSUME mover' # NoOrg, mode' # "pilot_live", ~crossing'
                   PROVE  toggles'[mover'] = "off"
        BY DEF CutoverSilences
      <3>1. ~stale[h] /\ mover' = req[h].org /\ req[h].target # "pilot_live"
        BY <2>1, <2>7
      <3>2. CASE req[h].op = "enter"
        BY <1>0, <3>1, <3>2 DEF RequestHolds, EnterIsLive, Busy
      <3>3. CASE req[h].op = "pause"
        BY <1>0, <2>1, <2>4, <3>1, <3>3 DEF DisableAll, RuntimeShape
      <3>4. CASE req[h].op = "rollback"
        <4>1. req[h].found = toggles[req[h].org]
          BY <1>0, <3>1, <3>4 DEF RequestHolds, RollbackHolds, Busy
        <4> QED BY <1>0, <2>1, <2>4, <3>1, <3>4, <4>1 DEF DisableAll, RuntimeShape
      <3> QED BY <2>4, <3>2, <3>3, <3>4 DEF CutoverOps
    <2> QED BY <2>1, <2>3, <2>6, <2>8, <2>9 DEF ModeIInv
  <1> QED BY <1>2, <1>3, <1>4, <1>5, <1>6, <1>7 DEF Cutover

\* An integration is enabled or disabled.
LEMMA ToggleSteps ==
  ASSUME ModeIInv, NEW h \in Handlers, LiveToggle(h)
  PROVE  ModeIInv' /\ UNCHANGED retention
  <1>0. RuntimeShape /\ \A g \in Handlers : RequestHolds(g)
    BY DEF ModeIInv
  <1>1. ASSUME NEW o \in Orgs, EnableRead(h, o) PROVE ModeIInv' /\ UNCHANGED retention
    <2> DEFINE r == [op |-> "enable", org |-> o, writes |-> FALSE]
    <2>1. r \in EnableRequests /\ r.op = "enable"
      BY DEF EnableRequests
    <2>2. Begin(h, r) /\ UNCHANGED ModeIdle /\ mode = "pilot_live"
      BY <1>1 DEF EnableRead, MayEnable, cutoverIdle, backupVars, ModeIdle
    <2> HIDE DEF r
    <2>3. req'[h] = r
      BY <1>0, <2>2 DEF Begin, RuntimeShape
    <2>4. RequestHolds(h)'
      BY <2>1, <2>2, <2>3 DEF RequestHolds, EnterIsLive, WriterSetMode, RollbackHolds,
           EnableHolds, PolicyHolds, Busy, CutoverOps, ModeIdle
    <2> QED BY <2>1, <2>2, <2>4, RuntimeBegins DEF RuntimeRequests, ModeIdle
  <1>2. ASSUME EnableWrite(h) PROVE ModeIInv' /\ UNCHANGED retention
    <2>1. /\ Busy(h, "enable")
          /\ toggles' = [toggles EXCEPT ![req[h].org] = "on"]
          /\ crossing' = (crossing \/ stale[h])
          /\ EndAndOvertake(h)
          /\ UNCHANGED <<mode, cutover, mover, retention>>
      BY <1>2 DEF EnableWrite, backupVars
    <2>2. /\ req' \in [Handlers -> RuntimeRequests] /\ stale' \in [Handlers -> BOOLEAN]
          /\ \A g \in Handlers : RequestHolds(g)'
      BY <1>0, <2>1, RuntimeOvertaken DEF EndAndOvertake
    <2>3. RuntimeShape'
      BY <1>0, <2>1, <2>2 DEF RuntimeShape
    <2>4. CutoverSilences'
      <3>1. mode # "pilot_live" => crossing'
        BY <1>0, <2>1 DEF RequestHolds, EnableHolds
      <3> QED BY <2>1, <3>1 DEF CutoverSilences
    <2>5. EventsTellMode'
      BY <2>1 DEF ModeIInv, EventsTellMode
    <2> QED BY <2>1, <2>2, <2>3, <2>4, <2>5 DEF ModeIInv
  <1>3. ASSUME NEW o \in Orgs, Disable(h, o) PROVE ModeIInv' /\ UNCHANGED retention
    <2>1. /\ toggles' = [toggles EXCEPT ![o] = "off"]
          /\ EndAndOvertake(h)
          /\ UNCHANGED <<mode, cutover, mover, crossing, retention>>
      BY <1>3 DEF Disable, backupVars
    <2>2. /\ req' \in [Handlers -> RuntimeRequests] /\ stale' \in [Handlers -> BOOLEAN]
          /\ \A g \in Handlers : RequestHolds(g)'
      BY <1>0, <2>1, RuntimeOvertaken DEF EndAndOvertake
    <2>3. RuntimeShape'
      BY <1>0, <2>1, <2>2 DEF RuntimeShape
    <2>4. CutoverSilences'
      <3> SUFFICES ASSUME toggles[mover] = "off" PROVE toggles'[mover] = "off"
        BY <2>1 DEF ModeIInv, CutoverSilences
      <3> QED BY <1>0, <2>1 DEF RuntimeShape
    <2>5. EventsTellMode'
      BY <2>1 DEF ModeIInv, EventsTellMode
    <2> QED BY <2>1, <2>2, <2>3, <2>4, <2>5 DEF ModeIInv
  <1> QED BY <1>1, <1>2, <1>3 DEF LiveToggle

\* The retention policy is changed.
LEMMA PolicySteps ==
  ASSUME ModeIInv, NEW h \in Handlers, PolicyStep(h), UNCHANGED <<cutoverIdle, ready>>
  PROVE  ModeIInv' /\ EnabledByAcceptance
  <1>0. RuntimeShape /\ \A g \in Handlers : RequestHolds(g)
    BY DEF ModeIInv
  <1>1. ASSUME NEW prunes \in {{}, {TRUE}, {FALSE}}, NEW accepts \in BOOLEAN,
               PolicyRead(h, prunes, accepts)
        PROVE  ModeIInv' /\ EnabledByAcceptance
    <2>1. PICK prune \in IF prunes = {} THEN {retention.prune} ELSE prunes :
             /\ Acceptable(retention, prune, accepts)
             /\ Begin(h, [op |-> "policy", accepts |-> accepts, writes |-> FALSE,
                          new |-> [prune |-> prune, accepted |-> accepts \/ retention.accepted]])
      BY <1>1 DEF PolicyRead
    <2>2. retention.prune \in BOOLEAN /\ retention.accepted \in BOOLEAN
      BY <1>0 DEF RuntimeShape, RetentionPolicies
    <2>3. prune \in BOOLEAN
      BY <2>1, <2>2
    <2> DEFINE new == [prune |-> prune, accepted |-> accepts \/ retention.accepted]
               r == [op |-> "policy", accepts |-> accepts, writes |-> FALSE, new |-> new]
    <2>4. new \in RetentionPolicies /\ new.prune = prune
      BY <2>2, <2>3 DEF RetentionPolicies
    <2> HIDE DEF new
    <2>5. r \in PolicyRequests /\ r.op = "policy" /\ r.accepts = accepts /\ r.new = new
      BY <2>4 DEF PolicyRequests
    <2>6. Begin(h, r)
      BY <2>1 DEF new
    <2> HIDE DEF r
    <2>7. UNCHANGED ModeIdle
      BY <1>1 DEF PolicyRead, cutoverIdle, backupVars, ModeIdle
    <2>8. req'[h] = r
      BY <1>0, <2>6 DEF Begin, RuntimeShape
    <2>9. PolicyHolds(h)'
      BY <2>1, <2>4, <2>5, <2>7, <2>8 DEF PolicyHolds, Acceptable, ModeIdle
    <2>10. RequestHolds(h)'
      BY <2>5, <2>8, <2>9 DEF RequestHolds, EnterIsLive, WriterSetMode, RollbackHolds,
           EnableHolds, Busy, CutoverOps
    <2> QED BY <2>5, <2>6, <2>7, <2>10, RuntimeBegins
            DEF RuntimeRequests, ModeIdle, EnabledByAcceptance
  <1>2. ASSUME PolicyWrite(h), EndAndOvertake(h) PROVE ModeIInv' /\ EnabledByAcceptance
    <2>1. Busy(h, "policy") /\ retention' = req[h].new /\ UNCHANGED <<mode, toggles, cutover, mover, crossing>>
      BY <1>2 DEF PolicyWrite, cutoverIdle
    <2>2. req[h].new \in RetentionPolicies /\ req[h].accepts \in BOOLEAN
      BY <1>0, <2>1, RuntimeFields DEF PolicyRequests
    <2>3. /\ req' \in [Handlers -> RuntimeRequests] /\ stale' \in [Handlers -> BOOLEAN]
          /\ \A g \in Handlers : RequestHolds(g)'
      BY <1>0, <1>2, RuntimeOvertaken DEF EndAndOvertake
    <2>4. RuntimeShape'
      BY <1>0, <2>1, <2>2, <2>3 DEF RuntimeShape
    <2>5. CutoverSilences' /\ EventsTellMode'
      BY <2>1 DEF ModeIInv, CutoverSilences, EventsTellMode
    <2>6. EnabledByAcceptance
      BY <1>0, <2>1, <2>2 DEF EnabledByAcceptance, RequestHolds, PolicyHolds
    <2> QED BY <2>3, <2>4, <2>5, <2>6 DEF ModeIInv
  <1> QED BY <1>1, <1>2 DEF PolicyStep

\* Every step of the environment keeps the invariant and is as ModeIsObeyed says.
LEMMA ModeSteps ==
  ModeIInv /\ [RuntimeNext \/ RetentionNext]_runtimeVars => ModeIInv' /\ EnabledByAcceptance
  <1> SUFFICES ASSUME ModeIInv, [RuntimeNext \/ RetentionNext]_runtimeVars
               PROVE  ModeIInv' /\ EnabledByAcceptance
    OBVIOUS
  <1>a. UNCHANGED retention => EnabledByAcceptance
    BY DEF EnabledByAcceptance
  <1>b. ASSUME UNCHANGED <<ModeIdle, requestVars>> PROVE ModeIInv' /\ EnabledByAcceptance
    <2>1. \A g \in Handlers : RequestHolds(g)'
      BY <1>b, UntouchedHolds DEF ModeIdle, requestVars, ModeIInv
    <2> QED BY <1>a, <1>b, <2>1 DEF ModeIdle, requestVars, ModeIInv, RuntimeShape, CutoverSilences,
                                    EventsTellMode
  <1>1. ASSUME NEW h \in Handlers, Cutover(h) PROVE ModeIInv' /\ EnabledByAcceptance
    BY <1>a, <1>1, CutoverSteps
  <1>2. ASSUME NEW h \in Handlers, LiveToggle(h) PROVE ModeIInv' /\ EnabledByAcceptance
    BY <1>a, <1>2, ToggleSteps
  <1>3. ASSUME NEW h \in Handlers, RuntimeLost(h) PROVE ModeIInv' /\ EnabledByAcceptance
    <2>1. End(h) /\ UNCHANGED ModeIdle
      BY <1>3 DEF RuntimeLost, Lost, cutoverIdle, backupVars, ModeIdle
    <2> QED BY <1>a, <2>1, RuntimeEnds DEF ModeIdle
  <1>4. ASSUME BackupsStep, UNCHANGED <<cutoverIdle, ready, requestVars>>
        PROVE  ModeIInv' /\ EnabledByAcceptance
    <2>1. UNCHANGED retention
      BY <1>4 DEF BackupsStep, RecordSnapshot, UpdateVerification, SnapshotAges, PruneExpired,
                  DryRunRestore, ScheduleRehearsal
    <2> QED BY <1>b, <1>4, <2>1 DEF cutoverIdle, ModeIdle
  <1>5. ASSUME RestoreBackup PROVE ModeIInv' /\ EnabledByAcceptance
    BY <1>b, <1>5 DEF RestoreBackup, cutoverIdle, ModeIdle
  <1>6. ASSUME ChecksChange PROVE ModeIInv' /\ EnabledByAcceptance
    BY <1>b, <1>6 DEF ChecksChange, cutoverIdle, backupVars, ModeIdle
  <1>7. ASSUME RegistryRestart PROVE ModeIInv' /\ EnabledByAcceptance
    <2>1. /\ mover' = NoOrg /\ req' = [h \in Handlers |-> Idle]
          /\ stale' = [h \in Handlers |-> FALSE]
          /\ UNCHANGED <<toggles, cutover, crossing, retention>>
      BY <1>7 DEF RegistryRestart, backupVars
    <2>2. RuntimeShape'
      BY <2>1 DEF ModeIInv, RuntimeShape, RuntimeRequests
    <2>3. ASSUME NEW g \in Handlers PROVE RequestHolds(g)'
      BY <2>1 DEF Idle, RequestHolds, EnterIsLive, WriterSetMode, RollbackHolds, EnableHolds,
                  PolicyHolds, Busy, CutoverOps
    <2>4. CutoverSilences' /\ EventsTellMode'
      BY <2>1 DEF CutoverSilences, EventsTellMode
    <2> QED BY <1>a, <2>1, <2>2, <2>3, <2>4 DEF ModeIInv
  <1>8. ASSUME RetentionNext PROVE ModeIInv' /\ EnabledByAcceptance
    <2>1. ASSUME NEW h \in Handlers, PolicyStep(h) PROVE ModeIInv' /\ EnabledByAcceptance
      BY <1>8, <2>1, PolicySteps DEF RetentionNext
    <2>2. ASSUME NEW h \in Handlers, Lost(h), UNCHANGED backupVars
          PROVE  ModeIInv' /\ EnabledByAcceptance
      BY <1>a, <1>8, <2>2, RuntimeEnds DEF RetentionNext, Lost, cutoverIdle, backupVars, ModeIdle
    <2>3. ASSUME BackupsStep, UNCHANGED requestVars PROVE ModeIInv' /\ EnabledByAcceptance
      BY <1>4, <1>8, <2>3 DEF RetentionNext
    <2> QED BY <1>8, <2>1, <2>2, <2>3 DEF RetentionNext
  <1>9. CASE UNCHANGED runtimeVars
    BY <1>b, <1>9 DEF runtimeVars, backupVars, ModeIdle
  <1> QED BY <1>1, <1>2, <1>3, <1>4, <1>5, <1>6, <1>7, <1>8, <1>9 DEF RuntimeNext

\* However cutovers, toggles, restarts and policy changes overlap: an organization whose
\* cutover left pilot_live has nothing live on, the last cutover event tells the mode, and
\* pruning is turned on by a request that accepts it, crossings excepted (CutoverService,
\* LiveToggleService and put_retention_policy).
THEOREM ModeStaysObeyed == EnvironmentSpec => ModeIsObeyed
  <1>1. ModeIInv => CutoverSilences /\ EventsTellMode
    BY DEF ModeIInv
  <1>2. ModeIInv /\ [RuntimeNext \/ RetentionNext]_runtimeVars =>
           ModeIInv' /\ [EnabledByAcceptance]_backupVars
    BY ModeSteps
  <1>3. EnvironmentSpec => [](CutoverSilences /\ EventsTellMode) /\ [][EnabledByAcceptance]_backupVars
    BY ModeInitially, <1>1, <1>2, PTL DEF EnvironmentSpec
  <1> QED BY <1>3 DEF ModeIsObeyed, EnablingIsAccepted, EnabledByAcceptance

-----------------------------------------------------------------------------
(* Alerts. *)

AlertStatuses == OpenStatuses \cup {"resolved"}
Windows == 0 .. LastWindow
AlertRows == [rule : AlertRules, window : Windows, status : AlertStatuses]
Whats == {"raise", "fire", "suppress", "nothing", "resolve"}
TickDecisions ==
    [what : Whats, rule : AlertRules, window : Windows, cleared : BOOLEAN, event : Nat]
TickRequests ==
    {Idle} \cup [op : {"tick"}, found : TickDecisions \cup {Undecided}, left : SUBSET AlertRules]

\* The columns the argument looks at.
AlertsShape ==
    /\ cooldown \in Windows
    /\ alerts \in Seq(AlertRows)
    /\ overlapped \in BOOLEAN
    /\ req \in [Handlers -> TickRequests]
    /\ stale \in [Handlers -> BOOLEAN]

Reported(k) == \E e \in DOMAIN alerts : AlertKey(alerts[e]) = k

\* What a tick holds that it has decided on: a firing event is the first of its window,
\* unless another tick has written since; a suppressed one is not.
TickHolds(h) ==
    Busy(h, "tick") /\ req[h].found # Undecided =>
        LET d == req[h].found
        IN  /\ d.what = "fire" /\ ~stale[h] => OpenForDedup(<<d.rule, d.window>>) = {}
            /\ d.what = "suppress" => Reported(<<d.rule, d.window>>)
            /\ d.rule \notin req[h].left

AlertsIInv ==
    AlertsShape /\ OneOpenPerWindow /\ SuppressedWasReported /\ \A h \in Handlers : TickHolds(h)

\* What the action property says of one step.
StaysResolved ==
    \A e \in DOMAIN alerts : alerts[e].status = "resolved" => alerts'[e].status = "resolved"

AlertsKept == AlertsIInv' /\ StaysResolved

-----------------------------------------------------------------------------
\* Who is idle has decided on nothing.
LEMMA IdleIsNoTick == Idle.op # "tick"
  BY DEF Idle

\* The fields of a request under way.
LEMMA TickFields ==
  ASSUME AlertsShape, NEW h \in Handlers, Busy(h, "tick")
  PROVE  /\ req[h].found \in TickDecisions \cup {Undecided}
         /\ req[h].left \subseteq AlertRules
  BY IdleIsNoTick DEF AlertsShape, TickRequests, Busy

\* What a rule is decided to do.
LEMMA DecisionFields ==
  ASSUME AlertsShape, NEW r \in AlertRules, NEW fires \in BOOLEAN
  PROVE  /\ Decision(r, fires) \in TickDecisions
         /\ Decision(r, fires).rule = r
         /\ Decision(r, fires).window = cooldown
         /\ Decision(r, fires).what = "fire" => OpenForDedup(<<r, cooldown>>) = {}
         /\ Decision(r, fires).what = "suppress" => Reported(<<r, cooldown>>)
  <1> DEFINE what == EvaluateRule(r, fires)
             event == IF what = "resolve" THEN CHOOSE e \in OpenForRule(r) : TRUE ELSE 0
  <1>1. what \in Whats
    BY DEF EvaluateRule, Whats
  <1>2. what = "fire" => OpenForDedup(<<r, cooldown>>) = {}
    BY DEF EvaluateRule
  <1>3. what = "suppress" => OpenForDedup(<<r, cooldown>>) # {}
    BY DEF EvaluateRule
  <1>4. what = "resolve" => OpenForRule(r) # {}
    BY DEF EvaluateRule
  <1> HIDE DEF what
  <1>5. event \in Nat
    <2>1. OpenForRule(r) \subseteq Nat
      BY LenProperties DEF OpenForRule, AlertsShape
    <2> QED BY <1>4, <2>1
  <1>6. Decision(r, fires) = [what |-> what, rule |-> r, window |-> cooldown, cleared |-> ~fires,
                              event |-> event]
    BY DEF Decision, what
  <1> HIDE DEF event
  <1>7. cooldown \in Windows
    BY DEF AlertsShape
  <1>10. (~fires) \in BOOLEAN
    OBVIOUS
  <1>8. what = "suppress" => Reported(<<r, cooldown>>)
    BY <1>3 DEF OpenForDedup, Reported
  <1>9. Decision(r, fires) \in TickDecisions
    BY <1>1, <1>5, <1>6, <1>7, <1>10 DEF TickDecisions
  <1> QED BY <1>2, <1>6, <1>8, <1>9

\* The events that are fired together are of different rules.
LEMMA FiredEvents ==
  ASSUME NEW F \in SUBSET TickDecisions, IsFiniteSet(F), NEW fired \in AddFiring(F)
  PROVE  /\ fired \in Seq(AlertRows)
         /\ \A i \in 1 .. Len(fired) : \E d \in F :
               fired[i] = [rule |-> d.rule, window |-> d.window, status |-> "firing"]
         /\ \A i, j \in 1 .. Len(fired) : fired[i].rule = fired[j].rule => i = j
  <1> DEFINE n == Cardinality(F)
  <1>1. PICK o \in [1 .. n -> F] :
           /\ \A i, j \in DOMAIN o : i < j => o[i].rule < o[j].rule
           /\ fired = [i \in DOMAIN o |->
                          [rule |-> o[i].rule, window |-> o[i].window, status |-> "firing"]]
    BY DEF AddFiring
  <1>2. n \in Nat
    BY FS_CardinalityType
  <1> HIDE DEF n
  <1>3. fired = [i \in 1 .. n |->
                    [rule |-> o[i].rule, window |-> o[i].window, status |-> "firing"]]
    BY <1>1
  <1>4. \A i \in 1 .. n : fired[i] \in AlertRows
    BY <1>1, <1>3 DEF TickDecisions, AlertRows, AlertStatuses, OpenStatuses
  <1>5. fired \in [1 .. n -> AlertRows]
    BY <1>3, <1>4
  <1>6. fired \in Seq(AlertRows) /\ Len(fired) = n
    BY <1>2, <1>5
  <1>7. ASSUME NEW i \in 1 .. n, NEW j \in 1 .. n, fired[i].rule = fired[j].rule PROVE i = j
    <2>1. o[i].rule = o[j].rule /\ o[i].rule \in Nat
      BY <1>1, <1>3, <1>7 DEF TickDecisions, AlertRules
    <2> QED BY <1>1, <1>2, <2>1
  <1>8. \A i \in 1 .. n : \E d \in F :
           fired[i] = [rule |-> d.rule, window |-> d.window, status |-> "firing"]
    BY <1>1, <1>3
  <1> QED BY <1>6, <1>7, <1>8

\* Resolving changes open events to resolved ones and nothing else.
LEMMA ResolvedEvents ==
  ASSUME AlertsShape, NEW ds
  PROVE  /\ Resolve(ds) \in Seq(AlertRows) /\ Len(Resolve(ds)) = Len(alerts)
         /\ \A e \in 1 .. Len(alerts) :
               /\ AlertKey(Resolve(ds)[e]) = AlertKey(alerts[e])
               /\ \/ Resolve(ds)[e].status = "resolved"
                  \/ alerts[e].status \in OpenStatuses /\ Resolve(ds)[e].status = alerts[e].status
  <1>1. /\ Len(alerts) \in Nat /\ DOMAIN alerts = 1 .. Len(alerts)
        /\ \A e \in 1 .. Len(alerts) : alerts[e] \in AlertRows
    BY LenProperties, ElementOfSeq DEF AlertsShape
  <1>2. \A e \in 1 .. Len(alerts) :
           Resolve(ds)[e] = IF alerts[e].status \in OpenStatuses /\ \E d \in ds : d.event = e
                            THEN [alerts[e] EXCEPT !.status = "resolved"] ELSE alerts[e]
    BY <1>1 DEF Resolve
  <1>3. ASSUME NEW e \in 1 .. Len(alerts)
        PROVE  /\ Resolve(ds)[e] \in AlertRows
               /\ AlertKey(Resolve(ds)[e]) = AlertKey(alerts[e])
               /\ \/ Resolve(ds)[e].status = "resolved"
                  \/ alerts[e].status \in OpenStatuses /\ Resolve(ds)[e].status = alerts[e].status
    <2>1. alerts[e] \in AlertRows
      BY <1>1
    <2>2. CASE alerts[e].status \in OpenStatuses /\ \E d \in ds : d.event = e
      <3>1. Resolve(ds)[e] = [alerts[e] EXCEPT !.status = "resolved"]
        BY <1>2, <2>2
      <3> QED BY <2>1, <3>1 DEF AlertRows, AlertStatuses, AlertKey
    <2>3. CASE ~(alerts[e].status \in OpenStatuses /\ \E d \in ds : d.event = e)
      <3>1. Resolve(ds)[e] = alerts[e]
        BY <1>2, <2>3
      <3> QED BY <2>1, <3>1 DEF AlertRows, AlertStatuses
    <2> QED BY <2>2, <2>3
  <1>4. Resolve(ds) = [e \in 1 .. Len(alerts) |-> Resolve(ds)[e]]
    BY <1>1 DEF Resolve
  <1>5. Resolve(ds) \in [1 .. Len(alerts) -> AlertRows]
    BY <1>3, <1>4
  <1>6. Resolve(ds) \in Seq(AlertRows) /\ Len(Resolve(ds)) = Len(alerts)
    BY <1>1, <1>5
  <1> QED BY <1>3, <1>6

\* A step that changes no event.
LEMMA SameEvents ==
  ASSUME UNCHANGED alerts
  PROVE  /\ \A k : OpenForDedup(k)' = OpenForDedup(k)
         /\ \A k : Reported(k)' <=> Reported(k)
         /\ StaysResolved
  BY DEF OpenForDedup, Reported, StaysResolved, AlertKey

\* A request that begins, or decides on its next rule, changes no event.
LEMMA OtherTicks ==
  ASSUME AlertsIInv, NEW h \in Handlers, UNCHANGED <<cooldown, alerts, suppressed, overlapped>>,
         \A g \in Handlers \ {h} : req'[g] = req[g] /\ stale'[g] = stale[g],
         req' \in [Handlers -> TickRequests], stale' \in [Handlers -> BOOLEAN], TickHolds(h)'
  PROVE  AlertsKept
  <1>1. \A g \in Handlers \ {h} : TickHolds(g)'
    BY SameEvents DEF AlertsIInv, TickHolds, Busy
  <1>2. AlertsShape'
    BY DEF AlertsIInv, AlertsShape
  <1>3. OneOpenPerWindow' /\ SuppressedWasReported'
    BY DEF AlertsIInv, OneOpenPerWindow, SuppressedWasReported, AlertKey
  <1> QED BY <1>1, <1>2, <1>3, SameEvents DEF AlertsKept, AlertsIInv

\* At the start nothing has fired and nobody evaluates.
LEMMA AlertsInitially == AlertsInit => AlertsIInv
  <1> SUFFICES ASSUME AlertsInit PROVE AlertsIInv
    OBVIOUS
  <1>1. \A h \in Handlers : req[h] = Idle
    BY DEF AlertsInit, NoRequests
  <1>2. AlertsShape
    <2>1. cooldown \in Windows /\ alerts \in Seq(AlertRows)
      BY AlertsAssumption DEF AlertsInit, Windows
    <2>2. overlapped \in BOOLEAN
      BY DEF AlertsInit
    <2>3. req \in [Handlers -> TickRequests]
      BY DEF AlertsInit, NoRequests, TickRequests
    <2>4. stale \in [Handlers -> BOOLEAN]
      BY DEF AlertsInit, NoRequests
    <2> QED BY <2>1, <2>2, <2>3, <2>4 DEF AlertsShape
  <1>3. OneOpenPerWindow /\ SuppressedWasReported
    BY DEF AlertsInit, OneOpenPerWindow, SuppressedWasReported
  <1> QED BY <1>1, <1>2, <1>3, IdleIsNoTick DEF AlertsIInv, TickHolds, Busy

\* A tick begins.
LEMMA TickBegins ==
  ASSUME AlertsIInv, NEW h \in Handlers, TickBegin(h)
  PROVE  AlertsKept
  <1> DEFINE r == [op |-> "tick", found |-> Undecided, left |-> {x \in AlertRules : rule[x] = "enabled"}]
  <1>1. r \in TickRequests /\ r.found = Undecided
    BY DEF TickRequests
  <1>2. Begin(h, r) /\ UNCHANGED <<cooldown, alerts, suppressed, overlapped>>
    BY DEF TickBegin
  <1> HIDE DEF r
  <1>3. /\ req' \in [Handlers -> TickRequests] /\ stale' \in [Handlers -> BOOLEAN]
        /\ req'[h] = r
        /\ \A g \in Handlers \ {h} : req'[g] = req[g] /\ stale'[g] = stale[g]
    BY <1>1, <1>2 DEF Begin, AlertsIInv, AlertsShape
  <1>4. TickHolds(h)'
    BY <1>1, <1>3 DEF TickHolds, Undecided
  <1> QED BY <1>2, <1>3, <1>4, OtherTicks

\* A tick evaluates its next rule.
LEMMA TickEvaluates ==
  ASSUME AlertsIInv, NEW h \in Handlers, TickEvaluate(h)
  PROVE  AlertsKept
  <1>1. PICK r \in req[h].left, fires \in Samples :
          req' = [req EXCEPT ![h] =
             [op |-> "tick", left |-> req[h].left \ {r},
              found |-> IF Decision(r, fires).what = "nothing" THEN Undecided
                        ELSE Decision(r, fires)]]
    BY DEF TickEvaluate
  <1>2. /\ Busy(h, "tick") /\ stale' = [stale EXCEPT ![h] = FALSE]
        /\ UNCHANGED <<cooldown, alerts, suppressed, overlapped>>
    BY DEF TickEvaluate
  <1>3. AlertsShape /\ r \in AlertRules /\ fires \in BOOLEAN /\ req[h].left \subseteq AlertRules
    BY <1>1, <1>2, TickFields DEF AlertsIInv, Samples
  <1> DEFINE d == Decision(r, fires)
             found == IF d.what = "nothing" THEN Undecided ELSE d
             q == [op |-> "tick", left |-> req[h].left \ {r}, found |-> found]
  <1>4. /\ d \in TickDecisions /\ d.rule = r
        /\ d.what = "fire" => OpenForDedup(<<d.rule, d.window>>) = {}
        /\ d.what = "suppress" => Reported(<<d.rule, d.window>>)
    BY <1>3, DecisionFields
  <1> HIDE DEF d
  <1>5. found \in TickDecisions \cup {Undecided} /\ (found # Undecided => found = d)
    BY <1>4
  <1>6. req' = [req EXCEPT ![h] = q]
    BY <1>1 DEF d
  <1>7. q.found = found /\ q.left = req[h].left \ {r}
    OBVIOUS
  <1> HIDE DEF found
  <1>8. q \in TickRequests
    BY <1>3, <1>5 DEF TickRequests
  <1> HIDE DEF q
  <1>9. /\ req' \in [Handlers -> TickRequests] /\ stale' \in [Handlers -> BOOLEAN]
        /\ req'[h] = q
        /\ \A g \in Handlers \ {h} : req'[g] = req[g] /\ stale'[g] = stale[g]
    BY <1>2, <1>3, <1>6, <1>8 DEF AlertsShape
  <1>10. TickHolds(h)'
    <2>1. q.found # Undecided =>
             /\ q.found.what = "fire" => OpenForDedup(<<q.found.rule, q.found.window>>) = {}
             /\ q.found.what = "suppress" => Reported(<<q.found.rule, q.found.window>>)
             /\ q.found.rule \notin q.left
      BY <1>4, <1>5, <1>7
    <2> QED BY <1>2, <1>9, <2>1, SameEvents DEF TickHolds
  <1> QED BY <1>2, <1>9, <1>10, OtherTicks

\* A tick writes what it has decided and what it decides for the rules left.
LEMMA TickWrites ==
  ASSUME AlertsIInv, NEW h \in Handlers, TickWrite(h)
  PROVE  AlertsKept
  <1>0. /\ AlertsShape /\ OneOpenPerWindow /\ SuppressedWasReported
        /\ \A g \in Handlers : TickHolds(g)
        /\ Busy(h, "tick") /\ req[h].found # Undecided
        /\ overlapped' = (overlapped \/ stale[h]) /\ EndAndOvertake(h) /\ UNCHANGED cooldown
    BY DEF AlertsIInv, TickWrite
  <1> DEFINE first == req[h].found
             left == req[h].left
  <1>1. first \in TickDecisions /\ left \subseteq AlertRules
    BY <1>0, TickFields
  <1>2. PICK fires \in [left -> Samples] :
          LET made == {first} \cup {Decision(r, fires[r]) : r \in left}
          IN  /\ \E fired \in AddFiring(Of(made, "fire")) :
                    alerts' = Resolve(Of(made, "resolve")) \o fired
              /\ suppressed' = suppressed \cup RecordSuppressed(Of(made, "suppress"))
    BY DEF TickWrite
  <1> DEFINE made == {first} \cup {Decision(r, fires[r]) : r \in left}
             F == Of(made, "fire")
             kept == Resolve(Of(made, "resolve"))
             n == Len(alerts)
  <1>3. PICK fired \in AddFiring(F) : alerts' = kept \o fired
    BY <1>2
  \* What is decided.
  <1>4. /\ made \subseteq TickDecisions
        /\ \A d \in made :
              /\ d.what = "fire" => stale[h] \/ OpenForDedup(<<d.rule, d.window>>) = {}
              /\ d.what = "suppress" => Reported(<<d.rule, d.window>>)
    <2>1. ASSUME NEW r \in left
          PROVE  LET d == Decision(r, fires[r])
                 IN  /\ d \in TickDecisions
                     /\ d.what = "fire" => OpenForDedup(<<d.rule, d.window>>) = {}
                     /\ d.what = "suppress" => Reported(<<d.rule, d.window>>)
      <3>1. r \in AlertRules /\ fires[r] \in BOOLEAN
        BY <1>1, <1>2 DEF Samples
      <3> QED BY <1>0, <3>1, DecisionFields
    <2>2. /\ first.what = "fire" => stale[h] \/ OpenForDedup(<<first.rule, first.window>>) = {}
          /\ first.what = "suppress" => Reported(<<first.rule, first.window>>)
      BY <1>0 DEF TickHolds
    <2> QED BY <1>1, <2>1, <2>2
  <1>5. IsFiniteSet(F)
    <2>1. IsFiniteSet(AlertRules)
      BY FS_Interval, AlertsAssumption DEF AlertRules
    <2>2. IsFiniteSet(left)
      BY <1>1, <2>1, FS_Subset
    <2> DEFINE others == {Decision(r, fires[r]) : r \in left}
               g == [r \in left |-> Decision(r, fires[r])]
    <2>3. IsFiniteSet(others)
      <3>1. g \in Surjection(left, others)
        BY DEF Surjection
      <3> QED BY <2>2, <3>1, FS_Surjection
    <2>4. IsFiniteSet(made)
      <3>1. IsFiniteSet({first})
        BY FS_Singleton
      <3> QED BY <2>3, <3>1, FS_Union
    <2> QED BY <2>4, FS_Subset DEF Of
  <1>6. F \subseteq TickDecisions /\ \A d \in F : d \in made /\ d.what = "fire"
    BY <1>4 DEF Of
  <1>7. Reported(<<0, 0>>) \in BOOLEAN
    BY DEF Reported
  <1>8. suppressed' = suppressed \cup {<<d.rule, d.window>> : d \in Of(made, "suppress")}
    BY <1>2 DEF RecordSuppressed
  <1>9. \A d \in Of(made, "suppress") : Reported(<<d.rule, d.window>>)
    BY <1>4 DEF Of
  <1> HIDE DEF F, made, first, left
  \* The events there are now.
  <1>10. /\ fired \in Seq(AlertRows)
         /\ \A i \in 1 .. Len(fired) : \E d \in F :
               fired[i] = [rule |-> d.rule, window |-> d.window, status |-> "firing"]
         /\ \A i, j \in 1 .. Len(fired) : fired[i].rule = fired[j].rule => i = j
    BY <1>3, <1>5, <1>6, FiredEvents
  <1>11. /\ kept \in Seq(AlertRows) /\ Len(kept) = n
         /\ \A e \in 1 .. n :
               /\ AlertKey(kept[e]) = AlertKey(alerts[e])
               /\ \/ kept[e].status = "resolved"
                  \/ alerts[e].status \in OpenStatuses /\ kept[e].status = alerts[e].status
    BY <1>0, ResolvedEvents
  <1> HIDE DEF kept
  <1>12. /\ alerts' \in Seq(AlertRows) /\ Len(alerts') = n + Len(fired)
         /\ n \in Nat /\ Len(fired) \in Nat
         /\ \A e \in 1 .. n : alerts'[e] = kept[e]
         /\ \A e \in n + 1 .. n + Len(fired) : alerts'[e] = fired[e - n]
    <2>1. n \in Nat /\ Len(fired) \in Nat
      BY <1>0, <1>10, LenProperties DEF AlertsShape
    <2>2. /\ kept \o fired \in Seq(AlertRows) /\ Len(kept \o fired) = n + Len(fired)
          /\ \A e \in 1 .. n + Len(fired) :
                (kept \o fired)[e] = IF e <= n THEN kept[e] ELSE fired[e - n]
      <3> HIDE DEF n
      <3>1. fired \in Seq(AlertRows) /\ kept \in Seq(AlertRows) /\ Len(kept) = n
        BY <1>10, <1>11
      <3> QED BY <3>1, ConcatProperties
    <2> HIDE DEF n
    <2>3. \A e \in 1 .. n : e \in 1 .. n + Len(fired) /\ e <= n
      BY <2>1
    <2>4. \A e \in n + 1 .. n + Len(fired) : e \in 1 .. n + Len(fired) /\ ~(e <= n)
      BY <2>1
    <2> QED BY <1>3, <2>1, <2>2, <2>3, <2>4
  <1>13. DOMAIN alerts = 1 .. n /\ DOMAIN alerts' = 1 .. n + Len(fired)
    BY <1>0, <1>12, LenProperties DEF AlertsShape
  <1> HIDE DEF n
  <1>14. \A k : Reported(k) => Reported(k)'
    <2> SUFFICES ASSUME NEW k, NEW e \in 1 .. n, AlertKey(alerts[e]) = k PROVE Reported(k)'
      BY <1>13 DEF Reported
    <2>1. AlertKey(alerts'[e]) = k
      BY <1>11, <1>12
    <2>2. e \in DOMAIN alerts'
      BY <1>12, <1>13
    <2>3. AlertKey(alerts[e])' = AlertKey(alerts'[e])
      BY DEF AlertKey
    <2> QED BY <2>1, <2>2 DEF Reported, AlertKey
  <1>15. StaysResolved
    <2> SUFFICES ASSUME NEW e \in 1 .. n, alerts[e].status = "resolved"
                 PROVE  alerts'[e].status = "resolved"
      BY <1>13 DEF StaysResolved
    <2> QED BY <1>11, <1>12 DEF OpenStatuses
  <1>16. OneOpenPerWindow'
    <2> SUFFICES ASSUME ~overlapped', NEW e \in 1 .. n + Len(fired), NEW f \in 1 .. n + Len(fired),
                        {alerts'[e].status, alerts'[f].status} \subseteq OpenStatuses,
                        AlertKey(alerts'[e]) = AlertKey(alerts'[f]), e <= f
                 PROVE  e = f
      <3>1. \A e, f \in 1 .. n + Len(fired) :
               /\ ~overlapped'
               /\ {alerts'[e].status, alerts'[f].status} \subseteq OpenStatuses
               /\ AlertKey(alerts'[e]) = AlertKey(alerts'[f])
               /\ e <= f
               => e = f
        OBVIOUS
      <3>2. \A e, f \in 1 .. n + Len(fired) : e <= f \/ f <= e
        BY <1>12
      <3>3. \A e, f \in 1 .. n + Len(fired) :
               /\ ~overlapped'
               /\ {alerts'[e].status, alerts'[f].status} \subseteq OpenStatuses
               /\ AlertKey(alerts'[e]) = AlertKey(alerts'[f])
               => e = f
        BY <3>1, <3>2
      <3> QED BY <1>13, <3>3 DEF OneOpenPerWindow, AlertKey
    <2>1. ~overlapped /\ ~stale[h]
      BY <1>0
    <2>2. ASSUME NEW x \in 1 .. n, alerts'[x].status \in OpenStatuses
          PROVE  alerts[x].status \in OpenStatuses
      BY <1>11, <1>12, <2>2 DEF OpenStatuses
    <2>3. CASE f \in 1 .. n
      <3>1. e \in 1 .. n
        BY <1>12, <2>3
      <3>2. alerts[e].status \in OpenStatuses /\ alerts[f].status \in OpenStatuses
        BY <2>2, <2>3, <3>1
      <3>3. AlertKey(alerts[e]) = AlertKey(alerts[f])
        BY <1>11, <1>12, <2>3, <3>1
      <3> QED BY <1>0, <1>13, <2>1, <2>3, <3>1, <3>2, <3>3 DEF OneOpenPerWindow
    <2>4. CASE e \in 1 .. n /\ f \notin 1 .. n
      <3>1. f - n \in 1 .. Len(fired) /\ alerts'[f] = fired[f - n]
        BY <1>12, <2>4
      <3>2. PICK d \in F : fired[f - n] = [rule |-> d.rule, window |-> d.window, status |-> "firing"]
        BY <1>10, <3>1
      <3>3. OpenForDedup(<<d.rule, d.window>>) = {}
        BY <1>4, <1>6, <2>1
      <3>4. AlertKey(alerts'[f]) = <<d.rule, d.window>>
        BY <3>1, <3>2 DEF AlertKey
      <3>5. AlertKey(alerts[e]) = <<d.rule, d.window>> /\ alerts[e].status \in OpenStatuses
        BY <1>11, <1>12, <2>2, <2>4, <3>4
      <3> QED BY <1>13, <2>4, <3>3, <3>5 DEF OpenForDedup
    <2>5. CASE e \notin 1 .. n
      <3>1. /\ e - n \in 1 .. Len(fired) /\ alerts'[e] = fired[e - n]
            /\ f - n \in 1 .. Len(fired) /\ alerts'[f] = fired[f - n]
        BY <1>12, <2>5
      <3>2. fired[e - n].rule = fired[f - n].rule
        BY <3>1 DEF AlertKey
      <3>3. e - n = f - n
        BY <1>10, <3>1, <3>2
      <3> QED BY <1>12, <3>3
    <2> QED BY <2>3, <2>4, <2>5
  <1>17. SuppressedWasReported'
    <2> SUFFICES ASSUME NEW k \in suppressed' PROVE Reported(k)'
      BY DEF SuppressedWasReported, Reported, AlertKey
    <2>1. Reported(k)
      BY <1>0, <1>8, <1>9 DEF SuppressedWasReported, Reported
    <2> QED BY <1>14, <2>1
  <1>18. /\ req' \in [Handlers -> TickRequests] /\ stale' \in [Handlers -> BOOLEAN]
         /\ overlapped' \in BOOLEAN
    BY <1>0 DEF EndAndOvertake, AlertsShape, TickRequests
  <1>19. \A g \in Handlers : TickHolds(g)'
    <2> SUFFICES ASSUME NEW g \in Handlers, Busy(g, "tick")' PROVE TickHolds(g)'
      BY DEF TickHolds
    <2>1. req'[h] = Idle /\ (g # h => req'[g] = req[g] /\ (req[g] # Idle => stale'[g]))
      BY <1>0 DEF EndAndOvertake, AlertsShape
    <2>2. g # h /\ req'[g] = req[g] /\ stale'[g] /\ Busy(g, "tick")
      BY <2>1, IdleIsNoTick DEF Busy
    <2> QED BY <1>0, <1>14, <2>2 DEF TickHolds
  <1>20. AlertsShape'
    BY <1>0, <1>12, <1>18 DEF AlertsShape
  <1> QED BY <1>15, <1>16, <1>17, <1>19, <1>20 DEF AlertsKept, AlertsIInv

\* Somebody acknowledges an event: what was open stays open, what was resolved resolved.
LEMMA Acknowledges ==
  ASSUME AlertsIInv, NEW e \in DOMAIN alerts, AcknowledgeEvent(e)
  PROVE  AlertsKept
  <1>0. /\ AlertsShape /\ OneOpenPerWindow /\ SuppressedWasReported
        /\ \A g \in Handlers : TickHolds(g)
        /\ alerts' = Acknowledge(alerts, e)
        /\ UNCHANGED <<cooldown, suppressed, overlapped, req, stale>>
    BY DEF AlertsIInv, AcknowledgeEvent, requestVars
  <1>1. /\ Len(alerts) \in Nat /\ DOMAIN alerts = 1 .. Len(alerts)
        /\ \A x \in 1 .. Len(alerts) : alerts[x] \in AlertRows
    BY <1>0, LenProperties, ElementOfSeq DEF AlertsShape
  <1> DEFINE now == IF alerts[e].status = "firing" THEN "acknowledged" ELSE alerts[e].status
             row == [alerts[e] EXCEPT !.status = now]
  <1>2. row \in AlertRows /\ row.status = now /\ AlertKey(row) = AlertKey(alerts[e])
    BY <1>1 DEF AlertRows, AlertStatuses, OpenStatuses, AlertKey
  <1>3. alerts' = [alerts EXCEPT ![e] = row]
    BY <1>0 DEF Acknowledge
  <1>6. /\ now \in OpenStatuses <=> alerts[e].status \in OpenStatuses
        /\ alerts[e].status = "resolved" => now = "resolved"
    BY DEF OpenStatuses
  <1> HIDE DEF now, row
  <1>4. /\ alerts' \in Seq(AlertRows) /\ DOMAIN alerts' = DOMAIN alerts
        /\ alerts'[e] = row
        /\ \A x \in DOMAIN alerts \ {e} : alerts'[x] = alerts[x]
    <2>1. alerts \in Seq(AlertRows)
      BY <1>0 DEF AlertsShape
    <2>2. e \in 1 .. Len(alerts)
      BY <1>1
    <2>3. /\ alerts' \in Seq(AlertRows) /\ Len(alerts') = Len(alerts)
          /\ \A x \in 1 .. Len(alerts) : alerts'[x] = IF x = e THEN row ELSE alerts[x]
      BY <1>2, <1>3, <2>1, <2>2, ExceptSeq
    <2> QED BY <1>1, <2>2, <2>3, LenProperties
  <1>5. \A x \in DOMAIN alerts :
           /\ AlertKey(alerts'[x]) = AlertKey(alerts[x])
           /\ alerts'[x].status \in OpenStatuses <=> alerts[x].status \in OpenStatuses
           /\ alerts[x].status = "resolved" => alerts'[x].status = "resolved"
    BY <1>2, <1>4, <1>6
  <1>7. \A k : OpenForDedup(k)' = OpenForDedup(k) /\ (Reported(k)' <=> Reported(k))
    <2>1. \A k : OpenForDedup(k)' = {x \in DOMAIN alerts' :
             AlertKey(alerts'[x]) = k /\ alerts'[x].status \in OpenStatuses}
      BY DEF OpenForDedup, OpenStatuses, AlertKey
    <2>2. \A k : Reported(k)' <=> \E x \in DOMAIN alerts' : AlertKey(alerts'[x]) = k
      BY DEF Reported, AlertKey
    <2>3. \A k : OpenForDedup(k)' = OpenForDedup(k)
      BY <1>4, <1>5, <2>1 DEF OpenForDedup
    <2>4. \A k : Reported(k)' <=> Reported(k)
      BY <1>4, <1>5, <2>2 DEF Reported
    <2> QED BY <2>3, <2>4
  <1>8. \A g \in Handlers : TickHolds(g)'
    BY <1>0, <1>7 DEF TickHolds, Busy
  <1>9. AlertsShape'
    BY <1>0, <1>4 DEF AlertsShape
  <1>10. OneOpenPerWindow'
    <2> SUFFICES ASSUME ~overlapped', NEW x \in DOMAIN alerts, NEW y \in DOMAIN alerts,
                        {alerts'[x].status, alerts'[y].status} \subseteq OpenStatuses,
                        AlertKey(alerts'[x]) = AlertKey(alerts'[y])
                 PROVE  x = y
      BY <1>4 DEF OneOpenPerWindow, AlertKey, OpenStatuses
    <2> QED BY <1>0, <1>5 DEF OneOpenPerWindow
  <1>11. SuppressedWasReported'
    <2> SUFFICES ASSUME NEW k \in suppressed' PROVE Reported(k)'
      BY DEF SuppressedWasReported, Reported, AlertKey
    <2>1. Reported(k)
      BY <1>0 DEF SuppressedWasReported, Reported
    <2> QED BY <1>7, <2>1
  <1>12. StaysResolved
    BY <1>5 DEF StaysResolved
  <1> QED BY <1>8, <1>9, <1>10, <1>11, <1>12 DEF AlertsKept, AlertsIInv

\* Every step keeps the invariant and what is resolved.
LEMMA AlertsSteps == AlertsIInv /\ [AlertsNext]_alertVars => AlertsKept
  <1> SUFFICES ASSUME AlertsIInv, [AlertsNext]_alertVars PROVE AlertsKept
    OBVIOUS
  <1>0. AlertsShape /\ \A g \in Handlers : TickHolds(g)
    BY DEF AlertsIInv
  <1>1. ASSUME NEW h \in Handlers, TickOver(h) PROVE AlertsKept
    <2>1. /\ req' \in [Handlers -> TickRequests] /\ stale' \in [Handlers -> BOOLEAN]
          /\ req'[h] = Idle
          /\ \A g \in Handlers \ {h} : req'[g] = req[g] /\ stale'[g] = stale[g]
          /\ UNCHANGED <<cooldown, alerts, suppressed, overlapped>>
      BY <1>0, <1>1 DEF TickOver, Lost, End, AlertsShape, TickRequests
    <2>2. TickHolds(h)'
      BY <2>1, IdleIsNoTick DEF TickHolds, Busy
    <2> QED BY <2>1, <2>2, OtherTicks
  <1>2. ASSUME UNCHANGED <<alerts, suppressed, overlapped, req, stale>>, cooldown' \in Windows
        PROVE  AlertsKept
    <2>1. \A g \in Handlers : TickHolds(g)'
      BY <1>0, <1>2, SameEvents DEF TickHolds, Busy
    <2>2. AlertsShape'
      BY <1>0, <1>2 DEF AlertsShape
    <2>3. OneOpenPerWindow' /\ SuppressedWasReported'
      BY <1>2 DEF AlertsIInv, OneOpenPerWindow, SuppressedWasReported, AlertKey
    <2> QED BY <1>2, <2>1, <2>2, <2>3, SameEvents DEF AlertsKept, AlertsIInv
  <1>3. CASE RuleRequest
    <2>1. UNCHANGED <<cooldown, alerts, suppressed, overlapped, req, stale>>
      BY <1>3 DEF RuleRequest, CreateRule, UpdateRule, DeleteRule, requestVars
    <2>2. cooldown' \in Windows
      BY <1>0, <2>1 DEF AlertsShape
    <2> QED BY <1>2, <2>1, <2>2
  <1>4. CASE DedupBucket
    <2>1. cooldown' \in Windows
      BY <1>0, <1>4, AlertsAssumption DEF DedupBucket, AlertsShape, Windows
    <2> QED BY <1>2, <1>4, <2>1 DEF DedupBucket, requestVars
  <1>5. CASE UNCHANGED alertVars
    <2>1. cooldown' \in Windows
      BY <1>0, <1>5 DEF alertVars, AlertsShape
    <2> QED BY <1>2, <1>5, <2>1 DEF alertVars, requestVars
  <1> QED
    BY <1>1, <1>3, <1>4, <1>5, TickBegins, TickEvaluates, TickWrites, Acknowledges
       DEF AlertsNext, EvaluatorTask, Tick

\* Whatever ticks overlap with whatever requests: every firing is in an open alert or
\* counted under one, a window has one open alert unless two ticks overlapped, and what
\* was resolved rests (_evaluate_rule, acknowledge_event).
THEOREM AlertsStayAccounted == AlertsSpec => AlertsAreAccounted
  <1>1. AlertsIInv => OneOpenPerWindow /\ SuppressedWasReported
    BY DEF AlertsIInv
  <1>2. AlertsIInv /\ [AlertsNext]_alertVars => AlertsIInv' /\ [StaysResolved]_alertVars
    BY AlertsSteps DEF AlertsKept
  <1>3. AlertsSpec => [](OneOpenPerWindow /\ SuppressedWasReported) /\ [][StaysResolved]_alertVars
    BY AlertsInitially, <1>1, <1>2, PTL DEF AlertsSpec
  <1>4. ResolvedIsFinal <=> [][StaysResolved]_alertVars
    BY DEF ResolvedIsFinal, StaysResolved
  <1> QED BY <1>3, <1>4 DEF AlertsAreAccounted

-----------------------------------------------------------------------------
(* Connector health. *)

Metrics == [window : 1 .. MaxWindow, ok : Nat, failed : Nat, captcha : Nat]
HealthStatuses == {"unknown", "healthy", "degraded", "unhealthy"}
SnapshotRows == [at : Hours, metrics : Metrics, status : HealthStatuses]

\* Audit logs only grow from hour to hour.
Moments == 0 .. LastHour + 1
AuditLogs ==
    {t \in [Moments -> [Kinds -> Nat]] :
        \A i, j \in Moments : i <= j => \A kind \in Kinds : t[i][kind] <= t[j][kind]}

\* The entries of a log in a window, and what a snapshot of an hour counted in it.
CountIn(t, k, w, kind) == t[k + 1][kind] - t[IF w <= k THEN k + 1 - w ELSE 0][kind]
Recorded(t, k, m) ==
    /\ m.failed <= CountIn(t, k, MaxWindow, "failed")
    /\ m.captcha <= CountIn(t, k, MaxWindow, "captcha")

\* The log at a later moment: entries are added after hour n has begun.
Extended(t, u, n) ==
    /\ \A i \in Moments : i <= n => u[i] = t[i]
    /\ \A i \in Moments, kind \in Kinds : t[i][kind] <= u[i][kind]

\* The columns the argument looks at.
HealthShape ==
    /\ hour \in Hours
    /\ tally \in AuditLogs
    /\ computed \in Seq(SnapshotRows)
    /\ tripped \subseteq [trigger : Triggers, at : Hours]
    /\ req \in [Handlers -> {Idle} \cup [op : {"compute"}, metrics : Metrics]]

SnapshotsAreRecorded ==
    \A i \in DOMAIN computed :
        /\ computed[i].at <= hour
        /\ Recorded(tally, computed[i].at, computed[i].metrics)
        /\ computed[i].status = ClassifyStatus(computed[i].metrics)

ReadingsAreRecorded ==
    \A h \in Handlers : Busy(h, "compute") => Recorded(tally, hour, req[h].metrics)

TripsArePast == \A x \in tripped : x.at <= hour

HealthIInv ==
    /\ HealthShape /\ SnapshotsAreRecorded /\ ReadingsAreRecorded
    /\ TripsArePast /\ DisabledForFaults

-----------------------------------------------------------------------------
\* The positions a window lies between, and the entries there.
LEMMA Counts ==
  ASSUME NEW t \in AuditLogs, NEW k \in Hours, NEW w \in Nat \ {0}, NEW kind \in Kinds
  PROVE  LET begins == IF w <= k THEN k + 1 - w ELSE 0
         IN  /\ begins \in Moments /\ k + 1 \in Moments /\ begins <= k /\ begins <= k + 1
             /\ t[k + 1][kind] \in Nat /\ t[begins][kind] \in Nat
             /\ CountIn(t, k, w, kind) = t[k + 1][kind] - t[begins][kind]
  <1> DEFINE begins == IF w <= k THEN k + 1 - w ELSE 0
  <1>1. k \in Nat /\ k <= LastHour /\ LastHour \in Nat
    BY HealthAssumption DEF Hours
  <1>2. begins \in Moments /\ begins <= k /\ k + 1 \in Moments
    BY <1>1 DEF Moments
  <1>3. CountIn(t, k, w, kind) = t[k + 1][kind] - t[begins][kind]
    BY DEF CountIn
  <1> HIDE DEF begins
  <1>4. t[k + 1] \in [Kinds -> Nat] /\ t[begins] \in [Kinds -> Nat]
    BY <1>2 DEF AuditLogs
  <1>5. t[k + 1][kind] \in Nat /\ t[begins][kind] \in Nat
    BY <1>4
  <1>6. begins <= k + 1
    BY <1>1, <1>2 DEF Moments
  <1> QED BY <1>2, <1>3, <1>5, <1>6 DEF begins

\* A window has no negative count.
LEMMA CountIsNat ==
  ASSUME NEW t \in AuditLogs, NEW k \in Hours, NEW w \in Nat \ {0}, NEW kind \in Kinds
  PROVE  CountIn(t, k, w, kind) \in Nat
  <1> DEFINE begins == IF w <= k THEN k + 1 - w ELSE 0
             a == t[begins][kind]
             b == t[k + 1][kind]
  <1>1. /\ begins \in Moments /\ k + 1 \in Moments /\ begins <= k + 1
        /\ a \in Nat /\ b \in Nat /\ CountIn(t, k, w, kind) = b - a
    BY Counts
  <1>2. a <= b
    <2> HIDE DEF begins
    <2> QED BY <1>1 DEF AuditLogs
  <1> HIDE DEF a, b
  <1> QED BY <1>1, <1>2

\* A window that begins no later and ends no earlier has no fewer entries.
LEMMA WiderWindow ==
  ASSUME NEW t \in AuditLogs, NEW k \in Hours, NEW n \in Hours, k <= n,
         NEW v \in Nat \ {0}, NEW w \in Nat \ {0}, n - w <= k - v, NEW kind \in Kinds
  PROVE  CountIn(t, k, v, kind) <= CountIn(t, n, w, kind)
  <1> DEFINE from == IF v <= k THEN k + 1 - v ELSE 0
             begins == IF w <= n THEN n + 1 - w ELSE 0
             a == t[from][kind]
             b == t[k + 1][kind]
             c == t[begins][kind]
             d == t[n + 1][kind]
  <1>1. /\ from \in Moments /\ k + 1 \in Moments
        /\ a \in Nat /\ b \in Nat /\ CountIn(t, k, v, kind) = b - a
    BY Counts
  <1>2. /\ begins \in Moments /\ n + 1 \in Moments
        /\ c \in Nat /\ d \in Nat /\ CountIn(t, n, w, kind) = d - c
    BY Counts
  <1>3. begins <= from /\ k + 1 <= n + 1
    BY DEF Hours
  <1> HIDE DEF from, begins
  <1>4. c <= a /\ b <= d
    BY <1>1, <1>2, <1>3 DEF AuditLogs
  <1> HIDE DEF a, b, c, d
  <1> QED BY <1>1, <1>2, <1>4

\* A window that ended by then has no fewer entries at a later moment.
LEMMA StillCounted ==
  ASSUME NEW t \in AuditLogs, NEW u \in AuditLogs, NEW n \in Hours, Extended(t, u, n),
         NEW k \in Hours, k <= n, NEW w \in Nat \ {0}, NEW kind \in Kinds
  PROVE  CountIn(t, k, w, kind) <= CountIn(u, k, w, kind)
  <1> DEFINE begins == IF w <= k THEN k + 1 - w ELSE 0
             a == t[begins][kind]
             b == t[k + 1][kind]
             d == u[k + 1][kind]
  <1>1. /\ begins \in Moments /\ k + 1 \in Moments /\ begins <= k
        /\ a \in Nat /\ b \in Nat /\ CountIn(t, k, w, kind) = b - a
    BY Counts
  <1>2. /\ d \in Nat /\ CountIn(u, k, w, kind) = d - u[begins][kind]
    BY Counts
  <1>3. begins <= n
    <2> HIDE DEF begins
    <2> QED BY <1>1 DEF Hours, Moments
  <1> HIDE DEF begins
  <1>4. u[begins] = t[begins] /\ b <= d
    BY <1>1, <1>3 DEF Extended
  <1>5. CountIn(u, k, w, kind) = d - a
    BY <1>2, <1>4
  <1> HIDE DEF a, b, d
  <1> QED BY <1>1, <1>2, <1>4, <1>5

\* So what was recorded stays recorded.
LEMMA StillRecorded ==
  ASSUME NEW t \in AuditLogs, NEW u \in AuditLogs, NEW n \in Hours, Extended(t, u, n),
         NEW k \in Hours, k <= n, NEW m \in Metrics, Recorded(t, k, m)
  PROVE  Recorded(u, k, m)
  <1>1. MaxWindow \in Nat \ {0} /\ m.failed \in Nat /\ m.captcha \in Nat
    BY HealthAssumption DEF Metrics
  <1>2. ASSUME NEW kind \in Kinds
        PROVE  /\ CountIn(t, k, MaxWindow, kind) \in Nat /\ CountIn(u, k, MaxWindow, kind) \in Nat
               /\ CountIn(t, k, MaxWindow, kind) <= CountIn(u, k, MaxWindow, kind)
    BY <1>1, CountIsNat, StillCounted
  <1>3. "failed" \in Kinds /\ "captcha" \in Kinds
    BY DEF Kinds
  <1>4. m.failed <= CountIn(u, k, MaxWindow, "failed")
    BY <1>1, <1>2, <1>3 DEF Recorded
  <1>5. m.captcha <= CountIn(u, k, MaxWindow, "captcha")
    BY <1>1, <1>2, <1>3 DEF Recorded
  <1> QED BY <1>4, <1>5 DEF Recorded

\* The runs of an hour extend the log.
LEMMA RunsExtend ==
  ASSUME HealthShape, NEW b \in Batches, RunsHappen(b)
  PROVE  tally' \in AuditLogs /\ Extended(tally, tally', hour)
  <1>1. /\ hour \in Nat /\ LastHour \in Nat /\ hour \in Moments /\ hour + 1 \in Moments
        /\ tally \in [Moments -> [Kinds -> Nat]]
    BY HealthAssumption DEF HealthShape, Hours, Moments, AuditLogs
  <1>2. \A kind \in Kinds : b[kind] \in Nat
    BY HealthAssumption
  <1>3. tally' = [k \in Moments |->
                    IF k > hour THEN [kind \in Kinds |-> tally[k][kind] + b[kind]] ELSE tally[k]]
    BY <1>1 DEF RunsHappen
  <1>4. ASSUME NEW i \in Moments
        PROVE  /\ tally'[i] \in [Kinds -> Nat]
               /\ i <= hour => tally'[i] = tally[i]
               /\ i > hour => \A kind \in Kinds : tally'[i][kind] = tally[i][kind] + b[kind]
    <2>1. i \in Nat /\ tally[i] \in [Kinds -> Nat] /\ \A kind \in Kinds : tally[i][kind] \in Nat
      BY <1>1 DEF Moments
    <2>2. CASE i > hour
      <3>1. tally'[i] = [kind \in Kinds |-> tally[i][kind] + b[kind]]
        BY <1>3, <2>2
      <3>2. \A kind \in Kinds : tally[i][kind] + b[kind] \in Nat
        BY <1>2, <2>1
      <3> QED BY <1>1, <2>1, <2>2, <3>1, <3>2
    <2>3. CASE ~(i > hour)
      BY <1>3, <2>1, <2>3
    <2> QED BY <2>2, <2>3
  <1>5. tally' \in [Moments -> [Kinds -> Nat]]
    BY <1>3, <1>4
  <1>6. ASSUME NEW i \in Moments, NEW kind \in Kinds PROVE tally[i][kind] <= tally'[i][kind]
    <2>1. i \in Nat /\ tally[i][kind] \in Nat /\ b[kind] \in Nat
      BY <1>1, <1>2 DEF Moments
    <2> QED BY <1>1, <1>4, <2>1
  <1>7. ASSUME NEW i \in Moments, NEW j \in Moments, i <= j, NEW kind \in Kinds
        PROVE  tally'[i][kind] <= tally'[j][kind]
    <2>1. /\ i \in Nat /\ j \in Nat /\ tally[i][kind] \in Nat /\ tally[j][kind] \in Nat
          /\ b[kind] \in Nat
      BY <1>1, <1>2 DEF Moments
    <2>2. tally[i][kind] <= tally[j][kind]
      BY <1>7 DEF HealthShape, AuditLogs
    <2>3. tally'[i][kind] = tally[i][kind] + b[kind] \/ tally'[i][kind] = tally[i][kind]
      BY <1>1, <1>4, <2>1
    <2>4. i > hour => j > hour
      BY <1>1, <1>7, <2>1
    <2>5. CASE j > hour
      BY <1>4, <2>1, <2>2, <2>3, <2>5
    <2>6. CASE ~(j > hour)
      <3>1. i <= hour /\ j <= hour
        BY <1>1, <1>7, <2>1, <2>6
      <3> QED BY <1>4, <2>2, <3>1
    <2> QED BY <2>5, <2>6
  <1> QED BY <1>4, <1>5, <1>6, <1>7 DEF AuditLogs, Extended

\* What is derived from the log is recorded in it.
LEMMA DerivedIsRecorded ==
  ASSUME HealthShape, NEW w \in 1 .. MaxWindow
  PROVE  DeriveMetrics(w) \in Metrics /\ Recorded(tally, hour, DeriveMetrics(w))
  <1> DEFINE m == DeriveMetrics(w)
  <1>1. hour \in Hours /\ w \in Nat \ {0} /\ MaxWindow \in Nat \ {0} /\ tally \in AuditLogs
    BY HealthAssumption DEF HealthShape
  <1>2. hour <= hour /\ hour - MaxWindow <= hour - w
    BY <1>1 DEF Hours
  <1>3. /\ m.window = w
        /\ m.ok = CountIn(tally, hour, w, "ok")
        /\ m.failed = CountIn(tally, hour, w, "failed")
        /\ m.captcha = CountIn(tally, hour, w, "captcha")
    BY DEF DeriveMetrics, Collected, WindowCount, CountIn
  <1>4. \A kind \in Kinds : CountIn(tally, hour, w, kind) \in Nat
    BY <1>1, CountIsNat
  <1>5. \A kind \in Kinds :
           CountIn(tally, hour, w, kind) <= CountIn(tally, hour, MaxWindow, kind)
    BY <1>1, <1>2, WiderWindow
  <1>6. m.ok \in Nat /\ m.failed \in Nat /\ m.captcha \in Nat
    BY <1>3, <1>4 DEF Kinds
  <1>7. m = [window |-> m.window, ok |-> m.ok, failed |-> m.failed, captcha |-> m.captcha]
    BY DEF DeriveMetrics
  <1> HIDE DEF m
  <1>8. m \in Metrics
    BY <1>1, <1>3, <1>6, <1>7 DEF Metrics
  <1>9. Recorded(tally, hour, m)
    BY <1>3, <1>5 DEF Recorded, Kinds
  <1> QED BY <1>8, <1>9 DEF m

\* What makes a snapshot a breach is a fault it counts.
LEMMA BreachHasFault ==
  ASSUME NEW m \in Metrics
  PROVE  /\ ClassifyStatus(m) = "unhealthy" => m.failed > 0 \/ m.captcha > 0
         /\ CaptchaAbove(m, 20) => m.captcha > 0
         /\ ClassifyStatus(m) \in HealthStatuses
         /\ ClassifyStatus(m) # "healthy" <=> SuccessBelow(m, 90) \/ CaptchaAbove(m, 5)
  <1>1. m.ok \in Nat /\ m.failed \in Nat /\ m.captcha \in Nat
    BY DEF Metrics
  <1>2. SuccessBelow(m, 70) /\ ~(TotalRuns(m) < MinRuns) => m.failed > 0
    BY <1>1 DEF SuccessBelow, TotalRuns, MinRuns
  <1>3. CaptchaAbove(m, 20) => m.captcha > 0 /\ CaptchaAbove(m, 5)
    BY <1>1 DEF CaptchaAbove, TotalRuns
  <1>4. SuccessBelow(m, 70) => SuccessBelow(m, 90)
    BY <1>1 DEF SuccessBelow, TotalRuns
  <1>5. TotalRuns(m) < MinRuns => SuccessBelow(m, 90)
    BY <1>1 DEF SuccessBelow, TotalRuns, MinRuns
  <1> QED BY <1>2, <1>3, <1>4, <1>5 DEF ClassifyStatus, HealthStatuses

-----------------------------------------------------------------------------
\* A log that nothing is added to.
LEMMA SameLog ==
  ASSUME HealthShape, UNCHANGED tally
  PROVE  tally' \in AuditLogs /\ Extended(tally, tally', hour)
  <1>1. ASSUME NEW i \in Moments, NEW kind \in Kinds PROVE tally[i][kind] <= tally[i][kind]
    <2>1. tally[i] \in [Kinds -> Nat]
      BY DEF HealthShape, AuditLogs
    <2>2. tally[i][kind] \in Nat
      BY <2>1
    <2> QED BY <2>2
  <1> QED BY <1>1 DEF HealthShape, Extended

\* What is claimed of trips, in terms of logs.
Faulty(t, x) ==
    LET w == RuleWindow + MaxWindow - 1
    IN  /\ x.trigger = "health_unhealthy" =>
              CountIn(t, x.at, w, "failed") + CountIn(t, x.at, w, "captcha") > 0
        /\ x.trigger = "captcha_rate_breach" => CountIn(t, x.at, w, "captcha") > 0

\* It is what DisabledForFaults says, now and after a step.
LEMMA TripsAreFaulty ==
  /\ DisabledForFaults <=> \A x \in tripped : Faulty(tally, x)
  /\ DisabledForFaults' <=> \A x \in tripped' : Faulty(tally', x)
  BY DEF DisabledForFaults, FaultsBefore, WindowCount, CountIn, Faulty

\* A trip that was about faults still is.
LEMMA StillFaulty ==
  ASSUME NEW t \in AuditLogs, NEW u \in AuditLogs, NEW n \in Hours, Extended(t, u, n),
         NEW x \in [trigger : Triggers, at : Hours], x.at <= n, Faulty(t, x)
  PROVE  Faulty(u, x)
  <1> DEFINE w == RuleWindow + MaxWindow - 1
  <1>1. w \in Nat \ {0} /\ x.at \in Hours
    BY HealthAssumption
  <1>2. /\ x.trigger = "health_unhealthy" =>
              CountIn(t, x.at, w, "failed") + CountIn(t, x.at, w, "captcha") > 0
        /\ x.trigger = "captcha_rate_breach" => CountIn(t, x.at, w, "captcha") > 0
    BY DEF Faulty
  <1>3. /\ Faulty(u, x) <=>
              /\ x.trigger = "health_unhealthy" =>
                    CountIn(u, x.at, w, "failed") + CountIn(u, x.at, w, "captcha") > 0
              /\ x.trigger = "captcha_rate_breach" => CountIn(u, x.at, w, "captcha") > 0
    BY DEF Faulty
  <1> HIDE DEF w
  <1>4. \A kind \in Kinds :
           /\ CountIn(t, x.at, w, kind) \in Nat /\ CountIn(u, x.at, w, kind) \in Nat
           /\ CountIn(t, x.at, w, kind) <= CountIn(u, x.at, w, kind)
    BY <1>1, CountIsNat, StillCounted
  <1>5. "failed" \in Kinds /\ "captcha" \in Kinds
    BY DEF Kinds
  <1> QED BY <1>2, <1>3, <1>4, <1>5

\* A breach that a rule counts makes a trip that is about faults.
LEMMA BreachTrips ==
  ASSUME HealthShape, SnapshotsAreRecorded, NEW i \in LoadSnapshots, NEW y \in Triggers,
         IsBreach(y, computed[i])
  PROVE  Faulty(tally, [trigger |-> y, at |-> hour])
  <1> DEFINE s == computed[i]
             m == s.metrics
             k == s.at
             w == RuleWindow + MaxWindow - 1
             x == [trigger |-> y, at |-> hour]
  <1>1. i \in DOMAIN computed /\ s \in SnapshotRows /\ s.at + RuleWindow > hour
    BY LenProperties, ElementOfSeq DEF LoadSnapshots, HealthShape
  <1>2. k <= hour /\ Recorded(tally, k, m) /\ s.status = ClassifyStatus(m)
    BY <1>1 DEF SnapshotsAreRecorded
  <1>3. k \in Hours /\ m \in Metrics /\ k + RuleWindow > hour
    BY <1>1 DEF SnapshotRows
  <1>4. /\ y = "health_unhealthy" => s.status = "unhealthy"
        /\ y = "captcha_rate_breach" => CaptchaAbove(m, 20)
    BY DEF IsBreach
  <1> HIDE DEF s
  <1>5. /\ y = "health_unhealthy" => m.failed > 0 \/ m.captcha > 0
        /\ y = "captcha_rate_breach" => m.captcha > 0
    BY <1>2, <1>3, <1>4, BreachHasFault
  <1> HIDE DEF m, k
  <1>6. hour \in Hours /\ tally \in AuditLogs
    BY DEF HealthShape
  <1>7. w \in Nat \ {0} /\ MaxWindow \in Nat \ {0} /\ hour - w <= k - MaxWindow
    BY <1>3, <1>6, HealthAssumption DEF Hours
  <1> HIDE DEF w
  <1>8. \A kind \in Kinds :
           /\ CountIn(tally, k, MaxWindow, kind) \in Nat /\ CountIn(tally, hour, w, kind) \in Nat
           /\ CountIn(tally, k, MaxWindow, kind) <= CountIn(tally, hour, w, kind)
    BY <1>2, <1>3, <1>6, <1>7, CountIsNat, WiderWindow
  <1>9. "failed" \in Kinds /\ "captcha" \in Kinds
    BY DEF Kinds
  <1>10. m.failed \in Nat /\ m.captcha \in Nat
    BY <1>3 DEF Metrics
  <1>11. /\ m.failed <= CountIn(tally, hour, w, "failed")
         /\ m.captcha <= CountIn(tally, hour, w, "captcha")
    <2>1. /\ m.failed <= CountIn(tally, k, MaxWindow, "failed")
          /\ m.captcha <= CountIn(tally, k, MaxWindow, "captcha")
      BY <1>2 DEF Recorded
    <2> QED BY <2>1, <1>8, <1>9, <1>10
  <1>12. /\ y = "health_unhealthy" =>
               CountIn(tally, hour, w, "failed") + CountIn(tally, hour, w, "captcha") > 0
         /\ y = "captcha_rate_breach" => CountIn(tally, hour, w, "captcha") > 0
    BY <1>5, <1>8, <1>9, <1>10, <1>11
  <1>13. x.trigger = y /\ x.at = hour
    OBVIOUS
  <1> HIDE DEF x
  <1>14. Faulty(tally, x)
    BY <1>12, <1>13 DEF Faulty, w
  <1> QED BY <1>14 DEF x

\* At the start the log is empty.
LEMMA HealthInitially == HealthInit => HealthIInv
  <1> SUFFICES ASSUME HealthInit PROVE HealthIInv
    OBVIOUS
  <1>1. hour \in Hours /\ computed \in Seq(SnapshotRows)
    BY HealthAssumption DEF HealthInit, Hours
  <1>2. tally = [k \in Moments |-> [kind \in Kinds |-> 0]]
    BY DEF HealthInit, Moments
  <1>3. tally \in AuditLogs
    BY <1>2 DEF AuditLogs
  <1>4. req \in [Handlers -> {Idle} \cup [op : {"compute"}, metrics : Metrics]]
    BY DEF HealthInit, NoRequests
  <1>5. tripped = {}
    BY DEF HealthInit
  <1>6. SnapshotsAreRecorded
    BY DEF HealthInit, SnapshotsAreRecorded
  <1>7. ReadingsAreRecorded
    BY DEF HealthInit, NoRequests, ReadingsAreRecorded, Busy, Idle
  <1>8. TripsArePast /\ DisabledForFaults
    BY <1>5 DEF TripsArePast, DisabledForFaults
  <1> QED BY <1>1, <1>3, <1>4, <1>5, <1>6, <1>7, <1>8 DEF HealthIInv, HealthShape

\* Snapshots and trips stay as true as they were while the log grows and time passes.
LEMMA HealthKept ==
  ASSUME HealthIInv, tally' \in AuditLogs, Extended(tally, tally', hour),
         hour' \in Hours, hour <= hour'
  PROVE  /\ \A i \in DOMAIN computed :
               /\ computed[i].at <= hour'
               /\ Recorded(tally', computed[i].at, computed[i].metrics)
               /\ computed[i].status = ClassifyStatus(computed[i].metrics)
         /\ \A x \in tripped : x.at <= hour' /\ Faulty(tally', x)
  <1>1. /\ HealthShape /\ hour \in Hours /\ hour \in Nat /\ hour' \in Nat /\ tally \in AuditLogs
        /\ \A i \in DOMAIN computed : computed[i] \in SnapshotRows
    BY LenProperties, ElementOfSeq DEF HealthIInv, HealthShape, Hours
  <1>2. ASSUME NEW i \in DOMAIN computed
        PROVE  /\ computed[i].at <= hour'
               /\ Recorded(tally', computed[i].at, computed[i].metrics)
               /\ computed[i].status = ClassifyStatus(computed[i].metrics)
    <2> DEFINE k == computed[i].at
               m == computed[i].metrics
    <2>1. k <= hour /\ Recorded(tally, k, m) /\ computed[i].status = ClassifyStatus(m)
      BY DEF HealthIInv, SnapshotsAreRecorded
    <2>2. k \in Hours /\ k \in Nat /\ m \in Metrics
      BY <1>1 DEF SnapshotRows, Hours
    <2> HIDE DEF k, m
    <2>3. Recorded(tally', k, m)
      BY <1>1, <2>1, <2>2, StillRecorded
    <2>4. k <= hour'
      BY <1>1, <2>1, <2>2
    <2> QED BY <2>1, <2>3, <2>4 DEF k, m
  <1>3. ASSUME NEW x \in tripped PROVE x.at <= hour' /\ Faulty(tally', x)
    <2>1. x \in [trigger : Triggers, at : Hours] /\ x.at \in Nat /\ x.at <= hour /\ Faulty(tally, x)
      BY <1>1, TripsAreFaulty DEF HealthIInv, HealthShape, TripsArePast, Hours
    <2>2. Faulty(tally', x)
      BY <1>1, <2>1, StillFaulty
    <2> QED BY <1>1, <2>1, <2>2
  <1> QED BY <1>2, <1>3

\* A requested window is clipped.
LEMMA WindowIsBounded ==
  \A requested \in 0 .. MaxWindow + 1 : BoundedWindow(requested) \in 1 .. MaxWindow
  BY HealthAssumption DEF BoundedWindow

\* Every step keeps the invariant.
LEMMA HealthSteps == HealthIInv /\ [HealthNext]_healthVars => HealthIInv'
  <1> SUFFICES ASSUME HealthIInv, [HealthNext]_healthVars PROVE HealthIInv'
    OBVIOUS
  <1>0. /\ HealthShape /\ hour \in Hours /\ hour \in Nat /\ hour <= hour
        /\ computed \in Seq(SnapshotRows)
        /\ req \in [Handlers -> {Idle} \cup [op : {"compute"}, metrics : Metrics]]
        /\ ReadingsAreRecorded
    BY DEF HealthIInv, HealthShape, Hours
  \* What holds once the log, the clock and the snapshots are dealt with.
  <1>1. ASSUME tally' \in AuditLogs, Extended(tally, tally', hour), hour' \in Hours, hour <= hour',
               UNCHANGED computed,
               \A x \in tripped' :
                  \/ x \in tripped
                  \/ x \in [trigger : Triggers, at : Hours] /\ x.at <= hour' /\ Faulty(tally', x),
               req' \in [Handlers -> {Idle} \cup [op : {"compute"}, metrics : Metrics]],
               ReadingsAreRecorded'
        PROVE  HealthIInv'
    <2>1. SnapshotsAreRecorded'
      BY <1>1, HealthKept DEF SnapshotsAreRecorded
    <2>2. TripsArePast' /\ DisabledForFaults'
      BY <1>1, HealthKept, TripsAreFaulty DEF TripsArePast
    <2>3. HealthShape'
      BY <1>0, <1>1 DEF HealthShape
    <2> QED BY <1>1, <2>1, <2>2, <2>3 DEF HealthIInv
  <1>2. CASE HourPasses
    <2>1. hour' = hour + 1 /\ hour < LastHour /\ UNCHANGED <<tally, computed, tripped, req>>
      BY <1>2 DEF HourPasses, snapshotRows, requestVars
    <2>2. hour' \in Hours /\ hour <= hour'
      BY <1>0, <2>1, HealthAssumption DEF Hours
    <2>3. ReadingsAreRecorded'
      BY <1>2, <2>1 DEF HourPasses, ReadingsAreRecorded, Busy, Idle
    <2> QED BY <1>0, <1>1, <2>1, <2>2, <2>3, SameLog
  <1>3. ASSUME NEW b \in Batches, RunsHappen(b) PROVE HealthIInv'
    <2>1. UNCHANGED <<hour, computed, tripped, req>>
      BY <1>3 DEF RunsHappen, snapshotRows, requestVars
    <2>2. tally' \in AuditLogs /\ Extended(tally, tally', hour) /\ tally \in AuditLogs
      BY <1>0, <1>3, RunsExtend DEF HealthShape
    <2>3. ASSUME NEW h \in Handlers, Busy(h, "compute") PROVE Recorded(tally', hour, req[h].metrics)
      <3>1. req[h].metrics \in Metrics /\ Recorded(tally, hour, req[h].metrics)
        BY <1>0, <2>3 DEF ReadingsAreRecorded, Busy, Idle
      <3> QED BY <1>0, <2>2, <3>1, StillRecorded
    <2>4. ReadingsAreRecorded'
      BY <2>1, <2>3 DEF ReadingsAreRecorded, Busy
    <2> QED BY <1>0, <1>1, <2>1, <2>2, <2>4
  <1>4. ASSUME NEW y \in Triggers, Trip(y) PROVE HealthIInv'
    <2>1. /\ UNCHANGED <<hour, tally, computed, req>>
          /\ tripped' = tripped \cup {[trigger |-> y, at |-> hour]}
          /\ CountBreaches(y) >= Needed
      BY <1>4 DEF Trip, snapshotRows, requestVars
    <2>2. PICK i \in LoadSnapshots : IsBreach(y, computed[i])
      <3> DEFINE trailing == {i \in LoadSnapshots :
                                 \A j \in LoadSnapshots : j >= i => IsBreach(y, computed[j])}
      <3>1. trailing # {}
        <4> SUFFICES ASSUME trailing = {} PROVE FALSE
          OBVIOUS
        <4>1. Cardinality(trailing) = 0
          BY FS_EmptySet
        <4>2. CountBreaches(y) = 0
          BY <4>1 DEF CountBreaches
        <4> QED BY <2>1, <4>2, HealthAssumption
      <3>2. PICK i \in trailing : TRUE
        BY <3>1
      <3>3. i >= i
        BY <3>2, LenProperties, <1>0 DEF LoadSnapshots
      <3> QED BY <3>2, <3>3
    <2>3. Faulty(tally, [trigger |-> y, at |-> hour])
      BY <1>0, <2>2, BreachTrips DEF HealthIInv
    <2> DEFINE x == [trigger |-> y, at |-> hour]
    <2>4. x \in [trigger : Triggers, at : Hours] /\ x.at = hour
      BY <1>0
    <2> HIDE DEF x
    <2>5. \A z \in tripped' :
             \/ z \in tripped
             \/ z \in [trigger : Triggers, at : Hours] /\ z.at <= hour' /\ Faulty(tally', z)
      BY <1>0, <2>1, <2>3, <2>4 DEF x
    <2>6. ReadingsAreRecorded'
      BY <1>0, <2>1 DEF ReadingsAreRecorded, Busy
    <2> QED BY <1>0, <1>1, <2>1, <2>5, <2>6, SameLog
  <1>5. ASSUME NEW h \in Handlers, NEW requested \in 0 .. MaxWindow + 1, ComputeRead(h, requested)
        PROVE  HealthIInv'
    <2> DEFINE m == DeriveMetrics(BoundedWindow(requested))
               r == [op |-> "compute", metrics |-> m]
    <2>1. UNCHANGED <<hour, tally, computed, tripped>> /\ Begin(h, r)
      BY <1>5 DEF ComputeRead, snapshotRows
    <2>2. m \in Metrics /\ Recorded(tally, hour, m)
      BY <1>0, WindowIsBounded, DerivedIsRecorded
    <2> HIDE DEF m
    <2>3. r \in [op : {"compute"}, metrics : Metrics] /\ r.metrics = m
      BY <2>2
    <2> HIDE DEF r
    <2>4. /\ req' \in [Handlers -> {Idle} \cup [op : {"compute"}, metrics : Metrics]]
          /\ req'[h] = r /\ \A g \in Handlers \ {h} : req'[g] = req[g]
      BY <1>0, <2>1, <2>3 DEF Begin
    <2>5. ReadingsAreRecorded'
      BY <1>0, <2>1, <2>2, <2>3, <2>4 DEF ReadingsAreRecorded, Busy
    <2> QED BY <1>0, <1>1, <2>1, <2>4, <2>5, SameLog
  <1>6. ASSUME NEW h \in Handlers, ComputeWrite(h) PROVE HealthIInv'
    <2> DEFINE m == req[h].metrics
               row == [at |-> hour, metrics |-> m, status |-> ClassifyStatus(m)]
    <2>1. /\ UNCHANGED <<hour, tally, tripped>> /\ computed' = Append(computed, row)
          /\ EndAndOvertake(h) /\ Busy(h, "compute")
      BY <1>6 DEF ComputeWrite, AddSnapshot
    <2>2. m \in Metrics /\ Recorded(tally, hour, m)
      BY <1>0, <2>1 DEF ReadingsAreRecorded, Busy, Idle
    <2> HIDE DEF m
    <2>3. row \in SnapshotRows /\ row.at = hour /\ row.metrics = m /\ row.status = ClassifyStatus(m)
      BY <1>0, <2>2, BreachHasFault DEF SnapshotRows
    <2> HIDE DEF row
    <2>4. /\ computed' \in Seq(SnapshotRows)
          /\ \A i \in DOMAIN computed' :
                \/ i \in DOMAIN computed /\ computed'[i] = computed[i]
                \/ computed'[i] = row
      <3>1. /\ computed' \in Seq(SnapshotRows) /\ Len(computed') = Len(computed) + 1
            /\ \A i \in 1 .. Len(computed) : computed'[i] = computed[i]
            /\ computed'[Len(computed) + 1] = row
        BY <1>0, <2>1, <2>3, AppendProperties
      <3>2. Len(computed) \in Nat /\ DOMAIN computed = 1 .. Len(computed)
        BY <1>0, LenProperties
      <3>3. DOMAIN computed' = 1 .. Len(computed) + 1
        BY <3>1, LenProperties
      <3>4. \A i \in 1 .. Len(computed) + 1 : i \in 1 .. Len(computed) \/ i = Len(computed) + 1
        BY <3>2
      <3> QED BY <3>1, <3>2, <3>3, <3>4
    <2>5. /\ req' \in [Handlers -> {Idle} \cup [op : {"compute"}, metrics : Metrics]]
          /\ req'[h] = Idle /\ \A g \in Handlers \ {h} : req'[g] = req[g]
      BY <1>0, <2>1 DEF EndAndOvertake
    <2>6. ReadingsAreRecorded'
      BY <1>0, <2>1, <2>5 DEF ReadingsAreRecorded, Busy, Idle
    <2>7. SnapshotsAreRecorded'
      BY <1>0, <2>1, <2>2, <2>3, <2>4 DEF SnapshotsAreRecorded, HealthIInv
    <2>8. TripsArePast' /\ DisabledForFaults'
      BY <2>1, TripsAreFaulty DEF TripsArePast, HealthIInv
    <2>9. HealthShape'
      BY <1>0, <2>1, <2>4, <2>5 DEF HealthShape
    <2> QED BY <2>6, <2>7, <2>8, <2>9 DEF HealthIInv
  <1>7. ASSUME NEW h \in Handlers, Lost(h), UNCHANGED <<hour, tally, snapshotRows, tripped>>
        PROVE  HealthIInv'
    <2>1. /\ req' \in [Handlers -> {Idle} \cup [op : {"compute"}, metrics : Metrics]]
          /\ req'[h] = Idle /\ \A g \in Handlers \ {h} : req'[g] = req[g]
      BY <1>0, <1>7 DEF Lost, End
    <2>2. ReadingsAreRecorded'
      BY <1>0, <1>7, <2>1 DEF ReadingsAreRecorded, Busy, Idle
    <2>3. UNCHANGED <<hour, tally, computed, tripped>>
      BY <1>7 DEF snapshotRows
    <2> QED BY <1>0, <1>1, <2>1, <2>2, <2>3, SameLog
  <1>8. CASE UNCHANGED healthVars
    <2>1. UNCHANGED <<hour, tally, computed, tripped, req>>
      BY <1>8 DEF healthVars, snapshotRows, requestVars
    <2>2. ReadingsAreRecorded'
      BY <1>0, <2>1 DEF ReadingsAreRecorded, Busy
    <2> QED BY <1>0, <1>1, <2>1, <2>2, SameLog
  <1> QED
    BY <1>2, <1>3, <1>4, <1>5, <1>6, <1>7, <1>8 DEF HealthNext, ComputeSnapshot

\* Whatever windows are asked for and whichever requests overlap: a rule trips on the
\* health of a source only for faults that its windows still hold, and the panel's flag
\* and status, computed apart, agree (compute_snapshot, evaluate_rule, build_summary).
THEOREM HealthStaysFair == HealthSpec => []HealthIsFair
  <1>1. HealthIInv => HealthIsFair
    <2> SUFFICES ASSUME HealthIInv, computed # <<>>
                 PROVE  SummaryBreach(LatestSnapshot) <=> LatestSnapshot.status # "healthy"
      BY DEF HealthIInv, HealthIsFair, FlagAgreesWithStatus
    <2>1. computed \in Seq(SnapshotRows)
      BY DEF HealthIInv, HealthShape
    <2>2. Len(computed) \in DOMAIN computed /\ computed[Len(computed)] \in SnapshotRows
      BY <2>1, LenProperties, EmptySeq, ElementOfSeq
    <2>3. LatestSnapshot.status = ClassifyStatus(LatestSnapshot.metrics)
      BY <2>2 DEF HealthIInv, SnapshotsAreRecorded, LatestSnapshot
    <2>4. LatestSnapshot.metrics \in Metrics
      BY <2>2 DEF SnapshotRows, LatestSnapshot
    <2> QED BY <2>3, <2>4, BreachHasFault DEF SummaryBreach
  <1>2. HealthSpec => []HealthIInv
    BY HealthInitially, HealthSteps, PTL DEF HealthSpec
  <1> QED BY <1>1, <1>2, PTL

-----------------------------------------------------------------------------
(* Types, in the composed specification: what they need besides what each  *)
(* component's argument has already.                                       *)

\* A health snapshot looks back no further than it may.
LEMMA HealthTypes == HealthIInv => HealthTypeOK
  <1> SUFFICES ASSUME HealthIInv PROVE HealthTypeOK
    OBVIOUS
  <1>1. HealthShape /\ SnapshotsAreRecorded
    BY DEF HealthIInv
  <1>2. ASSUME NEW i \in DOMAIN computed
        PROVE  /\ computed[i].at \in Hours /\ computed[i].metrics.window \in 1 .. MaxWindow
               /\ computed[i].status \in {"unknown", "healthy", "degraded", "unhealthy"}
    <2>1. computed[i] \in SnapshotRows
      BY <1>1, LenProperties, ElementOfSeq DEF HealthShape
    <2> QED BY <2>1 DEF SnapshotRows, Metrics, HealthStatuses
  <1>3. tally \in [0 .. LastHour + 1 -> [Kinds -> Nat]]
    BY <1>1 DEF HealthShape, AuditLogs, Moments
  <1> QED BY <1>1, <1>2, <1>3 DEF HealthTypeOK, HealthShape

\* What a rule may be, and that no system rule is gone.
RulesShape ==
    /\ rule \in [AlertRules -> {"absent", "enabled", "disabled"}]
    /\ \A r \in SystemRules : rule[r] # "absent"

AlertsTInv == AlertsIInv /\ RulesShape

\* The migration's rules are there at the start.
LEMMA RulesInitially == AlertsInit => RulesShape
  BY AlertsAssumption DEF AlertsInit, RulesShape, AlertRules

\* A rule is created, changed and disabled; none is removed.
LEMMA RuleSteps == RulesShape /\ [AlertsNext]_alertVars => RulesShape'
  <1> SUFFICES ASSUME RulesShape, [AlertsNext]_alertVars PROVE RulesShape'
    OBVIOUS
  <1>1. ASSUME UNCHANGED rule PROVE RulesShape'
    BY <1>1 DEF RulesShape
  <1>2. ASSUME NEW r \in AlertRules, NEW to \in {"enabled", "disabled"},
               rule' = [rule EXCEPT ![r] = to]
        PROVE  RulesShape'
    BY <1>2, AlertsAssumption DEF RulesShape, AlertRules
  <1>3. CASE EvaluatorTask
    BY <1>1, <1>3 DEF EvaluatorTask, Tick, TickBegin, TickEvaluate, TickWrite, TickOver
  <1>4. ASSUME NEW r \in AlertRules, NEW enabled \in BOOLEAN,
               CreateRule(r, enabled) \/ UpdateRule(r, enabled) \/ DeleteRule(r)
        PROVE  RulesShape'
    <2>1. PICK to \in {"enabled", "disabled"} : rule' = [rule EXCEPT ![r] = to]
      BY <1>4 DEF CreateRule, UpdateRule, DeleteRule
    <2> QED BY <1>2, <2>1
  <1>5. CASE RuleRequest
    <2>1. TRUE \in BOOLEAN
      OBVIOUS
    <2> QED BY <1>4, <1>5, <2>1 DEF RuleRequest
  <1>6. CASE (\E e \in DOMAIN alerts : AcknowledgeEvent(e)) \/ DedupBucket \/ UNCHANGED alertVars
    BY <1>1, <1>6 DEF AcknowledgeEvent, DedupBucket, alertVars
  <1> QED BY <1>3, <1>5, <1>6 DEF AlertsNext

\* The windows of what fired and of what was suppressed are windows there have been.
LEMMA AlertTypes == AlertsTInv => AlertsTypeOK
  <1> SUFFICES ASSUME AlertsTInv PROVE AlertsTypeOK
    OBVIOUS
  <1>1. AlertsShape /\ SuppressedWasReported /\ RulesShape
    BY DEF AlertsTInv, AlertsIInv
  <1>2. ASSUME NEW e \in DOMAIN alerts
        PROVE  /\ AlertKey(alerts[e]) \in AlertRules \X (0 .. LastWindow)
               /\ alerts[e].status \in OpenStatuses \cup {"resolved"}
    <2>1. alerts[e] \in AlertRows
      BY <1>1, LenProperties, ElementOfSeq DEF AlertsShape
    <2> QED BY <2>1 DEF AlertRows, AlertStatuses, AlertKey, Windows
  <1>3. suppressed \subseteq AlertRules \X (0 .. LastWindow)
    BY <1>1, <1>2 DEF SuppressedWasReported
  <1>4. cooldown \in 0 .. LastWindow
    BY <1>1 DEF AlertsShape, Windows
  <1> QED BY <1>1, <1>2, <1>3, <1>4 DEF AlertsTypeOK, RulesShape

\* A request that brings no token is not served: no policy enables a scrape without one.
LEMMA ExportTypes == ExportIInv => ExportTypeOK
  <1> SUFFICES ASSUME ExportIInv PROVE ExportTypeOK
    OBVIOUS
  <1>1. ExportShape /\ RowIsSound
    BY DEF ExportIInv
  <1>2. ~Serves(NoScrapeToken)
    <2> SUFFICES ASSUME exportPolicy # NoPolicy, exportPolicy.enabled["prometheus"]
                 PROVE  exportPolicy.token # NoScrapeToken
      BY DEF Serves
    <2> QED BY <1>1 DEF RowIsSound, TokenHeld
  <1> QED BY <1>1, <1>2 DEF ExportTypeOK, ExportShape

-----------------------------------------------------------------------------
(* How often a row is deleted when deletions cross: no more often than there *)
(* are requests at a time, as each has found the row there.                  *)

Deleters(x) == {h \in Handlers : Busy(h, "delete") /\ req[h].row = x}

DeletionsAreBounded ==
    \A x \in Deletables :
        /\ x \notin erased => deletions[x] = 0
        /\ deletions[x] + Cardinality(Deleters(x)) <= Cardinality(Handlers)

DeletionTInv ==
    /\ DeletionIInv
    /\ DeletionsAreBounded
    /\ reachable \subseteq LeadRows \cup UserRows
    /\ rejected \subseteq UserRows

\* The requests that delete a row are at most as many as there are requests.
LEMMA DeletersAreCounted ==
  \A x : /\ Cardinality(Deleters(x)) \in Nat /\ Cardinality(Handlers) \in Nat
         /\ Cardinality(Deleters(x)) <= Cardinality(Handlers)
         /\ IsFiniteSet(Deleters(x))
  <1> SUFFICES ASSUME NEW x
               PROVE  /\ Cardinality(Deleters(x)) \in Nat /\ Cardinality(Handlers) \in Nat
                      /\ Cardinality(Deleters(x)) <= Cardinality(Handlers)
                      /\ IsFiniteSet(Deleters(x))
    OBVIOUS
  <1>1. Deleters(x) \subseteq Handlers
    BY DEF Deleters
  <1> QED BY <1>1, DeletionAssumption, FS_Subset, FS_CardinalityType

\* The same of the requests after a step.
LEMMA LaterDeletersAreCounted ==
  \A x : /\ Cardinality(Deleters(x)') \in Nat
         /\ Cardinality(Deleters(x)') <= Cardinality(Handlers)
         /\ IsFiniteSet(Deleters(x)')
  <1> SUFFICES ASSUME NEW x
               PROVE  /\ Cardinality(Deleters(x)') \in Nat
                      /\ Cardinality(Deleters(x)') <= Cardinality(Handlers)
                      /\ IsFiniteSet(Deleters(x)')
    OBVIOUS
  <1>1. Deleters(x)' \subseteq Handlers
    BY DEF Deleters
  <1> QED BY <1>1, DeletionAssumption, FS_Subset, FS_CardinalityType

\* At the start nobody deletes.
LEMMA DeletionTypesInitially == DeletionInit => DeletionTInv
  <1> SUFFICES ASSUME DeletionInit PROVE DeletionTInv
    OBVIOUS
  <1>1. \A x \in Deletables : deletions[x] = 0
    BY DEF DeletionInit
  <1>2. DeletionsAreBounded
    BY <1>1, DeletersAreCounted DEF DeletionsAreBounded
  <1>3. reachable \subseteq LeadRows \cup UserRows /\ rejected \subseteq UserRows
    BY DEF DeletionInit
  <1> QED BY <1>2, <1>3, DeletionInitially DEF DeletionTInv

\* A request that ends without deleting leaves fewer.
LEMMA FewerDeleters ==
  ASSUME DeletionTInv, UNCHANGED <<erased, deletions>>,
         \A g \in Handlers : req'[g] = req[g] \/ req'[g] = Idle
  PROVE  DeletionsAreBounded'
  <1>1. deletions \in [Deletables -> Nat]
    BY DEF DeletionTInv, DeletionIInv, DeletionShape
  <1> SUFFICES ASSUME NEW x \in Deletables
               PROVE  deletions[x] + Cardinality(Deleters(x)') <= Cardinality(Handlers)
    <2>1. \A y \in Deletables : y \notin erased => deletions[y] = 0
      BY DEF DeletionTInv, DeletionsAreBounded
    <2> QED BY <2>1 DEF DeletionsAreBounded
  <1>2. Deleters(x)' \subseteq Deleters(x)
    BY DEF Deleters, Busy, Idle
  <1>3. Cardinality(Deleters(x)') <= Cardinality(Deleters(x))
    BY <1>2, DeletersAreCounted, FS_Subset
  <1>4. deletions[x] + Cardinality(Deleters(x)) <= Cardinality(Handlers) /\ deletions[x] \in Nat
    BY <1>1 DEF DeletionTInv, DeletionsAreBounded
  <1>5. /\ Cardinality(Deleters(x)) \in Nat /\ Cardinality(Handlers) \in Nat
        /\ Cardinality(Deleters(x)') \in Nat
    BY DeletersAreCounted, LaterDeletersAreCounted
  <1> QED BY <1>3, <1>4, <1>5

\* A deletion is one of a row nobody had deleted when it began.
LEMMA DeletionTypeSteps == DeletionTInv /\ [DeletionNext]_deletionVars => DeletionTInv'
  <1> SUFFICES ASSUME DeletionTInv, [DeletionNext]_deletionVars PROVE DeletionTInv'
    OBVIOUS
  <1>0. /\ DeletionIInv' /\ DeletionShape
        /\ reachable \subseteq LeadRows \cup UserRows /\ rejected \subseteq UserRows
        /\ \A x \in Deletables :
              /\ x \notin erased => deletions[x] = 0
              /\ deletions[x] + Cardinality(Deleters(x)) <= Cardinality(Handlers)
        /\ deletions \in [Deletables -> Nat]
        /\ req \in [Handlers -> {Idle} \cup [op : {"delete"}, row : Deletables]]
    BY DeletionSteps DEF DeletionTInv, DeletionIInv, DeletionShape, DeletionsAreBounded
  <1>1. ASSUME NEW h \in Handlers, NEW y \in Deletables, DeleteRead(h, y) PROVE DeletionTInv'
    <2>1. /\ UNCHANGED <<reachable, erased, deletions, rejected>> /\ y \notin erased
          /\ \A g \in Handlers \ {h} : req'[g] = req[g]
          /\ req'[h].row = y /\ req[h] = Idle
      BY <1>0, <1>1 DEF DeleteRead, Deletable, Begin
    <2>2. ASSUME NEW x \in Deletables
          PROVE  deletions[x] + Cardinality(Deleters(x)') <= Cardinality(Handlers)
      <3>1. CASE x = y
        <4>1. deletions[x] = 0
          BY <1>0, <2>1, <3>1
        <4> QED BY <4>1, LaterDeletersAreCounted
      <3>2. CASE x # y
        <4>1. \A g \in Handlers : (Busy(g, "delete")' /\ req'[g].row = x)
                                     <=> (Busy(g, "delete") /\ req[g].row = x)
          <5> SUFFICES ASSUME NEW g \in Handlers
                       PROVE  (Busy(g, "delete")' /\ req'[g].row = x)
                                 <=> (Busy(g, "delete") /\ req[g].row = x)
            OBVIOUS
          <5>1. CASE g = h
            BY <2>1, <3>2, <5>1 DEF Busy, Idle
          <5>2. CASE g # h
            BY <2>1, <5>2 DEF Busy
          <5> QED BY <5>1, <5>2
        <4>2. Deleters(x)' = Deleters(x)
          BY <4>1 DEF Deleters
        <4> QED BY <1>0, <4>2
      <3> QED BY <3>1, <3>2
    <2>3. DeletionsAreBounded'
      BY <1>0, <2>1, <2>2 DEF DeletionsAreBounded
    <2> QED BY <1>0, <2>1, <2>3 DEF DeletionTInv
  <1>2. ASSUME NEW h \in Handlers, DeleteWrite(h) PROVE DeletionTInv'
    <2> DEFINE y == req[h].row
    <2>1. y \in Deletables
      BY <1>0, <1>2 DEF DeleteWrite, Busy, Idle
    <2>2. /\ erased' = erased \cup {y} /\ deletions' = [deletions EXCEPT ![y] = @ + 1]
          /\ \A g \in Handlers \ {h} : req'[g] = req[g]
          /\ req'[h] = Idle /\ Busy(h, "delete")
          /\ reachable' \subseteq reachable /\ rejected' = rejected
      BY <1>0, <1>2 DEF DeleteWrite, EndAndOvertake
    <2>3. h \in Deleters(y)
      BY <2>2 DEF Deleters
    <2> HIDE DEF y
    <2>4. ASSUME NEW x \in Deletables
          PROVE  /\ x \notin erased' => deletions'[x] = 0
                 /\ deletions'[x] + Cardinality(Deleters(x)') <= Cardinality(Handlers)
      <3>1. Deleters(x)' \subseteq Deleters(x) \ {h}
        BY <2>2 DEF Deleters, Busy, Idle
      <3>2. /\ Cardinality(Deleters(x)) \in Nat /\ Cardinality(Handlers) \in Nat
            /\ Cardinality(Deleters(x)') \in Nat /\ deletions[x] \in Nat
            /\ IsFiniteSet(Deleters(x)) /\ IsFiniteSet(Deleters(x) \ {h})
            /\ Cardinality(Deleters(x)') <= Cardinality(Deleters(x) \ {h})
            /\ Cardinality(Deleters(x) \ {h}) =
                  IF h \in Deleters(x) THEN Cardinality(Deleters(x)) - 1 ELSE Cardinality(Deleters(x))
        <4>1. IsFiniteSet(Deleters(x)) /\ Cardinality(Deleters(x)) \in Nat /\ Cardinality(Handlers) \in Nat
          BY DeletersAreCounted
        <4>2. /\ IsFiniteSet(Deleters(x) \ {h})
              /\ Cardinality(Deleters(x) \ {h}) =
                  IF h \in Deleters(x) THEN Cardinality(Deleters(x)) - 1 ELSE Cardinality(Deleters(x))
          BY <4>1, FS_RemoveElement
        <4>3. Cardinality(Deleters(x)') <= Cardinality(Deleters(x) \ {h})
          BY <3>1, <4>2, FS_Subset
        <4>4. Cardinality(Deleters(x)') \in Nat
          BY LaterDeletersAreCounted
        <4> QED BY <1>0, <4>1, <4>2, <4>3, <4>4
      <3>3. deletions[x] + Cardinality(Deleters(x)) <= Cardinality(Handlers)
        BY <1>0
      <3>4. CASE x = y
        <4>1. deletions'[x] = deletions[x] + 1 /\ x \in erased'
          BY <1>0, <2>1, <2>2, <3>4
        <4>2. Cardinality(Deleters(x)') <= Cardinality(Deleters(x)) - 1
          BY <2>3, <3>2, <3>4
        <4> QED BY <3>2, <3>3, <4>1, <4>2
      <3>5. CASE x # y
        <4>1. deletions'[x] = deletions[x] /\ (x \in erased' <=> x \in erased)
          BY <1>0, <2>2, <3>5
        <4>2. Cardinality(Deleters(x)') <= Cardinality(Deleters(x))
          BY <3>2
        <4>3. deletions'[x] + Cardinality(Deleters(x)') <= Cardinality(Handlers)
          BY <3>2, <3>3, <4>1, <4>2
        <4> QED BY <1>0, <4>1, <4>3
      <3> QED BY <3>4, <3>5
    <2>5. DeletionsAreBounded'
      BY <2>4 DEF DeletionsAreBounded
    <2> QED BY <1>0, <2>2, <2>5 DEF DeletionTInv
  <1>3. ASSUME NEW h \in Handlers, End(h), UNCHANGED <<reachable, erased, deletions>>,
               rejected' \subseteq UserRows
        PROVE  DeletionTInv'
    <2>1. \A g \in Handlers : req'[g] = req[g] \/ req'[g] = Idle
      BY <1>0, <1>3 DEF End
    <2>2. DeletionsAreBounded'
      BY <1>3, <2>1, FewerDeleters
    <2> QED BY <1>0, <1>3, <2>2 DEF DeletionTInv
  <1>4. ASSUME NEW h \in Handlers, DeleteRefused(h) PROVE DeletionTInv'
    BY <1>0, <1>3, <1>4 DEF DeleteRefused, Refused
  <1>5. ASSUME NEW h \in Handlers, Lost(h), UNCHANGED <<reachable, erased, deletions, rejected, doubly>>
        PROVE  DeletionTInv'
    BY <1>0, <1>3, <1>5 DEF Lost
  <1>6. CASE UNCHANGED deletionVars
    <2>1. UNCHANGED <<reachable, erased, deletions, rejected, req>>
      BY <1>6 DEF deletionVars, requestVars
    <2>2. DeletionsAreBounded'
      BY <2>1, FewerDeleters
    <2> QED BY <1>0, <2>1, <2>2 DEF DeletionTInv
  <1> QED BY <1>1, <1>2, <1>4, <1>5, <1>6 DEF DeletionNext

\* A row's deletions are no more than there are requests at a time.
LEMMA DeletionTypes == DeletionTInv => DeletionTypeOK
  <1> SUFFICES ASSUME DeletionTInv PROVE DeletionTypeOK
    OBVIOUS
  <1>1. deletions \in [Deletables -> Nat] /\ erased \subseteq Deletables
    BY DEF DeletionTInv, DeletionIInv, DeletionShape
  <1>2. ASSUME NEW x \in Deletables PROVE deletions[x] \in 0 .. Cardinality(Handlers)
    <2>1. deletions[x] + Cardinality(Deleters(x)) <= Cardinality(Handlers) /\ deletions[x] \in Nat
      BY <1>1 DEF DeletionTInv, DeletionsAreBounded
    <2> QED BY <2>1, DeletersAreCounted
  <1> QED BY <1>1, <1>2 DEF DeletionTInv, DeletionTypeOK


-----------------------------------------------------------------------------
(* The inbox, and what is mailed. *)

InboxRows == [type : Types, state : {"unread", "read", "dismissed"}]

\* Only what may be mailed is decided to be.
MailsAreMailable ==
    \A h \in Handlers : req[h].op \in DeliveryOps /\ req[h].mails => req[h].type \in MailTypes

NotificationTInv ==
    NotificationIInv /\ inbox \in Seq(InboxRows) /\ mailed \subseteq MailTypes /\ MailsAreMailable

\* At the start there is neither.
LEMMA NotificationTypesInitially == NotificationsInit => NotificationTInv
  <1> SUFFICES ASSUME NotificationsInit PROVE NotificationTInv
    OBVIOUS
  <1>1. inbox \in Seq(InboxRows) /\ mailed \subseteq MailTypes
    BY DEF NotificationsInit
  <1>2. MailsAreMailable
    BY DEF NotificationsInit, NoRequests, MailsAreMailable, DeliveryOps, Idle
  <1> QED BY <1>1, <1>2, NotificationInitially DEF NotificationTInv

\* Every step of the service keeps it.
LEMMA NotificationTypeSteps ==
  NotificationTInv /\ [NotificationsNext]_notificationVars => NotificationTInv'
  <1> SUFFICES ASSUME NotificationTInv, [NotificationsNext]_notificationVars PROVE NotificationTInv'
    OBVIOUS
  <1>0. /\ NotificationIInv' /\ NotificationShape
        /\ inbox \in Seq(InboxRows) /\ mailed \subseteq MailTypes /\ MailsAreMailable
        /\ req \in [Handlers -> NotificationRequests]
    BY NotificationSteps DEF NotificationTInv, NotificationIInv, NotificationShape, NotificationKept
  \* Once a request is over, or as it was, nothing new is to be mailed.
  <1>1. ASSUME \A g \in Handlers : req'[g] = Idle \/ req'[g] = req[g] PROVE MailsAreMailable'
    BY <1>0, <1>1 DEF MailsAreMailable, DeliveryOps, Idle
  <1>2. ASSUME NEW h \in Handlers,
               req' = [req EXCEPT ![h] = Idle]
        PROVE  MailsAreMailable'
    <2>1. \A g \in Handlers : req'[g] = Idle \/ req'[g] = req[g]
      BY <1>0, <1>2
    <2> QED BY <1>1, <2>1
  <1>a. ASSUME NEW h \in Handlers, \A g \in Handlers \ {h} : req'[g] = req[g],
               req'[h].op \in DeliveryOps /\ req'[h].mails => req'[h].type \in MailTypes
        PROVE  MailsAreMailable'
    BY <1>0, <1>a DEF MailsAreMailable
  <1>b. ASSUME NEW h \in Handlers, req[h].op \in DeliveryOps
        PROVE  req[h] \in DeliveryRequests /\ (req[h].mails => req[h].type \in MailTypes)
    BY <1>0, <1>b, NotificationFields DEF MailsAreMailable
  <1>3. ASSUME NEW h \in Handlers, GetPreferences(h) \/ UpdatePreferences(h) PROVE NotificationTInv'
    <2>1. inbox' = inbox /\ mailed' = mailed
      BY <1>3 DEF GetPreferences, SeedRead, SeedLook, SeedWrite, UpdatePreferences, UpdateRead,
                  UpdateLook, UpdateWrite
    <2>2. CASE SeedWrite(h) \/ UpdateWrite(h)
      BY <1>0, <1>2, <2>1, <2>2 DEF SeedWrite, UpdateWrite, EndAndOvertake, NotificationTInv
    <2>3. ASSUME NEW t \in Types, NEW change \in Changes, UpdateRead(h, t, change)
          PROVE  NotificationTInv'
      <3>1. req'[h].op \notin DeliveryOps /\ \A g \in Handlers \ {h} : req'[g] = req[g]
        BY <1>0, <2>3 DEF UpdateRead, Begin, DeliveryOps
      <3> QED BY <1>0, <1>a, <2>1, <3>1 DEF NotificationTInv
    <2>4. CASE SeedRead(h)
      <3>1. req'[h].op \notin DeliveryOps /\ \A g \in Handlers \ {h} : req'[g] = req[g]
        BY <1>0, <2>4 DEF SeedRead, Begin, DeliveryOps
      <3> QED BY <1>0, <1>a, <2>1, <3>1 DEF NotificationTInv
    <2>5. CASE SeedLook(h)
      <3> DEFINE r == [req[h] EXCEPT !.op = "seed_looked", !.found = preference[FirstType]]
      <3>1. req[h] \in SeedRequests /\ req' = [req EXCEPT ![h] = r]
        BY <1>0, <2>5, NotificationFields DEF SeedLook, Busy, SeedOps
      <3>2. r.op = "seed_looked"
        BY <3>1 DEF SeedRequests
      <3> HIDE DEF r
      <3>3. req'[h].op \notin DeliveryOps /\ \A g \in Handlers \ {h} : req'[g] = req[g]
        BY <1>0, <3>1, <3>2 DEF DeliveryOps
      <3> QED BY <1>0, <1>a, <2>1, <3>3 DEF NotificationTInv
    <2>6. CASE UpdateLook(h)
      <3> DEFINE r == [req[h] EXCEPT !.op = "update_looked", !.found = preference[req[h].type]]
      <3>1. req[h] \in UpdateRequests /\ req' = [req EXCEPT ![h] = r]
        BY <1>0, <2>6, NotificationFields DEF UpdateLook, Busy, UpdateOps
      <3>2. r.op = "update_looked"
        BY <3>1 DEF UpdateRequests
      <3> HIDE DEF r
      <3>3. req'[h].op \notin DeliveryOps /\ \A g \in Handlers \ {h} : req'[g] = req[g]
        BY <1>0, <3>1, <3>2 DEF DeliveryOps
      <3> QED BY <1>0, <1>a, <2>1, <3>3 DEF NotificationTInv
    <2> QED BY <1>3, <2>2, <2>3, <2>4, <2>5, <2>6 DEF GetPreferences, UpdatePreferences
  <1>4. ASSUME NEW h \in Handlers, NEW t \in Types, DeliverRead(h, t) PROVE NotificationTInv'
    <2>1. inbox' = inbox /\ mailed' = mailed /\ \A g \in Handlers \ {h} : req'[g] = req[g]
      BY <1>0, <1>4 DEF DeliverRead, Begin
    <2>2. req'[h].type = t /\ req'[h].mails = ShouldAttemptEmail(preference, t)
      BY <1>0, <1>4 DEF DeliverRead, Begin
    <2>3. ShouldAttemptEmail(preference, t) => t \in MailTypes
      BY DEF ShouldAttemptEmail
    <2>4. req'[h].mails => req'[h].type \in MailTypes
      BY <2>2, <2>3
    <2> QED BY <1>0, <1>a, <2>1, <2>4 DEF NotificationTInv
  <1>c. ASSUME NEW h \in Handlers, DeliverLook(h) PROVE NotificationTInv'
    <2> DEFINE r == [req[h] EXCEPT !.op = "deliver", !.found = preference[req[h].type]]
    <2>1. inbox' = inbox /\ mailed' = mailed /\ req' = [req EXCEPT ![h] = r]
          /\ req[h].op \in DeliveryOps
      BY <1>c DEF DeliverLook, Busy, DeliveryOps
    <2>2. req[h] \in DeliveryRequests /\ (req[h].mails => req[h].type \in MailTypes)
      BY <1>b, <2>1
    <2>3. r.mails = req[h].mails /\ r.type = req[h].type
      BY <2>2 DEF DeliveryRequests
    <2> HIDE DEF r
    <2>4. req'[h] = r /\ \A g \in Handlers \ {h} : req'[g] = req[g]
      BY <1>0, <2>1
    <2>5. req'[h].mails => req'[h].type \in MailTypes
      BY <2>2, <2>3, <2>4
    <2> QED BY <1>0, <1>a, <2>1, <2>4, <2>5 DEF NotificationTInv
  <1>5. ASSUME NEW h \in Handlers, DeliverWrite(h) PROVE NotificationTInv'
    <2> DEFINE p == SeedCandidate(req[h])
               shown == IF req[h].seeds THEN ShouldCreateInApp(p, req[h].type) ELSE req[h].shown
               mails == IF req[h].seeds THEN ShouldAttemptEmail(p, req[h].type) ELSE req[h].mails
               r == [req[h] EXCEPT !.writes = TRUE, !.shown = shown]
    <2>1. PICK addressed \in BOOLEAN : mailed' = mailed \cup {t \in {req[h].type} : addressed /\ mails}
      BY <1>5 DEF DeliverWrite
    <2>2. /\ req[h].op \in DeliveryOps /\ inbox' = inbox /\ req' = [req EXCEPT ![h] = r]
      BY <1>5 DEF DeliverWrite, Busy, DeliveryOps
    <2>3. req[h] \in DeliveryRequests /\ (req[h].mails => req[h].type \in MailTypes)
      BY <1>b, <2>2
    <2>4. mails => req[h].type \in MailTypes
      BY <2>3 DEF ShouldAttemptEmail
    <2>5. r.mails = req[h].mails /\ r.type = req[h].type
      BY <2>3 DEF DeliveryRequests
    <2> HIDE DEF mails, r
    <2>6. mailed' \subseteq MailTypes
      BY <1>0, <2>1, <2>4
    <2>7. req'[h] = r /\ \A g \in Handlers \ {h} : req'[g] = req[g]
      BY <1>0, <2>2
    <2>8. req'[h].mails => req'[h].type \in MailTypes
      BY <2>3, <2>5, <2>7
    <2> QED BY <1>0, <1>a, <2>2, <2>6, <2>7, <2>8 DEF NotificationTInv
  <1>6. ASSUME NEW h \in Handlers, DeliverCommit(h) PROVE NotificationTInv'
    <2>1. /\ mailed' = mailed /\ req' = [req EXCEPT ![h] = Idle] /\ req[h].op \in DeliveryOps
          /\ inbox' = IF req[h].shown THEN Append(inbox, Unread(req[h].type)) ELSE inbox
      BY <1>6 DEF DeliverCommit, EndAndOvertake, Busy, DeliveryOps
    <2>2. Unread(req[h].type) \in InboxRows
      <3>1. req[h].type \in Types
        BY <1>b, <2>1 DEF DeliveryRequests
      <3> QED BY <3>1 DEF Unread, InboxRows
    <2>3. Append(inbox, Unread(req[h].type)) \in Seq(InboxRows)
      BY <1>0, <2>2, AppendProperties
    <2>4. inbox' \in Seq(InboxRows)
      BY <1>0, <2>1, <2>3
    <2> QED BY <1>0, <1>2, <2>1, <2>4 DEF NotificationTInv
  <1>7. ASSUME NEW h \in Handlers, NEW i \in DOMAIN inbox, NEW new \in {"read", "dismissed"},
               Mark(h, i, new)
        PROVE  NotificationTInv'
    <2>1. inbox' = [inbox EXCEPT ![i].state = new] /\ mailed' = mailed /\ req' = req
      BY <1>7 DEF Mark, requestVars
    <2>2. i \in 1 .. Len(inbox) /\ inbox[i] \in InboxRows
      BY <1>0, LenProperties, ElementOfSeq
    <2> DEFINE row == [inbox[i] EXCEPT !.state = new]
    <2>3. row \in InboxRows
      BY <2>2 DEF InboxRows
    <2>4. inbox' = [inbox EXCEPT ![i] = row]
      BY <2>1
    <2> HIDE DEF row
    <2>5. inbox' \in Seq(InboxRows)
      BY <1>0, <2>2, <2>3, <2>4, ExceptSeq
    <2> QED BY <1>0, <1>1, <2>1, <2>5 DEF NotificationTInv
  <1>8. ASSUME NEW h \in Handlers, NotificationLost(h) PROVE NotificationTInv'
    BY <1>0, <1>2, <1>8 DEF NotificationLost, Lost, End, NotificationTInv
  <1>9. CASE UNCHANGED notificationVars
    <2>1. inbox' = inbox /\ mailed' = mailed /\ req' = req
      BY <1>9 DEF notificationVars, requestVars
    <2> QED BY <1>0, <1>1, <2>1 DEF NotificationTInv
  <1> QED
    BY <1>3, <1>4, <1>c, <1>5, <1>6, <1>7, <1>8, <1>9 DEF NotificationsNext, Delivery

\* What is in the inbox is a notification.
LEMMA NotificationTypes == NotificationTInv => NotificationsTypeOK
  <1> SUFFICES ASSUME NotificationTInv PROVE NotificationsTypeOK
    OBVIOUS
  <1>1. ASSUME NEW i \in DOMAIN inbox
        PROVE  inbox[i].type \in Types /\ inbox[i].state \in {"unread", "read", "dismissed"}
    <2>1. inbox[i] \in InboxRows
      BY LenProperties, ElementOfSeq DEF NotificationTInv
    <2> QED BY <2>1 DEF InboxRows
  <1> QED
    BY <1>1 DEF NotificationTInv, NotificationIInv, NotificationShape, NotificationsTypeOK, Preferred


-----------------------------------------------------------------------------
(* Backups and the mode. *)

Ages == {"fresh", "old"}
BackupRows == [age : Ages, status : Verifications]
RestoreRuns == {"dry_run", "rehearsal", "production"} \X {"pending", "succeeded"}

BackupsShape ==
    /\ snapshots \in Seq(BackupRows)
    /\ Len(snapshots) <= MaxSnapshots
    /\ runs \subseteq RestoreRuns

\* What the registry and the cutover events say.
ModeShape ==
    /\ mode \in Modes
    /\ ready \in BOOLEAN
    /\ cutover \in [new : Modes, met : BOOLEAN] \cup {NoCutover}
    /\ mover \in Orgs \cup {NoOrg}

RuntimeTInv == ModeIInv /\ BackupsShape /\ ModeShape

\* A process starts in the mode that is configured, without backups.
LEMMA RuntimeTypesInitially == RuntimeInit => RuntimeTInv
  <1> SUFFICES ASSUME RuntimeInit PROVE RuntimeTInv
    OBVIOUS
  <1>1. BackupsShape
    <2>1. Len(<<>>) = 0 /\ <<>> \in Seq(BackupRows) /\ 0 <= MaxSnapshots
      BY BackupsAssumption
    <2> QED BY <2>1 DEF RuntimeInit, BackupsInit, BackupsShape
  <1>2. ModeShape
    BY RuntimeAssumption DEF RuntimeInit, ModeShape
  <1> QED BY <1>1, <1>2, ModeInitially DEF RuntimeTInv

\* What backups do to their rows.
LEMMA BackupRowSteps == BackupsShape /\ BackupsStep => BackupsShape'
  <1> SUFFICES ASSUME BackupsShape, BackupsStep PROVE BackupsShape'
    OBVIOUS
  <1>0. /\ snapshots \in Seq(BackupRows) /\ Len(snapshots) \in Nat /\ Len(snapshots) <= MaxSnapshots
        /\ DOMAIN snapshots = 1 .. Len(snapshots) /\ runs \subseteq RestoreRuns
        /\ \A i \in 1 .. Len(snapshots) : snapshots[i] \in BackupRows
        /\ MaxSnapshots \in Nat
    BY LenProperties, ElementOfSeq, BackupsAssumption DEF BackupsShape
  <1>1. ASSUME snapshots' \in Seq(BackupRows), Len(snapshots') <= MaxSnapshots, runs' = runs
        PROVE  BackupsShape'
    BY <1>0, <1>1 DEF BackupsShape
  <1>2. CASE RecordSnapshot
    <2> DEFINE row == [age |-> "fresh", status |-> "recorded"]
    <2>1. row \in BackupRows
      BY DEF BackupRows, Ages, Verifications
    <2>2. Len(snapshots) < MaxSnapshots /\ snapshots' = Append(snapshots, row) /\ runs' = runs
      BY <1>2 DEF RecordSnapshot
    <2> HIDE DEF row
    <2>3. snapshots' \in Seq(BackupRows) /\ Len(snapshots') = Len(snapshots) + 1
      BY <1>0, <2>1, <2>2, AppendProperties
    <2> QED BY <1>0, <1>1, <2>2, <2>3
  <1>3. ASSUME NEW i \in DOMAIN snapshots, NEW found \in Verifications, UpdateVerification(i, found)
        PROVE  BackupsShape'
    <2> DEFINE row == [snapshots[i] EXCEPT !.status = found]
    <2>1. row \in BackupRows
      BY <1>0 DEF BackupRows
    <2>2. snapshots' = [snapshots EXCEPT ![i] = row] /\ runs' = runs
      BY <1>3 DEF UpdateVerification
    <2> HIDE DEF row
    <2>3. snapshots' \in Seq(BackupRows) /\ Len(snapshots') = Len(snapshots)
      BY <1>0, <2>1, <2>2, ExceptSeq
    <2> QED BY <1>0, <1>1, <2>2, <2>3
  <1>4. ASSUME NEW i \in DOMAIN snapshots, SnapshotAges(i) PROVE BackupsShape'
    <2> DEFINE Aged(k) == IF k <= i THEN [snapshots[k] EXCEPT !.age = "old"] ELSE snapshots[k]
    <2>1. snapshots' = [k \in 1 .. Len(snapshots) |-> Aged(k)] /\ runs' = runs
      BY <1>0, <1>4 DEF SnapshotAges
    <2>2. \A k \in 1 .. Len(snapshots) : Aged(k) \in BackupRows
      BY <1>0 DEF BackupRows, Ages
    <2> HIDE DEF Aged
    <2>3. snapshots' \in [1 .. Len(snapshots) -> BackupRows]
      BY <2>1, <2>2
    <2>4. snapshots' \in Seq(BackupRows) /\ Len(snapshots') = Len(snapshots)
      BY <1>0, <2>3
    <2> QED BY <1>0, <1>1, <2>1, <2>4
  <1>5. ASSUME NEW k \in DOMAIN snapshots, PruneExpired(k) PROVE BackupsShape'
    <2>1. snapshots' = SubSeq(snapshots, k + 1, Len(snapshots)) /\ runs' = runs
      BY <1>5 DEF PruneExpired
    <2>2. k \in Nat /\ 1 <= k /\ k <= Len(snapshots) /\ k + 1 \in Int /\ Len(snapshots) \in Int
      BY <1>0
    <2>3. \A j \in k + 1 .. Len(snapshots) : snapshots[j] \in BackupRows
      BY <1>0, <2>2
    <2>4. /\ snapshots' \in Seq(BackupRows)
          /\ Len(snapshots') = IF k + 1 <= Len(snapshots) THEN Len(snapshots) - (k + 1) + 1 ELSE 0
      BY <2>1, <2>2, <2>3, SubSeqProperties
    <2>5. Len(snapshots') <= MaxSnapshots
      BY <1>0, <2>2, <2>4
    <2> QED BY <1>1, <2>1, <2>4, <2>5
  <1>6. CASE DryRunRestore \/ ScheduleRehearsal
    <2>1. runs' \subseteq RestoreRuns /\ snapshots' = snapshots
      BY <1>0, <1>6 DEF DryRunRestore, ScheduleRehearsal, Completed, RestoreRuns
    <2> QED BY <1>0, <2>1 DEF BackupsShape
  <1> QED BY <1>2, <1>3, <1>4, <1>5, <1>6 DEF BackupsStep

\* The rows do not change otherwise.
LEMMA BackupRowsRest == BackupsShape /\ UNCHANGED <<snapshots, runs>> => BackupsShape'
  BY DEF BackupsShape

\* What a cutover is of, and sets the mode to.
LEMMA CutoverFields ==
  ASSUME RuntimeShape, NEW h \in Handlers, \E op \in CutoverOps : Busy(h, op)
  PROVE  req[h].target \in Modes /\ req[h].org \in Orgs /\ req[h].met \in BOOLEAN
  BY RuntimeFields DEF CutoverRequests

\* Each cutover writes a mode.
LEMMA CutoverModes ==
  ASSUME ModeShape, RuntimeShape, NEW h \in Handlers, Cutover(h)
  PROVE  ModeShape'
  <1>1. CASE UNCHANGED <<mode, ready, cutover, mover>>
    BY <1>1 DEF ModeShape
  <1>2. ASSUME NEW o \in Orgs, EnterRead(h, o) \/ PauseRead(h, o) PROVE ModeShape'
    BY <1>1, <1>2 DEF EnterRead, PauseRead, cutoverIdle
  <1>3. ASSUME NEW o \in Orgs, NEW to \in Modes, RollbackRead(h, o, to) PROVE ModeShape'
    BY <1>1, <1>3 DEF RollbackRead, cutoverIdle
  <1>4. CASE CutoverWrite(h)
    <2>1. \E op \in CutoverOps : Busy(h, op)
      BY <1>4 DEF CutoverWrite, CutoverOps
    <2> QED BY <1>4, <2>1, CutoverFields DEF CutoverWrite, ModeShape
  <1>5. CASE RollbackLocked(h)
    <2>1. \E op \in CutoverOps : Busy(h, op)
      BY <1>5 DEF RollbackLocked, CutoverOps
    <2> QED BY <1>5, <2>1, CutoverFields DEF RollbackLocked, ModeShape
  <1>6. CASE CutoverCommit(h)
    <2>1. \E op \in CutoverOps : Busy(h, op)
      BY <1>6 DEF CutoverCommit, CutoverOps
    <2>2. /\ mode' = mode /\ ready' = ready /\ cutover' = EventOf(req[h])
          /\ mover' = IF stale[h] THEN NoOrg ELSE req[h].org
      BY <1>6 DEF CutoverCommit
    <2>3. cutover' \in [new : Modes, met : BOOLEAN]
      BY <2>1, <2>2, CutoverFields DEF EventOf
    <2>4. mover' \in Orgs \cup {NoOrg}
      BY <2>1, <2>2, CutoverFields
    <2> QED BY <2>2, <2>3, <2>4 DEF ModeShape
  <1> QED BY <1>2, <1>3, <1>4, <1>5, <1>6 DEF Cutover

\* Every step of the environment keeps it.
LEMMA RuntimeTypeSteps ==
  RuntimeTInv /\ [RuntimeNext \/ RetentionNext]_runtimeVars => RuntimeTInv'
  <1> SUFFICES ASSUME RuntimeTInv, [RuntimeNext \/ RetentionNext]_runtimeVars PROVE RuntimeTInv'
    OBVIOUS
  <1>0. ModeIInv' /\ BackupsShape /\ ModeShape /\ RuntimeShape
    BY ModeSteps DEF RuntimeTInv, ModeIInv
  <1> SUFFICES BackupsShape' /\ ModeShape'
    BY <1>0 DEF RuntimeTInv
  <1>a. UNCHANGED <<mode, ready, cutover, mover>> => ModeShape'
    BY <1>0 DEF ModeShape
  <1>b. UNCHANGED <<snapshots, runs>> => BackupsShape'
    BY <1>0, BackupRowsRest
  <1>1. ASSUME NEW h \in Handlers, Cutover(h) PROVE BackupsShape' /\ ModeShape'
    <2>1. UNCHANGED <<snapshots, runs>>
      BY <1>1 DEF Cutover, EnterRead, PauseRead, RollbackRead, CutoverWrite, RollbackLocked,
                  CutoverCommit, backupVars
    <2> QED BY <1>0, <1>1, <1>b, <2>1, CutoverModes
  <1>2. ASSUME NEW h \in Handlers, LiveToggle(h) PROVE BackupsShape' /\ ModeShape'
    BY <1>2, <1>a, <1>b DEF LiveToggle, EnableRead, Disable, EnableWrite, cutoverIdle, backupVars
  <1>3. ASSUME NEW h \in Handlers, RuntimeLost(h) PROVE BackupsShape' /\ ModeShape'
    BY <1>3, <1>a, <1>b DEF RuntimeLost, cutoverIdle, backupVars
  <1>4. ASSUME BackupsStep, UNCHANGED <<cutoverIdle, ready>> PROVE BackupsShape' /\ ModeShape'
    BY <1>0, <1>4, <1>a, BackupRowSteps DEF cutoverIdle
  <1>5. CASE RestoreBackup
    <2>1. UNCHANGED <<mode, ready, cutover, mover>> /\ snapshots' = snapshots
      BY <1>5 DEF RestoreBackup, cutoverIdle
    <2>2. runs' = runs \cup {<<"production", "succeeded">>}
      BY <1>5 DEF RestoreBackup, Completed
    <2>3. BackupsShape'
      BY <1>0, <2>1, <2>2 DEF BackupsShape, RestoreRuns
    <2> QED BY <1>a, <2>1, <2>3
  <1>6. CASE ChecksChange
    BY <1>0, <1>6, <1>b DEF ChecksChange, ModeShape, cutoverIdle, backupVars
  <1>7. CASE RegistryRestart
    BY <1>0, <1>7, <1>b, RuntimeAssumption DEF RegistryRestart, ModeShape, backupVars
  <1>8. ASSUME NEW h \in Handlers, PolicyStep(h), UNCHANGED <<cutoverIdle, ready>>
        PROVE  BackupsShape' /\ ModeShape'
    <2>1. UNCHANGED <<snapshots, runs>>
      BY <1>8 DEF PolicyStep, PolicyRead, PolicyWrite, backupVars
    <2> QED BY <1>8, <1>a, <1>b, <2>1 DEF cutoverIdle
  <1>9. ASSUME UNCHANGED <<cutoverIdle, ready, backupVars>> PROVE BackupsShape' /\ ModeShape'
    BY <1>9, <1>a, <1>b DEF cutoverIdle, backupVars
  <1>10. CASE RuntimeNext
    BY <1>1, <1>2, <1>3, <1>4, <1>5, <1>6, <1>7, <1>10 DEF RuntimeNext
  <1>11. CASE RetentionNext
    BY <1>4, <1>8, <1>9, <1>11 DEF RetentionNext
  <1>12. CASE UNCHANGED runtimeVars
    BY <1>9, <1>12 DEF runtimeVars, cutoverIdle
  <1> QED BY <1>10, <1>11, <1>12

\* The types of backups and of the mode.
LEMMA RuntimeTypes == RuntimeTInv => RuntimeTypeOK
  <1> SUFFICES ASSUME RuntimeTInv PROVE RuntimeTypeOK
    OBVIOUS
  <1>1. RuntimeShape /\ BackupsShape /\ ModeShape
    BY DEF RuntimeTInv, ModeIInv
  <1>2. ASSUME NEW i \in DOMAIN snapshots
        PROVE  snapshots[i].age \in {"fresh", "old"} /\ snapshots[i].status \in Verifications
    <2>1. snapshots[i] \in BackupRows
      BY <1>1, LenProperties, ElementOfSeq DEF BackupsShape
    <2> QED BY <2>1 DEF BackupRows, Ages
  <1>3. BackupsTypeOK
    BY <1>1, <1>2 DEF BackupsTypeOK, BackupsShape, RestoreRuns, RuntimeShape, RetentionPolicies
  <1> QED BY <1>1, <1>3 DEF RuntimeTypeOK, RuntimeShape, ModeShape

-----------------------------------------------------------------------------
(* All of them. *)

\* What the component that runs relies on.
OperationsIInv ==
    /\ part \in Parts
    /\ part = "webhooks" => IInv
    /\ part = "health" => HealthIInv
    /\ part = "alerts" => AlertsTInv
    /\ part = "notifications" => NotificationTInv
    /\ part \in {"runtime", "retention"} => RuntimeTInv
    /\ part = "export" => ExportIInv
    /\ part = "deletion" => DeletionTInv

\* Each starts as it would alone.
LEMMA OperationsInitially == OperationsInit => OperationsIInv
  <1> SUFFICES ASSUME OperationsInit PROVE OperationsIInv
    OBVIOUS
  <1>1. AlertsTInv
    BY AlertsInitially, RulesInitially DEF OperationsInit, AlertsTInv
  <1>2. IInv
    BY Initially DEF OperationsInit
  <1> QED
    BY <1>1, <1>2, HealthInitially, NotificationTypesInitially, RuntimeTypesInitially,
       ExportInitially, DeletionTypesInitially DEF OperationsInit, OperationsIInv

\* Only the component that runs moves, and it keeps what it relies on.
LEMMA OperationsSteps == OperationsIInv /\ [OperationsNext]_operationsVars => OperationsIInv'
  <1> SUFFICES ASSUME OperationsIInv, [OperationsNext]_operationsVars PROVE OperationsIInv'
    OBVIOUS
  <1>0. /\ part \in Parts
        /\ part = "webhooks" => IInv
        /\ part = "health" => HealthIInv
        /\ part = "alerts" => AlertsTInv
        /\ part = "notifications" => NotificationTInv
        /\ part \in {"runtime", "retention"} => RuntimeTInv
        /\ part = "export" => ExportIInv
        /\ part = "deletion" => DeletionTInv
    BY DEF OperationsIInv
  <1>1. /\ part' = part
        /\ part = "webhooks" => [Next]_vars
        /\ part = "health" => [HealthNext]_healthVars
        /\ part = "alerts" => [AlertsNext]_alertVars
        /\ part = "notifications" => [NotificationsNext]_notificationVars
        /\ part \in {"runtime", "retention"} => [RuntimeNext \/ RetentionNext]_runtimeVars
        /\ part = "export" => [ExportNext]_exportVars
        /\ part = "deletion" => [DeletionNext]_deletionVars
    <2>1. CASE OperationsNext
      BY <2>1 DEF OperationsNext, Alone
    <2>2. CASE UNCHANGED operationsVars
      BY <2>2 DEF operationsVars
    <2> QED BY <2>1, <2>2
  <1>2. AlertsTInv /\ [AlertsNext]_alertVars => AlertsTInv'
    BY AlertsSteps, RuleSteps DEF AlertsTInv, AlertsKept
  <1>3. /\ part' \in Parts
        /\ part = "webhooks" => IInv'
        /\ part = "health" => HealthIInv'
        /\ part = "alerts" => AlertsTInv'
        /\ part = "notifications" => NotificationTInv'
        /\ part \in {"runtime", "retention"} => RuntimeTInv'
        /\ part = "export" => ExportIInv'
        /\ part = "deletion" => DeletionTInv'
    BY <1>0, <1>1, <1>2, WebhookSteps, HealthSteps, NotificationTypeSteps, RuntimeTypeSteps,
       ExportSteps, DeletionTypeSteps
  <1> QED BY <1>1, <1>3 DEF OperationsIInv

\* Each component's variables have their values while it runs.
LEMMA OperationsTypes == OperationsIInv => OperationsTypeOK
  <1> SUFFICES ASSUME OperationsIInv PROVE OperationsTypeOK
    OBVIOUS
  <1>1. /\ part = "webhooks" => TypeOK
        /\ part = "health" => HealthTypeOK
        /\ part = "alerts" => AlertsTypeOK
        /\ part = "notifications" => NotificationsTypeOK
        /\ part \in {"runtime", "retention"} => RuntimeTypeOK
        /\ part = "export" => ExportTypeOK
        /\ part = "deletion" => DeletionTypeOK
    BY HealthTypes, AlertTypes, NotificationTypes, RuntimeTypes, ExportTypes, DeletionTypes
       DEF OperationsIInv, IInv
  <1>2. part \in Parts
    BY DEF OperationsIInv
  <1> QED BY <1>1, <1>2 DEF OperationsTypeOK, Parts

\* Whichever component runs, in the composition: its columns hold what they may; a clock
\* stays within its windows, no system rule is gone, no snapshot is of a longer window than
\* allowed, only what may be mailed is, and a row is deleted no more often than requests
\* can have found it there.
THEOREM OperationsTypesHold == OperationsSpec => []OperationsTypeOK
  BY OperationsInitially, OperationsSteps, OperationsTypes, PTL DEF OperationsSpec

=============================================================================
