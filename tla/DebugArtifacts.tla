---------------------------- MODULE DebugArtifacts ----------------------------
(***************************************************************************)
(* Screenshots and debug captures of a browser session                     *)
(* (BrowserDebugArtifactService): a row in the database and a file, the    *)
(* file written while the row is not committed, kept for a limited time.   *)
(***************************************************************************)
EXTENDS Requests, FiniteSets

CONSTANT Artifacts     \* ids

VARIABLES
    artifact,    \* status of the row, "none" where there is none
    overdue,     \* expires_at is past
    onDisk,      \* the file is there
    debug,       \* debug_enabled of the session
    together     \* history: the artifacts one request has captured

artifactVars == <<artifact, overdue, onDisk, debug, together, requestVars>>

ArtifactInit ==
    /\ artifact = [a \in Artifacts |-> "none"]
    /\ overdue = [a \in Artifacts |-> FALSE]
    /\ onDisk = [a \in Artifacts |-> FALSE]
    /\ debug = FALSE
    /\ together = {}
    /\ NoRequests

\* effective_artifact_status
EffectiveStatus(a) == IF artifact[a] = "active" /\ overdue[a] THEN "expired" ELSE artifact[a]

Unused == {a \in Artifacts : artifact[a] = "none" /\ ~onDisk[a]}

WriterFree(h) == \A x \in Handlers \ {h} : req[x] # Idle => ~req[x].holds

\* The row of the next artifact is flushed and its file written, in a request that
\* captures the set wanted.
PersistArtifact(h, a) ==
    /\ Busy(h, "capture")
    /\ a \in req[h].left
    /\ onDisk' = [onDisk EXCEPT ![a] = TRUE]
    /\ req' = [req EXCEPT ![h].left = @ \ {a}]
    /\ UNCHANGED <<artifact, overdue, debug, together, stale>>

\* Seeded fault: what is committed is not what was written.
CaptureCommit_Early(h) ==
    /\ Busy(h, "capture")
    /\ artifact' = [a \in Artifacts |-> IF a \in req[h].wanted THEN "active" ELSE artifact[a]]
    /\ debug' = (debug \/ req[h].debug)
    /\ together' = together \cup {req[h].wanted}
    /\ End(h)
    /\ UNCHANGED <<overdue, onDisk>>

\* All are written: the rows are committed.
CaptureCommit(h) ==
    /\ Busy(h, "capture")
    /\ req[h].left = {}
    /\ artifact' = [a \in Artifacts |-> IF a \in req[h].wanted THEN "active" ELSE artifact[a]]
    /\ debug' = (debug \/ req[h].debug)
    /\ together' = together \cup {req[h].wanted}
    /\ End(h)
    /\ UNCHANGED <<overdue, onDisk>>

BeginCapture(h, wanted, on) ==
    /\ WriterFree(h)
    /\ wanted \subseteq Unused
    /\ Begin(h, [op |-> "capture", holds |-> TRUE, wanted |-> wanted, left |-> wanted, debug |-> on])
    /\ UNCHANGED <<artifact, overdue, onDisk, debug, together>>

\* capture_screenshot, of a session that may be captured and has a page.
CaptureScreenshot(h) == \E a \in Artifacts : BeginCapture(h, {a}, FALSE)

\* set_debug_enabled captures a console log and a trace.
EnableDebug(h) == \E w \in SUBSET Artifacts : Cardinality(w) = 2 /\ BeginCapture(h, w, TRUE)

DisableDebug(h) ==
    /\ debug
    /\ WriterFree(h)
    /\ debug' = FALSE
    /\ UNCHANGED <<artifact, overdue, onDisk, together, requestVars>>

\* Listing marks what is over.
ListArtifacts(h) ==
    /\ WriterFree(h)
    /\ \E a \in Artifacts : EffectiveStatus(a) # artifact[a]
    /\ artifact' = [a \in Artifacts |-> EffectiveStatus(a)]
    /\ UNCHANGED <<overdue, onDisk, debug, together, requestVars>>

\* The days it is kept for are over.
ArtifactElapses(a) ==
    /\ artifact[a] = "active"
    /\ ~overdue[a]
    /\ overdue' = [overdue EXCEPT ![a] = TRUE]
    /\ UNCHANGED <<artifact, onDisk, debug, together, requestVars>>

\* A write fails or the process dies: the rows go, the files stay.
CaptureLost(h) ==
    /\ Lost(h)
    /\ UNCHANGED <<artifact, overdue, onDisk, debug, together>>

ArtifactNext ==
    \/ \E a \in Artifacts : ArtifactElapses(a)
    \/ \E h \in Handlers :
          \/ CaptureScreenshot(h)
          \/ EnableDebug(h)
          \/ \E a \in Artifacts : PersistArtifact(h, a)
          \/ CaptureCommit(h)
          \/ DisableDebug(h)
          \/ ListArtifacts(h)
          \/ CaptureLost(h)

ArtifactSpec == ArtifactInit /\ [][ArtifactNext]_artifactVars

-----------------------------------------------------------------------------
\* The values each variable takes.
ArtifactTypeOK ==
    /\ artifact \in [Artifacts -> {"none", "active", "expired"}]
    /\ overdue \in [Artifacts -> BOOLEAN]
    /\ onDisk \in [Artifacts -> BOOLEAN]
    /\ debug \in BOOLEAN

\* Every row has its file, whatever was lost between the rows, the files and the commit.
RowsHaveFiles == \A a \in Artifacts : artifact[a] # "none" => onDisk[a]

\* The captures of one request are there together or not at all, with the same failures.
CapturesAreWhole == \A w \in together : \A a \in w : artifact[a] # "none"

=============================================================================
